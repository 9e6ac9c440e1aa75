\* Four reports, spread over the descriptors in any way.
SPECIFICATION Spec
CONSTANTS
    Backends <- BothBackends
    MaxHandles = 3
    MaxReports = 4
PROPERTIES ReadReturns ImplementsInputQueue
\* the system stops when the device is closed
CHECK_DEADLOCK FALSE

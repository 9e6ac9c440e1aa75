\* Is hid_write synchronous after an earlier one timed out?
SPECIFICATION Spec
CONSTANTS
    MaxReports = 0
    MaxWrites = 2
INVARIANT WriteSynchronous

\* Two readers, a queue of at most three reports, which overflows.
SPECIFICATION Spec
CONSTANTS
    Readers = {r1, r2}
    NoOwner = NoOwner
    Limit = 1
    MaxReports = 4
    is_macos_10_10_or_greater = TRUE
INVARIANTS RunLoopAliveWhenWoken NoReportStranded NoSleeperAfterBroadcast
PROPERTY ImplementsInputQueue
SYMMETRY ReaderSymmetry
\* the system stops once the device is closed
CHECK_DEADLOCK FALSE

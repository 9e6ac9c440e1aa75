\* Two readers, a queue of at most three reports, every failure of the start-up.
SPECIFICATION Spec
CONSTANTS
    Readers = {r1, r2}
    NoOwner = NoOwner
    Limit = 1
    MaxReports = 4
    OtherHandlers = TRUE
    ThreadCreateMayFail = TRUE
    SpuriousBarrier = FALSE
INVARIANTS TypeOK TransferQuietWhenFreed CancelHasTransfer NoSleeperAfterExit
PROPERTY ImplementsInputQueue
\* the system stops once the device is closed, or open waits for a thread that does not exist
SYMMETRY ReaderSymmetry
CHECK_DEADLOCK FALSE

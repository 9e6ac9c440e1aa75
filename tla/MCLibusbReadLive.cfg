\* One reader and fair threads; a queue of at most three reports, which overflows.
SPECIFICATION FairSpec
CONSTANTS
    Readers = {r1}
    NoOwner = NoOwner
    Limit = 1
    MaxReports = 4
    OtherHandlers = TRUE
    ThreadCreateMayFail = FALSE
    SpuriousBarrier = FALSE
INVARIANTS NoLostWakeup BlockingErrorExplained
PROPERTIES BlockedReaderServed ShutdownReleasesReaders CloseCompletes OpenCompletes
\* the system stops once the device is closed
CHECK_DEADLOCK FALSE

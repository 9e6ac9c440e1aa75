\* One reader and fair threads; every way a device can go.
SPECIFICATION FairSpec
CONSTANTS
    Readers = {r1}
    NoOwner = NoOwner
    Limit = 1
    MaxReports = 4
    is_macos_10_10_or_greater = TRUE
INVARIANTS ThreadReadyWhenOpen
PROPERTIES ShutdownReleasesReaders CloseCompletes
\* the system stops once the device is closed
CHECK_DEADLOCK FALSE

\* One reading and one writing thread; three reports, three writes, any of which may time out.
SPECIFICATION Spec
CONSTANTS
    MaxReports = 3
    MaxWrites = 3
INVARIANTS PendingIsKnown ErrorExplained WriteSynchronousBeforeTimeout
PROPERTIES ReadServed ImplementsInputQueue

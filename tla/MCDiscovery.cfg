\* Every backend, two calls; twice a device comes or goes, during a call or between the two.
SPECIFICATION Spec
CONSTANTS
    Backends <- AllBackends
    Places <- TwoPlaces
    FirstPlace = 1
    Kinds <- ThreeKinds
    Children <- TwoChildren
    MaxPlugs = 2
    MaxCalls = 2
INVARIANTS  OpenedIsRequested NothingLeaked NullExplained
\* the system stops after the last call
CHECK_DEADLOCK FALSE

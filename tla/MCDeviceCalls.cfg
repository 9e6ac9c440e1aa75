\* Every backend, with a device with one report and one with two report IDs; three calls.
SPECIFICATION Spec
CONSTANTS
    Backends <- AllBackends
    Devices <- BothDevices
    DescriptorSize = 2
    MaxLength = 3
    MaxCalls = 3
\* the system stops after the last call
CHECK_DEADLOCK FALSE
INVARIANTS
    DeviceHoldsWhatWasSent
    FetchedIsTheReport
    ErrorTellsOfLastCall

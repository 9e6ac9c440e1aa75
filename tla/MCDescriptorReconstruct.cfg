\* One device without report IDs and two types of report, one with two IDs; three main items
\* in up to three collections.
SPECIFICATION Spec
CONSTANTS
    Devices <- BothDevices
    FieldKinds <- Kinds
    Paddings = {7}
    MaxCollections = 3
    MaxItems = 3
INVARIANTS SupportedLayoutKept LengthKept
\* the system stops when the function has returned
CHECK_DEADLOCK FALSE

\* Two users of one interface whose calls do not overlap; a list of two devices, two settings.
SPECIFICATION Spec
CONSTANTS
    Openers = {t1, t2}
    Nobody = Nobody
    Devices = 2
    Alternates = 2
    Concurrent = FALSE
INVARIANTS NothingHeld OpenDeviceOwns  AnswerFits
PROPERTY NullExplained
SYMMETRY OpenerSymmetry

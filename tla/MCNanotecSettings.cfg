SPECIFICATION Spec
CONSTANTS
    Settings = {"address", "gear", "limits", "polarity", "input_a"}
    Inputs <- Arguments
    Unknown = Unknown
    MaxLate = 2
    MaxFaults = 2
INVARIANTS TypeOK SetTookEffect ReadsBack SoundCallsSucceed BrokenMethodsFail

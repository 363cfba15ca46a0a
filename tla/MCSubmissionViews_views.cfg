SPECIFICATION ViewSpec
CONSTANTS
    Values = {"4"}
    EmptyValues = {}
    Unset = "unset"
    Invalid = "invalid"
    Workflow <- MCWorkflow
    Terminal = {"done"}
    Submissions = {"s1", "s2"}
    OtherRoles = {"reviewer", "manager"}
    MaxOthers = 2
    Links <- MCLinks
    MaxLinks = 2
    Personas <- MCPersonas
    First = "rita"
    Ours = "s1"
    MaxRuns = 1
    MaxSwitches = 1
    Viewed = "s1"
    MyRoles = {"manager"}
    MaxCalls = 2
    MaxFocus = 1
    MaxFaults = 1
    MaxMeanwhile = 1
CHECK_DEADLOCK FALSE
INVARIANTS
    TrackerSound
    PagesSound
    SeesOwnChange
    SavesOnlyEdits
PROPERTIES
    NeverGoesBack
    EndIsShown
    MovesAsShown

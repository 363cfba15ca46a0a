SPECIFICATION HostSpec
CONSTANTS
    Text <- MCText
    Slugs <- MCSlugs
    Definition <- MCDefinition
    NoForm = "none"
    Inputs <- MCInputs
    MaxChanges = 2
    MaxSent = 2
    Containers = {"c1", "c2"}
    Ours = "c1"
    OurSlug = "contact"
    Scripts = 2
    Heights = {2, 3, 4}
    MAX_HEIGHT = 3
    INITIAL_HEIGHT = 1
    MaxLayouts = 2
    MaxOthers = 1
CHECK_DEADLOCK FALSE
INVARIANTS
    ScriptSound
    OneAtATime
    ConfirmationsRight
    FormIsWanted
    OneEventEach
PROPERTIES
    FramesSettle

SPECIFICATION Spec
CONSTANTS
    GoodSlugs = {"a"}
    Openings <- MCOpenings
    Texts <- MCTexts
    NewKeys = {0, 2, 4}
    NewLabels = {"blank"}
    Nothing = Nothing
    MaxEdits = 2
    MaxSaves = 2
    MaxActs = 3
    MaxListed = 4
CHECK_DEADLOCK FALSE
INVARIANTS
    RulesAgree
    SaveMatchesPage
    EditsKeepMeaning
PROPERTIES
    NothingDangles
    NewNeverReplaces

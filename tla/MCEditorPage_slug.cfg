SPECIFICATION Spec
CONSTANTS
    GoodSlugs = {"a", "b"}
    Openings <- MCOpenings
    Texts <- MCTexts
    NewKeys = {0, 1, 2, 4}
    NewLabels = {"blank"}
    Nothing = Nothing
    MaxEdits = 1
    MaxSaves = 1
    MaxActs = 2
    MaxListed = 4
INVARIANTS
    SlugStays
CHECK_DEADLOCK FALSE

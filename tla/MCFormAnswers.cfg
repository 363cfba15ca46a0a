SPECIFICATION AnswersSpec
CONSTANTS
    Text <- MCText
    FormSet <- MCForms
    TypedTexts <- MCTexts
    TypedNumbers <- MCNumbers
    RawValues <- MCRaw
INVARIANTS
    ServerAgrees
    GuidesRight
PROPERTIES
    HiddenIsInert

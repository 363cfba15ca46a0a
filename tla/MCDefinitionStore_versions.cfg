SPECIFICATION FairSpec
CONSTANTS
    Workflows <- OneFlow
    Forms <- TwoForms
    Docs <- MCDocs
    NoWorkflow = 0
    Bundles <- StoreBundles
    Clients = {c1, c2}
    NoClient = noclient
    MaxVersions = 3
CHECK_DEADLOCK FALSE
INVARIANTS
    StoreSound
PROPERTIES
    ImplementsVersions
    AppliesEnd
    AloneConsistent

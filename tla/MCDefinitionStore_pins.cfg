SPECIFICATION Spec
CONSTANTS
    Workflows <- OneFlow
    Forms <- OneForm
    Docs <- MCDocs
    NoWorkflow = 0
    Bundles <- PinBundles
    Clients = {c1, c2}
    NoClient = noclient
    MaxVersions = 4
CHECK_DEADLOCK FALSE
INVARIANT
    PinsCurrent

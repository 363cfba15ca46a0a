SPECIFICATION Spec
CONSTANTS
    Submissions = {s1}
    Versions <- MCVersions
    Workflow <- MCWorkflow
    NoWorkflow = 0
    NotCreated = 9
    Users = {u1}
    Nobody = nobody
    RemarkTypes <- MCRemarkTypes
    Values <- MCValues
    EmptyValues <- MCEmpty
    Unset = "unset"
    Invalid = "invalid"
    Clients = {c1, c2}
    NoClient = noclient
    Principals <- MCPrincipals
    Patches <- MCPatches
    Expectations <- MCExpectations
    MaxEvents = 4
SYMMETRY ClientSymmetry
CHECK_DEADLOCK FALSE
INVARIANTS
    TimelineLegal
    RowMatchesTimeline
    OutboxExact
    ShownHolds
PROPERTIES
    ImplementsLog

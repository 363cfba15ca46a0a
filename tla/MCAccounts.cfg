SPECIFICATION Spec
CONSTANTS
    Users = {1, 2}
    FirstUsers = {2}
    FirstAdmins = {2}
    Places <- TwoTokens
    MaxExpired = 1
    Clients = {c1, c2}
SYMMETRY ClientSymmetry
CHECK_DEADLOCK FALSE
INVARIANTS
    AdminRemains
    CirclesExplained
PROPERTIES
    SignsOut

SPECIFICATION Spec
CONSTANTS
    Workspaces = {w1, w2}
    Users = {u1, u2}
    Slugs = {n1}
    Requests = {q1, q2}
    Granted = {"viewer"}
    RuleLists <- SomeRules
    MaxPolicies = 2
    PolicyLimit = 1
    None = None
INVARIANTS
    EventsTellMembers
    GoneHasNoMembers
    LedWhenApplied
    DenyHolds
SYMMETRY Symmetry

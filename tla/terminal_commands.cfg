SPECIFICATION Spec
CONSTANTS
    Sandboxes = {b1}
    Runs = {r1}
    Users = {u1, u2}
    Sessions = {s1, s2}
    Commands = {c1, c2}
    Servers = {p1}
    None = None
    MaxCrashes = 1
INVARIANTS
    EventsMatchHistory
CHECK_DEADLOCK FALSE

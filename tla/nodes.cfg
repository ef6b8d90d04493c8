\* Two nodes, two users; two messages for one of the users or for node 1.
CONSTANTS
    NodeCount = 2
    Users = {u1, u2}
    Senders = {s1, s2}
    Addressed = {u2, 1}
    MaxCalls = 3
    MaxFaults = 1
SPECIFICATION Spec
SYMMETRY Symmetry
INVARIANTS TypeOK NotForgotten ShownOnce
CHECK_DEADLOCK FALSE

CONSTANTS
    Adders = {a1, a2}
    Headers = {}
    Updaters = {}
    Senders = {s1}
    Editors = {e1}
    Purgers = {}
    Crashers = {a1, a2, s1}
    Slots = {1,2,3}
    Hyper = FALSE
    InitMsgs = 1
    MaxMsgs = 3
    None = None
    a1 = a1
    a2 = a2
    e1 = e1
    s1 = s1
SPECIFICATION Spec
SYMMETRY Symmetry
INVARIANTS IndexSorted OwnHeader IdleHoldsNoLock
PROPERTIES NoMessageLost
CHECK_DEADLOCK FALSE

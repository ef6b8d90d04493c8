CONSTANTS
    Adders = {a1}
    Headers = {h1}
    Updaters = {u1}
    Senders = {}
    Editors = {}
    Purgers = {q1, m1}
    Maintainers = {m1}
    Readers = {}
    Crashers = {}
    Slots = {1, 2, 3, 4}
    Hyper = TRUE
    InitMsgs = 3
    MaxMsgs = 4
    None = None
    a1 = a1
    h1 = h1
    u1 = u1
    q1 = q1
    m1 = m1
SPECIFICATION MaintSpec
INVARIANTS MaintIndexSorted OwnHeader StatusAgrees
PROPERTIES NoMessageLost NumbersNeverReused MarkSticks IndexWrittenUnderLock

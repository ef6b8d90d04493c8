CONSTANTS
    Adders = {a1}
    Headers = {h1}
    Updaters = {}
    Senders = {}
    Editors = {}
    Purgers = {q1, q2}
    Crashers = {}
    Slots = {1, 2, 3, 4, 5, 6}
    Hyper = FALSE
    InitMsgs = 3
    MaxMsgs = 5
    None = None
    a1 = a1
    h1 = h1
    q1 = q1
    q2 = q2
SPECIFICATION FairSpec
INVARIANTS TypeOK IndexSorted OwnHeader StatusAgrees
PROPERTIES NoMessageLost NumbersNeverReused PurgeOwnsIndex CallsReturn

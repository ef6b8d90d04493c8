CONSTANTS
    Adders = {a1, a2}
    Headers = {}
    Updaters = {r1}
    Senders = {}
    Editors = {}
    Purgers = {m1}
    Maintainers = {m1}
    Readers = {r1}
    Crashers = {a2}
    Slots = {1, 2, 3, 4}
    Hyper = FALSE
    InitMsgs = 3
    MaxMsgs = 4
    None = None
    a1 = a1
    a2 = a2
    m1 = m1
    r1 = r1
SPECIFICATION MaintSpec
INVARIANTS KeptHasHeader OneInTables IdleHoldsNoLock

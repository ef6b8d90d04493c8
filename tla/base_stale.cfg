CONSTANTS
    Adders = {}
    Headers = {}
    Updaters = {u1}
    Senders = {s1}
    Editors = {}
    Purgers = {}
    Crashers = {}
    Slots = {1, 2}
    Hyper = TRUE
    InitMsgs = 2
    MaxMsgs = 2
    None = None
    u1 = u1
    s1 = s1
SPECIFICATION Spec
PROPERTIES MarkSticks
CHECK_DEADLOCK FALSE

CONSTANTS
    Adders = {a1}
    Headers = {}
    Updaters = {}
    Senders = {}
    Editors = {}
    Purgers = {m1}
    Maintainers = {m1}
    Readers = {}
    Crashers = {}
    Slots = {1, 2, 3, 4}
    Hyper = FALSE
    InitMsgs = 2
    MaxMsgs = 4
    None = None
    a1 = a1
    m1 = m1
SPECIFICATION MaintSpec
PROPERTIES NoMessageLost

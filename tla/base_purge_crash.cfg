CONSTANTS
    Adders = {a1}
    Headers = {}
    Updaters = {}
    Senders = {}
    Editors = {}
    Purgers = {q1, q2}
    Crashers = {q1, q2}
    Slots = {1, 2, 3, 4, 5, 6}
    Hyper = FALSE
    InitMsgs = 3
    MaxMsgs = 5
    None = None
    a1 = a1
    q1 = q1
    q2 = q2
SPECIFICATION Spec

PROPERTIES NumbersNeverReused NoMessageLost
SYMMETRY Symmetry

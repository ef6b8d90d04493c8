CONSTANTS
    Senders = {s1}
    Mailers = {m1}
    Listers = {}
    Forwarders = {}
    Purgers = {q1}
    SendLayouts <- MCSendLayouts
    MailLayouts <- MCMailLayouts
    BlockLen = 2
    RefWidth = 65536
    QuietPurge = FALSE
    MaxTexts = 2
    MaxMsgs = 3
    None = None
    s1 = s1
    m1 = m1
    q1 = q1
SPECIFICATION Spec
INVARIANT UsedNotFree

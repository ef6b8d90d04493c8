CONSTANTS
    Senders = {s1}
    Mailers = {m1}
    Listers = {j1}
    Forwarders = {f1}
    Purgers = {q1}
    SendLayouts <- MCSendLayouts
    MailLayouts <- MCMailLayouts
    BlockLen = 2
    RefWidth = 65536
    QuietPurge = TRUE
    MaxTexts = 2
    MaxMsgs = 3
    None = None
    s1 = s1
    m1 = m1
    j1 = j1
    f1 = f1
    q1 = q1
SPECIFICATION Spec
INVARIANTS UsedNotFree RefsExact
 

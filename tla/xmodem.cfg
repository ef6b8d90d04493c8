\* A file of three units sent in long or short blocks, and an empty one, by
\* XMODEM or YMODEM, with CRCs or checksums; three faults.
CONSTANTS
    FileLens = {0, 3}
    BigLen = 2
    BlockMod = 3
    MaxErrors = 9
    AckTries = 2
    MaxFaults = 3
SPECIFICATION FairSpec
INVARIANTS TypeOK Intact
PROPERTIES ImplementsTransfer Delivers Ends
CHECK_DEADLOCK FALSE

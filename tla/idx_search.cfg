CONSTANTS
    Keys = {1, 2, 3, 4, 5, 6}
    MaxLen = 6
SPECIFICATION FairSpec
INVARIANTS NumberResult TimeResult
PROPERTIES RangeShrinks Ends
CHECK_DEADLOCK FALSE

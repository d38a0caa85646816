CONSTANTS
    k1 = k1
    k2 = k2
    k3 = k3
    k4 = k4
    v1 = v1
    Key = {k1, k2, k3, k4}
    Value = {v1, Null}
    Null = Null
    None = None
    NumBuckets = 3
    hashpjw <- MCHash
    MaxToken = 2
    TextBound = 5
SPECIFICATION LeavesSpec
INVARIANTS DictTypeOK OneLinkPerKey LoopSeesAll
           TypeOK PlaceIsTrue TokensAreTheText
PROPERTIES NoKeyTwice ImplementsDictionary ScanReturns

\* Three calls, two or three requests to choose from each.
SPECIFICATION ReceiptSpec
CONSTANTS
    p1 = p1
    k1 = k1
    k2 = k2
    i1 = i1
    v1 = v1
    c1 = c1
    c2 = c2
    c3 = c3
    Calls = {c1, c2, c3}
    Keys = {k1, k2}
    Principals = {p1}
    Instances = {i1}
    Versions = {v1}
    Requests <- AllRequests
    NoInstance = NoInstance
    Undecided = Undecided
    NoRequest = NoRequest
    NoAnswer = NoAnswer
    Free = Free
    Asks <- MCAsks
INVARIANTS EachKeyTakesEffectOnce NoLostUpdate SameRequestSameAnswer ReadsStillHold
PROPERTIES ImplementsAtomicCommand EveryCallEnds

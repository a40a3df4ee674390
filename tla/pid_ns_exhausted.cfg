CONSTANTS
    r = r
    c1 = c1
    c2 = c2
    t1 = t1
    t2 = t2
    t3 = t3
    NoNs = NoNs
    NoTid = NoTid
    NSIds <- MCNSIds
    Root = r
    Tasks <- MCTasks
    PidMax = 3
    MaxLevel = 2
SYMMETRY MCSymmetry
SPECIFICATION Spec
INVARIANT PidTypeOK ExitLeavesNoTrace PidLookupAgrees

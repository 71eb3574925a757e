CONSTANTS
    g = g  a1 = a1  a2 = a2  b1 = b1  b2 = b2
    None = None

    Blocks <- ShortFork
    Genesis = g
    pprev <- TwoForksParent
    Proof <- ShortForkProof
    Addr <- TwoForksAddr
    MayFail = {b1}
    Threads = {t1, t2}
    maxreorgdepth = 2
    finalizeheaders = TRUE
    parkdeepreorg = TRUE
    automaticunparking = TRUE
    Commands = {"preciousblock", "reconsiderblock", "unparkblock"}
    MaxCommands = 2
SPECIFICATION FairSpec
CHECK_DEADLOCK FALSE
INVARIANTS
    ActiveChainClean
    CandidatesComplete
    BestChainActive
PROPERTIES
    Returns

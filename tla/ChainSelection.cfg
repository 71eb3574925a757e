CONSTANTS
    g = g  a1 = a1  a2 = a2  b1 = b1  b2 = b2
    None = None

    Blocks <- TwoForks
    Genesis = g
    pprev <- TwoForksParent
    Proof <- TwoForksProof
    Addr <- TwoForksAddr
    MayFail = {b2}
    Threads = {t1}
    maxreorgdepth = 2
    finalizeheaders = TRUE
    parkdeepreorg = TRUE
    automaticunparking = TRUE
    Commands = {"preciousblock", "reconsiderblock", "unparkblock", "invalidateblock", "parkblock", "finalizeblock"}
    MaxCommands = 2
SPECIFICATION FairSpec
CHECK_DEADLOCK FALSE
INVARIANTS
    TypeOK
    ActiveChainClean
    
    FlagsHaveCause
    FinalizedOnChain
    
PROPERTIES
    FinalizedStays

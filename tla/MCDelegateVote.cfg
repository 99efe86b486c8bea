SPECIFICATION VoteSpec
CONSTANTS
    a = a
    b = b
    c = c
    n1 = n1
    n2 = n2
    n3 = n3
    Node <- MCNode
    vCandidate <- MCCandidate
    Weight <- MCWeight
    mapDelegate <- MCDelegates
    Miner <- MCMiner
    Ballot <- MCBallot
    MaxRestart <- NoRestart
    MaxCrash = 1
VIEW MCView
CHECK_DEADLOCK FALSE
INVARIANTS
    TypeOK
    CompletedDominates
    CompletedBlockVerifies
    MajorityCompletes
    BlockVerifiesAfterRestart

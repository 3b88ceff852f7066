CONSTANTS
    Users = {u1}
    Conns = {c1, c2}
    None = None
    Manager = s1
    Pushers = {s1}
    Workers = 3
    ChanCap = 1
SPECIFICATION FairSpec
INVARIANTS NoGhostClient TargetsRegistered
PROPERTIES UnreachableCloses 

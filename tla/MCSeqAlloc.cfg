CONSTANTS
    Users = {u1}
    Procs = {p1, p2}
    None = None
    SeqStep = 2
    ChanCap = 1
    BatchSize = 1
    MaxSeq = 4
SPECIFICATION FairSpec
INVARIANTS TypeOK BoundCoversIssued 
PROPERTIES RecSeqsIncrease LoadTerminates

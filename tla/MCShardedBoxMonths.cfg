CONSTANTS
    a = a  b = b
    Users = {a, b}
    Unit = 1000  Period = 1  First = 4
    Settings <- PullingApart
    MaxAsk = 1
SPECIFICATION Spec
INVARIANTS PullFindsRecent

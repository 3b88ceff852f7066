CONSTANTS
    a = a  b = b
    Users = {a, b}
    Unit = 1  Period = 1  First = 4
    Settings <- SavingOrCleaning
    MaxAsk = 1
SPECIFICATION Spec
INVARIANTS OneCopyEach RetryCompletes PullFindsRecent 
PROPERTIES IsInbox

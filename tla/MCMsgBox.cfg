CONSTANTS
    a = a  b = b  c = c  g = g
    Users = {a, b, c}  Group = g
    Unit = 1  Period = 1  Last = 2
    MaxSave = 2  MaxAsk = 1
SPECIFICATION Spec
SYMMETRY Symmetry
INVARIANTS PullsOwnCopies
PROPERTIES IsInbox

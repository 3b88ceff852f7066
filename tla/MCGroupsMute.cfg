CONSTANTS
    a = a  b = b  h1 = h1
    Users = {a, b}
    Handlers = {h1}
    Mixes = {{"mute", "unmute"}}
    Faults = FALSE  MaxReq = 2
SPECIFICATION ContentSpec
INVARIANTS MutesOnlyLower

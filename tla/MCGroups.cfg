CONSTANTS
    a = a  b = b  h1 = h1  h2 = h2
    Users = {a, b}
    Handlers = {h1, h2}
    Mixes <- ByTable
    Faults = TRUE  MaxReq = 3
SPECIFICATION ContentSpec
SYMMETRY Symmetry
INVARIANTS   CategoryExists
PROPERTIES OwnerlessForever  

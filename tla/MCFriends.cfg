CONSTANTS
    None = None  a = a  b = b  t1 = t1  t2 = t2
    Users = {a, b}
    Txs = {t1, t2}
    Settings <- OneOrNoDevice
SPECIFICATION FairSpec
INVARIANTS  OnlyRenewalsAreMissed
 

CONSTANTS
    Emails = {e1, e2}
    Handlers = {h1, h2}
    Ttl = 2  MaxMail = 2  MaxReq = 3
SPECIFICATION FairSpec
INVARIANTS CodeUsable SpentStaysSpent 
 

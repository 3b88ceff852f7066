CONSTANTS
    a = a  b = b  None = None
    Users = {a, b}  Members = {a, b}
    Kinds <- AnyThenSingleOrAck
    MaxLog = 2  MaxCrash = 1
SPECIFICATION FairSpec
INVARIANTS CommittedIsStored NumberNamesOneMessage InboxInTopicOrder EveryNumberStored AcksTakeOneEach
 

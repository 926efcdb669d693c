SPECIFICATION FairSpec
CONSTANTS
    MaxId = 2
    MaxData = 2
    MaxFirst = 3
    MaxRead = 2
INVARIANTS
    RelayInv
    StreamsIntact
    UserIdStays
    ReplyFirst
    EndedSideComplete
PROPERTY
    RelayDelivers
CHECK_DEADLOCK FALSE

SPECIFICATION FairSpec
CONSTANTS
    Chat = {"a", "b"}
    Remote = {"m1", "m2", "m3"}
    Local = {"t1", "t2"}
    Home <- MCHome
    NoChat = ""
    Limit = 3
    Failing = {"insert", "list"}
    MaxVersion = 1
    MaxEvents = 2
INVARIANTS StaleIsAnnounced ViewInStep
PROPERTIES ModelCatchesUp

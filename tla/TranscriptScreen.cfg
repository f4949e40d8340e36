SPECIFICATION FairSpec
CONSTANTS
    Chat = {"a", "b"}
    Remote = {"m1", "m2"}
    Local = {"t1"}
    Home <- MCHome
    NoChat = ""
    Limit = 3
    Failing = {}
    MaxVersion = 1
    MaxEvents = 2
PROPERTIES ScreenCatchesUp

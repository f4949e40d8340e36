SPECIFICATION Spec
CONSTANTS
    Address <- MCAddress
    Lower <- MCLower
    Service = {"iMessage"}
    Conversation <- MCConversation
    RemoteGuid = {"m1", "m2"}
    TempGuid = {"t1"}
    AttGuid = {"f1"}
    Reaction = {"like"}
    Frame <- TwoFrames
    NoHandle = NoHandle
    NoRow = NoRow
    Free = Free
    MaxDate = 2
    MaxUnread = 2
    MaxReactions = 1
    MaxAborts = 1
INVARIANTS InsertNeverRefused UnreadAccounted LastDateCovers ThreadKey AttachmentHasFile
PROPERTIES UserStateKept NothingVanishes

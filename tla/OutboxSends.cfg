SPECIFICATION FairSpec
CONSTANTS
    Chat = {"pair", "solo"}
    Members <- MCMembers
    Send = {"t1", "t2"}
    WithFile = {"t2"}
    Change = {"edit"}
    NoRow = NoRow
    maxVisible = 2
INVARIANTS AddressedInFull NoSilentDrop
PROPERTIES KeepsPromise

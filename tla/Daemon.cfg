SPECIFICATION FairSpec
CONSTANTS
    Atxn = {"x"}
    Txn = {"t"}
    TxnOf <- MCTxnOf
    MaxSessions = 1
    Push = {"album", "text"}
    Reply <- MCReply
    Albums <- MCAlbums
    RegState = {"r"}
    Sent = {"s"}
    Nothing = Nothing
    MaxRetry = 1
    LocalCap = 1
    MaxStops = 1
    MaxInputs = 2
    MaxKey = 2
CHECK_DEADLOCK FALSE
INVARIANTS AtLeastOnce
PROPERTIES CompletedForGood Drains CancelStops SendsConfirmed

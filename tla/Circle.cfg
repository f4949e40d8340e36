SPECIFICATION CircleSpec
CONSTANTS
    Atxn = {"x", "y", "z", "w"}
    Txn = {"x", "z", "w"}
    TxnOf <- MCTxnOf
    MaxSessions = 2
CHECK_DEADLOCK FALSE
INVARIANTS RightSession
PROPERTIES WaitingKept

------------------------------ MODULE MCOutbox ------------------------------
(* Small instances of Outbox for TLC.                                      *)
EXTENDS Outbox

MCMembers == [c \in Chat |-> IF c = "pair" THEN {"a", "b"} ELSE {"a"}]
=============================================================================

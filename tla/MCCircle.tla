------------------------------ MODULE MCCircle ------------------------------
(* A small instance of CircleSessions for TLC.                             *)
EXTENDS CircleSessions

(* Two exchanges of one sign-in, the others one each. *)
MCTxnOf == [x \in Atxn |-> IF x = "y" THEN "x" ELSE x]
=============================================================================

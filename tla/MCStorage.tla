----------------------------- MODULE MCStorage -----------------------------
(* A small instance of Storage for TLC.                                     *)
EXTENDS Storage

(* "A" is another spelling of "a". *)
MCAddress == {"A", "a", "b"}
MCLower == [x \in MCAddress |-> IF x = "A" THEN "a" ELSE x]
MCConversation == {{"A", "b"}, {"a", "b"}, {"b"}}

(* Two messages of one thread under two spellings, the second one older and
   from a sender who is in the list under the other spelling. *)
TwoFrames ==
    {[guid |-> "m1", who |-> {"A", "b"}, service |-> "iMessage",
      sender |-> "b", date |-> 2, attached |-> TRUE],
     [guid |-> "m2", who |-> {"a", "b"}, service |-> "iMessage",
      sender |-> "A", date |-> 1, attached |-> FALSE]}
=============================================================================

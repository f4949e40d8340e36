---------------------------- MODULE MCTranscript ----------------------------
(* Small instances of Transcript for TLC.                                  *)
EXTENDS Transcript

(* m1 and m2 belong to the first chat, every other message to the second. *)
MCHome == [g \in Remote |-> IF g \in {"m1", "m2"} THEN "a" ELSE "b"]
=============================================================================

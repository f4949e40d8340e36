------------------------------ MODULE MCDaemon ------------------------------
(* A small instance of Daemon for TLC.                                     *)
EXTENDS Daemon

(* One exchange of one sign-in. *)
MCTxnOf == [x \in Atxn |-> "t"]

(* A notice of one new album, which no other client takes, and a text message. *)
MCAlbums == [m \in Push |-> IF m = "album" THEN 1 ELSE 0]
MCReply == [m \in Push |-> [c \in ImClient |->
              CASE c = "passwords" -> "fail"
                [] c = "im" /\ m = "text" -> "take"
                [] OTHER -> "pass"]]
=============================================================================

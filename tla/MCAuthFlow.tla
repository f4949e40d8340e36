----------------------------- MODULE MCAuthFlow -----------------------------
(* Small instances of AuthFlow for TLC.                                    *)
EXTENDS AuthFlow, TLC

Symmetric == Permutations(Task) \cup Permutations(Device)
=============================================================================

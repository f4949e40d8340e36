--------------------------- MODULE MCAccountFiles ---------------------------
(* Small instances of AccountFiles for TLC.                                *)
EXTENDS AccountFiles, TLC

(* Bound: a behaviour is followed up to the first save after a reset. *)
UpToLate == ~late

Symmetric == Permutations(Account) \cup Permutations(Identity)
=============================================================================

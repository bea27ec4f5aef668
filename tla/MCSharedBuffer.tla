--------------------------- MODULE MCSharedBuffer ---------------------------
(* SharedBuffer on a small ring for TLC.                                   *)
EXTENDS SharedBuffer, TLC

(* The readers are interchangeable in the safety runs.                     *)
Perms == Permutations(Readers)
=============================================================================

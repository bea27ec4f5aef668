--------------------------- MODULE MCStreamSession ---------------------------
(* StreamSession with a few clients and sources for TLC.                   *)
EXTENDS StreamSession, TLC

(* Clients are interchangeable, and so are sources, in the safety runs.    *)
Perms == Permutations(Clients) \union Permutations(Sources)
=============================================================================

---------------------------- MODULE MCHLSWriter ----------------------------
(* An instance of HLSWriter: master playlists that lead to the media       *)
(* playlist in one or two steps, list nothing, or list themselves.         *)
EXTENDS HLSWriter

MCMasters == {"top", "near", "bare", "self"}
MCVariants == [u \in MCMasters |-> CASE u = "top" -> <<"near", "media">>
                                     [] u = "near" -> <<"media">>
                                     [] u = "bare" -> <<>>
                                     [] u = "self" -> <<"self", "media">>]
=============================================================================

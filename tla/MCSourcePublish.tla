-------------------------- MODULE MCSourcePublish --------------------------
(* Instance of SourcePublish for TLC.                                      *)
EXTENDS SourcePublish, TLC

CONSTANTS a, b, s1

MCCarries == s1 :> {a, b}

(* The channels are interchangeable.                                       *)
MCSymmetry == Permutations({a, b})
=============================================================================

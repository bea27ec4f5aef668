--------------------------- MODULE MCDirectStream ---------------------------
(* Instances of DirectStream for TLC.                                      *)
EXTENDS DirectStream

MCMax == [s \in Sources |-> 1]
MCStreams == Tasks \union Others
=============================================================================

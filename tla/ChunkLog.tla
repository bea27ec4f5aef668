------------------------------ MODULE ChunkLog ------------------------------
(***************************************************************************)
(* What the shared buffer of a channel promises the clients who read it.   *)
(* Chunks are numbered as they are written. A client takes chunks now and  *)
(* then, always later ones than before, starting with the one that was the *)
(* newest when it joined; if it comes back before N more are written, and  *)
(* nothing was discarded meanwhile, it gets every one of them. The chunk   *)
(* that ends the stream is not passed on but ends the client's reading,    *)
(* and comes after all the others.                                         *)
(***************************************************************************)
EXTENDS Integers

CONSTANTS Clients, N

VARIABLES
  written,  (* number of the newest chunk                                  *)
  reading,  (* clients who are reading                                     *)
  upto,     (* a client is done with the chunks up to this one             *)
  got,      (* chunks a client was given since it joined                   *)
  kept      (* clients for whom nothing was discarded since they last took *)
            (* chunks                                                      *)

vars == <<written, reading, upto, got, kept>>

Init ==
  /\ written = 0 /\ reading = {} /\ kept = {}
  /\ upto = [c \in Clients |-> 0]
  /\ got = [c \in Clients |-> {}]

Write ==
  /\ written' = written + 1
  /\ UNCHANGED <<reading, upto, got, kept>>

Join(c) ==
  /\ c \notin reading
  /\ reading' = reading \union {c}
  /\ upto' = [upto EXCEPT ![c] = written - 1]
  /\ got' = [got EXCEPT ![c] = {}]
  /\ kept' = kept \ {c}
  /\ UNCHANGED written

(* The client's reading ends with the chunk that ends the stream, or goes  *)
(* on.                                                                     *)
Take(c) ==
  /\ c \in reading
  /\ \E ends \in BOOLEAN :
       LET due == (upto[c] + 1)..(IF ends THEN written - 1 ELSE written)
       IN /\ reading' = IF ends THEN reading \ {c} ELSE reading
          /\ \E new \in SUBSET due :
               /\ c \in kept /\ written - upto[c] < N => new = due
               /\ got' = [got EXCEPT ![c] = @ \union new]
  /\ upto' = [upto EXCEPT ![c] = written]
  /\ kept' = kept \union {c}
  /\ UNCHANGED written

Leave(c) ==
  /\ c \in reading
  /\ reading' = reading \ {c}
  /\ UNCHANGED <<written, upto, got, kept>>

(* What clients have not taken yet may be lost.                            *)
Discard ==
  /\ upto' \in [Clients -> Int]
  /\ \A c \in Clients : upto[c] <= upto'[c] /\ upto'[c] <= written
  /\ kept' = {}
  /\ UNCHANGED <<written, reading, got>>

Next ==
  \/ Write \/ Discard
  \/ \E c \in Clients : Join(c) \/ Take(c) \/ Leave(c)

Spec == Init /\ [][Next]_vars
=============================================================================

---------------------------- MODULE RegistryState ----------------------------
(***************************************************************************)
(* The state of the StreamRegistry for one stream (proxy/stream/buffer/    *)
(* registry.go) and what it promises the sessions: they are the ones who   *)
(* hold the coordinators it hands out. Registry has its operations.        *)
(***************************************************************************)
EXTENDS Integers, FiniteSets

CONSTANTS
  Requests,  (* requests for the stream                                    *)
  MaxCoords  (* bound: coordinators ever created                           *)

ASSUME RegistryAssumption ==
  /\ IsFiniteSet(Requests)
  /\ MaxCoords \in Nat \ {0}

Coords == 1..MaxCoords
NoCoord == 0

VARIABLES
  coordinators,  (* the coordinator stored under the stream's key          *)
  created,       (* coordinators created so far                            *)
  clientCounts,  (* ClientCount of every coordinator                       *)
  stage,         (* where a request stands                                 *)
  coord,         (* the coordinator a request works with                   *)
  inactive,      (* cleanup has found ClientCount 0 and is about to delete *)
  removed        (* coordinators that cleanup has deleted                  *)

InUse == {coord[c] : c \in {d \in Requests : stage[d] \in {"setup", "registered"}}}

(* Requests for one stream share one coordinator, and so one connection to *)
(* the source, however their lookups interleave; only a coordinator that   *)
(* the cleanup has removed under its clients is used beside another.       *)
SharedUnlessRemoved == InUse \subseteq removed \union {coordinators}
=============================================================================

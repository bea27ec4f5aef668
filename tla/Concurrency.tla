----------------------------- MODULE Concurrency -----------------------------
(***************************************************************************)
(* The ConcurrencyManager (store/concurrency.go): one connection counter   *)
(* per M3U source, shared by every stream of the process. A stream that    *)
(* has taken a slot with UpdateConcurrency(index, true) gives it back in a *)
(* deferred UpdateConcurrency(index, false).                               *)
(*                                                                         *)
(* The counter does not know who holds a slot; held is what the callers    *)
(* remember in their deferred call.                                        *)
(***************************************************************************)
EXTENDS Integers, FiniteSets

CONSTANTS
  Sources,  (* indexes of the M3U sources, numbered in the order of        *)
            (* lessSourceIndex                                             *)
  Max,      (* utils.GetSourceMaxConcurrency                               *)
  Streams,  (* those who take slots: writers and direct streams            *)
  NoSource  (* no slot is held                                             *)

(* UpdateConcurrency compares with int32(max): a larger limit would wrap.  *)
Int32Max == 2147483647

ASSUME ConcurrencyAssumption ==
  /\ Sources \subseteq Nat
  /\ Max \in [Sources -> 1..Int32Max]
  /\ IsFiniteSet(Streams)
  /\ NoSource \notin Sources

VARIABLES
  count,  (* cm.count                                                      *)
  held    (* the source each stream holds a slot of                        *)

slotVars == <<count, held>>

-----------------------------------------------------------------------------
SlotInit ==
  /\ count = [s \in Sources |-> 0]
  /\ held = [h \in Streams |-> NoSource]

(* CheckConcurrency: the limit of the source is reached.                   *)
CheckConcurrency(s) == count[s] >= Max[s]

(* ConcurrencyPriorityValue: the free slots of the source.                 *)
ConcurrencyPriorityValue(s) == Max[s] - count[s]

(* Faulty variant: the limit is tested one connection too late.            *)
AcquireOneTooMany(h, s) ==
  /\ count[s] <= Max[s]
  /\ count' = [count EXCEPT ![s] = @ + 1]
  /\ held' = [held EXCEPT ![h] = s]

(* UpdateConcurrency(index, true) that succeeds; test and increment are    *)
(* one step inside Compute.                                                *)
Acquire(h, s) ==
  /\ count[s] < Max[s]
  /\ count' = [count EXCEPT ![s] = @ + 1]
  /\ held' = [held EXCEPT ![h] = s]

(* UpdateConcurrency(index, false): the counter does not go below zero.    *)
Release(h) ==
  /\ count' = [count EXCEPT ![held[h]] = IF @ > 0 THEN @ - 1 ELSE @]
  /\ held' = [held EXCEPT ![h] = NoSource]

-----------------------------------------------------------------------------
Holders(s) == {h \in Streams : held[h] = s}

(* The counter of a source is the number of streams that hold one of its   *)
(* slots, so that the clamp at zero never hides a release too many, and it *)
(* stays within the limit whatever stale CheckConcurrency a caller acted   *)
(* on.                                                                     *)
SlotsAccounted ==
  \A s \in Sources : count[s] = Cardinality(Holders(s)) /\ count[s] <= Max[s]
=============================================================================

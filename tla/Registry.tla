------------------------------ MODULE Registry ------------------------------
(***************************************************************************)
(* The StreamRegistry (proxy/stream/buffer/registry.go): the coordinator   *)
(* of every stream, created by the first request for it and removed by a   *)
(* periodic cleanup once it has no registered client. Streams are          *)
(* independent of each other; the module is about one of them.             *)
(*                                                                         *)
(* A request holds the coordinator it was given for as long as it lasts,   *)
(* but counts in ClientCount only from RegisterClient on, which comes      *)
(* after the load balancer has chosen a source: up to 45 seconds later,    *)
(* while the cleanup runs every 30.                                        *)
(***************************************************************************)
EXTENDS RegistryState

vars == <<coordinators, created, clientCounts, stage, coord, inactive, removed>>

Init ==
  /\ coordinators = NoCoord
  /\ created = 0
  /\ clientCounts = [k \in Coords |-> 0]
  /\ stage = [c \in Requests |-> "idle"]
  /\ coord = [c \in Requests |-> NoCoord]
  /\ inactive = FALSE
  /\ removed = {}

-----------------------------------------------------------------------------
(* GetOrCreateCoordinator: the stored coordinator, or a new one that is    *)
(* not stored yet.                                                         *)
Load(c) ==
  /\ stage[c] = "idle"
  /\ IF coordinators # NoCoord
     THEN /\ stage' = [stage EXCEPT ![c] = "setup"]
          /\ coord' = [coord EXCEPT ![c] = coordinators]
          /\ UNCHANGED created
     ELSE /\ created < MaxCoords
          /\ created' = created + 1
          /\ stage' = [stage EXCEPT ![c] = "store"]
          /\ coord' = [coord EXCEPT ![c] = created + 1]
  /\ UNCHANGED <<coordinators, clientCounts, inactive, removed>>

(* Faulty variant: the new coordinator is stored whatever is there.        *)
Store(c) ==
  /\ stage[c] = "store"
  /\ coordinators' = coord[c]
  /\ stage' = [stage EXCEPT ![c] = "setup"]
  /\ UNCHANGED <<created, clientCounts, coord, inactive, removed>>

(* LoadOrStore: somebody may have stored one since.                        *)
LoadOrStore(c) ==
  /\ stage[c] = "store"
  /\ coordinators' = IF coordinators = NoCoord THEN coord[c] ELSE coordinators
  /\ coord' = [coord EXCEPT ![c] = coordinators']
  /\ stage' = [stage EXCEPT ![c] = "setup"]
  /\ UNCHANGED <<created, clientCounts, inactive, removed>>

(* RegisterClient, once a source is chosen.                                *)
RegisterClient(c) ==
  /\ stage[c] = "setup"
  /\ stage' = [stage EXCEPT ![c] = "registered"]
  /\ clientCounts' = [clientCounts EXCEPT ![coord[c]] = @ + 1]
  /\ UNCHANGED <<coordinators, created, coord, inactive, removed>>

(* UnregisterClient; the handler keeps its coordinator and tries again.    *)
UnregisterClient(c) ==
  /\ stage[c] = "registered"
  /\ stage' = [stage EXCEPT ![c] = "setup"]
  /\ clientCounts' = [clientCounts EXCEPT ![coord[c]] = @ - 1]
  /\ UNCHANGED <<coordinators, created, coord, inactive, removed>>

(* The handler returns; the next request starts anew.                      *)
Leave(c) ==
  /\ stage[c] = "setup"
  /\ stage' = [stage EXCEPT ![c] = "idle"]
  /\ coord' = [coord EXCEPT ![c] = NoCoord]
  /\ UNCHANGED <<coordinators, created, clientCounts, inactive, removed>>

-----------------------------------------------------------------------------
(* Faulty variant: an unused coordinator is not taken for inactive.        *)
FindInactiveNever ==
  /\ ~inactive
  /\ coordinators # NoCoord /\ clientCounts[coordinators] < 0
  /\ inactive' = TRUE
  /\ UNCHANGED <<coordinators, created, clientCounts, stage, coord, removed>>

(* cleanup looks at ClientCount ...                                        *)
FindInactive ==
  /\ ~inactive
  /\ coordinators # NoCoord /\ clientCounts[coordinators] = 0
  /\ inactive' = TRUE
  /\ UNCHANGED <<coordinators, created, clientCounts, stage, coord, removed>>

(* ... and deletes what is stored under the key. Only cleanup deletes, so  *)
(* that it is the coordinator it looked at; its clients may have come      *)
(* since.                                                                  *)
RemoveCoordinator ==
  /\ inactive
  /\ inactive' = FALSE
  /\ coordinators' = NoCoord
  /\ removed' = removed \union {coordinators}
  /\ UNCHANGED <<created, clientCounts, stage, coord>>

Next ==
  \/ \E c \in Requests : \/ Load(c) \/ LoadOrStore(c) \/ RegisterClient(c)
                        \/ UnregisterClient(c) \/ Leave(c)
  \/ FindInactive \/ RemoveCoordinator

(* The ticker of runCleanup keeps firing and cleanup visits every key.     *)
Spec == Init /\ [][Next]_vars /\ WF_vars(FindInactive) /\ WF_vars(RemoveCoordinator)

-----------------------------------------------------------------------------
(* A coordinator that stays without registered clients does not stay in    *)
(* the registry: cleanup removes it.                                       *)
UnusedIsRemoved ==
  \A k \in Coords : ~<>[](coordinators = k /\ clientCounts[k] = 0)
=============================================================================

---------------------------- MODULE LoadBalancer ----------------------------
(***************************************************************************)
(* Balance of proxy/loadbalancer/instance.go: the choice of an upstream    *)
(* URL for a stream, in laps over the sources that carry the channel, with *)
(* the candidate URLs of a source probed in parallel and the best one      *)
(* opened again. The sources' connection counters (module Concurrency)     *)
(* are shared with all other streams, which take and give back slots at    *)
(* any moment.                                                             *)
(*                                                                         *)
(* DefaultProxyInstance.LoadBalancer makes a new instance for every call,  *)
(* so that info and testedIndexes are state of the call. The sort by       *)
(* ConcurrencyPriorityValue reads the counters in one step here.           *)
(***************************************************************************)
EXTENDS Concurrency

CONSTANTS
  Calls,      (* streams that go through Balance; the others only hold     *)
              (* slots                                                     *)
  Subs,       (* sub-indexes of the URLs a source has for a channel        *)
  UrlMaps,    (* what a slug may decode to: URLs by source                 *)
  Configurations, (* what indexProvider.GetM3UIndexes may return: the      *)
              (* configuration is read anew in every lap                   *)
  Discovered, (* indexes with the DISC_ prefix                             *)
  MaxRetries  (* what MAX_RETRIES may be, 0 for no limit                   *)

ASSUME BalancerAssumption ==
  /\ Calls \subseteq Streams
  /\ Subs \subseteq Nat
  /\ UrlMaps \subseteq [Sources -> SUBSET Subs]
  /\ Configurations \subseteq SUBSET Sources
  /\ Discovered \subseteq Sources
  /\ MaxRetries \subseteq Int

VARIABLES
  pc,
  urls,     (* info.URLs                                                   *)
  excluded, (* excludedIndexesFromContext                                  *)
  expired,  (* ctx is done: loadBalancerSelectionTimeout has passed        *)
  lap,      (* [n, max]: laps begun, counted if they are limited, and      *)
            (* config.MaxRetries                                           *)
  todo,     (* m3uIndexes of the lap                                       *)
  done,     (* sources evaluated in the lap                                *)
  index,    (* source under evaluation, or the one selected                *)
  launch,   (* its sub-indexes not yet looked at                           *)
  probing,  (* its sub-indexes with a probe under way                      *)
  cands,    (* its sub-indexes whose probe succeeded                       *)
  tested    (* testedIndexes: <<source, sub-index>>                        *)

callVars == <<pc, urls, excluded, expired, lap, todo, done, index, launch,
              probing, cands, tested>>
vars == <<slotVars, callVars>>

-----------------------------------------------------------------------------
NoUrls == [s \in Sources |-> {}]

InCall(c) == pc[c] \in {"lap", "pick", "probe", "open", "backoff"}

Init ==
  /\ SlotInit
  /\ pc = [c \in Calls |-> "idle"]
  /\ urls = [c \in Calls |-> NoUrls]
  /\ excluded = [c \in Calls |-> {}]
  /\ expired = [c \in Calls |-> FALSE]
  /\ \E retries \in MaxRetries : lap = [c \in Calls |-> [n |-> 0, max |-> retries]]
  /\ todo = [c \in Calls |-> {}]
  /\ done = [c \in Calls |-> {}]
  /\ index = [c \in Calls |-> NoSource]
  /\ launch = [c \in Calls |-> {}]
  /\ probing = [c \in Calls |-> {}]
  /\ cands = [c \in Calls |-> {}]
  /\ tested = [c \in Calls |-> {}]

Goto(c, place) == pc' = [pc EXCEPT ![c] = place]

(* The call is over; its instance goes with it. at is "selected", "error"  *)
(* or "idle".                                                              *)
Return(c, at, source) ==
  /\ Goto(c, at)
  /\ urls' = [urls EXCEPT ![c] = IF at = "selected" THEN @ ELSE NoUrls]
  /\ excluded' = [excluded EXCEPT ![c] = IF at = "selected" THEN @ ELSE {}]
  /\ expired' = [expired EXCEPT ![c] = FALSE]
  /\ lap' = [lap EXCEPT ![c].n = 0]
  /\ todo' = [todo EXCEPT ![c] = {}]
  /\ done' = [done EXCEPT ![c] = {}]
  /\ index' = [index EXCEPT ![c] = source]
  /\ launch' = [launch EXCEPT ![c] = {}]
  /\ probing' = [probing EXCEPT ![c] = {}]
  /\ cands' = [cands EXCEPT ![c] = {}]
  /\ tested' = [tested EXCEPT ![c] = {}]

-----------------------------------------------------------------------------
(* The sources of a lap.                                                   *)

(* appendDiscoveryIndexesFromStreamInfo                                    *)
WithDiscovered(conf, m) == conf \union {s \in Discovered : m[s] # {}}

(* availableIndexesForStreamInfo: the sources that carry the channel, all  *)
(* of them if none does.                                                   *)
Available(conf, m) ==
  LET filtered == {s \in WithDiscovered(conf, m) : m[s] # {}}
  IN  IF filtered = {} THEN WithDiscovered(conf, m) ELSE filtered

(* Faulty variant: excluded sources stay in the list.                      *)
CandidatesUnfiltered(conf, m, ex) == Available(conf, m)

(* Without the excluded ones, unless that leaves none.                     *)
Candidates(conf, m, ex) ==
  LET rest == Available(conf, m) \ ex
  IN  IF rest = {} THEN Available(conf, m) ELSE rest

(* s comes before all others of S in the sort order: more free slots, then *)
(* lessSourceIndex.                                                        *)
Preferred(s, S) ==
  \A t \in S \ {s} :
    \/ ConcurrencyPriorityValue(s) > ConcurrencyPriorityValue(t)
    \/ ConcurrencyPriorityValue(s) = ConcurrencyPriorityValue(t) /\ s < t

-----------------------------------------------------------------------------
(* The handler calls Balance for a slug, with the sources that have failed *)
(* it before. fetchBackendUrls refuses a slug without URLs.                *)
Balance(c) ==
  /\ pc[c] = "idle"
  /\ \E m \in UrlMaps, ex \in SUBSET Sources :
       IF \A s \in Sources : m[s] = {}
       THEN Goto(c, "error") /\ UNCHANGED <<urls, excluded>>
       ELSE /\ Goto(c, "lap")
            /\ urls' = [urls EXCEPT ![c] = m]
            /\ excluded' = [excluded EXCEPT ![c] = ex]
  /\ UNCHANGED <<slotVars, expired, lap, todo, done, index, launch, probing,
                 cands, tested>>

(* Faulty variant: one lap too many.                                       *)
ExhaustedLate(c) == lap[c].max # 0 /\ lap[c].n > lap[c].max

(* The condition of the loop over the laps fails.                          *)
Exhausted(c) == lap[c].max # 0 /\ lap[c].n >= lap[c].max

(* tryAllStreams up to its loop. Without any index the lap has failed at   *)
(* once, before ctx is looked at.                                          *)
TryAllStreams(c) ==
  /\ pc[c] = "lap" /\ ~Exhausted(c)
  /\ \E conf \in Configurations :
       /\ Available(conf, urls[c]) = {} \/ ~expired[c]
       /\ Goto(c, IF Available(conf, urls[c]) = {} THEN "backoff" ELSE "pick")
       /\ todo' = [todo EXCEPT ![c] = Candidates(conf, urls[c], excluded[c])]
  /\ done' = [done EXCEPT ![c] = {}]
  /\ UNCHANGED <<slotVars, urls, excluded, expired, lap, index, launch,
                 probing, cands, tested>>

(* All laps are used up, or ctx has ended before the lap.                  *)
GiveUp(c) ==
  /\ pc[c] = "lap"
  /\ \/ Exhausted(c)
     \/ expired[c] /\ \E conf \in Configurations : Available(conf, urls[c]) # {}
  /\ Return(c, "error", NoSource)
  /\ UNCHANGED slotVars

(* The best source not yet evaluated; one that does not carry the channel  *)
(* is passed over.                                                         *)
NextSource(c) ==
  /\ pc[c] = "pick"
  /\ \E s \in todo[c] \ done[c] :
       /\ Preferred(s, todo[c] \ done[c])
       /\ done' = [done EXCEPT ![c] = @ \union {s}]
       /\ index' = [index EXCEPT ![c] = s]
       /\ launch' = [launch EXCEPT ![c] = urls[c][s]]
       /\ Goto(c, IF urls[c][s] = {} THEN "pick" ELSE "probe")
  /\ UNCHANGED <<slotVars, urls, excluded, expired, lap, todo, probing, cands,
                 tested>>

(* tryStreamUrls looks at the next URL: a probe is started unless the URL  *)
(* was tested before or the source is at its limit now.                    *)
LaunchProbe(c) ==
  /\ pc[c] = "probe"
  /\ \E u \in launch[c] :
       /\ \A v \in launch[c] : u <= v
       /\ launch' = [launch EXCEPT ![c] = @ \ {u}]
       /\ probing' =
            IF <<index[c], u>> \in tested[c] \/ CheckConcurrency(index[c])
            THEN probing
            ELSE [probing EXCEPT ![c] = @ \union {u}]
  /\ UNCHANGED <<slotVars, pc, urls, excluded, expired, lap, todo, done, index,
                 cands, tested>>

(* A probe goroutine ends: its connection is closed, and the URL is a      *)
(* candidate, or it is marked as tested.                                   *)
ProbeEnds(c, u) ==
  /\ u \in probing[c]
  /\ probing' = [probing EXCEPT ![c] = @ \ {u}]
  /\ \/ /\ cands' = [cands EXCEPT ![c] = @ \union {u}]
        /\ UNCHANGED tested
     \/ /\ tested' = [tested EXCEPT ![c] = @ \union {<<index[c], u>>}]
        /\ UNCHANGED cands
  /\ UNCHANGED <<slotVars, pc, urls, excluded, expired, lap, todo, done, index,
                 launch>>

(* wg.Wait returns.                                                        *)
ProbesDone(c) ==
  /\ pc[c] = "probe"
  /\ launch[c] = {} /\ probing[c] = {}
  /\ Goto(c, "open")
  /\ UNCHANGED <<slotVars, urls, excluded, expired, lap, todo, done, index,
                 launch, probing, cands, tested>>

(* The healthiest candidate is opened for good. Health is a measured       *)
(* throughput: any candidate can be the first.                             *)
OpenCandidate(c) ==
  /\ pc[c] = "open"
  /\ \E u \in cands[c] :
       \/ Return(c, "selected", index[c])
       \/ /\ cands' = [cands EXCEPT ![c] = @ \ {u}]
          /\ tested' = [tested EXCEPT ![c] = @ \union {<<index[c], u>>}]
          /\ UNCHANGED <<pc, urls, excluded, expired, lap, todo, done, index,
                         launch, probing>>
  /\ UNCHANGED slotVars

(* No candidate of the source is left: the next source, unless ctx is done.*)
SourceFails(c) ==
  /\ pc[c] = "open"
  /\ cands[c] = {}
  /\ IF expired[c]
     THEN Return(c, "error", NoSource)
     ELSE /\ Goto(c, "pick")
          /\ UNCHANGED <<urls, excluded, expired, lap, todo, done, index,
                         launch, probing, cands, tested>>
  /\ UNCHANGED slotVars

(* Every source has been evaluated: tryAllStreams fails.                   *)
LapFails(c) ==
  /\ pc[c] = "pick"
  /\ todo[c] \subseteq done[c]
  /\ Goto(c, "backoff")
  /\ UNCHANGED <<slotVars, urls, excluded, expired, lap, todo, done, index,
                 launch, probing, cands, tested>>

(* Faulty variant: the verdicts of the lap are kept for the next one.      *)
NextLapKeepsTested(c) ==
  /\ pc[c] = "backoff"
  /\ lap' = [lap EXCEPT ![c].n = IF lap[c].max = 0 THEN 0 ELSE @ + 1]
  /\ Goto(c, "lap")
  /\ UNCHANGED <<slotVars, urls, excluded, expired, todo, done, index, launch,
                 probing, cands, tested>>

(* clearTested and the pause of RETRY_WAIT seconds.                        *)
NextLap(c) ==
  /\ pc[c] = "backoff"
  /\ tested' = [tested EXCEPT ![c] = {}]
  /\ lap' = [lap EXCEPT ![c].n = IF lap[c].max = 0 THEN 0 ELSE @ + 1]
  /\ Goto(c, "lap")
  /\ UNCHANGED <<slotVars, urls, excluded, expired, todo, done, index, launch,
                 probing, cands>>

(* Faulty variant: the pause does not look at ctx.                         *)
BackoffInterruptedByLaps(c) ==
  /\ pc[c] = "backoff"
  /\ Exhausted(c)
  /\ Return(c, "error", NoSource)
  /\ UNCHANGED slotVars

(* ctx ends the pause.                                                     *)
BackoffInterrupted(c) ==
  /\ pc[c] = "backoff"
  /\ expired[c]
  /\ Return(c, "error", NoSource)
  /\ UNCHANGED slotVars

(* The 45 seconds of the call are over.                                    *)
Expire(c) ==
  /\ InCall(c)
  /\ ~expired[c]
  /\ expired' = [expired EXCEPT ![c] = TRUE]
  /\ UNCHANGED <<slotVars, pc, urls, excluded, lap, todo, done, index, launch,
                 probing, cands, tested>>

-----------------------------------------------------------------------------
(* What becomes of the result.                                             *)

(* The writer or the direct stream takes its slot, which may be gone by    *)
(* now: then it ends at once. (What becomes of the response is in          *)
(* StreamSession and DirectStream.)                                        *)
StreamStarts(c) ==
  /\ pc[c] = "selected"
  /\ \/ Acquire(c, index[c]) /\ Return(c, "streaming", NoSource)
     \/ CheckConcurrency(index[c]) /\ Return(c, "idle", NoSource)
                                   /\ UNCHANGED slotVars

StreamEnds(c) ==
  /\ pc[c] = "streaming"
  /\ Release(c)
  /\ Return(c, "idle", NoSource)

(* The handler has answered 502, or calls again without exclusions.        *)
ErrorHandled(c) ==
  /\ pc[c] = "error"
  /\ Return(c, "idle", NoSource)
  /\ UNCHANGED slotVars

(* Streams whose selection is not followed here.                           *)
OtherStream(h) ==
  /\ \/ held[h] = NoSource /\ \E s \in Sources : Acquire(h, s)
     \/ held[h] # NoSource /\ Release(h)
  /\ UNCHANGED callVars

CallStep(c) ==
  \/ TryAllStreams(c) \/ GiveUp(c) \/ NextSource(c) \/ LaunchProbe(c)
  \/ ProbesDone(c) \/ OpenCandidate(c) \/ SourceFails(c) \/ LapFails(c)
  \/ NextLap(c) \/ BackoffInterrupted(c)
  \/ \E u \in Subs : ProbeEnds(c, u)

Next ==
  \/ \E c \in Calls :
       \/ Balance(c) \/ CallStep(c) \/ Expire(c)
       \/ StreamStarts(c) \/ StreamEnds(c) \/ ErrorHandled(c)
  \/ \E h \in Streams \ Calls : OtherStream(h)

Spec == Init /\ [][Next]_vars

(* A goroutine that can run is run; a probe ends within its timeouts; the  *)
(* deadline of the call passes; the select of the pause, which chooses     *)
(* among its ready channels at random, does not ignore ctx for ever.       *)
Fairness ==
  \A c \in Calls : /\ WF_vars(CallStep(c))
                   /\ WF_vars(Expire(c))
                   /\ SF_vars(BackoffInterrupted(c))

FairSpec == Spec /\ Fairness

-----------------------------------------------------------------------------
TypeOK ==
  /\ count \in [Sources -> Nat]
  /\ held \in [Streams -> Sources \union {NoSource}]
  /\ pc \in [Calls -> {"idle", "lap", "pick", "probe", "open", "backoff",
                       "selected", "error", "streaming"}]
  /\ urls \in [Calls -> [Sources -> SUBSET Subs]]
  /\ excluded \in [Calls -> SUBSET Sources]
  /\ expired \in [Calls -> BOOLEAN]
  /\ lap \in [Calls -> [n : Nat, max : MaxRetries]]
  /\ \A c \in Calls : lap[c].n <= IF lap[c].max > 0 THEN lap[c].max ELSE 0
  /\ todo \in [Calls -> SUBSET Sources]
  /\ done \in [Calls -> SUBSET Sources]
  /\ index \in [Calls -> Sources \union {NoSource}]
  /\ launch \in [Calls -> SUBSET Subs]
  /\ probing \in [Calls -> SUBSET Subs]
  /\ cands \in [Calls -> SUBSET Subs]
  /\ tested \in [Calls -> SUBSET (Sources \X Subs)]

(* A lap judges every URL anew: a URL that failed in an earlier lap is     *)
(* never passed over as "already tested" in a later one.                   *)
NoStaleVerdict ==
  \A c \in Calls : pc[c] = "probe" =>
    \A u \in launch[c] : <<index[c], u>> \notin tested[c]

(* A call of Balance returns, whatever MAX_RETRIES is and however the      *)
(* upstreams behave.                                                       *)
BalanceReturns == \A c \in Calls : InCall(c) ~> ~InCall(c)

Phase(c) == IF InCall(c) THEN "asked"
            ELSE IF pc[c] = "selected" THEN "answered"
            ELSE IF pc[c] = "error" THEN "failed"
            ELSE IF pc[c] = "streaming" THEN "used"
            ELSE "idle"

(* Balance implements Selection.                                           *)
Promise == INSTANCE Selection WITH
  Configurations <- {conf \union Discovered : conf \in Configurations},
  phase <- [c \in Calls |-> Phase(c)],
  wanted <- urls,
  avoid <- excluded,
  answer <- [c \in Calls |-> IF pc[c] = "selected" THEN index[c] ELSE NoSource]

(* What the handlers are given is a source that carries the channel, and   *)
(* one that has failed them only when the configuration of the lap has no  *)
(* other: the laps, the fallbacks of the three filters, the configuration  *)
(* read anew in each lap and the slots other streams take in between do    *)
(* not lead to anything else.                                              *)
SelectionSpec == Promise!Spec
=============================================================================

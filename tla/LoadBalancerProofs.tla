------------------------- MODULE LoadBalancerProofs -------------------------
(***************************************************************************)
(* Proofs about LoadBalancer for all sources, limits, streams, calls, URL  *)
(* maps and MAX_RETRIES: the slots are accounted for, no verdict outlives  *)
(* its lap, and Balance implements Selection.                              *)
(***************************************************************************)
EXTENDS LoadBalancer, FiniteSetTheorems, TLAPS

(* A call holds a slot exactly while it streams, and no inputs when idle.  *)
StreamsHold ==
  \A c \in Calls :
    /\ held[c] # NoSource <=> pc[c] = "streaming"
    /\ pc[c] = "idle" => urls[c] = NoUrls /\ excluded[c] = {}

(* What some configuration lets a lap try.                                 *)
Allowed(m, ex) == UNION {Candidates(conf, m, ex) : conf \in Configurations}

(* Where a call is in its lap, and that it keeps to the lap's candidates.  *)
Scope ==
  \A c \in Calls :
    /\ pc[c] \in {"pick", "probe", "open"} =>
         todo[c] \subseteq Allowed(urls[c], excluded[c])
    /\ pc[c] \in {"probe", "open", "selected"} =>
         /\ index[c] \in Allowed(urls[c], excluded[c])
         /\ urls[c][index[c]] # {}
    /\ pc[c] \in {"pick", "probe", "open", "backoff"} /\ lap[c].max # 0 =>
         lap[c].n < lap[c].max
    /\ probing[c] # {} => pc[c] = "probe"

(* Verdicts are about sources the lap has come to.                         *)
Verdicts ==
  \A c \in Calls :
    /\ \A s \in Sources, u \in Subs : <<s, u>> \in tested[c] => s \in done[c]
    /\ pc[c] \in {"probe", "open"} => index[c] \in done[c]
    /\ pc[c] \in {"idle", "lap"} => tested[c] = {}
    /\ probing[c] \intersect launch[c] = {}

(* The inductive invariant.                                                *)
IInv ==
  TypeOK /\ SlotsAccounted /\ StreamsHold /\ Scope /\ Verdicts /\ NoStaleVerdict

-----------------------------------------------------------------------------
(* The candidates of a lap are sources, whatever the configuration.        *)
LEMMA CandidatesAreSources ==
  ASSUME NEW m, NEW ex
  PROVE  /\ \A conf \in Configurations :
              /\ Candidates(conf, m, ex) \in SUBSET Sources
              /\ Candidates(conf, m, ex) \subseteq Allowed(m, ex)
         /\ Allowed(m, ex) \in SUBSET Sources
<1>1. \A conf \in Configurations : Candidates(conf, m, ex) \in SUBSET Sources
  BY BalancerAssumption DEF Candidates, Available, WithDiscovered
<1> QED
  BY <1>1 DEF Allowed

(* The limits are positive numbers; their bound does not matter.           *)
LEMMA LimitsPositive == Max \in [Sources -> Nat \ {0}]
<1>1. Int32Max \in Nat
  BY SMT DEF Int32Max
<1> QED
  BY <1>1, ConcurrencyAssumption

(* All counters are zero at the start.                                     *)
LEMMA InitIInv == Init => IInv
<1> SUFFICES ASSUME Init PROVE IInv
  OBVIOUS
<1> USE ConcurrencyAssumption, BalancerAssumption
<1>1. TypeOK
  BY DEF Init, SlotInit, TypeOK, NoUrls
<1>2. SlotsAccounted
  <2>1. \A s \in Sources : Holders(s) = {}
    BY DEF Init, SlotInit, Holders
  <2>2. \A s \in Sources : Cardinality(Holders(s)) = 0
    BY <2>1, FS_EmptySet
  <2>3. \A s \in Sources : count[s] = 0 /\ 0 <= Max[s]
    BY LimitsPositive DEF Init, SlotInit
  <2> QED
    BY <2>2, <2>3 DEF SlotsAccounted
<1>3. StreamsHold /\ Scope /\ Verdicts /\ NoStaleVerdict
  BY DEF Init, SlotInit, StreamsHold, Scope, Verdicts, NoStaleVerdict
<1> QED
  BY <1>1, <1>2, <1>3 DEF IInv

(* A stream that takes a slot it may take is counted.                      *)
LEMMA AcquireAccounted ==
  ASSUME SlotsAccounted, count \in [Sources -> Nat],
         held \in [Streams -> Sources \union {NoSource}],
         NEW h \in Streams, NEW s \in Sources, held[h] = NoSource, Acquire(h, s)
  PROVE  /\ SlotsAccounted'
         /\ count' \in [Sources -> Nat]
         /\ held' \in [Streams -> Sources \union {NoSource}]
<1> USE ConcurrencyAssumption, LimitsPositive
<1>1. \A t \in Sources : IsFiniteSet(Holders(t))
  BY FS_Subset DEF Holders
<1>2. Holders(s)' = Holders(s) \union {h} /\ h \notin Holders(s)
  BY DEF Holders, Acquire
<1>3. \A t \in Sources \ {s} : Holders(t)' = Holders(t)
  BY DEF Holders, Acquire
<1>4. Cardinality(Holders(s)') = Cardinality(Holders(s)) + 1
  BY <1>1, <1>2, FS_AddElement
<1>5. \A t \in Sources \ {s} : Cardinality(Holders(t)') = Cardinality(Holders(t))
  BY <1>3
<1>6. count' \in [Sources -> Nat] /\ held' \in [Streams -> Sources \union {NoSource}]
  BY DEF Acquire
<1>7. \A t \in Sources : count[t] = Cardinality(Holders(t)) /\ count[t] <= Max[t]
  BY DEF SlotsAccounted
<1>8. \A t \in Sources \ {s} : count'[t] = count[t]
  BY DEF Acquire
<1>9. count'[s] = count[s] + 1 /\ count[s] < Max[s] /\ Max[s] \in Nat
  BY DEF Acquire
<1>10. \A t \in Sources : count'[t] = Cardinality(Holders(t)') /\ count'[t] <= Max[t]
  BY <1>4, <1>5, <1>7, <1>8, <1>9
<1> QED
  BY <1>6, <1>10 DEF SlotsAccounted

(* A stream that gives its slot back is uncounted: the counter is not at   *)
(* zero.                                                                   *)
LEMMA ReleaseAccounted ==
  ASSUME SlotsAccounted, count \in [Sources -> Nat],
         held \in [Streams -> Sources \union {NoSource}],
         NEW h \in Streams, held[h] # NoSource, Release(h)
  PROVE  /\ SlotsAccounted'
         /\ count' \in [Sources -> Nat]
         /\ held' \in [Streams -> Sources \union {NoSource}]
<1> USE ConcurrencyAssumption, LimitsPositive
<1>0. PICK s \in Sources : s = held[h]
  OBVIOUS
<1>1. s \in Sources /\ \A t \in Sources : IsFiniteSet(Holders(t))
  BY FS_Subset DEF Holders
<1>2. Holders(s)' = Holders(s) \ {h} /\ h \in Holders(s)
  BY <1>0 DEF Holders, Release
<1>3. \A t \in Sources \ {s} : Holders(t)' = Holders(t)
  BY <1>0 DEF Holders, Release
<1>4. Cardinality(Holders(s)') = Cardinality(Holders(s)) - 1
      /\ Cardinality(Holders(s)') \in Nat
  BY <1>1, <1>2, FS_RemoveElement, FS_CardinalityType
<1>5. \A t \in Sources \ {s} : Cardinality(Holders(t)') = Cardinality(Holders(t))
  BY <1>3
<1>6. count' \in [Sources -> Nat] /\ held' \in [Streams -> Sources \union {NoSource}]
  BY <1>0 DEF Release
<1>7. \A t \in Sources : count[t] = Cardinality(Holders(t)) /\ count[t] <= Max[t]
  BY DEF SlotsAccounted
<1>8. \A t \in Sources \ {s} : count'[t] = count[t]
  BY <1>0 DEF Release
<1>9. count[s] > 0
  BY <1>4, <1>7
<1>10. count'[s] = count[s] - 1
  BY <1>0, <1>9 DEF Release
<1>11. \A t \in Sources : count'[t] = Cardinality(Holders(t)') /\ count'[t] <= Max[t]
  BY <1>4, <1>5, <1>7, <1>8, <1>10
<1> QED
  BY <1>6, <1>11 DEF SlotsAccounted

(* Steps that leave the slots alone keep them accounted for.               *)
LEMMA SlotsUntouched ==
  ASSUME SlotsAccounted, UNCHANGED slotVars
  PROVE  SlotsAccounted'
  BY DEF SlotsAccounted, slotVars, Holders

(* The part of the invariant that is about calls.                          *)
CallInv == TypeOK /\ StreamsHold /\ Scope /\ Verdicts /\ NoStaleVerdict

(* A call that ends leaves nothing behind, and its selection is one of the *)
(* lap's candidates.                                                       *)
LEMMA ReturnKeeps ==
  ASSUME IInv, NEW c \in Calls, NEW s \in Sources \union {NoSource},
         NEW at \in {"selected", "error", "idle", "streaming"}, Return(c, at, s),
         count' \in [Sources -> Nat],
         held' \in [Streams -> Sources \union {NoSource}],
         \A d \in Calls \ {c} : held'[d] = held[d],
         held'[c] # NoSource <=> at = "streaming",
         at = "selected" => pc[c] = "open" /\ s = index[c]
  PROVE  CallInv'
<1> USE BalancerAssumption
<1>1. TypeOK'
  <2>1. /\ lap' \in [Calls -> [n : Nat, max : MaxRetries]]
        /\ \A d \in Calls : lap'[d].n <= IF lap'[d].max > 0 THEN lap'[d].max ELSE 0
    <3>1. lap \in [Calls -> [n : Nat, max : MaxRetries]] /\ lap[c].max \in Int
      BY DEF IInv, TypeOK
    <3>2. lap' = [lap EXCEPT ![c] = [lap[c] EXCEPT !.n = 0]]
      BY DEF Return
    <3>3. lap'[c] = [lap[c] EXCEPT !.n = 0]
      BY <3>1, <3>2
    <3>4. lap'[c] \in [n : Nat, max : MaxRetries] /\ lap'[c].n = 0
          /\ lap'[c].max = lap[c].max
      BY <3>1, <3>3
    <3>5. \A d \in Calls \ {c} : lap'[d] = lap[d]
      BY <3>1, <3>2
    <3>6. lap' \in [Calls -> [n : Nat, max : MaxRetries]]
      BY <3>1, <3>2, <3>4
    <3>7. \A d \in Calls : lap[d].n <= IF lap[d].max > 0 THEN lap[d].max ELSE 0
      BY DEF IInv, TypeOK
    <3> QED
      BY <3>1, <3>4, <3>5, <3>6, <3>7
  <2>2. /\ pc' \in [Calls -> {"idle", "lap", "pick", "probe", "open", "backoff",
                              "selected", "error", "streaming"}]
        /\ urls' \in [Calls -> [Sources -> SUBSET Subs]]
        /\ excluded' \in [Calls -> SUBSET Sources]
        /\ expired' \in [Calls -> BOOLEAN]
    BY DEF IInv, TypeOK, Return, Goto, NoUrls
  <2>3. /\ todo' \in [Calls -> SUBSET Sources]
        /\ done' \in [Calls -> SUBSET Sources]
        /\ index' \in [Calls -> Sources \union {NoSource}]
        /\ launch' \in [Calls -> SUBSET Subs]
        /\ probing' \in [Calls -> SUBSET Subs]
        /\ cands' \in [Calls -> SUBSET Subs]
        /\ tested' \in [Calls -> SUBSET (Sources \X Subs)]
    BY DEF IInv, TypeOK, Return
  <2> QED
    BY <2>1, <2>2, <2>3 DEF TypeOK
<1>2. StreamsHold'
  BY DEF IInv, TypeOK, StreamsHold, Return, Goto
<1>3. Scope'
  BY DEF IInv, TypeOK, Scope, Return, Goto
<1>4. Verdicts' /\ NoStaleVerdict'
  BY DEF IInv, TypeOK, Verdicts, NoStaleVerdict, Return, Goto
<1> QED
  BY <1>1, <1>2, <1>3, <1>4 DEF CallInv

(* A call begins with an empty list of verdicts.                           *)
LEMMA BalanceKeeps ==
  ASSUME IInv, NEW c \in Calls, Balance(c)
  PROVE  CallInv'
<1> USE BalancerAssumption
<1>0. \/ pc' = [pc EXCEPT ![c] = "error"] /\ UNCHANGED <<urls, excluded>>
      \/ \E m \in UrlMaps, ex \in SUBSET Sources :
           /\ pc' = [pc EXCEPT ![c] = "lap"]
           /\ urls' = [urls EXCEPT ![c] = m]
           /\ excluded' = [excluded EXCEPT ![c] = ex]
  BY DEF Balance, Goto
<1>1. TypeOK'
  <2>1. /\ pc' \in [Calls -> {"idle", "lap", "pick", "probe", "open", "backoff",
                              "selected", "error", "streaming"}]
        /\ urls' \in [Calls -> [Sources -> SUBSET Subs]]
        /\ excluded' \in [Calls -> SUBSET Sources]
    <3>1. CASE pc' = [pc EXCEPT ![c] = "error"] /\ UNCHANGED <<urls, excluded>>
      BY <3>1 DEF IInv, TypeOK
    <3>2. CASE \E m \in UrlMaps, ex \in SUBSET Sources :
                 /\ pc' = [pc EXCEPT ![c] = "lap"]
                 /\ urls' = [urls EXCEPT ![c] = m]
                 /\ excluded' = [excluded EXCEPT ![c] = ex]
      <4>1. PICK m \in [Sources -> SUBSET Subs], ex \in SUBSET Sources :
              /\ pc' = [pc EXCEPT ![c] = "lap"]
              /\ urls' = [urls EXCEPT ![c] = m]
              /\ excluded' = [excluded EXCEPT ![c] = ex]
        BY <3>2
      <4> QED
        BY <4>1 DEF IInv, TypeOK
    <3> QED
      BY <1>0, <3>1, <3>2
  <2> QED
    BY <2>1 DEF IInv, TypeOK, Balance, slotVars
<1>2. StreamsHold'
  BY DEF IInv, TypeOK, StreamsHold, Balance, Goto, slotVars
<1>3. Scope'
  <2>1. probing[c] = {}
    BY DEF IInv, Scope, Balance
  <2>2. /\ pc'[c] \in {"error", "lap"}
        /\ \A d \in Calls \ {c} : /\ pc'[d] = pc[d] /\ urls'[d] = urls[d]
                                 /\ excluded'[d] = excluded[d]
    BY <1>0 DEF IInv, TypeOK
  <2>3. UNCHANGED <<lap, todo, index, probing>>
    BY DEF Balance
  <2> QED
    BY <2>1, <2>2, <2>3 DEF IInv, Scope
<1>4. Verdicts' /\ NoStaleVerdict'
  <2>1. tested[c] = {}
    BY DEF IInv, Verdicts, Balance
  <2>2. pc'[c] \in {"error", "lap"} /\ \A d \in Calls \ {c} : pc'[d] = pc[d]
    BY <1>0 DEF IInv, TypeOK
  <2>3. UNCHANGED <<done, index, launch, probing, tested>>
    BY DEF Balance
  <2>4. Verdicts'
    BY <2>1, <2>2, <2>3 DEF IInv, Verdicts
  <2>5. NoStaleVerdict'
    BY <2>1, <2>2, <2>3 DEF IInv, NoStaleVerdict
  <2> QED
    BY <2>4, <2>5
<1> QED
  BY <1>1, <1>2, <1>3, <1>4 DEF CallInv

(* A lap begins: its sources are the candidates.                           *)
LEMMA TryAllStreamsKeeps ==
  ASSUME IInv, NEW c \in Calls, TryAllStreams(c)
  PROVE  CallInv'
<1> USE BalancerAssumption
<1>0. PICK conf \in Configurations :
        /\ todo' = [todo EXCEPT ![c] = Candidates(conf, urls[c], excluded[c])]
        /\ Goto(c, IF Available(conf, urls[c]) = {} THEN "backoff" ELSE "pick")
  BY DEF TryAllStreams
<1>1. TypeOK'
  <2>1. todo' \in [Calls -> SUBSET Sources]
    <3>1. Candidates(conf, urls[c], excluded[c]) \in SUBSET Sources
      BY CandidatesAreSources
    <3> QED
      BY <1>0, <3>1 DEF IInv, TypeOK
  <2>2. pc' \in [Calls -> {"idle", "lap", "pick", "probe", "open", "backoff",
                           "selected", "error", "streaming"}]
    BY <1>0 DEF IInv, TypeOK, Goto
  <2> QED
    BY <2>1, <2>2 DEF IInv, TypeOK, TryAllStreams, slotVars
<1>2. StreamsHold'
  BY <1>0 DEF IInv, TypeOK, StreamsHold, TryAllStreams, Goto, slotVars
<1>3. Scope'
  <2>1. pc'[c] \in {"pick", "backoff"} /\ \A d \in Calls \ {c} : pc'[d] = pc[d]
    BY <1>0 DEF IInv, TypeOK, Goto
  <2>2. UNCHANGED <<urls, excluded, lap, index, probing>> /\ pc[c] = "lap"
    BY DEF TryAllStreams
  <2>3. lap[c].max # 0 => lap[c].n < lap[c].max
    <3>1. lap[c].n \in Nat /\ lap[c].max \in Int
      BY DEF IInv, TypeOK
    <3>2. ~Exhausted(c)
      BY DEF TryAllStreams
    <3> QED
      BY <3>1, <3>2 DEF Exhausted
  <2>4. todo'[c] \subseteq Allowed(urls[c], excluded[c])
    BY <1>0 DEF IInv, TypeOK, Allowed
  <2>5. \A d \in Calls \ {c} : todo'[d] = todo[d]
    BY <1>0 DEF IInv, TypeOK
  <2> QED
    BY <2>1, <2>2, <2>3, <2>4, <2>5 DEF IInv, Scope
<1>4. Verdicts' /\ NoStaleVerdict'
  BY <1>0 DEF IInv, TypeOK, Verdicts, NoStaleVerdict, TryAllStreams, Goto
<1> QED
  BY <1>1, <1>2, <1>3, <1>4 DEF CallInv

(* The source picked is new to the lap, so no verdict is about it.         *)
LEMMA NextSourceKeeps ==
  ASSUME IInv, NEW c \in Calls, NextSource(c)
  PROVE  CallInv'
<1> USE BalancerAssumption
<1>1. TypeOK'
  <2>1. PICK s \in todo[c] \ done[c] :
          /\ done' = [done EXCEPT ![c] = @ \union {s}]
          /\ index' = [index EXCEPT ![c] = s]
          /\ launch' = [launch EXCEPT ![c] = urls[c][s]]
          /\ pc' = [pc EXCEPT ![c] = IF urls[c][s] = {} THEN "pick" ELSE "probe"]
    BY DEF NextSource, Goto
  <2>2. s \in Sources /\ urls[c][s] \in SUBSET Subs
    BY DEF IInv, TypeOK
  <2>3. /\ done' \in [Calls -> SUBSET Sources]
        /\ index' \in [Calls -> Sources \union {NoSource}]
        /\ launch' \in [Calls -> SUBSET Subs]
    BY <2>1, <2>2 DEF IInv, TypeOK
  <2>4. pc' \in [Calls -> {"idle", "lap", "pick", "probe", "open", "backoff",
                           "selected", "error", "streaming"}]
    BY <2>1 DEF IInv, TypeOK
  <2> QED
    BY <2>3, <2>4 DEF IInv, TypeOK, NextSource, slotVars
<1>2. StreamsHold'
  BY DEF IInv, TypeOK, StreamsHold, NextSource, Goto, slotVars
<1>3. Scope'
  <2>1. PICK s \in todo[c] \ done[c] :
          /\ index' = [index EXCEPT ![c] = s]
          /\ pc' = [pc EXCEPT ![c] = IF urls[c][s] = {} THEN "pick" ELSE "probe"]
    BY DEF NextSource, Goto
  <2>2. /\ index'[c] = s
        /\ pc'[c] = IF urls[c][s] = {} THEN "pick" ELSE "probe"
        /\ \A d \in Calls \ {c} : pc'[d] = pc[d] /\ index'[d] = index[d]
    BY <2>1 DEF IInv, TypeOK
  <2>3. /\ pc[c] = "pick" /\ probing[c] = {}
        /\ UNCHANGED <<urls, excluded, lap, todo, probing>>
    BY DEF IInv, Scope, NextSource
  <2> QED
    BY <2>2, <2>3 DEF IInv, Scope
<1>4. Verdicts' /\ NoStaleVerdict'
  <2>1. PICK s \in todo[c] \ done[c] :
          /\ done' = [done EXCEPT ![c] = @ \union {s}]
          /\ index' = [index EXCEPT ![c] = s]
          /\ launch' = [launch EXCEPT ![c] = urls[c][s]]
    BY DEF NextSource
  <2>2. s \in Sources /\ urls[c][s] \subseteq Subs /\ probing[c] = {}
    BY DEF IInv, TypeOK, Scope, NextSource
  <2>3. \A u \in Subs : <<s, u>> \notin tested[c]
    BY <2>1, <2>2 DEF IInv, Verdicts
  <2>4. /\ pc'[c] \in {"pick", "probe"}
        /\ \A d \in Calls \ {c} : pc'[d] = pc[d]
        /\ UNCHANGED <<probing, tested>>
    BY DEF IInv, TypeOK, NextSource, Goto
  <2>5. Verdicts'
    BY <2>1, <2>2, <2>4 DEF IInv, TypeOK, Verdicts
  <2>6. NoStaleVerdict'
    BY <2>1, <2>2, <2>3, <2>4 DEF IInv, TypeOK, NoStaleVerdict
  <2> QED
    BY <2>5, <2>6
<1> QED
  BY <1>1, <1>2, <1>3, <1>4 DEF CallInv

(* A URL is probed or passed over.                                         *)
LEMMA LaunchProbeKeeps ==
  ASSUME IInv, NEW c \in Calls, LaunchProbe(c)
  PROVE  CallInv'
<1> USE BalancerAssumption
<1>1. TypeOK'
  BY CandidatesAreSources DEF IInv, TypeOK, Scope, LaunchProbe, Goto, slotVars
<1>2. StreamsHold'
  BY DEF IInv, TypeOK, StreamsHold, LaunchProbe, Goto, slotVars
<1>3. Scope'
  <2>1. /\ pc[c] = "probe"
        /\ \A d \in Calls \ {c} : probing'[d] = probing[d]
        /\ UNCHANGED <<pc, urls, excluded, lap, todo, index>>
    BY DEF IInv, TypeOK, LaunchProbe
  <2> QED
    BY <2>1 DEF IInv, Scope
<1>4. Verdicts' /\ NoStaleVerdict'
  BY DEF IInv, TypeOK, Verdicts, NoStaleVerdict, LaunchProbe, Goto
<1> QED
  BY <1>1, <1>2, <1>3, <1>4 DEF CallInv

(* All probes of the source have ended.                                    *)
LEMMA ProbesDoneKeeps ==
  ASSUME IInv, NEW c \in Calls, ProbesDone(c)
  PROVE  CallInv'
<1> USE BalancerAssumption
<1>1. TypeOK'
  BY CandidatesAreSources DEF IInv, TypeOK, Scope, ProbesDone, Goto, slotVars
<1>2. StreamsHold'
  BY DEF IInv, TypeOK, StreamsHold, ProbesDone, Goto, slotVars
<1>3. Scope'
  BY DEF IInv, TypeOK, Scope, ProbesDone, Goto
<1>4. Verdicts' /\ NoStaleVerdict'
  BY DEF IInv, TypeOK, Verdicts, NoStaleVerdict, ProbesDone, Goto
<1> QED
  BY <1>1, <1>2, <1>3, <1>4 DEF CallInv

(* The sources of the lap are used up.                                     *)
LEMMA LapFailsKeeps ==
  ASSUME IInv, NEW c \in Calls, LapFails(c)
  PROVE  CallInv'
<1> USE BalancerAssumption
<1>1. TypeOK'
  BY CandidatesAreSources DEF IInv, TypeOK, Scope, LapFails, Goto, slotVars
<1>2. StreamsHold'
  BY DEF IInv, TypeOK, StreamsHold, LapFails, Goto, slotVars
<1>3. Scope'
  BY DEF IInv, TypeOK, Scope, LapFails, Goto
<1>4. Verdicts' /\ NoStaleVerdict'
  BY DEF IInv, TypeOK, Verdicts, NoStaleVerdict, LapFails, Goto
<1> QED
  BY <1>1, <1>2, <1>3, <1>4 DEF CallInv

(* The next lap begins without verdicts.                                   *)
LEMMA NextLapKeeps ==
  ASSUME IInv, NEW c \in Calls, NextLap(c)
  PROVE  CallInv'
<1> USE BalancerAssumption
<1>1. TypeOK'
  <2>1. /\ lap' \in [Calls -> [n : Nat, max : MaxRetries]]
        /\ \A d \in Calls : lap'[d].n <= IF lap'[d].max > 0 THEN lap'[d].max ELSE 0
    BY DEF IInv, TypeOK, Scope, NextLap
  <2> QED
    BY <2>1 DEF IInv, TypeOK, NextLap, Goto, slotVars
<1>2. StreamsHold'
  BY DEF IInv, TypeOK, StreamsHold, NextLap, Goto, slotVars
<1>3. Scope'
  BY DEF IInv, TypeOK, Scope, NextLap, Goto
<1>4. Verdicts' /\ NoStaleVerdict'
  BY DEF IInv, TypeOK, Verdicts, NoStaleVerdict, NextLap, Goto
<1> QED
  BY <1>1, <1>2, <1>3, <1>4 DEF CallInv

(* The deadline passes.                                                    *)
LEMMA ExpireKeeps ==
  ASSUME IInv, NEW c \in Calls, Expire(c)
  PROVE  CallInv'
<1> USE BalancerAssumption
<1>1. TypeOK'
  BY CandidatesAreSources DEF IInv, TypeOK, Scope, Expire, Goto, InCall, slotVars
<1>2. StreamsHold'
  BY DEF IInv, TypeOK, StreamsHold, Expire, Goto, InCall, slotVars
<1>3. Scope'
  BY DEF IInv, TypeOK, Scope, Expire, Goto, InCall
<1>4. Verdicts' /\ NoStaleVerdict'
  BY DEF IInv, TypeOK, Verdicts, NoStaleVerdict, Expire, Goto, InCall
<1> QED
  BY <1>1, <1>2, <1>3, <1>4 DEF CallInv

(* A probe's verdict is about a URL that has been launched.                *)
LEMMA ProbeEndsKeeps ==
  ASSUME IInv, NEW c \in Calls, NEW u \in Subs, ProbeEnds(c, u)
  PROVE  CallInv'
<1> USE BalancerAssumption
<1>0. pc[c] = "probe" /\ index[c] \in Sources
  BY CandidatesAreSources DEF IInv, Scope, ProbeEnds
<1>1. TypeOK'
  <2>1. /\ probing' \in [Calls -> SUBSET Subs]
        /\ cands' \in [Calls -> SUBSET Subs]
        /\ tested' \in [Calls -> SUBSET (Sources \X Subs)]
    <3>1. CASE cands' = [cands EXCEPT ![c] = @ \union {u}] /\ UNCHANGED tested
      BY <3>1 DEF IInv, TypeOK, ProbeEnds
    <3>2. CASE tested' = [tested EXCEPT ![c] = @ \union {<<index[c], u>>}]
               /\ UNCHANGED cands
      <4>1. <<index[c], u>> \in Sources \X Subs
        BY <1>0
      <4> QED
        BY <3>2, <4>1 DEF IInv, TypeOK, ProbeEnds
    <3> QED
      BY <3>1, <3>2 DEF ProbeEnds
  <2> QED
    BY <2>1 DEF IInv, TypeOK, ProbeEnds, slotVars
<1>2. StreamsHold'
  BY DEF IInv, StreamsHold, ProbeEnds, slotVars
<1>3. Scope'
  <2>1. /\ UNCHANGED <<pc, urls, excluded, lap, todo, index>>
        /\ \A d \in Calls \ {c} : probing'[d] = probing[d]
    BY DEF IInv, TypeOK, ProbeEnds
  <2> QED
    BY <1>0, <2>1 DEF IInv, Scope
<1>4. Verdicts' /\ NoStaleVerdict'
  <2>1. /\ probing' = [probing EXCEPT ![c] = @ \ {u}]
        /\ UNCHANGED <<pc, done, index, launch>>
        /\ u \notin launch[c]
        /\ index[c] \in done[c] \/ tested' = tested
    BY <1>0 DEF IInv, Verdicts, ProbeEnds
  <2>2. /\ \A d \in Calls \ {c} : tested'[d] = tested[d]
        /\ \A x \in tested'[c] : x \in tested[c] \/ x = <<index[c], u>>
    BY DEF IInv, TypeOK, ProbeEnds
  <2>3. Verdicts'
    BY <1>0, <2>1, <2>2 DEF IInv, TypeOK, Verdicts
  <2>4. NoStaleVerdict'
    BY <1>0, <2>1, <2>2 DEF IInv, TypeOK, NoStaleVerdict
  <2> QED
    BY <2>3, <2>4
<1> QED
  BY <1>1, <1>2, <1>3, <1>4 DEF CallInv

(* The remaining steps of a call end it, or drop a candidate.              *)
LEMMA OpenKeeps ==
  ASSUME IInv, NEW c \in Calls, OpenCandidate(c) \/ SourceFails(c)
  PROVE  CallInv'
<1> USE BalancerAssumption
<1>0. /\ pc[c] = "open" /\ index[c] \in Sources /\ UNCHANGED slotVars
      /\ held[c] = NoSource
  BY CandidatesAreSources DEF IInv, TypeOK, Scope, StreamsHold, OpenCandidate, SourceFails
<1>1. CASE Return(c, "selected", index[c])
  BY <1>0, <1>1, ReturnKeeps DEF IInv, TypeOK, slotVars
<1>2. CASE Return(c, "error", NoSource)
  BY <1>0, <1>2, ReturnKeeps DEF IInv, TypeOK, slotVars
<1>3. CASE /\ pc' = [pc EXCEPT ![c] = "pick"]
           /\ UNCHANGED <<urls, excluded, expired, lap, todo, done, index,
                          launch, probing, cands, tested>>
  <2>1. TypeOK' /\ StreamsHold'
    BY <1>0, <1>3 DEF IInv, TypeOK, StreamsHold, slotVars
  <2>2. Scope' /\ Verdicts' /\ NoStaleVerdict'
    BY <1>0, <1>3 DEF IInv, TypeOK, Scope, Verdicts, NoStaleVerdict
  <2> QED
    BY <2>1, <2>2 DEF CallInv
<1>4. ASSUME NEW u \in cands[c],
             cands' = [cands EXCEPT ![c] = @ \ {u}],
             tested' = [tested EXCEPT ![c] = @ \union {<<index[c], u>>}],
             UNCHANGED <<pc, urls, excluded, expired, lap, todo, done, index,
                         launch, probing>>
      PROVE  CallInv'
  <2>1. <<index[c], u>> \in Sources \X Subs
    BY <1>0 DEF IInv, TypeOK
  <2>2. TypeOK' /\ StreamsHold'
    BY <1>0, <1>4, <2>1 DEF IInv, TypeOK, StreamsHold, slotVars
  <2>3. Scope'
    BY <1>4 DEF IInv, Scope
  <2>4. Verdicts' /\ NoStaleVerdict'
    BY <1>0, <1>4 DEF IInv, TypeOK, Verdicts, NoStaleVerdict
  <2> QED
    BY <2>2, <2>3, <2>4 DEF CallInv
<1> QED
  BY <1>1, <1>2, <1>3, <1>4 DEF OpenCandidate, SourceFails, Goto

(* Every step keeps the invariant.                                         *)
LEMMA NextIInv == IInv /\ [Next]_vars => IInv'
<1> SUFFICES ASSUME IInv, [Next]_vars PROVE IInv'
  OBVIOUS
<1> USE BalancerAssumption
<1>1. ASSUME NEW c \in Calls,
             \/ Balance(c) \/ TryAllStreams(c) \/ NextSource(c) \/ LaunchProbe(c)
             \/ ProbesDone(c) \/ LapFails(c) \/ NextLap(c) \/ Expire(c)
      PROVE  CallInv' /\ UNCHANGED slotVars
  BY <1>1, BalanceKeeps, TryAllStreamsKeeps, NextSourceKeeps, LaunchProbeKeeps,
     ProbesDoneKeeps, LapFailsKeeps, NextLapKeeps, ExpireKeeps
     DEF Balance, TryAllStreams, NextSource, LaunchProbe, ProbesDone, LapFails,
         NextLap, Expire
<1>2. ASSUME NEW c \in Calls, NEW u \in Subs, ProbeEnds(c, u)
      PROVE  CallInv' /\ UNCHANGED slotVars
  BY <1>2, ProbeEndsKeeps DEF ProbeEnds
<1>3. ASSUME NEW c \in Calls, OpenCandidate(c) \/ SourceFails(c)
      PROVE  CallInv' /\ UNCHANGED slotVars
  BY <1>3, OpenKeeps DEF OpenCandidate, SourceFails
<1>4. ASSUME NEW c \in Calls, GiveUp(c) \/ BackoffInterrupted(c)
      PROVE  CallInv' /\ UNCHANGED slotVars
  <2>1. Return(c, "error", NoSource) /\ UNCHANGED slotVars /\ held[c] = NoSource
    BY <1>4 DEF GiveUp, BackoffInterrupted, IInv, StreamsHold
  <2> QED
    BY <2>1, ReturnKeeps DEF IInv, TypeOK, slotVars
<1>5. ASSUME NEW c \in Calls, ErrorHandled(c)
      PROVE  CallInv' /\ UNCHANGED slotVars
  <2>1. Return(c, "idle", NoSource) /\ UNCHANGED slotVars /\ held[c] = NoSource
    BY <1>5 DEF ErrorHandled, IInv, StreamsHold
  <2> QED
    BY <2>1, ReturnKeeps DEF IInv, TypeOK, slotVars
<1>6. ASSUME NEW c \in Calls, StreamStarts(c)
      PROVE  CallInv' /\ SlotsAccounted'
  <2>0. held[c] = NoSource /\ index[c] \in Sources /\ c \in Streams
    BY <1>6, CandidatesAreSources DEF StreamStarts, IInv, StreamsHold, Scope
  <2>1. CASE Acquire(c, index[c]) /\ Return(c, "streaming", NoSource)
    <3>1. /\ SlotsAccounted' /\ count' \in [Sources -> Nat]
          /\ held' \in [Streams -> Sources \union {NoSource}]
      BY <2>0, <2>1, AcquireAccounted DEF IInv, TypeOK
    <3>2. held'[c] # NoSource /\ \A d \in Calls \ {c} : held'[d] = held[d]
      BY <2>0, <2>1, ConcurrencyAssumption DEF Acquire, IInv, TypeOK
    <3> QED
      BY <2>1, <3>1, <3>2, ReturnKeeps
  <2>2. CASE Return(c, "idle", NoSource) /\ UNCHANGED slotVars
    BY <2>0, <2>2, ReturnKeeps, SlotsUntouched DEF IInv, TypeOK, slotVars
  <2> QED
    BY <1>6, <2>1, <2>2 DEF StreamStarts
<1>7. ASSUME NEW c \in Calls, StreamEnds(c)
      PROVE  CallInv' /\ SlotsAccounted'
  <2>1. held[c] # NoSource /\ c \in Streams /\ Release(c) /\ Return(c, "idle", NoSource)
    BY <1>7 DEF StreamEnds, IInv, StreamsHold
  <2>2. /\ SlotsAccounted' /\ count' \in [Sources -> Nat]
        /\ held' \in [Streams -> Sources \union {NoSource}]
    BY <2>1, ReleaseAccounted DEF IInv, TypeOK
  <2>3. held'[c] = NoSource /\ \A d \in Calls \ {c} : held'[d] = held[d]
    BY <2>1 DEF Release, IInv, TypeOK
  <2> QED
    BY <2>1, <2>2, <2>3, ReturnKeeps
<1>8. ASSUME NEW h \in Streams \ Calls, OtherStream(h)
      PROVE  CallInv' /\ SlotsAccounted'
  <2>1. /\ SlotsAccounted' /\ count' \in [Sources -> Nat]
        /\ held' \in [Streams -> Sources \union {NoSource}]
    BY <1>8, AcquireAccounted, ReleaseAccounted DEF OtherStream, IInv, TypeOK
  <2>2. \A d \in Calls : held'[d] = held[d]
    BY <1>8 DEF OtherStream, Acquire, Release, IInv, TypeOK
  <2>3. UNCHANGED callVars
    BY <1>8 DEF OtherStream
  <2>4. TypeOK'
    BY <2>1, <2>3 DEF IInv, TypeOK, callVars
  <2>5. StreamsHold'
    BY <2>2, <2>3 DEF IInv, StreamsHold, callVars
  <2>6. Scope' /\ Verdicts' /\ NoStaleVerdict'
    BY <2>3 DEF IInv, Scope, Verdicts, NoStaleVerdict, callVars
  <2> QED
    BY <2>1, <2>4, <2>5, <2>6 DEF CallInv
<1>9. CASE UNCHANGED vars
  BY <1>9, SlotsUntouched DEF vars, slotVars, callVars, IInv, TypeOK, StreamsHold,
     Scope, Verdicts, NoStaleVerdict
<1>10. ASSUME CallInv', UNCHANGED slotVars PROVE IInv'
  BY <1>10, SlotsUntouched DEF IInv, CallInv
<1>11. ASSUME CallInv', SlotsAccounted' PROVE IInv'
  BY <1>11 DEF IInv, CallInv
<1> QED
  BY <1>1, <1>2, <1>3, <1>4, <1>5, <1>6, <1>7, <1>8, <1>9, <1>10, <1>11
     DEF Next, CallStep

-----------------------------------------------------------------------------
(* The invariant holds in every reachable state.                           *)
THEOREM Inductive == Spec => []IInv
<1> QED
  BY InitIInv, NextIInv, PTL DEF Spec

(* Counters, positions and lists of every call keep their types, and no    *)
(* call makes more laps than MAX_RETRIES.                                  *)
THEOREM TypeCorrect == Spec => []TypeOK
<1>1. IInv => TypeOK
  BY DEF IInv
<1> QED
  BY <1>1, Inductive, PTL

(* The connection counters are exact and within the limits, however        *)
(* streams start, end and race for the last slot.                          *)
THEOREM SlotsAlwaysAccounted == Spec => []SlotsAccounted
<1>1. IInv => SlotsAccounted
  BY DEF IInv
<1> QED
  BY <1>1, Inductive, PTL

(* No URL is passed over because of an earlier lap.                        *)
THEOREM VerdictsAreFresh == Spec => []NoStaleVerdict
<1>1. IInv => NoStaleVerdict
  BY DEF IInv
<1> QED
  BY <1>1, Inductive, PTL

-----------------------------------------------------------------------------
(* The three filters of tryAllStreams together are the rule of Selection.  *)
LEMMA CandidatesAllowed ==
  ASSUME NEW m, NEW ex, NEW s \in Allowed(m, ex), m[s] # {}
  PROVE  \E conf \in {k \union Discovered : k \in Configurations} :
           /\ s \in Promise!Carriers(conf, m)
           /\ s \in ex => Promise!Carriers(conf, m) \subseteq ex
<1>1. PICK k \in Configurations : s \in Candidates(k, m, ex)
  BY DEF Allowed
<1> DEFINE conf == k \union Discovered
<1>2. s \in Available(k, m)
  BY <1>1 DEF Candidates
<1>3. Available(k, m) = Promise!Carriers(conf, m)
  <2>1. {r \in WithDiscovered(k, m) : m[r] # {}} = Promise!Carriers(conf, m)
    BY DEF WithDiscovered, Promise!Carriers
  <2>2. s \in WithDiscovered(k, m)
    BY <1>2 DEF Available
  <2> QED
    BY <2>1, <2>2 DEF Available
<1>4. s \in ex => Promise!Carriers(conf, m) \subseteq ex
  BY <1>1, <1>3 DEF Candidates
<1> QED
  BY <1>2, <1>3, <1>4

(* A step that ends a call without a selection.                            *)
LEMMA ErrorMaps ==
  ASSUME IInv, NEW c \in Calls, InCall(c), Return(c, "error", NoSource)
  PROVE  Promise!Fail(c)
  BY DEF IInv, TypeOK, Promise!Fail, Return, Goto, Phase, InCall, NoUrls

(* A step inside a call.                                                   *)
LEMMA InnerStepMaps ==
  ASSUME IInv, NEW c \in Calls, InCall(c),
         NEW at \in {"lap", "pick", "probe", "open", "backoff"},
         pc' = [pc EXCEPT ![c] = at], UNCHANGED <<urls, excluded>>,
         \A d \in Calls \ {c} : index'[d] = index[d]
  PROVE  UNCHANGED Promise!vars
<1>1. [d \in Calls |-> Phase(d)]' = [d \in Calls |-> Phase(d)]
  BY DEF IInv, TypeOK, Phase, InCall
<1>2. [d \in Calls |-> IF pc[d] = "selected" THEN index[d] ELSE NoSource]'
      = [d \in Calls |-> IF pc[d] = "selected" THEN index[d] ELSE NoSource]
  BY DEF IInv, TypeOK, InCall
<1> QED
  BY <1>1, <1>2 DEF Promise!vars

(* The caller is done with a result, or uses it.                           *)
LEMMA UseMaps ==
  ASSUME IInv, NEW c \in Calls, pc[c] \in {"selected", "error", "streaming"},
         NEW at \in {"idle", "streaming"}, Return(c, at, NoSource)
  PROVE  Promise!Use(c)
  BY DEF IInv, TypeOK, Promise!Use, Return, Goto, Phase, InCall, NoUrls

(* The call returns a candidate.                                           *)
LEMMA SelectedMaps ==
  ASSUME IInv, NEW c \in Calls, pc[c] = "open", Return(c, "selected", index[c])
  PROVE  Promise!Answer(c)
<1>1. \E conf \in {k \union Discovered : k \in Configurations} :
        /\ index[c] \in Promise!Carriers(conf, urls[c])
        /\ index[c] \in excluded[c] => Promise!Carriers(conf, urls[c]) \subseteq excluded[c]
  BY CandidatesAllowed DEF IInv, Scope
<1>2. /\ [d \in Calls |-> Phase(d)]' =
           [[d \in Calls |-> Phase(d)] EXCEPT ![c] = "answered"]
      /\ Phase(c) = "asked"
  BY DEF IInv, TypeOK, Return, Goto, Phase, InCall
<1>3. [d \in Calls |-> IF pc[d] = "selected" THEN index[d] ELSE NoSource]' =
      [[d \in Calls |-> IF pc[d] = "selected" THEN index[d] ELSE NoSource]
         EXCEPT ![c] = index[c]]
  BY DEF IInv, TypeOK, Return, Goto
<1>4. UNCHANGED <<urls, excluded>>
  BY DEF IInv, TypeOK, Return
<1> QED
  BY <1>1, <1>2, <1>3, <1>4 DEF Promise!Answer

(* Balance, if the slug has URLs, is the question.                         *)
LEMMA BalanceMaps ==
  ASSUME IInv, NEW c \in Calls, Balance(c)
  PROVE  Promise!Ask(c) \/ Promise!Fail(c)
<1>1. /\ [d \in Calls |-> IF pc[d] = "selected" THEN index[d] ELSE NoSource]' =
         [d \in Calls |-> IF pc[d] = "selected" THEN index[d] ELSE NoSource]
  BY DEF IInv, TypeOK, Balance, Goto
<1>2. CASE /\ pc' = [pc EXCEPT ![c] = "error"]
           /\ UNCHANGED <<urls, excluded>>
  <2>1. /\ [d \in Calls |-> Phase(d)]' =
             [[d \in Calls |-> Phase(d)] EXCEPT ![c] = "failed"]
        /\ Phase(c) = "idle"
    BY <1>2 DEF IInv, TypeOK, Balance, Phase, InCall
  <2>2. urls[c] = NoUrls /\ excluded[c] = {}
    BY DEF IInv, StreamsHold, Balance
  <2> QED
    BY <1>1, <1>2, <2>1, <2>2 DEF Promise!Fail, IInv, TypeOK
<1>3. CASE \E m \in UrlMaps, ex \in SUBSET Sources :
             /\ pc' = [pc EXCEPT ![c] = "lap"]
             /\ urls' = [urls EXCEPT ![c] = m]
             /\ excluded' = [excluded EXCEPT ![c] = ex]
  <2>1. /\ [d \in Calls |-> Phase(d)]' =
             [[d \in Calls |-> Phase(d)] EXCEPT ![c] = "asked"]
        /\ Phase(c) = "idle"
    BY <1>3 DEF IInv, TypeOK, Balance, Phase, InCall
  <2> QED
    BY <1>1, <1>3, <2>1 DEF Promise!Ask
<1> QED
  BY <1>2, <1>3 DEF Balance, Goto

(* Every step of Balance is a step of Selection or none.                   *)
LEMMA NextMaps == IInv /\ [Next]_vars => [Promise!Next]_(Promise!vars)
<1> SUFFICES ASSUME IInv, [Next]_vars PROVE Promise!Next \/ UNCHANGED Promise!vars
  OBVIOUS
<1>1. ASSUME NEW c \in Calls, Balance(c) PROVE Promise!Next
  BY <1>1, BalanceMaps DEF Promise!Next
<1>2. ASSUME NEW c \in Calls,
             \/ TryAllStreams(c) \/ NextSource(c) \/ LaunchProbe(c)
             \/ ProbesDone(c) \/ LapFails(c) \/ NextLap(c) \/ Expire(c)
             \/ \E u \in Subs : ProbeEnds(c, u)
      PROVE  UNCHANGED Promise!vars
  <2>1. InCall(c)
    BY <1>2 DEF IInv, Scope, InCall, TryAllStreams, NextSource, LaunchProbe,
       ProbesDone, LapFails, NextLap, Expire, ProbeEnds
  <2>2. UNCHANGED <<urls, excluded>> /\ \A d \in Calls \ {c} : index'[d] = index[d]
    BY <1>2 DEF IInv, TypeOK, TryAllStreams, NextSource, LaunchProbe,
       ProbesDone, LapFails, NextLap, Expire, ProbeEnds
  <2>3. \E at \in {"lap", "pick", "probe", "open", "backoff"} :
          pc' = [pc EXCEPT ![c] = at]
    <3>1. CASE UNCHANGED pc
      BY <2>1, <3>1 DEF IInv, TypeOK, InCall
    <3>2. CASE ~UNCHANGED pc
      BY <1>2, <3>2 DEF Goto, TryAllStreams, NextSource, LaunchProbe,
         ProbesDone, LapFails, NextLap, Expire, ProbeEnds
    <3> QED
      BY <3>1, <3>2
  <2> QED
    BY <2>1, <2>2, <2>3, InnerStepMaps
<1>3. ASSUME NEW c \in Calls, GiveUp(c) \/ BackoffInterrupted(c) PROVE Promise!Next
  <2>1. InCall(c) /\ Return(c, "error", NoSource)
    BY <1>3 DEF GiveUp, BackoffInterrupted, InCall
  <2> QED
    BY <2>1, ErrorMaps DEF Promise!Next
<1>4. ASSUME NEW c \in Calls, OpenCandidate(c) \/ SourceFails(c)
      PROVE  Promise!Next \/ UNCHANGED Promise!vars
  <2>0. pc[c] = "open" /\ InCall(c)
    BY <1>4 DEF OpenCandidate, SourceFails, InCall
  <2>1. CASE Return(c, "selected", index[c])
    BY <2>0, <2>1, SelectedMaps DEF Promise!Next
  <2>2. CASE Return(c, "error", NoSource)
    BY <2>0, <2>2, ErrorMaps DEF Promise!Next
  <2>3. CASE pc' = [pc EXCEPT ![c] = "pick"] /\ UNCHANGED <<urls, excluded, index>>
    BY <2>0, <2>3, InnerStepMaps
  <2>4. CASE UNCHANGED <<pc, urls, excluded, index>>
    BY <2>4 DEF Promise!vars, Phase, InCall
  <2> QED
    BY <1>4, <2>1, <2>2, <2>3, <2>4 DEF OpenCandidate, SourceFails, Goto
<1>5. ASSUME NEW c \in Calls, StreamStarts(c) \/ StreamEnds(c) \/ ErrorHandled(c)
      PROVE  Promise!Next
  <2>1. \E at \in {"idle", "streaming"} : Return(c, at, NoSource)
    BY <1>5 DEF StreamStarts, StreamEnds, ErrorHandled
  <2>2. pc[c] \in {"selected", "error", "streaming"}
    BY <1>5 DEF StreamStarts, StreamEnds, ErrorHandled
  <2> QED
    BY <2>1, <2>2, UseMaps DEF Promise!Next
<1>6. ASSUME NEW h \in Streams \ Calls, OtherStream(h) PROVE UNCHANGED Promise!vars
  BY <1>6 DEF OtherStream, callVars, Promise!vars, Phase, InCall
<1>7. CASE UNCHANGED vars
  BY <1>7 DEF vars, callVars, Promise!vars, Phase, InCall
<1> QED
  BY <1>1, <1>2, <1>3, <1>4, <1>5, <1>6, <1>7 DEF Next, CallStep

(* Balance keeps the promise that the stream handlers rely on.             *)
THEOREM ImplementsSelection == Spec => SelectionSpec
<1>1. Init => Promise!Init
  BY DEF Init, Promise!Init, Phase, InCall
<1>2. IInv /\ [Next]_vars => [Promise!Next]_(Promise!vars)
  BY NextMaps
<1> QED
  BY <1>1, <1>2, Inductive, PTL DEF Spec, SelectionSpec, Promise!Spec
=============================================================================

------------------------- MODULE StreamSessionProofs -------------------------
(***************************************************************************)
(* Proofs about StreamSession for any finite set of clients, any sources   *)
(* and any ring size.                                                      *)
(*                                                                         *)
(* None of its invariants is inductive. SingleWriter needs to know who     *)
(* holds InitializationMu and when WriterActive is set (Mutex,             *)
(* ActiveFlag); PublishedWhileActive at which places of the goroutine its  *)
(* result is still published, a panic included (Published, StatusSet);     *)
(* CleanWhenUnused that the context and the chunks a client leaves behind  *)
(* always have another client that will clear them (ContextHeld,           *)
(* RingWatched), and this rests on the count (CountMatches).               *)
(*                                                                         *)
(* The last part is about Registry, which hands the clients of a session   *)
(* their coordinator.                                                      *)
(***************************************************************************)
EXTENDS StreamSession, RegistryState, FiniteSetTheorems, WellFoundedInduction, TLAPS

-----------------------------------------------------------------------------
(* Places of a client and of the writer.                                   *)

(* The read loop, as in InReadLoop.                                        *)
ReadPlaces == {"read", "subscribe", "parked", "deliver", "headers",
               "headersLost", "write"}

(* Places where a client is counted.                                       *)
Counted == ReadPlaces \union {"attach", "leave"}

(* The places of HandleStream after the client was uncounted, up to the    *)
(* writer's cancellation.                                                  *)
Leaving == {"drain", "clear", "notify", "recount", "cancel"}

(* Places where a handler holds no load balancer result.                   *)
Unbalanced == {"idle", "start", "claim", "wait", "waiting", "balance", "pause"}

Places == Unbalanced \union Counted \union
  {"peek", "init", "spawn", "register", "drain", "clear", "notify", "recount",
   "cancel", "clearAgain", "exit"}

(* Places of the writer while its result may be published.                 *)
Serving == {"finish", "acquire", "openHeaders", "loop", "reading", "notify",
            "fail", "failNotify", "close", "release", "unpublish"}

WriterPlaces == Serving \union {"none", "start", "publish", "exit", "exitFinish"}

WriterType ==
  [pc : WriterPlaces, src : Sources \union {None},
   ctx : {"nil", "live", "cancelled"}, slot : BOOLEAN,
   status : ChunkStatus \union {None}, panicked : BOOLEAN]

(* TypeOK without the count, and the places.                               *)
Types ==
  /\ state \in {"active", "draining", "closed"}
  /\ writerActive \in BOOLEAN /\ setupBusy \in BOOLEAN
  /\ waiting \subseteq Clients /\ subscribed \subseteq Clients
  /\ lbOnWrite \in Sources \union {None}
  /\ initMu \in Clients \union {"writer", None}
  /\ writerCtx \in {"nil", "live"} /\ headers \in {"open", "closed"}
  /\ ring \in [1..N -> {"empty", "data"} \union ChunkStatus]
  /\ written \in 0..(N + 1)
  /\ writer \in WriterType
  /\ pc \in [Clients -> Places]
  /\ lb \in [Clients -> Sources \union {None}]
  /\ failed \in [Clients -> SUBSET Sources]
  /\ behind \in [Clients -> 0..(N - 1)]
  /\ result \in [Clients -> ChunkStatus \union {"gone", None}]

(* A handler past the load balancing has a source.                         *)
Balanced == \A c \in Clients : pc[c] \notin Unbalanced => lb[c] \in Sources

(* A writer about to report an error has a status; one that panicked runs  *)
(* only its deferred calls and the recovery.                               *)
StatusSet ==
  /\ writer.panicked => writer.pc \in {"release", "unpublish", "fail", "failNotify",
                                       "close", "exit", "exitFinish"}
  /\ WriterAt("fail") => writer.status \in ChunkStatus
  /\ writer.panicked /\ writer.pc \in {"release", "unpublish"} =>
       writer.status \in ChunkStatus

(* InitializationMu is held by the client or the writer in its critical    *)
(* section, and by nobody else.                                            *)
Mutex ==
  /\ \A c \in Clients : pc[c] \in {"spawn", "register"} <=> initMu = c
  /\ WriterAt("exitFinish") <=> initMu = "writer"

(* WriterActive is set exactly while a client is about to start the writer *)
(* or the writer has not reset it.                                         *)
ActiveFlag ==
  /\ writerActive <=> \/ writer.pc \notin {"none", "exitFinish"}
                      \/ \E c \in Clients : pc[c] = "spawn"
  /\ SingleWriter

(* The result is published between the writer's store and its withdrawal,  *)
(* which a panic does not skip.                                            *)
Published ==
  lbOnWrite # None =>
    /\ writer.pc \in Serving
    /\ writer.panicked => writer.pc \in {"release", "unpublish"}

(* Who is on the slot's channel is in WaitForWriterSetup.                  *)
WaitingAtSlot == \A c \in waiting : pc[c] = "waiting"

(* A live WriterCtx has a client that has yet to look at the count.        *)
ContextHeld ==
  writerCtx = "live" =>
    \E c \in Clients : pc[c] \in Counted \union Leaving \union {"spawn", "register"}

(* A client that keeps the stream alive, or is about to drain it.          *)
Watched == \E c \in Clients : pc[c] \in Counted \union {"spawn", "register", "drain"}

(* A writer writes only while it is watched, and a ring that is not empty  *)
(* has a client that will clear it.                                        *)
RingWatched ==
  /\ state = "active" /\ ~WriterAt("none") => Watched
  /\ (\E k \in 1..N : ring[k] # "empty") =>
       Watched \/ \E c \in Clients : pc[c] = "clear"

(* The inductive invariant.                                                *)
IInv == Types /\ Balanced /\ StatusSet /\ Mutex /\ ActiveFlag /\ Published
        /\ CountMatches /\ SetupHasOwner /\ WaitingAtSlot /\ ContextHeld
        /\ RingWatched
-----------------------------------------------------------------------------
(* The newest error chunk on the way to c.Buffer is an error chunk: there  *)
(* is one with the smallest distance.                                      *)
LEMMA ErrorChunkType ==
  ASSUME NEW b \in 0..N, Types
  PROVE  ErrorChunk(b) \in ChunkStatus \union {None}
<1>1. CASE \E k \in 1..b : ring[k] \in ChunkStatus
  <2> DEFINE E == {k \in 1..b : ring[k] \in ChunkStatus}
             IsNewest(k) == /\ ring[k] \in ChunkStatus
                            /\ \A j \in 1..(k - 1) : ring[j] \notin ChunkStatus
  <2>1. E \subseteq Nat /\ E # {}
    BY <1>1, SessionAssumption
  <2>2. PICK k \in E : \A j \in E : <<j, k>> \notin OpToRel(<, Nat)
    BY <2>1, WFMin, NatLessThanWellFounded
  <2>3. \A j \in E : ~(j < k)
    BY <2>1, <2>2 DEF OpToRel
  <2>4. IsNewest(k) /\ k \in 1..b
    <3>1. k \in 1..b /\ ring[k] \in ChunkStatus
      OBVIOUS
    <3>2. ASSUME NEW j \in 1..(k - 1) PROVE ring[j] \notin ChunkStatus
      <4>1. j \in 1..b /\ j < k
        BY <3>1
      <4> QED BY <2>3, <4>1
    <3> QED BY <3>1, <3>2
  <2>5. IsNewest(CHOOSE j \in 1..b : IsNewest(j))
    BY <2>4, Zenon
  <2> QED BY <1>1, <2>5 DEF ErrorChunk
<1>2. CASE ~\E k \in 1..b : ring[k] \in ChunkStatus
  BY <1>2 DEF ErrorChunk
<1> QED BY <1>1, <1>2

(* A step of the read loop.                                                *)
ReadStep(c) == Attach(c) \/ ReadChunks(c) \/ Subscribe(c) \/ Wake(c)
               \/ WaitHeaders(c) \/ Deliver(c) \/ Disconnect(c)

(* ... moves a counted client to another place where it is counted, and    *)
(* touches nothing but its position, its result and its subscription.      *)
LEMMA ReadStepFrame ==
  ASSUME NEW c \in Clients, Types, ReadStep(c)
  PROVE  /\ UNCHANGED <<coordVars, ring, written, writer, lb, failed>>
         /\ pc[c] \in Counted
         /\ \E p \in Counted : pc' = [pc EXCEPT ![c] = p]
         /\ subscribed' \subseteq Clients
         /\ behind' \in [Clients -> 0..(N - 1)]
         /\ result' \in [Clients -> ChunkStatus \union {"gone", None}]
<1> USE SessionAssumption DEF Types, Counted, ReadPlaces, Goto
<1>0. 0 \in 0..(N - 1) /\ 1 \in 0..(N - 1)
  OBVIOUS
<1>1. ASSUME NEW b \in 0..(N - 1), Collect(c, b)
      PROVE  /\ \E p \in Counted : pc' = [pc EXCEPT ![c] = p]
             /\ behind' \in [Clients -> 0..(N - 1)]
             /\ result' \in [Clients -> ChunkStatus \union {"gone", None}]
  <2>1. b \in 0..N
    OBVIOUS
  <2>2. ErrorChunk(b) \in ChunkStatus \union {None}
    BY <2>1, ErrorChunkType
  <2> QED BY <1>0, <1>1, <2>2 DEF Collect
<1>2. CASE Attach(c)
  BY <1>0, <1>2 DEF Attach, ringVars
<1>3. CASE ReadChunks(c)
  <2> DEFINE from == IF Stale(behind[c]) THEN 0 ELSE behind[c]
  <2>1. from \in 0..(N - 1)
    BY <1>0
  <2> HIDE DEF from
  <2>2. CASE from = 0 /\ state = "active"
    <3>1. /\ pc[c] = "read" /\ pc' = [pc EXCEPT ![c] = "subscribe"]
          /\ behind' = [behind EXCEPT ![c] = 0] /\ result' = result
          /\ UNCHANGED <<coordVars, ringVars, writer, lb, failed>>
      BY <1>3, <2>2 DEF ReadChunks, from
    <3> QED BY <1>0, <3>1 DEF ringVars
  <2>3. CASE ~(from = 0 /\ state = "active")
    <3>1. Collect(c, from)
      BY <1>3, <2>3 DEF ReadChunks, from
    <3> QED BY <1>1, <1>3, <2>1, <3>1 DEF ReadChunks, ringVars
  <2> QED BY <2>2, <2>3
<1>4. CASE Subscribe(c)
  BY <1>4 DEF Subscribe
<1>5. CASE Wake(c)
  <2>1. CASE behind[c] = 0 /\ state = "active"
    BY <1>5, <2>1 DEF Wake, ringVars
  <2>2. CASE ~(behind[c] = 0 /\ state = "active")
    <3>1. Collect(c, behind[c]) /\ behind[c] \in 0..(N - 1)
      BY <1>5, <2>2 DEF Wake
    <3> QED BY <1>1, <1>5, <3>1 DEF Wake, ringVars
  <2> QED BY <2>1, <2>2
<1>6. CASE WaitHeaders(c)
  BY <1>6 DEF WaitHeaders, ringVars
<1>7. CASE Deliver(c)
  <2>1. CASE result[c] # None
    BY <1>0, <1>7, <2>1 DEF Deliver, ringVars
  <2>2. CASE result[c] = None
    BY <1>7, <2>2 DEF Deliver, ringVars
  <2> QED BY <2>1, <2>2
<1>8. CASE Disconnect(c)
  BY <1>0, <1>8 DEF Disconnect
<1> QED BY <1>2, <1>3, <1>4, <1>5, <1>6, <1>7, <1>8 DEF ReadStep

(* The steps of a handler outside HandleStream, the peek included.         *)
HandlerStep(c) ==
  \/ Connect(c) \/ GetWriterLBResult(c) \/ TryStartWriterSetup(c)
  \/ WaitForWriterSetup(c) \/ SetupFinished(c) \/ GiveUp(c) \/ Selected(c)
  \/ SelectionFails(c) \/ Peek(c) \/ HandleExitCode(c) \/ Retry(c)

(* ... do not touch the ring, the count, the state and the context.        *)
LEMMA HandlerStepFrame ==
  ASSUME NEW c \in Clients, Types, HandlerStep(c)
  PROVE  /\ UNCHANGED <<state, clientCount, writerActive, lbOnWrite, initMu,
                        writerCtx, headers, ringVars, writer>>
         /\ pc[c] \in Unbalanced \union {"peek", "exit"}
         /\ \E p \in Unbalanced \union {"peek", "init"} : pc' = [pc EXCEPT ![c] = p]
<1> USE DEF Types, Unbalanced, Goto, coordVars, Done, FinishWriterSetup
<1>1. CASE \/ Connect(c) \/ GetWriterLBResult(c) \/ Retry(c)
           \/ SetupFinished(c) \/ Peek(c)
  BY <1>1 DEF Connect, Idle, GetWriterLBResult, Retry, SetupFinished, Peek
<1>2. CASE TryStartWriterSetup(c) \/ WaitForWriterSetup(c)
  BY <1>2 DEF TryStartWriterSetup, WaitForWriterSetup
<1>3. CASE GiveUp(c) \/ Selected(c)
  BY <1>3 DEF GiveUp, Selected
<1>4. CASE SelectionFails(c)
  BY <1>4 DEF SelectionFails
<1>5. CASE HandleExitCode(c)
  BY <1>5 DEF HandleExitCode
<1> QED BY <1>1, <1>2, <1>3, <1>4, <1>5 DEF HandlerStep

(* The steps of UnregisterClient and of the cleanup after it.              *)
LeaveStep(c) ==
  \/ Decrement(c) \/ Drain(c) \/ LastClears(c) \/ LastNotifies(c)
  \/ Recount(c) \/ CancelWriter(c) \/ ClearAgain(c)

(* ... do not touch the setup slot, the mutex and the result.              *)
LEMMA LeaveStepFrame ==
  ASSUME NEW c \in Clients, Types, LeaveStep(c)
  PROVE  /\ UNCHANGED <<writerActive, setupBusy, waiting, lbOnWrite, initMu,
                        headers, written, lb, failed, behind, result>>
         /\ writer' \in WriterType
         /\ \E ctx \in {"nil", "live", "cancelled"} :
              writer' = [writer EXCEPT !.ctx = ctx]
         /\ pc[c] \in Leaving \union {"leave", "clearAgain"}
         /\ \E p \in Leaving \union {"clearAgain", "exit"} :
              pc' = [pc EXCEPT ![c] = p]
<1> USE DEF Types, Leaving, Goto, coordVars, ringVars
<1>1. /\ writer = [writer EXCEPT !.ctx = writer.ctx]
      /\ writer.ctx \in {"nil", "live", "cancelled"}
  BY DEF WriterType
<1>2. CASE CancelWriter(c)
  BY <1>2 DEF CancelWriter, WriterType
<1>3. CASE Decrement(c) \/ Drain(c) \/ Recount(c)
  BY <1>1, <1>3 DEF Decrement, Drain, Recount
<1>4. CASE LastClears(c) \/ LastNotifies(c) \/ ClearAgain(c)
  BY <1>1, <1>4 DEF LastClears, LastNotifies, ClearAgain
<1> QED BY <1>2, <1>3, <1>4 DEF LeaveStep

(* The steps of a running writer, up to its exit.                          *)
RunStep ==
  \/ WriterStarts \/ WriterPublishes \/ WriterFinishesSetup \/ WriterAcquires
  \/ WriterSetsHeaders \/ WriterChecksState \/ WriterReads \/ WriterRetries
  \/ WriterStops \/ WriterPanics \/ WriterNotifies \/ WriterFails \/ WriterCloses
  \/ WriterReleases \/ WriterUnpublishes

(* ... release the setup slot, move readers only inside the read loop, and *)
(* write to the ring only while the stream is active.                      *)
LEMMA RunStepFrame ==
  ASSUME Types, RunStep
  PROVE  /\ UNCHANGED <<clientCount, writerActive, initMu, writerCtx, lb,
                        failed, result>>
         /\ writer.pc \notin {"none", "exitFinish"}
         /\ writer'.pc \notin {"none", "exitFinish"}
         /\ \A c \in Clients : \/ pc'[c] = pc[c]
                              \/ (pc[c] \in ReadPlaces /\ pc'[c] \in ReadPlaces)
         /\ DOMAIN pc' = Clients
         /\ setupBusy' \in {setupBusy, FALSE}
         /\ waiting' \subseteq waiting
         /\ state # "active" => ring' = ring /\ state' # "active"
<1> USE DEF Types, coordVars, ringVars, clientVars, WriterAt, WriterType
<1>1. CASE WriterStarts \/ WriterPublishes
  BY <1>1 DEF WriterStarts, WriterPublishes
<1>2. CASE WriterFinishesSetup
  BY <1>2 DEF WriterFinishesSetup, FinishWriterSetup
<1>3. CASE WriterAcquires \/ WriterSetsHeaders
  BY <1>3 DEF WriterAcquires, WriterSetsHeaders, NewHeaderChan, ReadPlaces
<1>4. CASE WriterChecksState \/ WriterRetries \/ WriterStops \/ WriterPanics
  BY <1>4 DEF WriterChecksState, WriterRetries, WriterStops, WriterPanics
<1>5. CASE WriterReads
  BY <1>5 DEF WriterReads, Push
<1>6. CASE WriterNotifies \/ WriterReleases \/ WriterUnpublishes
  BY <1>6 DEF WriterNotifies, WriterReleases, WriterUnpublishes
<1>7. CASE WriterFails
  BY <1>7 DEF WriterFails, Push
<1>8. CASE WriterCloses
  BY <1>8 DEF WriterCloses
<1> QED BY <1>1, <1>2, <1>3, <1>4, <1>5, <1>6, <1>7, <1>8 DEF RunStep

(* Every step is one of these.                                             *)
LEMMA Steps ==
  ASSUME Next
  PROVE  \/ \E c \in Clients :
              \/ HandlerStep(c) \/ ReadStep(c) \/ LeaveStep(c)
              \/ LockInitialization(c) \/ SpawnWriter(c) \/ RegisterClient(c)
         \/ RunStep \/ WriterExits \/ WriterGone
  BY DEF Next, ClientStep, PlayerStep, WriterStep, HandlerStep, ReadStep,
     LeaveStep, RunStep

-----------------------------------------------------------------------------
(* Types.                                                                  *)

(* The local state of a handler that returns.                              *)
LEMMA DoneTypes ==
  ASSUME NEW c \in Clients, Types, Done(c)
  PROVE  /\ lb' \in [Clients -> Sources \union {None}]
         /\ failed' \in [Clients -> SUBSET Sources]
         /\ behind' \in [Clients -> 0..(N - 1)]
         /\ result' \in [Clients -> ChunkStatus \union {"gone", None}]
  BY SessionAssumption DEF Done, Types

LEMMA NextTypes ==
  ASSUME IInv, Next
  PROVE  Types'
<1> USE SessionAssumption DEF IInv
<1>1. ASSUME NEW c \in Clients, HandlerStep(c) PROVE Types'
  <2>1. /\ UNCHANGED <<state, clientCount, writerActive, lbOnWrite, initMu,
                       writerCtx, headers, ringVars, writer>>
    BY <1>1, HandlerStepFrame
  <2>2. pc' \in [Clients -> Places]
    <3>1. PICK p \in Unbalanced \union {"peek", "init"} : pc' = [pc EXCEPT ![c] = p]
      BY <1>1, HandlerStepFrame
    <3>2. p \in Places
      BY DEF Places
    <3> QED BY <3>1, <3>2 DEF Types
  <2>3. /\ setupBusy' \in BOOLEAN /\ waiting' \subseteq Clients
        /\ lb' \in [Clients -> Sources \union {None}]
        /\ failed' \in [Clients -> SUBSET Sources]
        /\ behind' \in [Clients -> 0..(N - 1)]
        /\ result' \in [Clients -> ChunkStatus \union {"gone", None}]
    <3> USE DEF Types, coordVars, FinishWriterSetup
    <3>1. CASE Connect(c) \/ Retry(c) \/ SetupFinished(c) \/ Peek(c)
      BY <3>1 DEF Connect, Retry, SetupFinished, Peek
    <3>2. CASE GetWriterLBResult(c)
      BY <3>2 DEF GetWriterLBResult
    <3>3. CASE TryStartWriterSetup(c) \/ WaitForWriterSetup(c)
      BY <3>3 DEF TryStartWriterSetup, WaitForWriterSetup
    <3>4. CASE GiveUp(c)
      BY <3>4, DoneTypes DEF GiveUp
    <3>5. CASE Selected(c)
      BY <3>5 DEF Selected
    <3>6. CASE SelectionFails(c)
      <4>1. CASE failed[c] # {}
        BY <3>6, <4>1 DEF SelectionFails
      <4>2. CASE failed[c] = {}
        <5>1. Done(c) /\ setupBusy' \in BOOLEAN /\ waiting' \subseteq Clients
          BY <3>6, <4>2 DEF SelectionFails
        <5> QED BY <5>1, DoneTypes
      <4> QED BY <4>1, <4>2
    <3>7. CASE HandleExitCode(c)
      <4>1. pc[c] = "exit" /\ lb[c] \in Sources
        BY <3>7 DEF HandleExitCode, Balanced, Unbalanced
      <4>2. setupBusy' = setupBusy /\ waiting' = waiting
        BY <3>7 DEF HandleExitCode
      <4>3. CASE result[c] = "failed"
        <5>1. failed[c] \union {lb[c]} \in SUBSET Sources
          BY <4>1
        <5>2. /\ failed' = [failed EXCEPT ![c] = failed[c] \union {lb[c]}]
              /\ lb' = [lb EXCEPT ![c] = None]
              /\ result' = [result EXCEPT ![c] = None]
              /\ UNCHANGED behind
          BY <3>7, <4>3 DEF HandleExitCode
        <5> QED BY <4>2, <5>1, <5>2
      <4>4. CASE result[c] # "failed"
        BY <3>7, <4>2, <4>4, DoneTypes DEF HandleExitCode
      <4> QED BY <4>3, <4>4
    <3> QED BY <1>1, <3>1, <3>2, <3>3, <3>4, <3>5, <3>6, <3>7 DEF HandlerStep
  <2> QED BY <2>1, <2>2, <2>3 DEF Types, ringVars
<1>2. ASSUME NEW c \in Clients, ReadStep(c) PROVE Types'
  <2>1. PICK p \in Counted : pc' = [pc EXCEPT ![c] = p]
    BY <1>2, ReadStepFrame
  <2>2. pc' \in [Clients -> Places]
    BY <2>1 DEF Types, Places
  <2>3. /\ UNCHANGED <<coordVars, ring, written, writer, lb, failed>>
        /\ subscribed' \subseteq Clients
        /\ behind' \in [Clients -> 0..(N - 1)]
        /\ result' \in [Clients -> ChunkStatus \union {"gone", None}]
    BY <1>2, ReadStepFrame
  <2> QED BY <2>2, <2>3 DEF Types, coordVars
<1>3. ASSUME NEW c \in Clients, LeaveStep(c) PROVE Types'
  <2>1. /\ UNCHANGED <<writerActive, setupBusy, waiting, lbOnWrite, initMu,
                       headers, written, lb, failed, behind, result>>
        /\ writer' \in WriterType
    BY <1>3, LeaveStepFrame
  <2>2. pc' \in [Clients -> Places]
    <3>1. PICK p \in Leaving \union {"clearAgain", "exit"} : pc' = [pc EXCEPT ![c] = p]
      BY <1>3, LeaveStepFrame
    <3>2. p \in Places
      BY DEF Leaving, Places
    <3> QED BY <3>1, <3>2 DEF Types
  <2>3. /\ state' \in {"active", "draining", "closed"}
        /\ writerCtx' \in {"nil", "live"}
        /\ ring' \in [1..N -> {"empty", "data"} \union ChunkStatus]
        /\ subscribed' \subseteq Clients
    BY <1>3 DEF LeaveStep, Types, Decrement, Drain, LastClears, LastNotifies,
       Recount, CancelWriter, ClearAgain, ClearBuffer, coordVars, ringVars
  <2> QED BY <2>1, <2>2, <2>3 DEF Types
<1>4. ASSUME NEW c \in Clients, LockInitialization(c) \/ RegisterClient(c)
      PROVE Types'
  <2>1. pc' \in [Clients -> Places]
    BY <1>4 DEF LockInitialization, RegisterClient, Types, Goto, Places, Counted
  <2>2. CASE LockInitialization(c)
    BY <2>1, <2>2 DEF LockInitialization, Types, ringVars
  <2>3. CASE RegisterClient(c)
    BY <2>1, <2>3 DEF RegisterClient, Types, ringVars
  <2> QED BY <1>4, <2>2, <2>3
<1>5. ASSUME NEW c \in Clients, SpawnWriter(c) PROVE Types'
  BY <1>5 DEF SpawnWriter, Types, Goto, ClearBuffer, coordVars, Places,
     NoWriter, WriterType, WriterPlaces
<1>6. CASE RunStep
  <2>1. /\ UNCHANGED <<clientCount, writerActive, initMu, writerCtx, lb,
                       failed, result>>
        /\ waiting' \subseteq Clients /\ setupBusy' \in BOOLEAN
    BY <1>6, RunStepFrame DEF Types
  <2>2. pc' \in [Clients -> Places]
    <3>1. CASE WriterAcquires \/ WriterSetsHeaders
      BY <3>1 DEF WriterAcquires, WriterSetsHeaders, NewHeaderChan, Types, Places,
         Counted, ReadPlaces
    <3>2. CASE ~WriterAcquires /\ ~WriterSetsHeaders
      <4>1. pc' = pc
        BY <1>6, <3>2 DEF RunStep, clientVars, WriterStarts, WriterPublishes,
           WriterFinishesSetup, WriterChecksState, WriterReads, WriterRetries,
           WriterStops, WriterPanics, WriterNotifies, WriterFails, WriterCloses,
           WriterReleases, WriterUnpublishes
      <4> QED BY <4>1 DEF Types
    <3> QED BY <3>1, <3>2
  <2>3. writer' \in WriterType
    <3> USE DEF Types, WriterType, WriterPlaces, Serving, WriterAt, ChunkStatus
    <3>1. CASE WriterStarts
      BY <3>1 DEF WriterStarts
    <3>2. CASE WriterPublishes
      BY <3>2 DEF WriterPublishes
    <3>3. CASE WriterFinishesSetup
      BY <3>3 DEF WriterFinishesSetup
    <3>4. CASE WriterAcquires
      <4>1. CASE writer' = [writer EXCEPT !.pc = "openHeaders", !.slot = TRUE]
        BY <4>1
      <4>2. CASE writer' = [writer EXCEPT !.pc = "fail", !.status = "failed"]
        BY <4>2
      <4> QED BY <3>4, <4>1, <4>2 DEF WriterAcquires
    <3>5. CASE WriterSetsHeaders
      BY <3>5 DEF WriterSetsHeaders
    <3>6. CASE WriterChecksState
      BY <3>6 DEF WriterChecksState
    <3>7. CASE WriterReads
      <4>1. PICK p \in {"notify", "fail", "loop"}, st \in {None, "failed"} :
              writer' = [writer EXCEPT !.pc = p, !.status = st]
        BY <3>7 DEF WriterReads
      <4>2. p \in WriterPlaces /\ st \in ChunkStatus \union {None}
        OBVIOUS
      <4>3. writer \in WriterType
        OBVIOUS
      <4> QED BY ONLY <4>1, <4>2, <4>3 DEF WriterType
    <3>8. CASE WriterRetries
      BY <3>8 DEF WriterRetries
    <3>9. CASE WriterStops
      <4>1. PICK st \in ChunkStatus :
              writer' = [writer EXCEPT !.pc = "fail", !.status = st]
        BY <3>9 DEF WriterStops
      <4>2. "fail" \in WriterPlaces
        OBVIOUS
      <4>3. writer \in WriterType
        OBVIOUS
      <4> QED BY ONLY <4>1, <4>2, <4>3 DEF WriterType
    <3>10. CASE WriterPanics
      BY <3>10 DEF WriterPanics
    <3>11. CASE WriterNotifies
      BY <3>11 DEF WriterNotifies
    <3>12. CASE WriterFails
      <4>1. \E p \in {"failNotify", "close"} :
              writer' = [writer EXCEPT !.pc = p, !.status = None]
        BY <3>12 DEF WriterFails
      <4> QED BY <4>1
    <3>13. CASE WriterCloses
      BY <3>13 DEF WriterCloses
    <3>14. CASE WriterReleases
      BY <3>14 DEF WriterReleases
    <3>15. CASE WriterUnpublishes
      BY <3>15 DEF WriterUnpublishes
    <3> QED BY <1>6, <3>1, <3>2, <3>3, <3>4, <3>5, <3>6, <3>7, <3>8, 
           <3>9, <3>10, <3>11, <3>12, <3>13, <3>14, <3>15 DEF RunStep
  <2>4. ASSUME NEW chunk \in {"data"} \union ChunkStatus, Push(chunk)
        PROVE  /\ ring' \in [1..N -> {"empty", "data"} \union ChunkStatus]
               /\ written' \in 0..(N + 1)
               /\ behind' \in [Clients -> 0..(N - 1)]
    BY <2>4 DEF Types, Push
  <2>5. /\ ring' \in [1..N -> {"empty", "data"} \union ChunkStatus]
        /\ written' \in 0..(N + 1)
        /\ behind' \in [Clients -> 0..(N - 1)]
        /\ state' \in {"active", "draining", "closed"}
    <3>1. CASE WriterReads
      BY <2>4, <3>1 DEF WriterReads, Types, coordVars
    <3>2. CASE WriterFails
      BY <2>4, <3>2 DEF WriterFails, Types, StatusSet
    <3>3. CASE ~WriterReads /\ ~WriterFails
      BY <1>6, <3>3 DEF RunStep, Types, coordVars, ringVars, clientVars, WriterStarts,
         WriterPublishes, WriterFinishesSetup, WriterAcquires, WriterSetsHeaders,
         WriterChecksState, WriterRetries, WriterStops, WriterPanics,
         WriterNotifies, WriterCloses, WriterReleases, WriterUnpublishes
    <3> QED BY <3>1, <3>2, <3>3
  <2>6. /\ lbOnWrite' \in Sources \union {None}
        /\ headers' \in {"open", "closed"}
        /\ subscribed' \subseteq Clients
    BY <1>6 DEF RunStep, Types, WriterType, coordVars, ringVars, NewHeaderChan,
       WriterStarts, WriterPublishes, WriterFinishesSetup, WriterAcquires,
       WriterSetsHeaders, WriterChecksState, WriterReads, WriterRetries,
       WriterStops, WriterPanics, WriterNotifies, WriterFails, WriterCloses,
       WriterReleases, WriterUnpublishes
  <2> QED BY <2>1, <2>2, <2>3, <2>5, <2>6 DEF Types
<1>7. CASE WriterExits
  BY <1>7 DEF WriterExits, Types, ringVars, clientVars, WriterType, WriterPlaces
<1>8. CASE WriterGone
  <2>1. waiting' \subseteq Clients
    BY <1>8 DEF WriterGone, Types, FinishWriterSetup
  <2> QED BY <1>8, <2>1 DEF WriterGone, Types, ringVars, clientVars,
          FinishWriterSetup, NoWriter, WriterType, WriterPlaces
<1> QED BY <1>1, <1>2, <1>3, <1>4, <1>5, <1>6, <1>7, <1>8, Steps

(* The source of a handler past its load balancing.                        *)
LEMMA NextBalanced ==
  ASSUME IInv, Next
  PROVE  Balanced'
<1> USE DEF IInv, Types
<1>1. ASSUME NEW c \in Clients, HandlerStep(c) PROVE Balanced'
  <2> USE DEF Balanced, Unbalanced, Goto
  <2>1. CASE Connect(c) \/ Retry(c) \/ SetupFinished(c) \/ Peek(c)
    BY <2>1 DEF Connect, Retry, SetupFinished, Peek
  <2>2. CASE GetWriterLBResult(c)
    BY <2>2 DEF GetWriterLBResult
  <2>3. CASE TryStartWriterSetup(c) \/ WaitForWriterSetup(c)
    BY <2>3 DEF TryStartWriterSetup, WaitForWriterSetup
  <2>4. CASE GiveUp(c)
    BY <2>4 DEF GiveUp, Done
  <2>5. CASE Selected(c)
    BY <2>5 DEF Selected
  <2>6. CASE SelectionFails(c)
    BY <2>6 DEF SelectionFails, Done
  <2>7. CASE HandleExitCode(c)
    BY <2>7 DEF HandleExitCode, Done
  <2> QED BY <1>1, <2>1, <2>2, <2>3, <2>4, <2>5, <2>6, <2>7 DEF HandlerStep
<1>2. ASSUME NEW c \in Clients, ReadStep(c) PROVE Balanced'
  <2>1. lb' = lb /\ pc[c] \in Counted /\ \E p \in Counted : pc' = [pc EXCEPT ![c] = p]
    BY <1>2, ReadStepFrame
  <2> QED BY <2>1 DEF Balanced, Unbalanced, Counted, ReadPlaces
<1>3. ASSUME NEW c \in Clients, LeaveStep(c) PROVE Balanced'
  <2>1. /\ lb' = lb /\ pc[c] \in Leaving \union {"leave", "clearAgain"}
        /\ \E p \in Leaving \union {"clearAgain", "exit"} : pc' = [pc EXCEPT ![c] = p]
    BY <1>3, LeaveStepFrame
  <2> QED BY <2>1 DEF Balanced, Unbalanced, Leaving
<1>4. ASSUME NEW c \in Clients,
             LockInitialization(c) \/ SpawnWriter(c) \/ RegisterClient(c)
      PROVE Balanced'
  BY <1>4 DEF LockInitialization, SpawnWriter, RegisterClient, Goto, Balanced,
     Unbalanced
<1>5. CASE RunStep
  <2>1. /\ lb' = lb
        /\ \A c \in Clients : \/ pc'[c] = pc[c]
                             \/ (pc[c] \in ReadPlaces /\ pc'[c] \in ReadPlaces)
    BY <1>5, RunStepFrame
  <2> QED BY <2>1 DEF Balanced, Unbalanced, ReadPlaces
<1>6. CASE WriterExits \/ WriterGone
  BY <1>6 DEF WriterExits, WriterGone, clientVars, Balanced
<1> QED BY <1>1, <1>2, <1>3, <1>4, <1>5, <1>6, Steps

(* The status the writer is about to report.                               *)
LEMMA NextStatusSet ==
  ASSUME IInv, Next
  PROVE  StatusSet'
<1> USE DEF IInv, Types, StatusSet, WriterAt, WriterType
<1>1. CASE \E c \in Clients : HandlerStep(c) \/ ReadStep(c)
  <2>1. writer' = writer
    BY <1>1, HandlerStepFrame, ReadStepFrame
  <2> QED BY <2>1
<1>2. ASSUME NEW c \in Clients, LeaveStep(c) PROVE StatusSet'
  <2>1. \E ctx \in {"nil", "live", "cancelled"} : writer' = [writer EXCEPT !.ctx = ctx]
    BY <1>2, LeaveStepFrame
  <2> QED BY <2>1
<1>3. ASSUME NEW c \in Clients,
             LockInitialization(c) \/ SpawnWriter(c) \/ RegisterClient(c)
      PROVE StatusSet'
  BY <1>3 DEF LockInitialization, SpawnWriter, RegisterClient, NoWriter
<1>4. CASE RunStep
  <2> USE DEF ChunkStatus
  <2>1. CASE WriterStarts \/ WriterPublishes \/ WriterFinishesSetup \/ WriterAcquires
             \/ WriterSetsHeaders
    BY <2>1 DEF WriterStarts, WriterPublishes, WriterFinishesSetup, WriterAcquires,
       WriterSetsHeaders
  <2>2. CASE WriterChecksState \/ WriterRetries \/ WriterStops \/ WriterPanics
    BY <2>2 DEF WriterChecksState, WriterRetries, WriterStops, WriterPanics
  <2>3. CASE WriterReads
    BY <2>3 DEF WriterReads
  <2>4. CASE WriterNotifies \/ WriterFails
    BY <2>4 DEF WriterNotifies, WriterFails
  <2>5. CASE WriterCloses \/ WriterReleases \/ WriterUnpublishes
    BY <2>5 DEF WriterCloses, WriterReleases, WriterUnpublishes
  <2> QED BY <1>4, <2>1, <2>2, <2>3, <2>4, <2>5 DEF RunStep
<1>5. CASE WriterExits \/ WriterGone
  BY <1>5 DEF WriterExits, WriterGone, NoWriter
<1> QED BY <1>1, <1>2, <1>3, <1>4, <1>5, Steps

-----------------------------------------------------------------------------
(* The mutex, the flag and the published result.                           *)

(* No client step but the three under InitializationMu touches them.       *)
LEMMA ClientFrame ==
  ASSUME NEW c \in Clients, Types, HandlerStep(c) \/ ReadStep(c) \/ LeaveStep(c)
  PROVE  /\ UNCHANGED <<writerActive, lbOnWrite, initMu>>
         /\ writer'.pc = writer.pc /\ writer'.panicked = writer.panicked
         /\ pc[c] \notin {"spawn", "register"}
         /\ \E p \in Places \ {"spawn", "register"} : pc' = [pc EXCEPT ![c] = p]
<1> USE DEF Places, Unbalanced, Counted, ReadPlaces, Leaving
<1>1. CASE HandlerStep(c)
  BY <1>1, HandlerStepFrame
<1>2. CASE ReadStep(c)
  BY <1>2, ReadStepFrame DEF coordVars
<1>3. CASE LeaveStep(c)
  BY <1>3, LeaveStepFrame DEF Types, WriterType
<1> QED BY <1>1, <1>2, <1>3

(* InitializationMu has one holder and everyone in its critical section    *)
(* holds it.                                                               *)
LEMMA NextMutex ==
  ASSUME IInv, Next
  PROVE  Mutex'
<1> USE SessionAssumption DEF IInv, Types, Mutex, WriterAt, WriterType
<1>1. ASSUME NEW c \in Clients, HandlerStep(c) \/ ReadStep(c) \/ LeaveStep(c)
      PROVE  Mutex'
  <2>1. PICK p \in Places \ {"spawn", "register"} : pc' = [pc EXCEPT ![c] = p]
    BY <1>1, ClientFrame
  <2>2. /\ initMu' = initMu /\ writer'.pc = writer.pc
        /\ pc[c] \notin {"spawn", "register"}
    BY <1>1, ClientFrame
  <2> QED BY <2>1, <2>2
<1>2. ASSUME NEW c \in Clients, LockInitialization(c) PROVE Mutex'
  BY <1>2 DEF LockInitialization, Goto
<1>3. ASSUME NEW c \in Clients, SpawnWriter(c) PROVE Mutex'
  BY <1>3 DEF SpawnWriter, Goto, coordVars, NoWriter, ActiveFlag, SingleWriter
<1>4. ASSUME NEW c \in Clients, RegisterClient(c) PROVE Mutex'
  BY <1>4 DEF RegisterClient, Goto
<1>5. CASE RunStep
  BY <1>5, RunStepFrame DEF ReadPlaces
<1>6. CASE WriterExits \/ WriterGone
  BY <1>6 DEF WriterExits, WriterGone, clientVars, NoWriter
<1> QED BY <1>1, <1>2, <1>3, <1>4, <1>5, <1>6, Steps

(* WriterActive tells whether a writer runs or is about to be started.     *)
LEMMA NextActiveFlag ==
  ASSUME IInv, Next
  PROVE  ActiveFlag'
<1> USE DEF IInv, Types, ActiveFlag, SingleWriter, WriterAt, WriterType
<1>1. ASSUME NEW c \in Clients, HandlerStep(c) \/ ReadStep(c) \/ LeaveStep(c)
      PROVE  ActiveFlag'
  BY <1>1, ClientFrame
<1>2. ASSUME NEW c \in Clients, LockInitialization(c) PROVE ActiveFlag'
  BY <1>2, SessionAssumption DEF LockInitialization, Goto, Mutex
<1>3. ASSUME NEW c \in Clients, SpawnWriter(c) PROVE ActiveFlag'
  BY <1>3 DEF SpawnWriter, Goto, coordVars, NoWriter, Mutex
<1>4. ASSUME NEW c \in Clients, RegisterClient(c) PROVE ActiveFlag'
  BY <1>4 DEF RegisterClient, Goto
<1>5. CASE RunStep
  BY <1>5, RunStepFrame DEF ReadPlaces
<1>6. CASE WriterExits
  BY <1>6, SessionAssumption DEF WriterExits, clientVars, Mutex
<1>7. CASE WriterGone
  BY <1>7, SessionAssumption DEF WriterGone, clientVars, NoWriter, Mutex
<1> QED BY <1>1, <1>2, <1>3, <1>4, <1>5, <1>6, <1>7, Steps

(* The result is published by a writer that has not withdrawn it.          *)
LEMMA NextPublished ==
  ASSUME IInv, Next
  PROVE  Published'
<1> USE DEF IInv, Types, Published, WriterAt, WriterType
<1>1. ASSUME NEW c \in Clients, HandlerStep(c) \/ ReadStep(c) \/ LeaveStep(c)
      PROVE  Published'
  BY <1>1, ClientFrame
<1>2. ASSUME NEW c \in Clients, LockInitialization(c) \/ RegisterClient(c)
      PROVE  Published'
  BY <1>2 DEF LockInitialization, RegisterClient
<1>3. ASSUME NEW c \in Clients, SpawnWriter(c) PROVE Published'
  BY <1>3 DEF SpawnWriter, coordVars, ActiveFlag, SingleWriter, Serving
<1>4. CASE RunStep
  <2> USE DEF Serving, coordVars
  <2>1. CASE WriterStarts \/ WriterFinishesSetup \/ WriterAcquires \/ WriterSetsHeaders
    BY <2>1 DEF WriterStarts, WriterFinishesSetup, WriterAcquires, WriterSetsHeaders
  <2>2. CASE WriterPublishes
    BY <2>2 DEF WriterPublishes, StatusSet
  <2>3. CASE WriterChecksState \/ WriterRetries \/ WriterStops \/ WriterPanics
    BY <2>3 DEF WriterChecksState, WriterRetries, WriterStops, WriterPanics
  <2>4. CASE WriterReads
    BY <2>4 DEF WriterReads
  <2>5. CASE WriterNotifies \/ WriterFails
    BY <2>5 DEF WriterNotifies, WriterFails
  <2>6. CASE WriterCloses \/ WriterReleases \/ WriterUnpublishes
    BY <2>6 DEF WriterCloses, WriterReleases, WriterUnpublishes
  <2> QED BY <1>4, <2>1, <2>2, <2>3, <2>4, <2>5, <2>6 DEF RunStep
<1>5. CASE WriterExits \/ WriterGone
  BY <1>5 DEF WriterExits, WriterGone, Serving
<1> QED BY <1>1, <1>2, <1>3, <1>4, <1>5, Steps

-----------------------------------------------------------------------------
(* The count.                                                              *)

(* Who is registered can be told from where the client is.                 *)
LEMMA RegisteredPlaces == Registered = {c \in Clients : pc[c] \in Counted}
  BY DEF Registered, InReadLoop, Counted, ReadPlaces

(* The counted clients are finitely many.                                  *)
LEMMA RegisteredFinite ==
  IsFiniteSet(Registered) /\ Cardinality(Registered) \in 0..Cardinality(Clients)
<1>1. Registered \in SUBSET Clients
  BY DEF Registered
<1>2. /\ IsFiniteSet(Registered)
      /\ Cardinality(Registered) <= Cardinality(Clients)
  BY <1>1, FS_Subset, SessionAssumption
<1> QED BY <1>2, FS_CardinalityType, SessionAssumption

(* When a counted client is not alone, another one is counted.             *)
LEMMA AnotherCounted ==
  ASSUME CountMatches, NEW c \in Clients, pc[c] \in Counted, clientCount # 1
  PROVE  \E d \in Clients \ {c} : pc[d] \in Counted
<1>1. c \in Registered
  BY RegisteredPlaces
<1>2. /\ IsFiniteSet(Registered \ {c})
      /\ Cardinality(Registered \ {c}) = clientCount - 1
  BY <1>1, RegisteredFinite, FS_RemoveElement DEF CountMatches
<1>3. clientCount \in Nat
  BY RegisteredFinite, FS_CardinalityType, SessionAssumption DEF CountMatches
<1>4. Registered \ {c} # {}
  BY <1>2, <1>3, FS_EmptySet
<1> QED BY <1>4, RegisteredPlaces

(* RegisterClient and UnregisterClient count every client once.            *)
LEMMA NextCountMatches ==
  ASSUME IInv, Next
  PROVE  CountMatches'
<1> USE DEF IInv, Types
<1>1. Registered' = {c \in Clients : pc'[c] \in Counted}
  BY DEF Registered, InReadLoop, Counted, ReadPlaces
<1>2. ASSUME Registered' = Registered, clientCount' = clientCount PROVE CountMatches'
  BY <1>2 DEF CountMatches
<1>3. ASSUME NEW c \in Clients, HandlerStep(c) PROVE CountMatches'
  <2>1. PICK p \in Unbalanced \union {"peek", "init"} : pc' = [pc EXCEPT ![c] = p]
    BY <1>3, HandlerStepFrame
  <2>2. pc[c] \in Unbalanced \union {"peek", "exit"} /\ clientCount' = clientCount
    BY <1>3, HandlerStepFrame
  <2>3. pc[c] \notin Counted /\ p \notin Counted
    BY <2>2 DEF Unbalanced, Counted, ReadPlaces
  <2>4. Registered' = Registered
    BY <1>1, <2>1, <2>3, RegisteredPlaces
  <2> QED BY <1>2, <2>2, <2>4
<1>4. ASSUME NEW c \in Clients, ReadStep(c) PROVE CountMatches'
  <2>1. PICK p \in Counted : pc' = [pc EXCEPT ![c] = p]
    BY <1>4, ReadStepFrame
  <2>2. pc[c] \in Counted /\ clientCount' = clientCount
    BY <1>4, ReadStepFrame DEF coordVars
  <2>3. Registered' = Registered
    BY <1>1, <2>1, <2>2, RegisteredPlaces
  <2> QED BY <1>2, <2>2, <2>3
<1>5. ASSUME NEW c \in Clients, Decrement(c) PROVE CountMatches'
  <2>1. Registered' = Registered \ {c} /\ c \in Registered
    BY <1>1, <1>5, RegisteredPlaces DEF Decrement, Goto, Counted, ReadPlaces
  <2> QED BY <1>5, <2>1, RegisteredFinite, FS_RemoveElement DEF CountMatches, Decrement
<1>6. ASSUME NEW c \in Clients, LeaveStep(c), ~Decrement(c) PROVE CountMatches'
  <2>1. PICK p \in Leaving \union {"clearAgain", "exit"} : pc' = [pc EXCEPT ![c] = p]
    BY <1>6, LeaveStepFrame
  <2>2. pc[c] \in Leaving \union {"clearAgain"} /\ clientCount' = clientCount
    BY <1>6 DEF LeaveStep, Drain, LastClears, LastNotifies, Recount, CancelWriter,
       ClearAgain, coordVars, Leaving
  <2>3. pc[c] \notin Counted /\ p \notin Counted
    BY <2>2 DEF Leaving, Counted, ReadPlaces
  <2>4. Registered' = Registered
    BY <1>1, <2>1, <2>3, RegisteredPlaces
  <2> QED BY <1>2, <2>2, <2>4
<1>7. ASSUME NEW c \in Clients, LockInitialization(c) \/ SpawnWriter(c)
      PROVE CountMatches'
  <2>1. clientCount' = clientCount
    BY <1>7 DEF LockInitialization, SpawnWriter, coordVars
  <2>2. Registered' = Registered
    BY <1>1, <1>7, RegisteredPlaces DEF LockInitialization, SpawnWriter, Goto, Counted,
       ReadPlaces
  <2> QED BY <1>2, <2>1, <2>2
<1>8. ASSUME NEW c \in Clients, RegisterClient(c) PROVE CountMatches'
  <2>1. Registered' = Registered \union {c} /\ c \notin Registered
    BY <1>1, <1>8, RegisteredPlaces DEF RegisterClient, Goto, Counted, ReadPlaces
  <2> QED BY <1>8, <2>1, RegisteredFinite, FS_AddElement DEF CountMatches, RegisterClient
<1>9. CASE RunStep
  <2>1. Registered' = Registered
    BY <1>1, <1>9, RunStepFrame, RegisteredPlaces DEF Counted
  <2> QED BY <1>2, <1>9, <2>1, RunStepFrame
<1>10. CASE WriterExits \/ WriterGone
  <2>1. pc' = pc /\ clientCount' = clientCount
    BY <1>10 DEF WriterExits, WriterGone, clientVars
  <2>2. Registered' = Registered
    BY <1>1, <2>1, RegisteredPlaces
  <2> QED BY <1>2, <2>1, <2>2
<1> QED BY <1>3, <1>4, <1>5, <1>6, <1>7, <1>8, <1>9, <1>10, Steps

-----------------------------------------------------------------------------
(* The setup slot.                                                         *)

(* HandleStream does not touch the slot once the client is registered.     *)
LEMMA HandleStreamFrame ==
  ASSUME NEW c \in Clients, Types, ReadStep(c) \/ LeaveStep(c)
  PROVE  /\ UNCHANGED <<setupBusy, waiting>>
         /\ writer'.pc = writer.pc
         /\ pc[c] \in Counted \union Leaving \union {"clearAgain"}
         /\ \A d \in Clients \ {c} : pc'[d] = pc[d]
<1>1. CASE ReadStep(c)
  BY <1>1, ReadStepFrame DEF coordVars, Types
<1>2. CASE LeaveStep(c)
  <2>1. pc[c] \in Leaving \union {"leave", "clearAgain"}
    BY <1>2, LeaveStepFrame
  <2>2. PICK p \in Leaving \union {"clearAgain", "exit"} : pc' = [pc EXCEPT ![c] = p]
    BY <1>2, LeaveStepFrame
  <2> QED BY <1>2, <2>1, <2>2, LeaveStepFrame DEF Types, WriterType, Counted
<1> QED BY <1>1, <1>2

(* A claimed slot is handed from the client that balances to the one that  *)
(* starts the writer and on to the writer.                                 *)
LEMMA NextSetupHasOwner ==
  ASSUME IInv, Next
  PROVE  SetupHasOwner'
<1> USE DEF IInv, Types, SetupHasOwner, WriterAt
<1>1. ASSUME NEW c \in Clients, HandlerStep(c) PROVE SetupHasOwner'
  <2> USE DEF Goto, coordVars
  <2>1. CASE \/ Connect(c) \/ GetWriterLBResult(c) \/ Retry(c)
             \/ SetupFinished(c) \/ Peek(c)
    BY <2>1 DEF Connect, Idle, GetWriterLBResult, Retry, SetupFinished, Peek
  <2>2. CASE TryStartWriterSetup(c) \/ WaitForWriterSetup(c)
    BY <2>2 DEF TryStartWriterSetup, WaitForWriterSetup
  <2>3. CASE GiveUp(c) \/ HandleExitCode(c)
    BY <2>3 DEF GiveUp, HandleExitCode, Done
  <2>4. CASE Selected(c)
    BY <2>4 DEF Selected
  <2>5. CASE SelectionFails(c)
    BY <2>5 DEF SelectionFails, FinishWriterSetup
  <2> QED BY <1>1, <2>1, <2>2, <2>3, <2>4, <2>5 DEF HandlerStep
<1>2. ASSUME NEW c \in Clients, ReadStep(c) \/ LeaveStep(c) PROVE SetupHasOwner'
  BY <1>2, HandleStreamFrame DEF Counted, ReadPlaces, Leaving
<1>3. ASSUME NEW c \in Clients, LockInitialization(c) PROVE SetupHasOwner'
  <2>1. CASE writerActive
    <3>1. \A d \in Clients : pc[d] # "spawn"
      BY <1>3, SessionAssumption DEF LockInitialization, Mutex
    <3> QED BY <1>3, <2>1, <3>1 DEF LockInitialization, ActiveFlag
  <2>2. CASE ~writerActive
    BY <1>3, <2>2 DEF LockInitialization, Goto
  <2> QED BY <2>1, <2>2
<1>4. ASSUME NEW c \in Clients, SpawnWriter(c) PROVE SetupHasOwner'
  BY <1>4 DEF SpawnWriter, NoWriter
<1>5. ASSUME NEW c \in Clients, RegisterClient(c) PROVE SetupHasOwner'
  BY <1>5 DEF RegisterClient, Goto
<1>6. CASE RunStep
  BY <1>6, RunStepFrame
<1>7. CASE WriterExits
  BY <1>7 DEF WriterExits, WriterType
<1>8. CASE WriterGone
  BY <1>8 DEF WriterGone, FinishWriterSetup
<1> QED BY <1>1, <1>2, <1>3, <1>4, <1>5, <1>6, <1>7, <1>8, Steps

(* Only a client in WaitForWriterSetup is on the slot's channel.           *)
LEMMA NextWaitingAtSlot ==
  ASSUME IInv, Next
  PROVE  WaitingAtSlot'
<1> USE DEF IInv, Types, WaitingAtSlot
<1>1. ASSUME NEW c \in Clients, HandlerStep(c) PROVE WaitingAtSlot'
  <2> USE DEF Goto, coordVars
  <2>1. CASE \/ Connect(c) \/ GetWriterLBResult(c) \/ Retry(c)
             \/ SetupFinished(c) \/ Peek(c)
    BY <2>1 DEF Connect, Idle, GetWriterLBResult, Retry, SetupFinished, Peek
  <2>2. CASE TryStartWriterSetup(c) \/ WaitForWriterSetup(c)
    BY <2>2 DEF TryStartWriterSetup, WaitForWriterSetup
  <2>3. CASE GiveUp(c) \/ HandleExitCode(c)
    BY <2>3 DEF GiveUp, HandleExitCode, Done
  <2>4. CASE Selected(c)
    BY <2>4 DEF Selected
  <2>5. CASE SelectionFails(c)
    BY <2>5 DEF SelectionFails, FinishWriterSetup, Done
  <2> QED BY <1>1, <2>1, <2>2, <2>3, <2>4, <2>5 DEF HandlerStep
<1>2. ASSUME NEW c \in Clients, ReadStep(c) \/ LeaveStep(c) PROVE WaitingAtSlot'
  BY <1>2, HandleStreamFrame DEF Counted, ReadPlaces, Leaving
<1>3. ASSUME NEW c \in Clients,
             LockInitialization(c) \/ SpawnWriter(c) \/ RegisterClient(c)
      PROVE WaitingAtSlot'
  BY <1>3 DEF LockInitialization, SpawnWriter, RegisterClient, Goto, coordVars
<1>4. CASE RunStep
  BY <1>4, RunStepFrame DEF ReadPlaces
<1>5. CASE WriterExits \/ WriterGone
  BY <1>5 DEF WriterExits, WriterGone, FinishWriterSetup, clientVars
<1> QED BY <1>1, <1>2, <1>3, <1>4, <1>5, Steps

-----------------------------------------------------------------------------
(* What the last client leaves behind.                                     *)

(* A live context has a client that will look at the count again.          *)
LEMMA NextContextHeld ==
  ASSUME IInv, Next
  PROVE  ContextHeld'
<1> DEFINE Holding == Counted \union Leaving \union {"spawn", "register"}
<1> USE DEF IInv, Types, ContextHeld
<1>1. ASSUME NEW c \in Clients, HandlerStep(c) PROVE ContextHeld'
  <2>1. PICK p \in Unbalanced \union {"peek", "init"} : pc' = [pc EXCEPT ![c] = p]
    BY <1>1, HandlerStepFrame
  <2>2. writerCtx' = writerCtx /\ pc[c] \in Unbalanced \union {"peek", "exit"}
    BY <1>1, HandlerStepFrame
  <2>3. pc[c] \notin Holding
    BY <2>2 DEF Unbalanced, Counted, ReadPlaces, Leaving
  <2> QED BY <2>1, <2>2, <2>3
<1>2. ASSUME NEW c \in Clients, ReadStep(c) PROVE ContextHeld'
  BY <1>2, ReadStepFrame DEF coordVars
<1>3. ASSUME NEW c \in Clients, Recount(c) PROVE ContextHeld'
  <2>1. CASE clientCount = 0
    BY <1>3, <2>1 DEF Recount, Goto, Leaving
  <2>2. CASE clientCount # 0
    <3>1. Registered # {}
      BY <2>2, FS_EmptySet DEF CountMatches
    <3>2. PICK d \in Clients : pc[d] \in Counted
      BY <3>1, RegisteredPlaces
    <3>3. pc'[d] \in Counted
      BY <1>3, <2>2, <3>2 DEF Recount, Goto, Counted, ReadPlaces
    <3> QED BY <3>3
  <2> QED BY <2>1, <2>2
<1>4. ASSUME NEW c \in Clients, CancelWriter(c) PROVE ContextHeld'
  BY <1>4 DEF CancelWriter
<1>5. ASSUME NEW c \in Clients, LeaveStep(c), ~Recount(c), ~CancelWriter(c)
      PROVE  ContextHeld'
  <2>1. writerCtx' = writerCtx
    BY <1>5 DEF LeaveStep, Decrement, Drain, LastClears, LastNotifies, ClearAgain,
       coordVars
  <2>2. CASE ClearAgain(c)
    <3>1. pc[c] \notin Holding /\ pc' = [pc EXCEPT ![c] = "exit"]
      BY <2>2 DEF ClearAgain, Goto, Counted, ReadPlaces, Leaving
    <3> QED BY <2>1, <3>1
  <2>3. CASE ~ClearAgain(c)
    <3>1. pc'[c] \in Leaving
      BY <1>5, <2>3 DEF LeaveStep, Decrement, Drain, LastClears, LastNotifies, Goto,
         Leaving
    <3> QED BY <3>1
  <2> QED BY <2>2, <2>3
<1>6. ASSUME NEW c \in Clients,
             LockInitialization(c) \/ SpawnWriter(c) \/ RegisterClient(c)
      PROVE ContextHeld'
  <2>1. pc'[c] \in Holding
    BY <1>6 DEF LockInitialization, SpawnWriter, RegisterClient, Goto, Counted
  <2> QED BY <2>1
<1>7. CASE RunStep
  BY <1>7, RunStepFrame DEF Counted
<1>8. CASE WriterExits \/ WriterGone
  BY <1>8 DEF WriterExits, WriterGone, clientVars
<1> QED BY <1>1, <1>2, <1>3, <1>4, <1>5, <1>6, <1>7, <1>8, Steps

(* A step of a client that keeps Watched.                                  *)
LEMMA ClientKeepsWatched ==
  ASSUME IInv, Watched, NEW c \in Clients,
         HandlerStep(c) \/ ReadStep(c) \/ LeaveStep(c)
         \/ LockInitialization(c) \/ SpawnWriter(c) \/ RegisterClient(c)
  PROVE  Watched' \/ Drain(c)
<1> DEFINE Watching == Counted \union {"spawn", "register", "drain"}
<1> USE DEF IInv, Types, Watched
<1>1. CASE HandlerStep(c)
  <2>1. PICK p \in Unbalanced \union {"peek", "init"} : pc' = [pc EXCEPT ![c] = p]
    BY <1>1, HandlerStepFrame
  <2>2. pc[c] \in Unbalanced \union {"peek", "exit"}
    BY <1>1, HandlerStepFrame
  <2>3. pc[c] \notin Watching
    BY <2>2 DEF Unbalanced, Counted, ReadPlaces
  <2> QED BY <2>1, <2>3
<1>2. CASE ReadStep(c)
  BY <1>2, ReadStepFrame
<1>3. CASE Decrement(c)
  <2>1. CASE clientCount = 1
    <3>1. pc'[c] = "drain"
      BY <1>3, <2>1 DEF Decrement, Goto
    <3> QED BY <3>1
  <2>2. CASE clientCount # 1
    <3>1. PICK d \in Clients \ {c} : pc[d] \in Counted
      BY <1>3, <2>2, AnotherCounted DEF Decrement, Counted
    <3>2. pc'[d] \in Counted
      BY <1>3, <3>1 DEF Decrement, Goto
    <3> QED BY <3>2
  <2> QED BY <2>1, <2>2
<1>4. CASE LeaveStep(c) /\ ~Decrement(c) /\ ~Drain(c)
  <2>1. pc[c] \notin Watching
    BY <1>4 DEF LeaveStep, LastClears, LastNotifies, Recount, CancelWriter, ClearAgain,
       Counted, ReadPlaces
  <2>2. \A d \in Clients \ {c} : pc'[d] = pc[d]
    BY <1>4, HandleStreamFrame
  <2> QED BY <2>1, <2>2
<1>5. CASE LockInitialization(c) \/ SpawnWriter(c) \/ RegisterClient(c)
  <2>1. pc'[c] \in Watching
    BY <1>5 DEF LockInitialization, SpawnWriter, RegisterClient, Goto, Counted
  <2> QED BY <2>1
<1> QED BY <1>1, <1>2, <1>3, <1>4, <1>5

(* Nothing is written for nobody, and what is in the ring has a client     *)
(* that will clear it.                                                     *)
LEMMA NextRingWatched ==
  ASSUME IInv, Next
  PROVE  RingWatched'
<1> USE DEF IInv, Types, RingWatched, WriterAt
<1>1. ASSUME NEW c \in Clients, HandlerStep(c) \/ ReadStep(c) PROVE RingWatched'
  <2>1. UNCHANGED <<state, ring, writer>>
    BY <1>1, HandlerStepFrame, ReadStepFrame DEF coordVars, ringVars
  <2>2. ~Drain(c)
    BY <1>1, HandlerStepFrame, ReadStepFrame DEF Drain, Unbalanced, Counted, ReadPlaces
  <2>3. Watched => Watched'
    BY <1>1, <2>2, ClientKeepsWatched
  <2>4. (\E d \in Clients : pc[d] = "clear") => \E d \in Clients : pc'[d] = "clear"
    BY <1>1, HandlerStepFrame, ReadStepFrame DEF Unbalanced, Counted, ReadPlaces
  <2> QED BY <2>1, <2>3, <2>4
<1>2. ASSUME NEW c \in Clients, Drain(c) PROVE RingWatched'
  BY <1>2 DEF Drain, Goto
<1>3. ASSUME NEW c \in Clients, LastClears(c) \/ ClearAgain(c) PROVE RingWatched'
  <2>1. LeaveStep(c) /\ ~Drain(c)
    BY <1>3 DEF LeaveStep, Drain, LastClears, ClearAgain
  <2>2. Watched => Watched'
    BY <2>1, ClientKeepsWatched
  <2> QED BY <1>3, <2>2 DEF LastClears, ClearAgain, ClearBuffer, coordVars
<1>4. ASSUME NEW c \in Clients,
             Decrement(c) \/ LastNotifies(c) \/ Recount(c) \/ CancelWriter(c)
      PROVE RingWatched'
  <2>1. LeaveStep(c) /\ ~Drain(c) /\ pc[c] # "clear"
    BY <1>4 DEF LeaveStep, Drain, Decrement, LastNotifies, Recount, CancelWriter
  <2>2. Watched => Watched'
    BY <2>1, ClientKeepsWatched
  <2>3. state' = state /\ ring' = ring
    BY <1>4 DEF Decrement, LastNotifies, Recount, CancelWriter, coordVars, ringVars
  <2>4. writer'.pc = writer.pc /\ \A d \in Clients \ {c} : pc'[d] = pc[d]
    BY <2>1, HandleStreamFrame
  <2> QED BY <2>1, <2>2, <2>3, <2>4
<1>5. ASSUME NEW c \in Clients,
             LockInitialization(c) \/ SpawnWriter(c) \/ RegisterClient(c)
      PROVE RingWatched'
  <2>1. pc'[c] \in Counted \union {"spawn", "register", "drain"}
    BY <1>5 DEF LockInitialization, SpawnWriter, RegisterClient, Goto, Counted
  <2> QED BY <2>1 DEF Watched
<1>6. CASE RunStep
  <2>1. Watched => Watched'
    BY <1>6, RunStepFrame DEF Watched, Counted
  <2>2. (\E d \in Clients : pc[d] = "clear") => \E d \in Clients : pc'[d] = "clear"
    BY <1>6, RunStepFrame DEF ReadPlaces
  <2> QED BY <1>6, <2>1, <2>2, RunStepFrame
<1>7. CASE WriterExits \/ WriterGone
  BY <1>7 DEF WriterExits, WriterGone, ringVars, clientVars, NoWriter, Watched
<1> QED BY <1>1, <1>2, <1>3, <1>4, <1>5, <1>6, <1>7, Steps DEF LeaveStep

-----------------------------------------------------------------------------
(* No client has connected yet.                                            *)
LEMMA InitIInv == Init => IInv
<1> SUFFICES ASSUME Init PROVE IInv
  OBVIOUS
<1> USE SessionAssumption DEF Init
<1>1. Types
  <2>1. writer \in WriterType
    BY DEF NoWriter, WriterType, WriterPlaces
  <2>2. pc \in [Clients -> Places]
    BY DEF Places, Unbalanced
  <2>3. behind \in [Clients -> 0..(N - 1)] /\ written \in 0..(N + 1)
    OBVIOUS
  <2> QED BY <2>1, <2>2, <2>3 DEF Types
<1>2. Balanced /\ StatusSet
  BY DEF Balanced, Unbalanced, StatusSet, WriterAt, NoWriter
<1>3. Mutex
  BY DEF WriterAt, NoWriter, Mutex
<1>4. ActiveFlag /\ Published /\ SetupHasOwner /\ WaitingAtSlot
  BY DEF ActiveFlag, SingleWriter, WriterAt, NoWriter, Published, SetupHasOwner,
     WaitingAtSlot
<1>5. CountMatches
  <2>1. Registered = {}
    BY RegisteredPlaces DEF Counted, ReadPlaces
  <2> QED BY <2>1, FS_EmptySet DEF CountMatches
<1>6. ContextHeld /\ RingWatched
  BY DEF ContextHeld, RingWatched, WriterAt, NoWriter
<1> QED BY <1>1, <1>2, <1>3, <1>4, <1>5, <1>6 DEF IInv

(* Every step of the clients and the writer keeps the invariant.           *)
LEMMA NextIInv == IInv /\ [Next]_vars => IInv'
<1> SUFFICES ASSUME IInv, [Next]_vars PROVE IInv'
  OBVIOUS
<1>1. CASE Next
  BY <1>1, NextTypes, NextBalanced, NextStatusSet, NextMutex, NextActiveFlag,
     NextPublished, NextCountMatches, NextSetupHasOwner, NextWaitingAtSlot,
     NextContextHeld, NextRingWatched DEF IInv
<1>2. CASE UNCHANGED vars
  <2>1. /\ UNCHANGED <<state, clientCount, writerActive, setupBusy, waiting, lbOnWrite,
                       initMu, writerCtx, headers, ring, written, subscribed>>
        /\ UNCHANGED <<writer, pc, lb, failed, behind, result>>
    BY <1>2 DEF vars, coordVars, ringVars, clientVars
  <2> QED BY <2>1 DEF IInv, Types, Balanced, StatusSet, Mutex, ActiveFlag, SingleWriter,
          Published, CountMatches, Registered, InReadLoop, SetupHasOwner, WaitingAtSlot,
          ContextHeld, RingWatched, Watched, WriterAt
<1> QED BY <1>1, <1>2

(* The invariant holds throughout.                                         *)
LEMMA Invariance == Spec => []IInv
  BY InitIInv, NextIInv, PTL DEF Spec

-----------------------------------------------------------------------------
(* Every variable keeps its type; ClientCount stays between 0 and the      *)
(* number of clients, although UnregisterClient decrements it without a    *)
(* lock, and no position leaves the ring.                                  *)
THEOREM TypeCorrect == Spec => []TypeOK
<1>1. IInv => TypeOK
  BY RegisteredFinite DEF IInv, Types, TypeOK, CountMatches, WriterType
<1> QED BY <1>1, Invariance, PTL

(* HandleStream starts a writer only when the last one is gone             *)
(* (media_stream.go:117), in whatever order clients and a dying writer run. *)
THEOREM OneWriter == Spec => []SingleWriter
<1>1. IInv => SingleWriter
  BY DEF IInv, ActiveFlag
<1> QED BY <1>1, Invariance, PTL

(* ClientCount is the number of clients between RegisterClient and         *)
(* UnregisterClient.                                                       *)
THEOREM ClientsCounted == Spec => []CountMatches
<1>1. IInv => CountMatches
  BY DEF IInv
<1> QED BY <1>1, Invariance, PTL

(* While GetWriterLBResult answers, WriterActive holds: after a panic, too, *)
(* the result is withdrawn before the flag is reset.                       *)
THEOREM ResultOfActiveWriter == Spec => []PublishedWhileActive
<1>1. IInv => PublishedWhileActive
  BY DEF IInv, Published, ActiveFlag, PublishedWhileActive, Serving
<1> QED BY <1>1, Invariance, PTL

(* A taken setup slot has someone who will release it.                     *)
THEOREM SlotOwned == Spec => []SetupHasOwner
<1>1. IInv => SetupHasOwner
  BY DEF IInv
<1> QED BY <1>1, Invariance, PTL

(* When the last client and the writer are gone, the slot and the mutex    *)
(* are free, no result is published, no context is live and the ring is    *)
(* empty, in whatever order they left.                                     *)
THEOREM NothingLeftBehind == Spec => []CleanWhenUnused
<1>1. IInv => CleanWhenUnused
  <2> SUFFICES ASSUME IInv, \A c \in Clients : Idle(c), WriterAt("none")
               PROVE  /\ ~setupBusy /\ waiting = {} /\ initMu = None
                      /\ lbOnWrite = None /\ ~writerActive
                      /\ writerCtx = "nil"
                      /\ \A k \in 1..N : ring[k] = "empty"
    BY DEF CleanWhenUnused
  <2> USE DEF IInv, Types, Idle, WriterAt
  <2>1. ~setupBusy /\ waiting = {}
    BY DEF SetupHasOwner, WaitingAtSlot
  <2>2. initMu = None
    BY DEF Mutex
  <2>3. lbOnWrite = None /\ ~writerActive
    BY DEF Published, Serving, ActiveFlag
  <2>4. writerCtx = "nil"
    BY DEF ContextHeld, Counted, ReadPlaces, Leaving
  <2>5. \A k \in 1..N : ring[k] = "empty"
    BY DEF RingWatched, Watched, Counted, ReadPlaces
  <2> QED BY <2>1, <2>2, <2>3, <2>4, <2>5
<1> QED BY <1>1, Invariance, PTL

-----------------------------------------------------------------------------
(* The registry of the coordinators.                                       *)
Reg == INSTANCE Registry

(* A request between lookup and return has a coordinator.                  *)
HasCoordinator == \A c \in Requests : stage[c] # "idle" => coord[c] \in Coords

(* The invariant of the registry. SharedUnlessRemoved is not inductive:    *)
(* were NoCoord in use, the next LoadOrStore would leave it behind.        *)
RegistryInv ==
  /\ coordinators \in Coords \union {NoCoord}
  /\ created \in Nat
  /\ stage \in [Requests -> {"idle", "store", "setup", "registered"}]
  /\ coord \in [Requests -> Coords \union {NoCoord}]
  /\ HasCoordinator
  /\ \A c \in Requests : stage[c] \in {"setup", "registered"} =>
       coord[c] \in removed \/ coord[c] = coordinators

(* A registry without requests.                                            *)
LEMMA RegistryInit == Reg!Init => RegistryInv
  BY DEF Reg!Init, Reg!NoCoord, NoCoord, RegistryInv, HasCoordinator

(* Every step of a request and of the cleanup keeps the invariant.         *)
LEMMA RegistryNext ==
  ASSUME RegistryInv, [Reg!Next]_(Reg!vars)
  PROVE  RegistryInv'
<1> USE RegistryAssumption DEF RegistryInv, HasCoordinator, Coords, NoCoord, Reg!NoCoord
<1>1. ASSUME NEW c \in Requests, Reg!Load(c) PROVE RegistryInv'
  <2>1. CASE coordinators # NoCoord
    BY <1>1, <2>1 DEF Reg!Load
  <2>2. CASE coordinators = NoCoord
    BY <1>1, <2>2 DEF Reg!Load
  <2> QED BY <2>1, <2>2
<1>2. ASSUME NEW c \in Requests, Reg!LoadOrStore(c) PROVE RegistryInv'
  <2>1. CASE coordinators # NoCoord
    BY <1>2, <2>1 DEF Reg!LoadOrStore
  <2>2. CASE coordinators = NoCoord
    <3>1. \A d \in Requests : stage[d] \in {"setup", "registered"} => coord[d] \in removed
      BY <2>2
    <3> QED BY <1>2, <2>2, <3>1 DEF Reg!LoadOrStore
  <2> QED BY <2>1, <2>2
<1>3. ASSUME NEW c \in Requests, Reg!RegisterClient(c) \/ Reg!UnregisterClient(c)
      PROVE  RegistryInv'
  BY <1>3 DEF Reg!RegisterClient, Reg!UnregisterClient
<1>4. ASSUME NEW c \in Requests, Reg!Leave(c) PROVE RegistryInv'
  BY <1>4 DEF Reg!Leave
<1>5. CASE Reg!FindInactive
  BY <1>5 DEF Reg!FindInactive
<1>6. CASE Reg!RemoveCoordinator
  BY <1>6 DEF Reg!RemoveCoordinator
<1>7. CASE UNCHANGED Reg!vars
  BY <1>7 DEF Reg!vars
<1> QED BY <1>1, <1>2, <1>3, <1>4, <1>5, <1>6, <1>7 DEF Reg!Next

(* However lookups, registrations and cleanups interleave, requests for a  *)
(* stream share the stored coordinator; only one that cleanup removed      *)
(* under its clients (registry.go:96) is used beside it.                   *)
THEOREM AlwaysShared == Reg!Spec => []SharedUnlessRemoved
<1>1. RegistryInv => SharedUnlessRemoved
  BY DEF RegistryInv, SharedUnlessRemoved, InUse
<1>2. RegistryInv /\ [Reg!Next]_(Reg!vars) => RegistryInv'
  BY RegistryNext
<1> QED BY <1>1, <1>2, RegistryInit, PTL DEF Reg!Spec
=============================================================================

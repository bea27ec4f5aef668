---------------------------- MODULE SharedBuffer ----------------------------
(***************************************************************************)
(* The shared ring of a StreamCoordinator (proxy/stream/buffer/            *)
(* coordinator.go) with its one writer and its readers, one reader per     *)
(* HandleStream call (proxy/stream/media_stream.go).                       *)
(*                                                                         *)
(* Every critical section of coordinator.Mu is one action; what the code   *)
(* does between two critical sections is a separate action, so a reader    *)
(* that released Mu and has not yet subscribed to the broadcast channel    *)
(* can be overtaken by a Write and its notifySubscribers.                  *)
(*                                                                         *)
(* container/ring pointers are seen from c.Buffer, the slot written next:  *)
(* ring[k] is the slot k steps behind it (ring[1] is Buffer.Prev(), and    *)
(* ring[N] is c.Buffer itself, N steps back around the ring) and           *)
(* behind[r] is the number of steps from reader r's position to c.Buffer.  *)
(***************************************************************************)
EXTENDS Integers, FiniteSets

CONSTANTS
  N,        (* config.SharedBufferSize                                     *)
  Readers,  (* HandleStream calls on this coordinator                      *)
  MaxSeq    (* bound on writeSeq                                           *)

ASSUME NAssumption == N \in Nat \ {0}
ASSUME MaxSeqAssumption == MaxSeq \in Nat
ASSUME ReadersAssumption == IsFiniteSet(Readers)

VARIABLES
  ring,       (* the slots, newest first                                   *)
  writeSeq,   (* c.writeSeq: never reset, one more for every chunk         *)
  state,      (* c.state                                                   *)
  wpc,        (* where the writer goroutine is                             *)
  pc,         (* where each reader is                                      *)
  behind,     (* distance from the reader's position to c.Buffer           *)
  subscribed, (* readers blocked on the current broadcast channel          *)
  handed,     (* history: sequence numbers handed to the reader since it   *)
              (* attached                                                  *)
  cursor,     (* history: writeSeq when the reader last took its chunks    *)
  since       (* history: what cursor dates from, "attach" or "read", or   *)
              (* "clear" once ClearBuffer has run after it                 *)

vars == <<ring, writeSeq, state, wpc, pc, behind, subscribed, handed, cursor,
          since>>

readerVars == <<pc, behind, subscribed, handed, cursor, since>>

-----------------------------------------------------------------------------
(* ChunkData.Reset leaves no data, no error and sequence number 0.         *)
Empty == [seq |-> 0, kind |-> "empty"]

Kinds == {"empty", "data", "error"}

(* HandleStream is between RegisterClient and the decrement of             *)
(* UnregisterClient: c.ClientCount counts these readers.                   *)
Registered == {r \in Readers :
      pc[r] \in {"registered", "read", "subscribe", "parked", "leave"}}

Reading(r) == pc[r] \in {"read", "subscribe", "parked"}

(* The slot a position points at.                                          *)
SlotAt(b) == ring[IF b = 0 THEN N ELSE b]

(* Faulty variant: the size of the ring is not subtracted.                 *)
StaleUnlessNewest(b) == SlotAt(b).seq < writeSeq

(* "Client pointer is stale": cd.seq < currentWriteSeq - SharedBufferSize. *)
Stale(b) == SlotAt(b).seq + N < writeSeq

Init ==
  /\ ring = [k \in 1..N |-> Empty]
  /\ writeSeq = 0
  /\ state = "active"
  /\ wpc = "none"
  /\ pc = [r \in Readers |-> "out"]
  /\ behind = [r \in Readers |-> 0]
  /\ subscribed = {}
  /\ handed = [r \in Readers |-> {}]
  /\ cursor = [r \in Readers |-> 0]
  /\ since = [r \in Readers |-> "clear"]

-----------------------------------------------------------------------------
(* The writer goroutine.                                                   *)

(* Every slot is reset; c.Buffer and writeSeq stay where they are.         *)
ClearBuffer ==
  /\ ring' = [k \in 1..N |-> Empty]
  /\ since' = [r \in Readers |-> "clear"]

(* Faulty variant: positions run past the end of the ring.                 *)
WriteUnwrapped(kind) ==
  /\ state = "active"
  /\ writeSeq < MaxSeq
  /\ writeSeq' = writeSeq + 1
  /\ ring' = [k \in 1..N |-> IF k = 1 THEN [seq |-> writeSeq + 1, kind |-> kind]
                                      ELSE ring[k - 1]]
  /\ behind' = [r \in Readers |-> behind[r] + 1]
  /\ state' = IF kind = "error" THEN "draining" ELSE state
  /\ UNCHANGED <<pc, subscribed, handed, cursor, since>>

(* A Write on an active stream: the chunk takes the slot at c.Buffer,      *)
(* c.Buffer moves on and an error chunk drains the stream. The branch that *)
(* would record the chunk in LastError is never taken: LastError always    *)
(* holds a typed nil pointer, so LastError.Load() is never nil.            *)
Write(kind) ==
  /\ state = "active"
  /\ writeSeq < MaxSeq
  /\ writeSeq' = writeSeq + 1
  /\ ring' = [k \in 1..N |-> IF k = 1 THEN [seq |-> writeSeq + 1, kind |-> kind]
                                      ELSE ring[k - 1]]
  /\ behind' = [r \in Readers |-> IF behind[r] + 1 = N THEN 0 ELSE behind[r] + 1]
  /\ state' = IF kind = "error" THEN "draining" ELSE state
  /\ UNCHANGED <<pc, subscribed, handed, cursor, since>>

(* readAndWriteStream hands a chunk of the upstream body to Write.         *)
WriteData ==
  /\ wpc = "loop"
  /\ Write("data")
  /\ wpc' = "notify"

(* writeError: the error chunk, if the stream still accepts it; otherwise  *)
(* Write returns false, nobody is notified and the state is closed.        *)
WriteError ==
  /\ wpc = "loop"
  /\ \/ Write("error") /\ wpc' = "notifyError"
     \/ /\ state # "active"
        /\ wpc' = "close"
        /\ UNCHANGED <<ring, writeSeq, state, readerVars>>

(* notifySubscribers, a critical section of its own after Write's.         *)
WriterNotify ==
  /\ wpc \in {"notify", "notifyError"}
  /\ subscribed' = {}
  /\ wpc' = IF wpc = "notify" THEN "loop" ELSE "close"
  /\ UNCHANGED <<ring, writeSeq, state, pc, behind, handed, cursor, since>>

(* The store at the end of writeError.                                     *)
WriterClose ==
  /\ wpc = "close"
  /\ state' = "closed"
  /\ wpc' = "exit"
  /\ UNCHANGED <<ring, writeSeq, readerVars>>

(* The loop of readAndWriteStream ends without an error chunk as soon as   *)
(* the stream is not active.                                               *)
WriterQuits ==
  /\ wpc = "loop"
  /\ state # "active"
  /\ wpc' = "exit"
  /\ UNCHANGED <<ring, writeSeq, state, readerVars>>

(* Some HandleStream call holds InitializationMu.                          *)
Initializing == \E r \in Readers : pc[r] = "init"

(* The deferred WriterActive.Store(false), under InitializationMu.         *)
WriterExit ==
  /\ wpc = "exit"
  /\ ~Initializing
  /\ wpc' = "none"
  /\ UNCHANGED <<ring, writeSeq, state, readerVars>>

-----------------------------------------------------------------------------
(* The readers.                                                            *)

(* HandleStream takes InitializationMu; if no writer is active it clears   *)
(* the ring and starts one.                                                *)
Initialize(r) ==
  /\ pc[r] = "out"
  /\ ~Initializing
  /\ pc' = [pc EXCEPT ![r] = "init"]
  /\ IF wpc = "none"
     THEN wpc' = "loop" /\ ClearBuffer
     ELSE UNCHANGED <<wpc, ring, since>>
  /\ UNCHANGED <<writeSeq, state, behind, subscribed, handed, cursor>>

(* RegisterClient: a stream that is not active is reset when it has no     *)
(* client. InitializationMu is released.                                   *)
RegisterClient(r) ==
  /\ pc[r] = "init"
  /\ pc' = [pc EXCEPT ![r] = "registered"]
  /\ state' = IF state # "active" /\ Registered = {} THEN "active" ELSE state
  /\ UNCHANGED <<ring, writeSeq, wpc, behind, subscribed, handed, cursor, since>>

(* lastPosition := h.coordinator.Buffer.Prev(), read without the lock.     *)
Attach(r) ==
  /\ pc[r] = "registered"
  /\ pc' = [pc EXCEPT ![r] = "read"]
  /\ behind' = [behind EXCEPT ![r] = IF N = 1 THEN 0 ELSE 1]
  /\ handed' = [handed EXCEPT ![r] = {}]
  /\ cursor' = [cursor EXCEPT ![r] = writeSeq]
  /\ since' = [since EXCEPT ![r] = "attach"]
  /\ UNCHANGED <<ring, writeSeq, state, wpc, subscribed>>

(* Faulty variant: the slot at the reader's position is left out.          *)
ChunksAfter(b) == {ring[k].seq : k \in {j \in 1..(b - 1) : ring[j].kind = "data"}}

(* The sequence numbers of the data chunks between position b and          *)
(* c.Buffer.                                                               *)
Chunks(b) == {ring[k].seq : k \in {j \in 1..b : ring[j].kind = "data"}}

(* Faulty variant: HandleStream does not take over the new position.       *)
CollectKeepsPosition(r, b) ==
  /\ handed' = [handed EXCEPT ![r] = @ \union Chunks(b)]
  /\ cursor' = [cursor EXCEPT ![r] = writeSeq]
  /\ since' = [since EXCEPT ![r] = "read"]
  /\ pc' = [pc EXCEPT ![r] = IF \E k \in 1..b : ring[k].kind = "error"
                             THEN "leave" ELSE "read"]
  /\ UNCHANGED behind

(* The collecting loop of ReadChunks and what HandleStream does with the   *)
(* result: an error chunk ends the call, otherwise the new position is     *)
(* c.Buffer. LastError, always nil, adds nothing.                          *)
Collect(r, b) ==
  /\ behind' = [behind EXCEPT ![r] = 0]
  /\ handed' = [handed EXCEPT ![r] = @ \union Chunks(b)]
  /\ cursor' = [cursor EXCEPT ![r] = writeSeq]
  /\ since' = [since EXCEPT ![r] = "read"]
  /\ pc' = [pc EXCEPT ![r] = IF \E k \in 1..b : ring[k].kind = "error"
                             THEN "leave" ELSE "read"]

(* First critical section of ReadChunks: a stale pointer is moved to       *)
(* c.Buffer; a reader that has caught up with an active stream is to wait, *)
(* any other takes its chunks.                                             *)
ReadChunks(r) ==
  LET from == IF Stale(behind[r]) THEN 0 ELSE behind[r]
  IN
  /\ pc[r] = "read"
  /\ IF from = 0 /\ state = "active"
     THEN /\ pc' = [pc EXCEPT ![r] = "subscribe"]
          /\ behind' = [behind EXCEPT ![r] = 0]
          /\ UNCHANGED <<handed, cursor, since>>
     ELSE Collect(r, from)
  /\ UNCHANGED <<ring, writeSeq, state, wpc, subscribed>>

(* subscribe(), after Mu was released.                                     *)
Subscribe(r) ==
  /\ pc[r] = "subscribe"
  /\ pc' = [pc EXCEPT ![r] = "parked"]
  /\ subscribed' = subscribed \union {r}
  /\ UNCHANGED <<ring, writeSeq, state, wpc, behind, handed, cursor, since>>

(* The broadcast channel the reader blocks on was closed: the wait         *)
(* condition is evaluated again, the staleness check is not.               *)
Wake(r) ==
  /\ pc[r] = "parked"
  /\ r \notin subscribed
  /\ IF behind[r] = 0 /\ state = "active"
     THEN /\ pc' = [pc EXCEPT ![r] = "subscribe"]
          /\ UNCHANGED <<behind, handed, cursor, since>>
     ELSE Collect(r, behind[r])
  /\ UNCHANGED <<ring, writeSeq, state, wpc, subscribed>>

(* The request context is done: ReadChunks or the read loop returns.       *)
Cancel(r) ==
  /\ pc[r] \in {"read", "parked"}
  /\ pc' = [pc EXCEPT ![r] = "leave"]
  /\ subscribed' = subscribed \ {r}
  /\ UNCHANGED <<ring, writeSeq, state, wpc, behind, handed, cursor, since>>

-----------------------------------------------------------------------------
(* UnregisterClient: the decrement is atomic; the rest of what the last    *)
(* client does follows in steps of its own.                                *)

Decrement(r) ==
  /\ pc[r] = "leave"
  /\ pc' = [pc EXCEPT ![r] = IF Registered = {r} THEN "drain"
                                                  ELSE "recount"]
  /\ UNCHANGED <<ring, writeSeq, state, wpc, behind, subscribed, handed, cursor,
                 since>>

Drain(r) ==
  /\ pc[r] = "drain"
  /\ state' = "draining"
  /\ pc' = [pc EXCEPT ![r] = "clear"]
  /\ UNCHANGED <<ring, writeSeq, wpc, behind, subscribed, handed, cursor, since>>

LastClears(r) ==
  /\ pc[r] = "clear"
  /\ ClearBuffer
  /\ pc' = [pc EXCEPT ![r] = "notify"]
  /\ UNCHANGED <<writeSeq, state, wpc, behind, subscribed, handed, cursor>>

LastNotifies(r) ==
  /\ pc[r] = "notify"
  /\ subscribed' = {}
  /\ pc' = [pc EXCEPT ![r] = "recount"]
  /\ UNCHANGED <<ring, writeSeq, state, wpc, behind, handed, cursor, since>>

(* HandleStream's cleanup reads ClientCount again ...                      *)
Recount(r) ==
  /\ pc[r] = "recount"
  /\ pc' = [pc EXCEPT ![r] = IF Registered = {} THEN "cleanup" ELSE "out"]
  /\ UNCHANGED <<ring, writeSeq, state, wpc, behind, subscribed, handed, cursor,
                 since>>

(* ... and clears the ring once more if it was zero, whoever has           *)
(* registered in the meantime.                                             *)
Cleanup(r) ==
  /\ pc[r] = "cleanup"
  /\ ClearBuffer
  /\ pc' = [pc EXCEPT ![r] = "out"]
  /\ UNCHANGED <<writeSeq, state, wpc, behind, subscribed, handed, cursor>>

-----------------------------------------------------------------------------
Writer == WriteData \/ WriteError \/ WriterNotify \/ WriterClose
          \/ WriterQuits \/ WriterExit

Reader(r) == Initialize(r) \/ RegisterClient(r) \/ Attach(r) \/ ReadChunks(r)
             \/ Subscribe(r) \/ Wake(r) \/ Cancel(r) \/ Decrement(r) \/ Drain(r)
             \/ LastClears(r) \/ LastNotifies(r) \/ Recount(r) \/ Cleanup(r)

Next == Writer \/ \E r \in Readers : Reader(r)

Spec == Init /\ [][Next]_vars

(* What the Go scheduler guarantees: a goroutine that can run is run. The  *)
(* upstream may stall, so nothing makes the writer write; a request that   *)
(* is not cancelled never leaves.                                          *)
Fairness ==
  /\ WF_vars(WriterNotify \/ WriterClose \/ WriterQuits \/ WriterExit)
  /\ \A r \in Readers :
       /\ WF_vars(RegisterClient(r) \/ Attach(r) \/ ReadChunks(r) \/ Subscribe(r) \/ Wake(r))
       /\ WF_vars(Decrement(r) \/ Drain(r) \/ LastClears(r) \/ LastNotifies(r)
                  \/ Recount(r) \/ Cleanup(r))

FairSpec == Spec /\ Fairness

-----------------------------------------------------------------------------
TypeOK ==
  /\ ring \in [1..N -> [seq : Nat, kind : Kinds]]
  /\ writeSeq \in Nat
  /\ state \in {"active", "draining", "closed"}
  /\ wpc \in {"none", "loop", "notify", "notifyError", "close", "exit"}
  /\ pc \in [Readers -> {"out", "init", "registered", "read", "subscribe",
                          "parked", "leave", "drain", "clear", "notify",
                          "recount", "cleanup"}]
  /\ behind \in [Readers -> 0..(N - 1)]
  /\ subscribed \in SUBSET Readers
  /\ handed \in [Readers -> SUBSET Nat]
  /\ cursor \in [Readers -> Nat]
  /\ since \in [Readers -> {"attach", "read", "clear"}]

(* A slot holds nothing or the chunk written when it was last passed: the  *)
(* k-th slot behind c.Buffer has sequence number writeSeq - k + 1, so the  *)
(* ring is ordered and its sequence numbers never repeat, whatever the     *)
(* interleaving of Write and ClearBuffer (coordinator.go Write).           *)
RingOrdered ==
  \A k \in 1..N : IF ring[k].kind = "empty" THEN ring[k].seq = 0
                   ELSE ring[k].seq > 0 /\ ring[k].seq + k = writeSeq + 1

(* Nothing between a reader's position and c.Buffer was handed to it       *)
(* before: a client never gets a chunk twice nor an older chunk after a    *)
(* newer one, even when it is lapped, moved by the staleness check, or the *)
(* ring is cleared under it (ReadChunks, HandleStream's lastPosition).     *)
NoReplay ==
  \A r \in Readers : Reading(r) =>
    \A k \in 1..behind[r], s \in handed[r] :
      ring[k].kind # "empty" => ring[k].seq > s

(* A reader fewer than N chunks late, with no ClearBuffer since it last    *)
(* took its chunks, loses nothing: all chunks written since, the error     *)
(* chunk included, are still in front of its position and the staleness    *)
(* check of ReadChunks does not move it past them.                         *)
NothingSkipped ==
  \A r \in Readers :
    LET late == writeSeq - cursor[r]
    IN  Reading(r) /\ since[r] = "read" /\ late < N =>
          /\ behind[r] = late
          /\ \A k \in 1..late : ring[k].kind # "empty"
          /\ late > 0 => ~Stale(behind[r])

(* The chunk a reader has come to; at first it is about to read the one    *)
(* before c.Buffer.                                                        *)
UpTo(r) == IF since[r] = "attach" THEN cursor[r] - 1 ELSE cursor[r]

Log == INSTANCE ChunkLog WITH
  Clients <- Readers,
  written <- writeSeq,
  reading <- {r \in Readers : Reading(r)},
  upto <- [r \in Readers |-> UpTo(r)],
  got <- handed,
  kept <- {r \in Readers : since[r] = "read"}

(* Through ring, positions, staleness check, broadcasts and clearing, the  *)
(* clients see a log of chunks: later chunks at every read, all of them    *)
(* for a client that is in time, and the end of the stream last            *)
(* (ReadChunks, Write, ClearBuffer).                                       *)
LogSpec == Log!Spec
=============================================================================

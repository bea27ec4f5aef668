------------------------- MODULE SharedBufferProofs -------------------------
(***************************************************************************)
(* Proofs about SharedBuffer for every ring size, every set of readers and *)
(* every bound on the sequence numbers.                                    *)
(*                                                                         *)
(* Neither NoReplay nor NothingSkipped is inductive: both compare a        *)
(* reader's history with the slots in front of it and need to know which   *)
(* sequence number each slot holds (RingOrdered) and how a reader's        *)
(* position, its history and writeSeq are related (Positions, Retained).   *)
(* The refinement of ChunkLog needs in addition that chunks in front of a  *)
(* reader are new to it and that nothing follows an error chunk (LogInv).  *)
(***************************************************************************)
EXTENDS SharedBuffer, TLAPS

(* A reader that was handed chunk s is at most writeSeq - s steps behind:  *)
(* s is no longer in front of it.                                          *)
Positions ==
  \A r \in Readers :
    /\ cursor[r] <= writeSeq
    /\ Reading(r) => \A s \in handed[r] : s + behind[r] <= writeSeq

(* The part of NothingSkipped that is inductive.                           *)
Retained ==
  \A r \in Readers :
    Reading(r) /\ since[r] = "read" /\ writeSeq - cursor[r] < N =>
      /\ behind[r] = writeSeq - cursor[r]
      /\ \A k \in 1..(writeSeq - cursor[r]) : ring[k].kind # "empty"

(* The inductive invariant.                                                *)
IInv == TypeOK /\ RingOrdered /\ Positions /\ Retained

-----------------------------------------------------------------------------
(* An empty ring without readers.                                          *)
LEMMA InitIInv == Init => IInv
  BY NAssumption DEF Init, IInv, TypeOK, RingOrdered, Positions, Retained,
     Reading, Empty, Kinds

(* A chunk between a position and c.Buffer has a sequence number between   *)
(* writeSeq - b + 1 and writeSeq.                                          *)
LEMMA ChunksInRange ==
  ASSUME IInv, NEW b \in 0..(N - 1), NEW s \in Chunks(b)
  PROVE  s \in Nat /\ s <= writeSeq
  <1>1. PICK k \in 1..b : ring[k].kind = "data" /\ s = ring[k].seq
    BY DEF Chunks
  <1>2. k \in 1..N
    BY NAssumption
  <1>3. ring[k].seq \in Nat /\ writeSeq \in Nat
        /\ ring[k].seq + k = writeSeq + 1
    BY <1>1, <1>2 DEF IInv, TypeOK, RingOrdered
  <1> QED
    BY <1>1, <1>2, <1>3, NAssumption

(* A position that is ahead of every chunk the reader was handed is not    *)
(* moved past a chunk it is owed.                                          *)
LEMMA NotStale ==
  ASSUME IInv, NEW r \in Readers, Reading(r), since[r] = "read",
         writeSeq - cursor[r] < N, writeSeq > cursor[r]
  PROVE  ~Stale(behind[r])
  <1>1. behind[r] = writeSeq - cursor[r] /\ behind[r] \in 1..N
    BY NAssumption DEF IInv, Retained, TypeOK, Positions
  <1>2. ring[behind[r]].kind # "empty"
    BY <1>1 DEF IInv, Retained
  <1>3. ring[behind[r]].seq + behind[r] = writeSeq + 1
    BY <1>1, <1>2 DEF IInv, RingOrdered
  <1> QED
    BY <1>1, <1>3, NAssumption DEF Stale, SlotAt, IInv, TypeOK

(* ClearBuffer, whoever calls it and whenever.                             *)
LEMMA ClearKeepsIInv ==
  ASSUME IInv, ClearBuffer, UNCHANGED <<writeSeq, behind, handed, cursor, state>>,
         subscribed' \in SUBSET Readers,
         wpc' \in {"none", "loop", "notify", "notifyError", "close", "exit"},
         NEW r \in Readers, NEW next \in {"init", "notify", "out"},
         pc' = [pc EXCEPT ![r] = next]
  PROVE  IInv'
  BY NAssumption DEF IInv, ClearBuffer, TypeOK, RingOrdered, Positions,
     Retained, Reading, Empty, Kinds

(* Write: every slot moves one step back and every reader falls one step   *)
(* behind, or is lapped.                                                   *)
LEMMA WriteKeepsIInv ==
  ASSUME IInv, NEW kind \in {"data", "error"}, Write(kind),
         wpc' \in {"notify", "notifyError"}
  PROVE  IInv'
  <1>1. TypeOK'
    BY NAssumption DEF IInv, TypeOK, Write, Kinds
  <1>2. RingOrdered'
    <2> SUFFICES ASSUME NEW k \in 1..N
                 PROVE  IF ring'[k].kind = "empty" THEN ring'[k].seq = 0
                        ELSE ring'[k].seq > 0
                             /\ ring'[k].seq + k = writeSeq' + 1
      BY DEF RingOrdered
    <2>1. CASE k = 1
      BY <2>1, NAssumption DEF IInv, TypeOK, Write
    <2>2. CASE k # 1
      <3>1. k - 1 \in 1..N /\ ring'[k] = ring[k - 1]
        BY <2>2, NAssumption DEF Write
      <3>2. writeSeq' = writeSeq + 1 /\ writeSeq \in Nat
            /\ ring[k - 1].seq \in Nat
        BY <3>1 DEF IInv, TypeOK, Write
      <3>3. IF ring[k - 1].kind = "empty" THEN ring[k - 1].seq = 0
            ELSE ring[k - 1].seq > 0 /\ ring[k - 1].seq + (k - 1) = writeSeq + 1
        BY <3>1 DEF IInv, RingOrdered
      <3> QED
        BY <3>1, <3>2, <3>3, NAssumption
    <2> QED BY <2>1, <2>2
  <1>3. Positions'
    <2> SUFFICES ASSUME NEW r \in Readers
                 PROVE  /\ cursor[r] <= writeSeq + 1
                        /\ Reading(r) => \A s \in handed[r] :
                                           s + behind'[r] <= writeSeq + 1
      BY DEF Positions, Reading, Write
    <2>1. cursor[r] \in Nat /\ handed[r] \in SUBSET Nat /\ writeSeq \in Nat
          /\ behind[r] \in Nat /\ behind'[r] \in Nat
          /\ behind'[r] <= behind[r] + 1
      BY NAssumption DEF IInv, TypeOK, Write
    <2> QED BY <2>1 DEF IInv, Positions
  <1>4. Retained'
    <2> SUFFICES ASSUME NEW r \in Readers, Reading(r)', since'[r] = "read",
                        writeSeq' - cursor'[r] < N
                 PROVE  /\ behind'[r] = writeSeq' - cursor'[r]
                        /\ \A k \in 1..(writeSeq' - cursor'[r]) :
                             ring'[k].kind # "empty"
      BY DEF Retained
    <2>0. /\ Reading(r) /\ since[r] = "read" /\ cursor'[r] = cursor[r]
          /\ writeSeq' = writeSeq + 1
      BY DEF Reading, Write
    <2>1. /\ cursor[r] \in Nat /\ writeSeq \in Nat /\ cursor[r] <= writeSeq
          /\ behind[r] \in 0..(N - 1)
      BY DEF IInv, TypeOK, Positions
    <2>2. /\ behind[r] = writeSeq - cursor[r]
          /\ \A k \in 1..(writeSeq - cursor[r]) : ring[k].kind # "empty"
      BY <2>0, <2>1, NAssumption DEF IInv, Retained
    <2>3. behind'[r] = writeSeq + 1 - cursor[r]
      BY <2>0, <2>1, <2>2, NAssumption DEF Write
    <2>4. ASSUME NEW k \in 1..(writeSeq' - cursor'[r])
          PROVE  ring'[k].kind # "empty"
      <3>0. k \in 1..N
        BY <2>0, <2>1, NAssumption
      <3>1. CASE k = 1
        BY <3>0, <3>1 DEF Write
      <3>2. CASE k # 1
        <4>1. k - 1 \in 1..(writeSeq - cursor[r])
          BY <3>0, <3>2, <2>0, <2>1, NAssumption
        <4>2. ring'[k] = ring[k - 1]
          BY <3>0, <3>2 DEF Write
        <4> QED BY <4>1, <4>2, <2>2
      <3> QED BY <3>1, <3>2
    <2>5. behind'[r] = writeSeq' - cursor'[r]
      BY <2>0, <2>1, <2>3
    <2> QED BY <2>4, <2>5
  <1> QED BY <1>1, <1>2, <1>3, <1>4 DEF IInv

(* The collecting part of ReadChunks, from any position no further back    *)
(* than the reader's.                                                      *)
LEMMA CollectKeepsIInv ==
  ASSUME IInv, NEW r \in Readers, Reading(r), NEW b \in 0..(N - 1),
         Collect(r, b), UNCHANGED <<ring, writeSeq, state, wpc, subscribed>>
  PROVE  IInv'
  <1>0. \A s \in Chunks(b) : s \in Nat /\ s <= writeSeq
    BY ChunksInRange
  <1>1. TypeOK'
    BY <1>0, NAssumption DEF IInv, TypeOK, Collect
  <1>2. RingOrdered'
    BY DEF IInv, RingOrdered
  <1>3. /\ cursor'[r] = writeSeq /\ behind'[r] = 0
        /\ handed'[r] = handed[r] \union Chunks(b)
    BY DEF Collect, IInv, TypeOK
  <1>4. \A q \in Readers \ {r} :
          /\ pc'[q] = pc[q] /\ behind'[q] = behind[q] /\ handed'[q] = handed[q]
          /\ cursor'[q] = cursor[q] /\ since'[q] = since[q]
    BY DEF Collect, IInv, TypeOK
  <1>5. Positions'
    <2>1. \A s \in handed[r] : s \in Nat /\ s <= writeSeq
      BY DEF IInv, Positions, TypeOK
    <2>2. \A s \in handed'[r] : s + behind'[r] <= writeSeq
      BY <1>0, <1>3, <2>1
    <2>3. cursor'[r] <= writeSeq'
      BY <1>3 DEF IInv, TypeOK
    <2>4. ASSUME NEW q \in Readers \ {r}
          PROVE  /\ cursor'[q] <= writeSeq'
                 /\ Reading(q)' => \A s \in handed'[q] : s + behind'[q] <= writeSeq'
      <3>1. pc'[q] = pc[q] /\ behind'[q] = behind[q] /\ handed'[q] = handed[q]
            /\ cursor'[q] = cursor[q]
        BY <1>4
      <3> QED BY <3>1 DEF IInv, Positions, Reading
    <2>5. writeSeq' = writeSeq
      OBVIOUS
    <2> QED
      BY <2>2, <2>3, <2>4, <2>5 DEF Positions
  <1>6. Retained'
    <2>1. 1..(writeSeq - cursor'[r]) = {} /\ writeSeq - cursor'[r] = 0
      BY <1>3 DEF IInv, TypeOK
    <2> QED
      BY <1>3, <1>4, <2>1 DEF IInv, Retained, Reading
  <1> QED BY <1>1, <1>2, <1>5, <1>6 DEF IInv

(* ReadChunks and Wake when the reader has to wait: its position becomes   *)
(* c.Buffer only if it was there or was stale, so nothing owed is lost.    *)
LEMMA WaitKeepsIInv ==
  ASSUME IInv, NEW r \in Readers, Reading(r),
         behind[r] = 0 \/ Stale(behind[r]),
         pc' = [pc EXCEPT ![r] = "subscribe"],
         behind' = [behind EXCEPT ![r] = 0],
         UNCHANGED <<ring, writeSeq, state, wpc, subscribed, handed, cursor,
                     since>>
  PROVE  IInv'
  <1>1. TypeOK' /\ RingOrdered'
    BY NAssumption DEF IInv, TypeOK, RingOrdered
  <1>2. behind'[r] = 0 /\ \A q \in Readers \ {r} : pc'[q] = pc[q]
                                                /\ behind'[q] = behind[q]
    BY DEF IInv, TypeOK
  <1>3. Positions'
    BY <1>2 DEF IInv, TypeOK, Positions, Reading
  <1>4. Retained'
    <2>1. ASSUME since[r] = "read", writeSeq - cursor[r] < N
          PROVE  writeSeq - cursor[r] = 0
      BY <2>1, NotStale DEF IInv, TypeOK, Positions, Retained
    <2> QED
      BY <1>2, <2>1 DEF IInv, Retained, Reading
  <1> QED BY <1>1, <1>3, <1>4 DEF IInv

(* Steps that only move a reader between the places outside its read loop, *)
(* or out of it.                                                           *)
LEMMA MoveKeepsIInv ==
  ASSUME IInv, NEW r \in Readers,
         NEW next \in {"registered", "leave", "drain", "clear", "recount",
                       "cleanup", "out", "init"},
         pc' = [pc EXCEPT ![r] = next],
         state' \in {"active", "draining", "closed"},
         subscribed' \in SUBSET Readers,
         UNCHANGED <<ring, writeSeq, wpc, behind, handed, cursor, since>>
  PROVE  IInv'
  BY DEF IInv, TypeOK, RingOrdered, Positions, Retained, Reading

(* Steps of the writer that leave the ring and the readers alone.          *)
LEMMA WriterMoveKeepsIInv ==
  ASSUME IInv, wpc' \in {"none", "loop", "close", "exit"},
         state' \in {"active", "draining", "closed"},
         subscribed' \in SUBSET Readers,
         UNCHANGED <<ring, writeSeq, pc, behind, handed, cursor, since>>
  PROVE  IInv'
  BY DEF IInv, TypeOK, RingOrdered, Positions, Retained, Reading

-----------------------------------------------------------------------------
(* Every step of the writer and of the readers keeps the invariant.        *)
LEMMA NextIInv == IInv /\ [Next]_vars => IInv'
  <1> SUFFICES ASSUME IInv, [Next]_vars PROVE IInv'
    OBVIOUS
  <1> USE DEF readerVars
  <1>1. CASE WriteData
    BY <1>1, WriteKeepsIInv DEF WriteData
  <1>2. CASE WriteError
    <2>1. CASE Write("error") /\ wpc' = "notifyError"
      BY <2>1, WriteKeepsIInv
    <2>2. CASE state # "active" /\ wpc' = "close"
               /\ UNCHANGED <<ring, writeSeq, state, readerVars>>
      BY <2>2, WriterMoveKeepsIInv DEF IInv, TypeOK
    <2> QED BY <1>2, <2>1, <2>2 DEF WriteError
  <1>3. CASE WriterNotify
    BY <1>3, WriterMoveKeepsIInv DEF WriterNotify, IInv, TypeOK
  <1>4. CASE WriterClose
    BY <1>4, WriterMoveKeepsIInv DEF WriterClose, IInv, TypeOK
  <1>5. CASE WriterQuits
    BY <1>5, WriterMoveKeepsIInv DEF WriterQuits, IInv, TypeOK
  <1>6. CASE WriterExit
    BY <1>6, WriterMoveKeepsIInv DEF WriterExit, IInv, TypeOK
  <1>7. ASSUME NEW r \in Readers, Reader(r) PROVE IInv'
    <2>1. CASE Initialize(r)
      <3>1. CASE wpc = "none"
        BY <2>1, <3>1, ClearKeepsIInv DEF Initialize, IInv, TypeOK
      <3>2. CASE wpc # "none"
        BY <2>1, <3>2, MoveKeepsIInv DEF Initialize, IInv, TypeOK
      <3> QED BY <3>1, <3>2
    <2>2. CASE RegisterClient(r)
      BY <2>2, MoveKeepsIInv DEF RegisterClient, IInv, TypeOK
    <2>3. CASE Attach(r)
      <3>1. TypeOK' /\ RingOrdered'
        BY <2>3, NAssumption DEF Attach, IInv, TypeOK, RingOrdered
      <3>2. Positions' /\ Retained'
        BY <2>3 DEF Attach, IInv, TypeOK, Positions, Retained, Reading
      <3> QED BY <3>1, <3>2 DEF IInv
    <2>4. CASE ReadChunks(r)
      <3> DEFINE from == IF Stale(behind[r]) THEN 0 ELSE behind[r]
      <3>1. Reading(r) /\ from \in 0..(N - 1)
        BY <2>4, NAssumption DEF ReadChunks, Reading, IInv, TypeOK
      <3>2. CASE from = 0 /\ state = "active"
        BY <2>4, <3>1, <3>2, WaitKeepsIInv DEF ReadChunks
      <3>3. CASE ~(from = 0 /\ state = "active")
        BY <2>4, <3>1, <3>3, CollectKeepsIInv DEF ReadChunks
      <3> QED BY <3>2, <3>3
    <2>5. CASE Subscribe(r)
      BY <2>5 DEF Subscribe, IInv, TypeOK, RingOrdered, Positions, Retained,
         Reading
    <2>6. CASE Wake(r)
      <3>1. Reading(r) /\ behind[r] \in 0..(N - 1)
        BY <2>6 DEF Wake, Reading, IInv, TypeOK
      <3>2. CASE behind[r] = 0 /\ state = "active"
        <4>1. behind' = [behind EXCEPT ![r] = 0]
          BY <2>6, <3>2 DEF Wake, IInv, TypeOK
        <4> QED BY <2>6, <3>1, <3>2, <4>1, WaitKeepsIInv DEF Wake
      <3>3. CASE ~(behind[r] = 0 /\ state = "active")
        BY <2>6, <3>1, <3>3, CollectKeepsIInv DEF Wake
      <3> QED BY <3>2, <3>3
    <2>7. CASE Cancel(r)
      BY <2>7, MoveKeepsIInv DEF Cancel, IInv, TypeOK
    <2>8. CASE Decrement(r)
      BY <2>8, MoveKeepsIInv DEF Decrement, IInv, TypeOK
    <2>9. CASE Drain(r)
      BY <2>9, MoveKeepsIInv DEF Drain, IInv, TypeOK
    <2>10. CASE LastClears(r)
      BY <2>10, ClearKeepsIInv DEF LastClears, IInv, TypeOK
    <2>11. CASE LastNotifies(r)
      BY <2>11, MoveKeepsIInv DEF LastNotifies, IInv, TypeOK
    <2>12. CASE Recount(r)
      BY <2>12, MoveKeepsIInv DEF Recount, IInv, TypeOK
    <2>13. CASE Cleanup(r)
      BY <2>13, ClearKeepsIInv DEF Cleanup, IInv, TypeOK
    <2> QED
      BY <1>7, <2>1, <2>2, <2>3, <2>4, <2>5, <2>6, <2>7, <2>8, <2>9, <2>10,
         <2>11, <2>12, <2>13 DEF Reader
  <1>8. CASE UNCHANGED vars
    BY <1>8 DEF vars, IInv, TypeOK, RingOrdered, Positions, Retained, Reading
  <1> QED
    BY <1>1, <1>2, <1>3, <1>4, <1>5, <1>6, <1>7, <1>8 DEF Next, Writer

(* The inductive invariant holds in every reachable state.                 *)
THEOREM Inductive == Spec => []IInv
  BY InitIInv, NextIInv, PTL DEF Spec

-----------------------------------------------------------------------------
(* Every variable keeps its type; in particular a reader's position stays  *)
(* within the ring whatever Write and ClearBuffer do.                      *)
THEOREM TypeCorrect == Spec => []TypeOK
  <1>1. IInv => TypeOK
    BY DEF IInv
  <1> QED BY <1>1, Inductive, PTL

(* The ring of coordinator.go is always ordered by sequence number.        *)
THEOREM RingIsOrdered == Spec => []RingOrdered
  <1>1. IInv => RingOrdered
    BY DEF IInv
  <1> QED BY <1>1, Inductive, PTL

(* No client is ever handed a chunk twice or out of order by ReadChunks.   *)
THEOREM NeverReplays == Spec => []NoReplay
  <1>1. IInv => NoReplay
    <2> SUFFICES ASSUME IInv, NEW r \in Readers, Reading(r),
                        NEW k \in 1..behind[r], NEW s \in handed[r],
                        ring[k].kind # "empty"
                 PROVE  ring[k].seq > s
      BY DEF NoReplay
    <2>1. k \in 1..N /\ s \in Nat /\ writeSeq \in Nat /\ behind[r] \in Nat
      BY NAssumption DEF IInv, TypeOK
    <2>2. ring[k].seq \in Nat /\ ring[k].seq + k = writeSeq + 1
      BY <2>1 DEF IInv, TypeOK, RingOrdered
    <2>3. s + behind[r] <= writeSeq
      BY DEF IInv, Positions
    <2> QED BY <2>1, <2>2, <2>3
  <1> QED BY <1>1, Inductive, PTL

(* A client fewer than N chunks late loses none of them, the error chunk   *)
(* that makes it fail over included, unless ClearBuffer intervened.        *)
THEOREM NeverSkips == Spec => []NothingSkipped
  <1>1. IInv => NothingSkipped
    <2> SUFFICES ASSUME IInv, NEW r \in Readers, Reading(r),
                        since[r] = "read", writeSeq - cursor[r] < N
                 PROVE  /\ behind[r] = writeSeq - cursor[r]
                        /\ \A k \in 1..(writeSeq - cursor[r]) :
                             ring[k].kind # "empty"
                        /\ writeSeq - cursor[r] > 0 => ~Stale(behind[r])
      BY DEF NothingSkipped
    <2>1. writeSeq \in Nat /\ cursor[r] \in Nat
      BY DEF IInv, TypeOK
    <2> QED BY <2>1, NotStale DEF IInv, Retained
  <1> QED BY <1>1, Inductive, PTL

-----------------------------------------------------------------------------
(* The refinement of ChunkLog.                                             *)

(* Chunks in front of a reader are later ones than it has come to.         *)
Fresh ==
  \A r \in Readers : Reading(r) =>
    \A k \in 1..behind[r] : ring[k].kind # "empty" => ring[k].seq > UpTo(r)

(* An error chunk is the newest, and stays it: the writer that wrote it    *)
(* ends, and the next one begins by clearing the ring.                     *)
ErrorLast ==
  \A k \in 1..N : ring[k].kind = "error" =>
    k = 1 /\ wpc \in {"notifyError", "close", "exit", "none"}

(* The refinement needs these beside IInv.                                 *)
LogInv == Fresh /\ ErrorLast

(* An empty ring without readers.                                          *)
LEMMA InitLogInv == Init => LogInv
  BY DEF Init, LogInv, Fresh, ErrorLast, Reading, Empty

(* What a step is, as far as the log is concerned: it clears the ring, ... *)
ClearStep ==
  /\ ClearBuffer
  /\ UNCHANGED <<writeSeq, behind, handed, cursor>>
  /\ \A r \in Readers : Reading(r)' <=> Reading(r)

(* ... a reader takes chunks, from its position or from c.Buffer if that   *)
(* was stale, ...                                                          *)
CollectStep(r) ==
  /\ Reading(r)
  /\ \/ Collect(r, behind[r])
     \/ Stale(behind[r]) /\ Collect(r, 0)
  /\ UNCHANGED <<ring, writeSeq, wpc>>

(* ... is at c.Buffer or put there and waits, ...                          *)
WaitStep(r) ==
  /\ Reading(r)
  /\ pc' = [pc EXCEPT ![r] = "subscribe"]
  /\ behind' = [behind EXCEPT ![r] = 0]
  /\ UNCHANGED <<ring, writeSeq, wpc, handed, cursor, since>>

(* ... or nothing happens to it, unless the writer moves on.               *)
OtherStep ==
  /\ UNCHANGED <<ring, writeSeq, behind, handed, cursor, since>>
  /\ \A r \in Readers : Reading(r)' <=> Reading(r)
  /\ wpc' = wpc \/ wpc' \in {"close", "exit", "none"} \/ wpc = "notify"

(* Writing, joining and leaving are the steps they are.                    *)
LEMMA Steps ==
  ASSUME IInv, [Next]_vars
  PROVE  \/ WriteData \/ (wpc = "loop" /\ Write("error") /\ wpc' = "notifyError")
         \/ ClearStep \/ OtherStep
         \/ \E r \in Readers : Attach(r) \/ CollectStep(r) \/ WaitStep(r) \/ Cancel(r)
<1> USE DEF readerVars
<1>1. CASE WriteError
  <2>1. CASE Write("error") /\ wpc' = "notifyError"
    BY <1>1, <2>1 DEF WriteError
  <2>2. CASE state # "active" /\ wpc' = "close"
             /\ UNCHANGED <<ring, writeSeq, state, readerVars>>
    <3>1. OtherStep
      BY <2>2 DEF OtherStep, Reading
    <3> QED BY <3>1
  <2> QED BY <1>1, <2>1, <2>2 DEF WriteError
<1>2. CASE WriterNotify \/ WriterClose \/ WriterQuits \/ WriterExit \/ UNCHANGED vars
  <2>1. OtherStep
    BY <1>2 DEF WriterNotify, WriterClose, WriterQuits, WriterExit, vars, OtherStep, Reading
  <2> QED BY <2>1
<1>3. ASSUME NEW r \in Readers, Reader(r)
      PROVE  \/ ClearStep \/ OtherStep
             \/ Attach(r) \/ CollectStep(r) \/ WaitStep(r) \/ Cancel(r)
  <2>0. pc \in [Readers -> {"out", "init", "registered", "read", "subscribe", "parked",
                            "leave", "drain", "clear", "notify", "recount", "cleanup"}]
        /\ behind \in [Readers -> 0..(N - 1)]
    BY DEF IInv, TypeOK
  <2>1. CASE Initialize(r)
    <3>1. CASE wpc = "none"
      BY <2>0, <2>1, <3>1 DEF Initialize, ClearStep, Reading
    <3>2. CASE wpc # "none"
      <4>1. OtherStep
        BY <2>0, <2>1, <3>2 DEF Initialize, OtherStep, Reading
      <4> QED BY <4>1
    <3> QED BY <3>1, <3>2
  <2>2. CASE LastClears(r) \/ Cleanup(r)
    BY <2>0, <2>2 DEF LastClears, Cleanup, ClearStep, Reading
  <2>3. CASE RegisterClient(r) \/ Subscribe(r) \/ Decrement(r) \/ Drain(r)
             \/ LastNotifies(r) \/ Recount(r)
    <3>1. OtherStep
      BY <2>0, <2>3 DEF RegisterClient, Subscribe, Decrement, Drain, LastNotifies,
         Recount, OtherStep, Reading
    <3> QED BY <3>1
  <2>4. CASE ReadChunks(r)
    <3>1. CASE Stale(behind[r])
      BY <2>4, <3>1 DEF ReadChunks, CollectStep, WaitStep, Reading
    <3>2. CASE ~Stale(behind[r])
      BY <2>4, <3>2 DEF ReadChunks, CollectStep, WaitStep, Reading
    <3> QED BY <3>1, <3>2
  <2>5. CASE Wake(r)
    <3>1. CASE behind[r] = 0 /\ state = "active"
      <4>1. behind' = [behind EXCEPT ![r] = 0]
        BY <2>0, <2>5, <3>1 DEF Wake
      <4> QED BY <2>5, <3>1, <4>1 DEF Wake, WaitStep, Reading
    <3>2. CASE ~(behind[r] = 0 /\ state = "active")
      BY <2>5, <3>2 DEF Wake, CollectStep, Reading
    <3> QED BY <3>1, <3>2
  <2> QED BY <1>3, <2>1, <2>2, <2>3, <2>4, <2>5 DEF Reader
<1> QED BY <1>1, <1>2, <1>3 DEF Next, Writer

(* The slots after a Write.                                                *)
LEMMA WriteShifts ==
  ASSUME NEW kind, Write(kind)
  PROVE  /\ ring'[1].seq = writeSeq + 1 /\ ring'[1].kind = kind
         /\ \A k \in 1..N : k # 1 => k - 1 \in 1..N /\ ring'[k] = ring[k - 1]
BY NAssumption DEF Write

(* An error chunk remains the newest.                                      *)
LEMMA NextErrorLast ==
  ASSUME IInv, ErrorLast, [Next]_vars
  PROVE  ErrorLast'
<1>1. CASE WriteData
  <2>1. wpc = "loop" /\ Write("data")
    BY <1>1 DEF WriteData
  <2>2. /\ ring'[1].kind = "data"
        /\ \A k \in 1..N : k # 1 => k - 1 \in 1..N /\ ring'[k] = ring[k - 1]
    BY <2>1, WriteShifts
  <2>3. \A k \in 1..N : ring[k].kind # "error"
    BY <2>1 DEF ErrorLast
  <2> QED BY <2>2, <2>3 DEF ErrorLast
<1>2. CASE wpc = "loop" /\ Write("error") /\ wpc' = "notifyError"
  <2>1. \A k \in 1..N : k # 1 => k - 1 \in 1..N /\ ring'[k] = ring[k - 1]
    BY <1>2, WriteShifts
  <2>2. \A k \in 1..N : ring[k].kind # "error"
    BY <1>2 DEF ErrorLast
  <2> QED BY <1>2, <2>1, <2>2 DEF ErrorLast
<1>3. CASE ClearStep
  BY <1>3 DEF ClearStep, ClearBuffer, ErrorLast, Empty
<1>4. CASE OtherStep
  BY <1>4 DEF OtherStep, ErrorLast
<1>5. ASSUME NEW r \in Readers, Attach(r) \/ CollectStep(r) \/ WaitStep(r) \/ Cancel(r)
      PROVE  ErrorLast'
  BY <1>5 DEF Attach, CollectStep, WaitStep, Cancel, ErrorLast
<1> QED BY <1>1, <1>2, <1>3, <1>4, <1>5, Steps

(* So do the chunks in front of a reader.                                  *)
LEMMA NextFresh ==
  ASSUME IInv, Fresh, [Next]_vars
  PROVE  Fresh'
<1>0. /\ writeSeq \in Nat /\ cursor \in [Readers -> Nat]
      /\ behind \in [Readers -> 0..(N - 1)]
      /\ pc \in [Readers -> {"out", "init", "registered", "read", "subscribe", "parked",
                             "leave", "drain", "clear", "notify", "recount", "cleanup"}]
      /\ since \in [Readers -> {"attach", "read", "clear"}]
      /\ \A r \in Readers : cursor[r] <= writeSeq
  BY DEF IInv, TypeOK, Positions
<1>1. ASSUME NEW kind, Write(kind) PROVE Fresh'
  <2> SUFFICES ASSUME NEW r \in Readers, Reading(r)', NEW k \in 1..behind'[r],
                      ring'[k].kind # "empty"
               PROVE  ring'[k].seq > UpTo(r)'
    BY DEF Fresh
  <2>1. /\ Reading(r) /\ UpTo(r)' = UpTo(r) /\ UpTo(r) \in Int /\ UpTo(r) <= writeSeq
    BY <1>0, <1>1 DEF Write, Reading, UpTo
  <2>2. behind'[r] \in 0..(N - 1) /\ behind'[r] <= behind[r] + 1
    BY <1>0, <1>1, NAssumption DEF Write
  <2>3. k \in 1..N
    BY <2>2, NAssumption
  <2>4. /\ ring'[1].seq = writeSeq + 1
         /\ \A j \in 1..N : j # 1 => ring'[j] = ring[j - 1]
    BY <1>1, WriteShifts
  <2>5. CASE k = 1
    BY <1>0, <2>1, <2>4, <2>5
  <2>6. CASE k # 1
    <3>1. ring'[k] = ring[k - 1] /\ k - 1 \in 1..behind[r]
      BY <1>0, <2>2, <2>3, <2>4, <2>6
    <3> QED BY <2>1, <3>1 DEF Fresh
  <2> QED BY <2>5, <2>6
<1>2. CASE ClearStep
  <2>1. \A r \in Readers : \A k \in 1..behind[r] : k \in 1..N
    BY <1>0, NAssumption
  <2> QED BY <1>2, <2>1 DEF ClearStep, ClearBuffer, Fresh, Empty
<1>3. CASE OtherStep
  BY <1>3 DEF OtherStep, Fresh, UpTo
<1>4. ASSUME NEW r \in Readers, Attach(r) PROVE Fresh'
  <2>1. /\ UpTo(r)' = writeSeq - 1 /\ behind'[r] \in 0..1 /\ behind'[r] <= N
        /\ UNCHANGED <<ring, writeSeq>>
    BY <1>0, <1>4, NAssumption DEF Attach, UpTo
  <2>2. ASSUME NEW k \in 1..behind'[r], ring[k].kind # "empty"
        PROVE  ring[k].seq > writeSeq - 1
    <3>1. k = 1 /\ k \in 1..N
      BY <2>1, NAssumption
    <3>2. ring[k].seq + 1 = writeSeq + 1 /\ ring[k].seq \in Nat
      BY <2>2, <3>1 DEF IInv, RingOrdered, TypeOK
    <3> QED BY <1>0, <3>2
  <2>3. \A q \in Readers \ {r} : /\ UpTo(q)' = UpTo(q) /\ behind'[q] = behind[q]
                                 /\ Reading(q)' <=> Reading(q)
    BY <1>0, <1>4 DEF Attach, UpTo, Reading
  <2> QED BY <2>1, <2>2, <2>3 DEF Fresh
<1>5. ASSUME NEW r \in Readers, CollectStep(r) \/ WaitStep(r) \/ Cancel(r)
      PROVE  Fresh'
  <2>1. /\ \A q \in Readers \ {r} : /\ UpTo(q)' = UpTo(q) /\ behind'[q] = behind[q]
                                    /\ Reading(q)' <=> Reading(q)
        /\ behind'[r] = 0 \/ ~Reading(r)'
        /\ UNCHANGED ring
    BY <1>0, <1>5 DEF CollectStep, Collect, WaitStep, Cancel, UpTo, Reading
  <2> QED BY <2>1 DEF Fresh
<1> QED BY <1>1, <1>2, <1>3, <1>4, <1>5, Steps DEF WriteData

(* A Write adds a chunk to the log and touches no client.                  *)
LEMMA WriteMaps ==
  ASSUME NEW kind, Write(kind)
  PROVE  Log!Write
BY DEF Write, Log!Write, Reading, UpTo

(* Clearing the ring discards what was not read.                           *)
LEMMA ClearMaps ==
  ASSUME IInv, ClearStep
  PROVE  Log!Discard
<1>1. /\ writeSeq \in Nat /\ cursor \in [Readers -> Nat]
      /\ \A r \in Readers : cursor[r] <= writeSeq
  BY DEF IInv, TypeOK, Positions
<1>2. \A r \in Readers : UpTo(r)' = cursor[r] /\ UpTo(r) \in Int /\ UpTo(r) <= cursor[r]
  BY <1>1 DEF ClearStep, ClearBuffer, UpTo
<1>3. {r \in Readers : Reading(r)}' = {r \in Readers : Reading(r)}
  BY DEF ClearStep
<1>4. {r \in Readers : since[r] = "read"}' = {}
  BY DEF ClearStep, ClearBuffer
<1>5. UNCHANGED <<writeSeq, handed>>
  BY DEF ClearStep
<1> QED BY <1>1, <1>2, <1>3, <1>4, <1>5 DEF Log!Discard

(* Attaching is joining.                                                   *)
LEMMA AttachMaps ==
  ASSUME IInv, NEW r \in Readers, Attach(r)
  PROVE  Log!Join(r)
<1>1. r \notin {q \in Readers : Reading(q)}
  BY DEF Attach, Reading
<1>2. pc' = [pc EXCEPT ![r] = "read"] /\ DOMAIN pc = Readers
      /\ cursor' = [cursor EXCEPT ![r] = writeSeq] /\ DOMAIN cursor = Readers
      /\ since' = [since EXCEPT ![r] = "attach"] /\ DOMAIN since = Readers
  BY DEF Attach, IInv, TypeOK
<1>3. {q \in Readers : Reading(q)}' = {q \in Readers : Reading(q)} \union {r}
  BY <1>2 DEF Reading
<1>4. {q \in Readers : since[q] = "read"}' = {q \in Readers : since[q] = "read"} \ {r}
  BY <1>2
<1>5. [q \in Readers |-> UpTo(q)]' =
        [[q \in Readers |-> UpTo(q)] EXCEPT ![r] = writeSeq - 1]
  BY <1>2 DEF UpTo
<1>6. handed' = [handed EXCEPT ![r] = {}] /\ UNCHANGED writeSeq
  BY DEF Attach
<1> QED BY <1>1, <1>3, <1>4, <1>5, <1>6 DEF Log!Join

(* The chunks a reader takes from b on are later than those it has come    *)
(* to, the error chunk is the newest of them if there is one, and if       *)
(* nothing was lost there is none between them and its position.           *)
LEMMA Taken ==
  ASSUME IInv, LogInv, NEW r \in Readers, Reading(r), NEW b,
         b = behind[r] \/ (b = 0 /\ Stale(behind[r])),
         NEW ends \in BOOLEAN, ends <=> \E k \in 1..b : ring[k].kind = "error"
  PROVE  LET due == (UpTo(r) + 1)..(IF ends THEN writeSeq - 1 ELSE writeSeq)
         IN /\ Chunks(b) \subseteq due
            /\ since[r] = "read" /\ writeSeq - UpTo(r) < N => Chunks(b) = due
<1> DEFINE last == IF ends THEN writeSeq - 1 ELSE writeSeq
           due == (UpTo(r) + 1)..last
<1>1. /\ writeSeq \in Nat /\ cursor[r] \in Nat /\ behind[r] \in 0..(N - 1)
      /\ b \in 0..(N - 1) /\ b <= behind[r] /\ UpTo(r) \in Int /\ last \in Int
  BY NAssumption DEF IInv, TypeOK, UpTo
<1>2. \A k \in 1..b : k \in 1..N /\ k \in 1..behind[r]
  BY <1>1, NAssumption
<1>3. \A k \in 1..b : /\ ring[k].seq \in Nat /\ ring[k].kind \in Kinds
                      /\ ring[k].kind # "empty" => ring[k].seq = writeSeq + 1 - k
  <2> SUFFICES ASSUME NEW k \in 1..b
               PROVE  /\ ring[k].seq \in Nat /\ ring[k].kind \in Kinds
                      /\ ring[k].kind # "empty" => ring[k].seq = writeSeq + 1 - k
    OBVIOUS
  <2>1. k \in 1..N /\ k \in Int
    BY <1>1, <1>2
  <2>2. ring[k].seq \in Nat /\ ring[k].kind \in Kinds
    BY <2>1 DEF IInv, TypeOK
  <2>3. ring[k].kind # "empty" => ring[k].seq + k = writeSeq + 1
    BY <2>1 DEF IInv, RingOrdered
  <2> QED BY <1>1, <2>1, <2>2, <2>3
<1>4. \A k \in 1..b : ring[k].kind = "error" => k = 1
  BY <1>2 DEF LogInv, ErrorLast
<1>5. ASSUME NEW k \in 1..b, ring[k].kind = "data" PROVE ring[k].seq \in due
  <2>1. ring[k].seq = writeSeq + 1 - k /\ ring[k].seq > UpTo(r)
    BY <1>2, <1>3, <1>5 DEF LogInv, Fresh
  <2>2. ends => k # 1
    BY <1>4, <1>5
  <2> QED BY <1>1, <2>1, <2>2
<1>6. Chunks(b) \subseteq due
  <2> HIDE DEF due
  <2> QED BY <1>5 DEF Chunks
<1>7. ASSUME since[r] = "read", writeSeq - UpTo(r) < N PROVE due \subseteq Chunks(b)
  <2>1. UpTo(r) = cursor[r] /\ writeSeq - cursor[r] < N /\ cursor[r] <= writeSeq
    BY <1>7 DEF UpTo, IInv, Positions
  <2>2. /\ behind[r] = writeSeq - cursor[r]
        /\ \A k \in 1..(writeSeq - cursor[r]) : ring[k].kind # "empty"
    BY <1>7, <2>1 DEF IInv, Retained
  <2>3. b = writeSeq - cursor[r]
    <3>1. Stale(behind[r]) => writeSeq = cursor[r]
      BY <1>1, <1>7, <2>1, NotStale
    <3> QED BY <1>1, <2>2, <3>1
  <2>4. ASSUME NEW s \in due PROVE s \in Chunks(b)
    <3> DEFINE k == writeSeq + 1 - s
    <3>1. k \in 1..b /\ s \in Int
      BY <1>1, <2>1, <2>3
    <3>2. ends => k # 1
      BY <1>1
    <3>3. writeSeq + 1 - k = s
      BY <1>1, <3>1
    <3> HIDE DEF k
    <3>4. ring[k].kind # "empty"
      BY <2>2, <2>3, <3>1
    <3>5. ring[k].seq = s
      BY <1>3, <3>1, <3>3, <3>4
    <3>6. ring[k].kind # "error"
      BY <1>4, <3>1, <3>2
    <3>7. ring[k].kind = "data"
      BY <1>3, <3>1, <3>4, <3>6 DEF Kinds
    <3> QED BY <3>1, <3>5, <3>7 DEF Chunks
  <2> HIDE DEF due
  <2> QED BY <2>4
<1> QED BY <1>6, <1>7

(* A reader that takes chunks.                                             *)
LEMMA CollectMaps ==
  ASSUME IInv, LogInv, NEW r \in Readers, CollectStep(r)
  PROVE  Log!Take(r)
<1>1. PICK b : /\ Reading(r) /\ (b = behind[r] \/ (b = 0 /\ Stale(behind[r])))
               /\ Collect(r, b) /\ UNCHANGED <<ring, writeSeq>>
  BY DEF CollectStep
<1> DEFINE ends == \E k \in 1..b : ring[k].kind = "error"
           due == (UpTo(r) + 1)..(IF ends THEN writeSeq - 1 ELSE writeSeq)
<1>2. ends \in BOOLEAN
  OBVIOUS
<1>3. /\ Chunks(b) \subseteq due
      /\ since[r] = "read" /\ writeSeq - UpTo(r) < N => Chunks(b) = due
  BY <1>1, <1>2, Taken
<1>4. /\ pc' = [pc EXCEPT ![r] = IF ends THEN "leave" ELSE "read"] /\ DOMAIN pc = Readers
      /\ cursor' = [cursor EXCEPT ![r] = writeSeq] /\ DOMAIN cursor = Readers
      /\ since' = [since EXCEPT ![r] = "read"] /\ DOMAIN since = Readers
      /\ handed' = [handed EXCEPT ![r] = handed[r] \union Chunks(b)]
  BY <1>1 DEF Collect, IInv, TypeOK
<1> HIDE DEF ends
<1>5. {q \in Readers : Reading(q)}' =
        IF ends THEN {q \in Readers : Reading(q)} \ {r} ELSE {q \in Readers : Reading(q)}
  BY <1>1, <1>4 DEF Reading
<1>6. {q \in Readers : since[q] = "read"}' = {q \in Readers : since[q] = "read"} \union {r}
  BY <1>4
<1>7. [q \in Readers |-> UpTo(q)]' = [[q \in Readers |-> UpTo(q)] EXCEPT ![r] = writeSeq]
  BY <1>4 DEF UpTo
<1>8. [q \in Readers |-> UpTo(q)][r] = UpTo(r)
  OBVIOUS
<1> HIDE DEF due
<1>9. \E new \in SUBSET due :
        /\ r \in {q \in Readers : since[q] = "read"} /\ writeSeq - UpTo(r) < N => new = due
        /\ handed' = [handed EXCEPT ![r] = @ \union new]
  BY <1>3, <1>4
<1> QED BY <1>1, <1>2, <1>5, <1>6, <1>7, <1>8, <1>9 DEF Log!Take, due

(* Every step is a step of the log or leaves it alone.                     *)
LEMMA NextMaps == IInv /\ LogInv /\ [Next]_vars => [Log!Next]_(Log!vars)
<1> SUFFICES ASSUME IInv, LogInv, [Next]_vars PROVE Log!Next \/ UNCHANGED Log!vars
  OBVIOUS
<1>1. ASSUME NEW kind, Write(kind) PROVE Log!Next
  BY <1>1, WriteMaps DEF Log!Next
<1>2. CASE ClearStep
  BY <1>2, ClearMaps DEF Log!Next
<1>3. CASE OtherStep
  BY <1>3 DEF OtherStep, Log!vars, UpTo
<1>4. ASSUME NEW r \in Readers, Attach(r) \/ CollectStep(r) PROVE Log!Next
  BY <1>4, AttachMaps, CollectMaps DEF Log!Next
<1>5. ASSUME NEW r \in Readers, WaitStep(r) PROVE UNCHANGED Log!vars
  <2>1. \A q \in Readers : Reading(q)' <=> Reading(q)
    BY <1>5 DEF WaitStep, Reading, IInv, TypeOK
  <2> QED BY <1>5, <2>1 DEF WaitStep, Log!vars, UpTo
<1>6. ASSUME NEW r \in Readers, Cancel(r) PROVE Log!Next
  <2>1. Reading(r) /\ {q \in Readers : Reading(q)}' = {q \in Readers : Reading(q)} \ {r}
    BY <1>6 DEF Cancel, Reading, IInv, TypeOK
  <2>2. Log!Leave(r)
    BY <1>6, <2>1 DEF Cancel, Log!Leave, UpTo
  <2> QED BY <2>2 DEF Log!Next
<1> QED BY <1>1, <1>2, <1>3, <1>4, <1>5, <1>6, Steps DEF WriteData

(* The ring with its positions, staleness check, broadcasts and clearing   *)
(* is a log of chunks to its clients, for any size and any number of them. *)
THEOREM ImplementsLog == Spec => LogSpec
<1>1. Init => Log!Init
  BY DEF Init, Log!Init, Reading, UpTo
<1>2. IInv /\ LogInv /\ [Next]_vars => LogInv'
  BY NextErrorLast, NextFresh DEF LogInv
<1>3. IInv /\ LogInv /\ [Next]_vars => [Log!Next]_(Log!vars)
  BY NextMaps
<1> QED BY <1>1, <1>2, <1>3, InitLogInv, Inductive, PTL DEF Spec, LogSpec, Log!Spec
=============================================================================

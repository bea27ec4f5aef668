------------------------- MODULE DirectStreamProofs -------------------------
(***************************************************************************)
(* Proofs about DirectStream for any requests, sources, limits and bounds. *)
(*                                                                         *)
(* OneSpeaker is about the task of the current attempt and is not          *)
(* inductive: a handler that retries must know that its earlier tasks have *)
(* nothing left to say (Turns). ChunkNotOverwritten needs to know where a  *)
(* task may be while its read goes on (ReadsInTurn), ResponsesClosed when  *)
(* a task can hold a slot (Opened), besides the body. SlotsAccounted       *)
(* has an invariant of its own (Slots), on top of these.                   *)
(***************************************************************************)
EXTENDS DirectStream, FiniteSetTheorems, TLAPS

HandlerPlaces == {"select", "wait", "grace", "abandoned", "pause", "done"}

TaskPlaces == {"none", "peek", "media", "read", "select", "write", "end", "m3u8",
               "lines", "send", "return", "over"}

(* The types of the variables the invariants are about.                    *)
Types ==
  /\ handler \in [Clients -> HandlerPlaces]
  /\ attempt \in [Clients -> Attempts]
  /\ task \in [Tasks -> TaskPlaces]
  /\ source \in [Tasks -> Sources \union {NoSource}]
  /\ depth \in [Tasks -> 0..MaxDepth]
  /\ bodies \in [Tasks -> {0, 1}]
  /\ wrapped \in [Tasks -> BOOLEAN]
  /\ reader \in [Tasks -> {"none", "reading", "ready"}]
  /\ DOMAIN status = Tasks
  /\ DOMAIN held = Streams

(* The tasks of earlier attempts have sent their result and those of later *)
(* ones are not started; the one of the current attempt is started when    *)
(* the handler waits and has sent its result when the handler goes on.     *)
Turn(c, k) ==
  /\ k < attempt[c] => task[<<c, k>>] \in {"return", "over"}
  /\ k > attempt[c] => task[<<c, k>>] = "none"
  /\ k = attempt[c] =>
       /\ handler[c] = "select" => task[<<c, k>>] = "none"
       /\ handler[c] = "pause" => task[<<c, k>>] \in {"return", "over"}
       /\ handler[c] = "done" => task[<<c, k>>] \in {"none", "return", "over"}

Turns == \A c \in Clients, k \in Attempts : Turn(c, k)

(* A read goes on only where HandleDirectStream selects or has returned.   *)
ReadsInTurn ==
  \A t \in Tasks :
    reader[t] # "none" => task[t] \in {"select", "send", "return", "over"}

(* A task without a slot.                                                  *)
Opened ==
  \A t \in Tasks : task[t] \in {"none", "peek", "media", "over"} => held[t] = NoSource

(* The inductive invariant.                                                *)
IInv == Types /\ Turns /\ ReadsInTurn /\ Opened /\ ResponsesClosed

-----------------------------------------------------------------------------
(* Nothing is selected yet.                                                *)
LEMMA InitIInv == Init => IInv
<1> SUFFICES ASSUME Init PROVE IInv
  OBVIOUS
<1> USE DirectAssumption, ConcurrencyAssumption DEF Init, SlotInit
<1>1. Types
  BY DEF Types, HandlerPlaces, TaskPlaces, Attempts
<1>2. Turns
  BY DEF Turns, Turn, Tasks, Attempts
<1>3. ReadsInTurn /\ Opened /\ ResponsesClosed
  BY DEF ReadsInTurn, Opened, ResponsesClosed
<1> QED BY <1>1, <1>2, <1>3 DEF IInv

(* A task is the task of one client and one attempt.                       *)
LEMMA TaskOf ==
  ASSUME NEW t \in Tasks
  PROVE  t[1] \in Clients /\ t[2] \in Attempts /\ t = <<t[1], t[2]>>
  BY DEF Tasks

(* A task that runs moves on, or one that was received from ends.          *)
Moves(t, place) ==
  /\ UNCHANGED <<handler, attempt>>
  /\ \/ task[t] \notin {"none", "return", "over"} /\ place # "none"
     \/ task[t] = "return" /\ place = "over"
  /\ task' = [task EXCEPT ![t] = place]

(* ... without getting in the way of the other tasks of the request.       *)
LEMMA MovesKeepTurns ==
  ASSUME Types, Turns, NEW t \in Tasks, NEW place \in TaskPlaces, Moves(t, place)
  PROVE  Turns'
<1> SUFFICES ASSUME NEW c \in Clients, NEW k \in Attempts
             PROVE  Turn(c, k)'
  BY DEF Turns
<1>1. <<c, k>> \in Tasks
  BY DEF Tasks
<1>2. CASE t = <<c, k>>
  <2>1. task'[<<c, k>>] = place
    BY <1>1, <1>2 DEF Moves, Types
  <2>2. attempt[c] \in Nat /\ k \in Nat
    BY DirectAssumption DEF Types, Attempts
  <2> QED BY <1>2, <2>1, <2>2 DEF Moves, Turns, Turn
<1>3. CASE t # <<c, k>>
  <2>1. task'[<<c, k>>] = task[<<c, k>>]
    BY <1>1, <1>3 DEF Moves, Types
  <2> QED BY <2>1 DEF Turns, Turn, Moves
<1> QED BY <1>2, <1>3

-----------------------------------------------------------------------------
(* The steps of a handler.                                                 *)
LEMMA HandlerIInv ==
  ASSUME IInv, NEW c \in Clients, Leave(c) \/ HandlerStep(c) \/ GraceExpires(c)
  PROVE  IInv'
<1> USE DirectAssumption, ConcurrencyAssumption DEF IInv
<1>0. Task(c) \in Tasks /\ attempt[c] \in Attempts
  BY DEF Types, Task, Tasks
<1>1. CASE Leave(c)
  BY <1>1 DEF Leave, taskVars, slotVars, Types, Turns, Turn, ReadsInTurn, Opened, ResponsesClosed
<1>2. CASE Selected(c)
  <2>1. PICK s \in Sources :
          /\ handler[c] = "select"
          /\ handler' = [handler EXCEPT ![c] = "wait"]
          /\ task' = [task EXCEPT ![Task(c)] = "peek"]
          /\ source' = [source EXCEPT ![Task(c)] = s]
          /\ bodies' = [bodies EXCEPT ![Task(c)] = 1]
          /\ UNCHANGED <<attempt, failed, gone, headers, depth, wrapped, reader,
                         chunk, sent, status, slotVars>>
    BY <1>2 DEF Selected
  <2>2. task[Task(c)] = "none"
    BY <1>0, <2>1 DEF Turns, Turn, Task
  <2>3. Types'
    BY <1>0, <2>1 DEF Types, HandlerPlaces, TaskPlaces, slotVars
  <2>4. Turns'
    <3> SUFFICES ASSUME NEW d \in Clients, NEW k \in Attempts
                 PROVE  Turn(d, k)'
      BY DEF Turns
    <3>1. <<d, k>> \in Tasks /\ k \in Nat /\ attempt[d] \in Nat
      BY DEF Tasks, Attempts, Types
    <3>2. CASE d = c /\ k = attempt[c]
      BY <2>1, <3>1, <3>2 DEF Types, Turn, Task
    <3>3. CASE ~(d = c /\ k = attempt[c])
      <4>1. task'[<<d, k>>] = task[<<d, k>>]
        BY <2>1, <3>1, <3>3 DEF Types, Task
      <4>2. k # attempt[d] \/ handler'[d] = handler[d]
        BY <2>1, <3>3 DEF Types
      <4> QED BY <2>1, <4>1, <4>2 DEF Turns, Turn
    <3> QED BY <3>2, <3>3
  <2>5. ReadsInTurn' /\ Opened' /\ ResponsesClosed'
    BY <1>0, <2>1, <2>2 DEF Types, ReadsInTurn, Opened, ResponsesClosed, slotVars
  <2> QED BY <2>3, <2>4, <2>5
<1>3. CASE SelectionFails(c)
  <2>1. /\ handler[c] = "select"
        /\ handler' = handler \/ handler' = [handler EXCEPT ![c] = "done"]
        /\ UNCHANGED <<attempt, taskVars, slotVars>>
    BY <1>3 DEF SelectionFails
  <2>2. task[Task(c)] = "none"
    BY <1>0, <2>1 DEF Turns, Turn, Task
  <2>3. Turns'
    BY <2>1, <2>2 DEF Turns, Turn, Task, Types, taskVars
  <2>4. Types'
    BY <2>1 DEF Types, HandlerPlaces, taskVars, slotVars
  <2> QED BY <2>1, <2>3, <2>4 DEF ReadsInTurn, Opened, ResponsesClosed, taskVars, slotVars
<1>4. CASE Receive(c)
  <2>1. /\ handler[c] \in {"wait", "grace"} /\ task[Task(c)] = "send"
        /\ task' = [task EXCEPT ![Task(c)] = "return"]
        /\ \E h \in {"done", "pause"} : handler' = [handler EXCEPT ![c] = h]
        /\ UNCHANGED <<attempt, source, depth, bodies, wrapped, reader, status,
                       slotVars>>
    BY <1>4 DEF Receive
  <2>2. Types'
    BY <1>0, <2>1 DEF Types, HandlerPlaces, TaskPlaces, slotVars
  <2>3. Turns'
    <3> SUFFICES ASSUME NEW d \in Clients, NEW k \in Attempts
                 PROVE  Turn(d, k)'
      BY DEF Turns
    <3>1. <<d, k>> \in Tasks /\ k \in Nat /\ attempt[d] \in Nat
      BY DEF Tasks, Attempts, Types
    <3>2. CASE d = c /\ k = attempt[c]
      <4>1. task'[<<d, k>>] = "return" /\ handler'[d] # "select"
        BY <2>1, <3>1, <3>2 DEF Types, Task
      <4> QED BY <2>1, <3>1, <3>2, <4>1 DEF Turn
    <3>3. CASE ~(d = c /\ k = attempt[c])
      <4>1. task'[<<d, k>>] = task[<<d, k>>]
        BY <2>1, <3>1, <3>3 DEF Types, Task
      <4>2. k # attempt[d] \/ handler'[d] = handler[d]
        BY <2>1, <3>3 DEF Types
      <4> QED BY <2>1, <4>1, <4>2 DEF Turns, Turn
    <3> QED BY <3>2, <3>3
  <2>4. ReadsInTurn' /\ Opened' /\ ResponsesClosed'
    BY <1>0, <2>1 DEF Types, ReadsInTurn, Opened, ResponsesClosed, slotVars
  <2> QED BY <2>2, <2>3, <2>4
<1>5. CASE Cancel(c) \/ GraceExpires(c)
  <2>1. /\ \E h \in {"grace", "abandoned"} : handler' = [handler EXCEPT ![c] = h]
        /\ UNCHANGED <<attempt, taskVars, slotVars>>
    BY <1>5 DEF Cancel, GraceExpires
  <2>2. Turns'
    BY <2>1 DEF Turns, Turn, Types, taskVars
  <2>3. Types'
    BY <2>1 DEF Types, HandlerPlaces, taskVars, slotVars
  <2> QED BY <2>1, <2>2, <2>3 DEF ReadsInTurn, Opened, ResponsesClosed, taskVars, slotVars
<1>6. CASE Retry(c)
  <2>1. handler[c] = "pause" /\ UNCHANGED <<taskVars, slotVars>>
    BY <1>6 DEF Retry
  <2>2. ReadsInTurn' /\ Opened' /\ ResponsesClosed'
    BY <2>1 DEF ReadsInTurn, Opened, ResponsesClosed, taskVars, slotVars
  <2>3. CASE handler' = [handler EXCEPT ![c] = "done"] /\ attempt' = attempt
    <3>1. Turns'
      BY <2>1, <2>3 DEF Turns, Turn, Types, taskVars
    <3> QED BY <2>1, <2>2, <2>3, <3>1 DEF Types, HandlerPlaces, taskVars, slotVars
  <2>4. CASE /\ attempt[c] < MaxAttempts
             /\ handler' = [handler EXCEPT ![c] = "select"]
             /\ attempt' = [attempt EXCEPT ![c] = attempt[c] + 1]
    <3>1. attempt' \in [Clients -> Attempts]
      BY <1>0, <2>4 DEF Types, Attempts
    <3>2. Turns'
      <4> SUFFICES ASSUME NEW d \in Clients, NEW k \in Attempts
                   PROVE  Turn(d, k)'
        BY DEF Turns
      <4>1. CASE d = c
        <5>1. attempt'[c] = attempt[c] + 1 /\ handler'[c] = "select"
              /\ k \in Nat /\ attempt[c] \in Nat
          BY <1>0, <2>4 DEF Types, Attempts
        <5> QED BY <2>1, <4>1, <5>1 DEF Turns, Turn, taskVars
      <4>2. CASE d # c
        BY <2>1, <2>4, <4>2 DEF Turns, Turn, Types, taskVars
      <4> QED BY <4>1, <4>2
    <3> QED BY <2>1, <2>2, <2>4, <3>1, <3>2 DEF Types, HandlerPlaces, taskVars, slotVars
  <2> QED BY <1>6, <2>3, <2>4 DEF Retry
<1> QED BY <1>1, <1>2, <1>3, <1>4, <1>5, <1>6 DEF HandlerStep

-----------------------------------------------------------------------------
(* The steps of a task. Each is one of these moves.                        *)

(* HandleDirectStream from one place to the next: nothing is opened or     *)
(* closed.                                                                 *)
LEMMA DirectMoveIInv ==
  ASSUME IInv, NEW t \in Tasks, NEW place \in {"read", "select", "write", "end"},
         task[t] \in {"media", "read", "select", "write", "end"}, Moves(t, place),
         reader' \in [Tasks -> {"none", "reading", "ready"}],
         reader'[t] # "none" => place = "select",
         \A u \in Tasks \ {t} : reader'[u] = reader[u] /\ held'[u] = held[u],
         DOMAIN held' = Streams, UNCHANGED <<source, depth, bodies, wrapped, status>>
  PROVE  IInv'
<1> USE DEF IInv
<1>1. Types'
  BY DEF Types, Moves, TaskPlaces
<1>2. Turns'
  BY MovesKeepTurns DEF TaskPlaces
<1>3. ReadsInTurn' /\ Opened' /\ ResponsesClosed'
  BY DEF Types, Moves, ReadsInTurn, Opened, ResponsesClosed
<1> QED BY <1>1, <1>2, <1>3

(* A task has its result.                                                  *)
LEMMA FinishIInv ==
  ASSUME IInv, NEW t \in Tasks, NEW s, NEW open \in {0, 1},
         task[t] \notin {"none", "send", "return", "over"}, Finish(t, s, open),
         \/ open = 0
         \/ /\ open = 1
            /\ \/ s = "ServerError" /\ held[t] = NoSource
               \/ s = "Incompatible" /\ depth[t] = MaxDepth
               \/ wrapped[t] /\ s = "ClientClosed"
               \/ wrapped[t] /\ s = "Incompatible" /\ depth[t] = 0,
         reader' \in [Tasks -> {"none", "reading", "ready"}],
         \A u \in Tasks \ {t} : reader'[u] = reader[u],
         UNCHANGED <<handler, attempt, source, depth, wrapped, slotVars>>
  PROVE  IInv'
<1> USE DEF IInv
<1>1. Types'
  BY DEF Types, Finish, TaskPlaces, slotVars
<1>2. Turns'
  BY MovesKeepTurns DEF Moves, Finish, TaskPlaces
<1>3. ReadsInTurn' /\ Opened'
  BY DEF Types, Finish, ReadsInTurn, Opened, slotVars
<1>4. ResponsesClosed'
  BY DEF Types, Finish, ResponsesClosed, slotVars
<1> QED BY <1>1, <1>2, <1>3, <1>4

(* ... of HandleDirectStream: it leaves a body open only when the client   *)
(* has left.                                                               *)
LEMMA DirectReturnsIInv ==
  ASSUME IInv, NEW t \in Tasks, NEW s, DirectReturns(t, s),
         s = "ClientClosed" \/ chunk[t].err # "nil",
         task[t] \notin {"none", "send", "return", "over"},
         reader' \in [Tasks -> {"none", "reading", "ready"}],
         \A u \in Tasks \ {t} : reader'[u] = reader[u],
         UNCHANGED <<handler, attempt, source, depth, wrapped, slotVars>>
  PROVE  IInv'
<1>1. PICK open \in {0, bodies[t]} :
        /\ Finish(t, s, open)
        /\ open = 0 \/ (wrapped[t] /\ chunk[t].err = "nil")
  BY DEF DirectReturns
<1>2. open \in {0, 1}
  BY DEF IInv, Types
<1> QED BY <1>1, <1>2, FinishIInv

(* ProcessM3U8Stream reads on, one response deeper or not.                 *)
LEMMA PlaylistMoveIInv ==
  ASSUME IInv, NEW t \in Tasks, NEW place \in {"m3u8", "lines"},
         task[t] \in {"m3u8", "lines"}, Moves(t, place),
         depth' \in [Tasks -> 0..MaxDepth], bodies' \in [Tasks -> {0, 1}],
         \A u \in Tasks \ {t} : depth'[u] = depth[u] /\ bodies'[u] = bodies[u],
         UNCHANGED <<source, wrapped, reader, status, slotVars>>
  PROVE  IInv'
<1> USE DEF IInv
<1>1. Types'
  BY DEF Types, Moves, TaskPlaces, slotVars
<1>2. Turns'
  BY MovesKeepTurns DEF TaskPlaces
<1>3. ReadsInTurn' /\ Opened' /\ ResponsesClosed'
  BY DEF Types, Moves, ReadsInTurn, Opened, ResponsesClosed, slotVars
<1> QED BY <1>1, <1>2, <1>3

(* IsProbablyM3U8 has its answer.                                          *)
LEMMA PeekIInv ==
  ASSUME IInv, NEW t \in Tasks, Peek(t)
  PROVE  IInv'
<1> USE DEF IInv
<1>1. PICK place \in {"media", "m3u8"} : task' = [task EXCEPT ![t] = place]
  BY DEF Peek
<1>2. /\ task[t] = "peek"
      /\ \E open \in {bodies[t], 0} : bodies' = [bodies EXCEPT ![t] = open]
      /\ \E w \in {wrapped[t], TRUE} : wrapped' = [wrapped EXCEPT ![t] = w]
      /\ UNCHANGED <<handler, attempt, source, depth, reader, status, slotVars>>
  BY DEF Peek, handlerVars, Types
<1>3. Types'
  BY <1>1, <1>2 DEF Types, TaskPlaces, slotVars
<1>4. Turns'
  BY <1>1, <1>2, MovesKeepTurns DEF Moves, TaskPlaces
<1>5. ReadsInTurn' /\ Opened' /\ ResponsesClosed'
  BY <1>1, <1>2 DEF Types, ReadsInTurn, Opened, ResponsesClosed, slotVars
<1> QED BY <1>3, <1>4, <1>5

(* The deferred release, when the status has been received.                *)
LEMMA ReturnIInv ==
  ASSUME IInv, NEW t \in Tasks, Return(t)
  PROVE  IInv'
<1> USE DirectAssumption DEF IInv
<1>1. /\ task[t] = "return" /\ task' = [task EXCEPT ![t] = "over"]
      /\ source' = [source EXCEPT ![t] = NoSource]
      /\ depth' = [depth EXCEPT ![t] = 0]
      /\ bodies' = [bodies EXCEPT ![t] = 0]
      /\ wrapped' = [wrapped EXCEPT ![t] = FALSE]
      /\ status' = [status EXCEPT ![t] = "none"]
      /\ UNCHANGED <<handler, attempt, reader>>
  BY DEF Return, Forget, handlerVars
<1>2. /\ DOMAIN held' = Streams /\ held'[t] = NoSource
      /\ \A u \in Tasks \ {t} : held'[u] = held[u]
  BY DEF Return, Release, slotVars, Types
<1>3. Types'
  BY <1>1, <1>2 DEF Types, TaskPlaces
<1>4. Turns'
  BY <1>1, MovesKeepTurns DEF Moves, TaskPlaces
<1>5. ReadsInTurn' /\ Opened' /\ ResponsesClosed'
  BY <1>1, <1>2 DEF Types, ReadsInTurn, Opened, ResponsesClosed
<1> QED BY <1>3, <1>4, <1>5

(* The steps of ProxyStream and of the goroutine that reads for it.        *)
LEMMA TaskIInv ==
  ASSUME IInv, NEW t \in Tasks,
         TaskStep(t) \/ Peek(t) \/ WriteLine(t) \/ ReadReturns(t)
  PROVE  IInv'
<1> USE DirectAssumption DEF IInv
<1>0. t \in Streams
  OBVIOUS
<1>1. CASE Admit(t)
  <2>1. CASE Acquire(t, source[t]) /\ task' = [task EXCEPT ![t] = "read"]
             /\ UNCHANGED <<status, bodies>>
    <3>1. /\ Moves(t, "read") /\ task[t] = "media"
          /\ UNCHANGED <<source, depth, bodies, wrapped, status, reader>>
      BY <1>1, <2>1 DEF Admit, Moves, handlerVars
    <3>2. DOMAIN held' = Streams /\ \A u \in Tasks \ {t} : held'[u] = held[u]
      BY <1>0, <2>1 DEF Acquire, Types
    <3>3. reader'[t] = "none"
      BY <3>1 DEF ReadsInTurn
    <3>4. reader' \in [Tasks -> {"none", "reading", "ready"}]
          /\ \A u \in Tasks \ {t} : reader'[u] = reader[u]
      BY <3>1 DEF Types
    <3> QED BY <3>1, <3>2, <3>3, <3>4, DirectMoveIInv
  <2>2. CASE Finish(t, "ServerError", bodies[t]) /\ UNCHANGED slotVars
    <3>1. /\ held[t] = NoSource /\ bodies[t] \in {0, 1} /\ task[t] = "media"
          /\ UNCHANGED <<handler, attempt, source, depth, wrapped, reader>>
      BY <1>1 DEF Admit, handlerVars, Opened, Types
    <3>2. reader' \in [Tasks -> {"none", "reading", "ready"}]
          /\ \A u \in Tasks \ {t} : reader'[u] = reader[u]
      BY <3>1 DEF Types
    <3>3. Finish(t, "ServerError", 0) \/ Finish(t, "ServerError", 1)
      BY <2>2, <3>1
    <3> QED BY <2>2, <3>1, <3>2, <3>3, FinishIInv
  <2> QED BY <1>1, <2>1, <2>2 DEF Admit
<1>2. CASE LaunchRead(t)
  <2>1. /\ Moves(t, "select") /\ task[t] = "read"
        /\ reader' = [reader EXCEPT ![t] = "reading"]
        /\ UNCHANGED <<source, depth, bodies, wrapped, status, held>>
    BY <1>2 DEF LaunchRead, Moves, handlerVars, slotVars
  <2> QED BY <2>1, DirectMoveIInv DEF Types
<1>3. CASE ContextDone(t)
  <2>1. /\ task[t] = "select" /\ DirectReturns(t, "ClientClosed")
        /\ reader' \in [Tasks -> {"none", "reading", "ready"}]
        /\ \A u \in Tasks \ {t} : reader'[u] = reader[u]
        /\ UNCHANGED <<handler, attempt, source, depth, wrapped, slotVars>>
    BY <1>3 DEF ContextDone, handlerVars, Types
  <2> QED BY <2>1, DirectReturnsIInv
<1>4. CASE Take(t)
  <2>1. PICK place \in {"write", "end"} : task' = [task EXCEPT ![t] = place]
    BY <1>4 DEF Take
  <2>2. /\ Moves(t, place) /\ task[t] = "select"
        /\ reader' = [reader EXCEPT ![t] = "none"]
        /\ UNCHANGED <<source, depth, bodies, wrapped, status, held>>
    BY <1>4, <2>1 DEF Take, Moves, handlerVars, slotVars
  <2> QED BY <2>2, DirectMoveIInv DEF Types
<1>5. CASE Write(t)
  <2>1. /\ task[t] = "write" /\ reader[t] = "none"
        /\ UNCHANGED <<handler, attempt, source, depth, wrapped, reader, slotVars>>
    BY <1>5 DEF Write, handlerVars, ReadsInTurn
  <2>2. CASE task' = [task EXCEPT ![t] = "end"] /\ UNCHANGED <<status, bodies>>
    <3>1. Moves(t, "end")
      BY <2>1, <2>2 DEF Moves
    <3> QED BY <2>1, <2>2, <3>1, DirectMoveIInv DEF Types, slotVars
  <2>3. CASE DirectReturns(t, "ClientClosed")
    BY <2>1, <2>3, DirectReturnsIInv DEF Types
  <2> QED BY <1>5, <2>2, <2>3 DEF Write
<1>6. CASE CheckRead(t)
  <2>1. /\ task[t] = "end" /\ reader[t] = "none"
        /\ UNCHANGED <<handler, attempt, source, depth, wrapped, reader, slotVars>>
    BY <1>6 DEF CheckRead, handlerVars, ReadsInTurn
  <2>2. CASE task' = [task EXCEPT ![t] = "read"] /\ UNCHANGED <<status, bodies>>
    <3>1. Moves(t, "read")
      BY <2>1, <2>2 DEF Moves
    <3> QED BY <2>1, <2>2, <3>1, DirectMoveIInv DEF Types, slotVars
  <2>3. ASSUME NEW s, DirectReturns(t, s), chunk[t].err # "nil" PROVE IInv'
    BY <2>1, <2>3, DirectReturnsIInv DEF Types
  <2> QED BY <1>6, <2>2, <2>3 DEF CheckRead
<1>7. CASE PlaylistFails(t) \/ WriteLineFails(t) \/ PlaylistDone(t)
  <2>1. /\ task[t] \in {"m3u8", "lines"}
        /\ UNCHANGED <<handler, attempt, source, depth, wrapped, reader, slotVars>>
    BY <1>7 DEF PlaylistFails, WriteLineFails, PlaylistDone, handlerVars
  <2>2. CASE PlaylistFails(t)
    <3>1. PICK open \in {0, bodies[t]} :
            /\ Finish(t, "Incompatible", open)
            /\ open = 0 \/ (wrapped[t] /\ depth[t] = 0)
      BY <2>2 DEF PlaylistFails
    <3>2. open \in {0, 1}
      BY DEF Types
    <3>3. reader' \in [Tasks -> {"none", "reading", "ready"}]
          /\ \A u \in Tasks \ {t} : reader'[u] = reader[u]
      BY <2>1 DEF Types
    <3>4. CASE open = 0
      BY <2>1, <3>1, <3>3, <3>4, FinishIInv
    <3>5. CASE open # 0
      <4>1. Finish(t, "Incompatible", 1) /\ wrapped[t] /\ depth[t] = 0
        BY <3>1, <3>2, <3>5
      <4> QED BY <2>1, <3>3, <4>1, FinishIInv
    <3> QED BY <3>4, <3>5
  <2>3. CASE WriteLineFails(t) \/ PlaylistDone(t)
    <3>1. Finish(t, "Incompatible", 0) \/ Finish(t, "M3U8Parsed", 0)
      BY <2>3 DEF WriteLineFails, PlaylistDone
    <3> QED BY <2>1, <3>1, FinishIInv DEF Types
  <2> QED BY <1>7, <2>2, <2>3
<1>8. CASE FollowVariant(t)
  <2>1. /\ task[t] = "m3u8" /\ depth[t] \in 0..MaxDepth
        /\ UNCHANGED <<handler, attempt, source, wrapped, reader, slotVars>>
    BY <1>8 DEF FollowVariant, handlerVars, Types
  <2>2. CASE depth[t] < MaxDepth
    <3>1. /\ depth' = [depth EXCEPT ![t] = depth[t] + 1]
          /\ bodies' = [bodies EXCEPT ![t] = 1]
          /\ UNCHANGED <<task, status>>
      BY <1>8, <2>2 DEF FollowVariant
    <3>2. depth' \in [Tasks -> 0..MaxDepth] /\ bodies' \in [Tasks -> {0, 1}]
          /\ \A u \in Tasks \ {t} : depth'[u] = depth[u] /\ bodies'[u] = bodies[u]
      BY <2>1, <2>2, <3>1 DEF Types
    <3>3. Moves(t, "m3u8")
      BY <2>1, <3>1 DEF Moves, Types
    <3> QED BY <2>1, <3>1, <3>2, <3>3, PlaylistMoveIInv
  <2>3. CASE ~(depth[t] < MaxDepth)
    <3>1. Finish(t, "Incompatible", 1) /\ depth' = depth
      BY <1>8, <2>3 DEF FollowVariant
    <3>2. depth[t] = MaxDepth
      BY <2>1, <2>3
    <3> QED BY <2>1, <3>1, <3>2, FinishIInv DEF Types
  <2> QED BY <2>2, <2>3
<1>9. CASE WriteLine(t)
  <2>1. /\ Moves(t, "lines") /\ task[t] \in {"m3u8", "lines"}
        /\ UNCHANGED <<source, depth, bodies, wrapped, reader, status, slotVars>>
    BY <1>9 DEF WriteLine, Moves, handlerVars
  <2> QED BY <2>1, PlaylistMoveIInv DEF Types
<1>10. CASE ReadReturns(t)
  <2>1. /\ reader[t] = "reading"
        /\ \E r \in {"none", "ready"} : reader' = [reader EXCEPT ![t] = r]
        /\ \E open \in {bodies[t], 0} : bodies' = [bodies EXCEPT ![t] = open]
        /\ UNCHANGED <<handler, attempt, task, source, depth, wrapped, status, held>>
    BY <1>10 DEF ReadReturns, handlerVars, slotVars, Types
  <2>2. Types' /\ Turns'
    BY <2>1 DEF Types, Turns, Turn
  <2> QED BY <2>1, <2>2 DEF Types, ReadsInTurn, Opened, ResponsesClosed
<1> QED BY <1>1, <1>2, <1>3, <1>4, <1>5, <1>6, <1>7, <1>8, <1>9, <1>10, ReturnIInv,
           PeekIInv DEF TaskStep

(* Every step keeps the invariant; the other streams have slots of their   *)
(* own.                                                                    *)
LEMMA NextIInv == IInv /\ [Next]_directVars => IInv'
<1> SUFFICES ASSUME IInv, [Next]_directVars PROVE IInv'
  OBVIOUS
<1>1. ASSUME NEW o \in Others, OtherStream(o) PROVE IInv'
  <2>1. /\ DOMAIN held' = Streams /\ \A t \in Tasks : held'[t] = held[t]
        /\ UNCHANGED <<handlerVars, taskVars>>
    BY <1>1, DirectAssumption DEF OtherStream, Acquire, Release, IInv, Types
  <2>2. Types' /\ Turns'
    BY <2>1 DEF IInv, Types, Turns, Turn, handlerVars, taskVars
  <2> QED BY <2>1, <2>2 DEF IInv, ReadsInTurn, Opened, ResponsesClosed, taskVars
<1>2. CASE UNCHANGED directVars
  <2>1. UNCHANGED <<handler, attempt, task, source, depth, bodies, wrapped, reader,
                  status, held>>
    BY <1>2 DEF directVars, handlerVars, taskVars, slotVars
  <2> QED BY <2>1 DEF IInv, Types, Turns, Turn, ReadsInTurn, Opened, ResponsesClosed
<1> QED BY <1>1, <1>2, HandlerIInv, TaskIInv DEF Next

(* The invariant holds throughout.                                         *)
LEMMA Invariance == Spec => []IInv
  BY InitIInv, NextIInv, PTL DEF Spec

-----------------------------------------------------------------------------
(* The ResponseWriter of a request is used by the task of its current      *)
(* attempt alone, and after the handler has returned only by one it gave   *)
(* up waiting for (stream_http.go, the grace period).                      *)
THEOREM ResponseOfOneTask == Spec => []OneSpeaker
<1>1. IInv => OneSpeaker
  <2> SUFFICES ASSUME IInv, NEW t \in Tasks, Speaking(t)
               PROVE  /\ t = Task(Client(t))
                      /\ handler[Client(t)] \in {"wait", "grace", "abandoned"}
    BY DEF OneSpeaker
  <2>1. /\ t[1] \in Clients /\ t[2] \in Attempts /\ t = <<t[1], t[2]>>
        /\ Turn(t[1], t[2])
    BY TaskOf DEF IInv, Turns
  <2>2. attempt[t[1]] \in Nat /\ t[2] \in Nat /\ handler[t[1]] \in HandlerPlaces
    BY <2>1 DEF IInv, Types, Attempts
  <2>3. task[<<t[1], t[2]>>] \notin {"none", "send", "return", "over"}
    BY <2>1 DEF Speaking
  <2>4. t[2] = attempt[t[1]]
    BY <2>1, <2>2, <2>3 DEF Turn
  <2>5. handler[t[1]] \notin {"select", "pause", "done"}
    BY <2>1, <2>3, <2>4 DEF Turn
  <2> QED BY <2>1, <2>2, <2>4, <2>5 DEF Task, Client, HandlerPlaces
<1> QED BY <1>1, Invariance, PTL

(* HandleDirectStream never writes from a buffer that a read still fills.  *)
THEOREM BufferNotShared == Spec => []ChunkNotOverwritten
<1>1. IInv => ChunkNotOverwritten
  BY DEF IInv, ReadsInTurn, ChunkNotOverwritten
<1> QED BY <1>1, Invariance, PTL

(* A task that has its result has released its responses, but for those    *)
(* the code misses: the refused one, the one beyond the limit on nested    *)
(* playlists, and a peeked body (url.go:107, io.NopCloser) that was left   *)
(* before its end.                                                         *)
THEOREM NoOtherBodyLeaks == Spec => []ResponsesClosed
<1>1. IInv => ResponsesClosed
  BY DEF IInv
<1> QED BY <1>1, Invariance, PTL
-----------------------------------------------------------------------------
(* The slots, with the help of the invariant: a task takes one only when   *)
(* it holds none (Opened).                                                 *)

(* The counters are exact, and a task that asks for a slot names a source. *)
Slots ==
  /\ count \in [Sources -> Nat]
  /\ held \in [Streams -> Sources \union {NoSource}]
  /\ SlotsAccounted
  /\ \A t \in Tasks : task[t] \in {"peek", "media"} => source[t] \in Sources

(* The tasks that ask for a slot stay the same, or fewer.                  *)
NoNewMedia ==
  \A t \in Tasks : task'[t] \in {"peek", "media"} =>
    task[t] \in {"peek", "media"} /\ source'[t] = source[t]

(* The limits are positive numbers.                                        *)
LEMMA LimitsPositive == Max \in [Sources -> Nat \ {0}]
<1>1. Int32Max \in Nat
  BY SMT DEF Int32Max
<1> QED BY <1>1, ConcurrencyAssumption

(* Who takes a slot or gives it back is counted, and nobody else is.       *)
LEMMA SlotMoves ==
  ASSUME Slots, NEW h \in Streams, NoNewMedia,
         \/ held[h] = NoSource /\ \E s \in Sources : Acquire(h, s)
         \/ held[h] # NoSource /\ Release(h)
  PROVE  Slots'
<1> USE ConcurrencyAssumption, LimitsPositive
<1>1. \A s \in Sources : IsFiniteSet(Holders(s)) /\ Cardinality(Holders(s)) \in Nat
  BY FS_Subset, FS_CardinalityType DEF Holders
<1>2. \A s \in Sources : count[s] = Cardinality(Holders(s)) /\ count[s] <= Max[s]
  BY DEF Slots, SlotsAccounted
<1>3. ASSUME NEW s \in Sources, held[h] = NoSource, Acquire(h, s) PROVE Slots'
  <2>1. /\ count' \in [Sources -> Nat] /\ held' \in [Streams -> Sources \union {NoSource}]
        /\ count'[s] = count[s] + 1 /\ count[s] < Max[s] /\ Max[s] \in Nat
        /\ \A u \in Sources \ {s} : count'[u] = count[u]
    <3>1. /\ count \in [Sources -> Nat] /\ held \in [Streams -> Sources \union {NoSource}]
          /\ count' = [count EXCEPT ![s] = count[s] + 1] /\ count[s] < Max[s]
          /\ held' = [held EXCEPT ![h] = s] /\ Max[s] \in Nat
      BY <1>3 DEF Slots, Acquire
    <3> QED BY ONLY <3>1, s \in Sources, h \in Streams
  <2>2. Holders(s)' = Holders(s) \union {h} /\ h \notin Holders(s)
    <3>1. held \in [Streams -> Sources \union {NoSource}] /\ held' = [held EXCEPT ![h] = s]
      BY <1>3 DEF Slots, Acquire
    <3> QED BY ONLY <1>3, <3>1, ConcurrencyAssumption, h \in Streams DEF Holders
  <2>3. \A u \in Sources \ {s} : Holders(u)' = Holders(u)
    BY <1>3 DEF Slots, Holders, Acquire
  <2>4. Cardinality(Holders(s)') = Cardinality(Holders(s)) + 1
    BY <1>1, <2>2, FS_AddElement
  <2>5. SlotsAccounted'
    BY <1>1, <1>2, <2>1, <2>3, <2>4 DEF SlotsAccounted
  <2> QED BY <2>1, <2>5 DEF Slots, NoNewMedia
<1>4. ASSUME held[h] # NoSource, Release(h) PROVE Slots'
  <2>0. PICK s \in Sources : s = held[h]
    BY <1>4 DEF Slots
  <2>1. Holders(s)' = Holders(s) \ {h} /\ h \in Holders(s)
    BY <1>4, <2>0 DEF Slots, Holders, Release
  <2>2. \A u \in Sources \ {s} : Holders(u)' = Holders(u)
    BY <1>4, <2>0 DEF Slots, Holders, Release
  <2>3. /\ Cardinality(Holders(s)') = Cardinality(Holders(s)) - 1
        /\ Cardinality(Holders(s)') \in Nat
    BY <1>1, <2>1, FS_RemoveElement, FS_CardinalityType
  <2>4. count[s] > 0
    BY <1>1, <1>2, <2>3
  <2>5. /\ count' \in [Sources -> Nat] /\ held' \in [Streams -> Sources \union {NoSource}]
        /\ count'[s] = count[s] - 1 /\ \A u \in Sources \ {s} : count'[u] = count[u]
    BY <1>4, <2>0, <2>4 DEF Slots, Release
  <2>6. SlotsAccounted'
    BY <1>1, <1>2, <2>2, <2>3, <2>5 DEF SlotsAccounted
  <2> QED BY <2>5, <2>6 DEF Slots, NoNewMedia
<1> QED BY <1>3, <1>4

(* Steps that leave the counters alone.                                    *)
LEMMA SlotsUntouched ==
  ASSUME Slots, UNCHANGED slotVars,
         \A t \in Tasks : task'[t] \in {"peek", "media"} => source'[t] \in Sources
  PROVE  Slots'
BY DEF Slots, SlotsAccounted, Holders, slotVars

(* Only Admit, Return and the other streams touch the counters.            *)
LEMMA NextSlots == IInv /\ Slots /\ [Next]_directVars => Slots'
<1> SUFFICES ASSUME IInv, Slots, [Next]_directVars PROVE Slots'
  OBVIOUS
<1> USE DirectAssumption
<1>0. task \in [Tasks -> TaskPlaces] /\ source \in [Tasks -> Sources \union {NoSource}]
  BY DEF IInv, Types
<1>1. ASSUME NEW c \in Clients, Leave(c) \/ HandlerStep(c) \/ GraceExpires(c)
      PROVE  Slots'
  <2>1. CASE Selected(c)
    <3>1. /\ UNCHANGED slotVars
          /\ \E s \in Sources :
               /\ task' = [task EXCEPT ![Task(c)] = "peek"]
               /\ source' = [source EXCEPT ![Task(c)] = s]
      BY <2>1 DEF Selected
    <3>2. \A t \in Tasks : task'[t] \in {"peek", "media"} => source'[t] \in Sources
      BY <1>0, <3>1 DEF Slots
    <3> QED BY <3>1, <3>2, SlotsUntouched
  <2>2. CASE Receive(c)
    <3>1. task' = [task EXCEPT ![Task(c)] = "return"] /\ UNCHANGED <<source, slotVars>>
      BY <2>2 DEF Receive
    <3>2. \A t \in Tasks : task'[t] \in {"peek", "media"} => source'[t] \in Sources
      BY <1>0, <3>1 DEF Slots
    <3> QED BY <3>1, <3>2, SlotsUntouched
  <2>3. CASE Leave(c) \/ SelectionFails(c) \/ Cancel(c) \/ GraceExpires(c) \/ Retry(c)
    <3>1. UNCHANGED <<task, source, slotVars>>
      BY <2>3 DEF Leave, SelectionFails, Cancel, GraceExpires, Retry, taskVars
    <3>2. \A t \in Tasks : task'[t] \in {"peek", "media"} => source'[t] \in Sources
      BY <3>1 DEF Slots
    <3> QED BY <3>1, <3>2, SlotsUntouched
  <2> QED BY <1>1, <2>1, <2>2, <2>3 DEF HandlerStep
<1>2. ASSUME NEW t \in Tasks, TaskStep(t) \/ Peek(t) \/ WriteLine(t) \/ ReadReturns(t)
      PROVE  Slots'
  <2>1. ASSUME NEW place \in TaskPlaces \ {"peek", "media"}, task' = [task EXCEPT ![t] = place],
               \A u \in Tasks \ {t} : source'[u] = source[u]
        PROVE  NoNewMedia
    BY <1>0, <2>1 DEF NoNewMedia
  <2>2. ASSUME NoNewMedia, UNCHANGED slotVars PROVE Slots'
    BY <2>2, SlotsUntouched DEF NoNewMedia, Slots
  <2>3. CASE Admit(t)
    <3>1. task[t] = "media" /\ held[t] = NoSource /\ source[t] \in Sources
      BY <2>3 DEF Admit, IInv, Opened, Slots
    <3>2. NoNewMedia
      <4>1. source' = source /\ \E place \in {"read", "send"} :
              task' = [task EXCEPT ![t] = place]
        BY <2>3 DEF Admit, Finish
      <4> QED BY <2>1, <4>1 DEF TaskPlaces
    <3>3. Acquire(t, source[t]) \/ UNCHANGED slotVars
      BY <2>3 DEF Admit
    <3> QED BY <2>2, <3>1, <3>2, <3>3, SlotMoves
  <2>4. CASE Return(t)
    <3>1. NoNewMedia
      <4>1. /\ task' = [task EXCEPT ![t] = "over"]
            /\ source' = [source EXCEPT ![t] = NoSource]
        BY <2>4 DEF Return, Forget
      <4> QED BY <1>0, <2>1, <4>1 DEF TaskPlaces
    <3>2. UNCHANGED slotVars \/ (held[t] # NoSource /\ Release(t))
      BY <2>4 DEF Return
    <3> QED BY <2>2, <3>1, <3>2, SlotMoves
  <2>5. CASE ReadReturns(t)
    <3>1. UNCHANGED <<task, source, slotVars>>
      BY <2>5 DEF ReadReturns
    <3> QED BY <2>2, <3>1 DEF NoNewMedia
  <2>6. CASE Peek(t)
    <3>1. /\ task[t] = "peek" /\ UNCHANGED <<source, slotVars>>
          /\ \E place \in {"media", "m3u8"} : task' = [task EXCEPT ![t] = place]
      BY <2>6 DEF Peek
    <3>2. NoNewMedia
      BY <1>0, <3>1 DEF NoNewMedia
    <3> QED BY <2>2, <3>1, <3>2
  <2>7. CASE ~(Admit(t) \/ Return(t) \/ ReadReturns(t) \/ Peek(t))
    <3>1. UNCHANGED <<source, slotVars>>
      BY <1>2, <2>7 DEF TaskStep, LaunchRead, ContextDone, Take, Write, CheckRead,
         PlaylistFails, FollowVariant, WriteLineFails, PlaylistDone, WriteLine
    <3>2. \/ task' = task
          \/ \E place \in {"read", "select", "write", "end", "lines", "send"} :
               task' = [task EXCEPT ![t] = place]
      BY <1>2, <2>7 DEF TaskStep, LaunchRead, ContextDone, Take, Write, CheckRead,
         PlaylistFails, FollowVariant, WriteLineFails, PlaylistDone, WriteLine,
         DirectReturns, Finish
    <3>3. NoNewMedia
      BY <2>1, <3>1, <3>2 DEF NoNewMedia, TaskPlaces
    <3> QED BY <2>2, <3>1, <3>3
  <2> QED BY <2>3, <2>4, <2>5, <2>6, <2>7
<1>3. ASSUME NEW o \in Others, OtherStream(o) PROVE Slots'
  <2>1. NoNewMedia
    BY <1>3 DEF OtherStream, taskVars, NoNewMedia
  <2>2. \/ held[o] = NoSource /\ \E s \in Sources : Acquire(o, s)
        \/ held[o] # NoSource /\ Release(o)
    BY <1>3 DEF OtherStream
  <2> QED BY <2>1, <2>2, SlotMoves
<1>4. CASE UNCHANGED directVars
  <2>1. UNCHANGED <<task, source, slotVars>>
    BY <1>4 DEF directVars, taskVars
  <2> QED BY <2>1, SlotsUntouched DEF Slots
<1> QED BY <1>1, <1>2, <1>3, <1>4 DEF Next

(* No slot is held at the start.                                           *)
LEMMA InitSlots == Init => Slots
<1> SUFFICES ASSUME Init PROVE Slots
  OBVIOUS
<1> USE ConcurrencyAssumption DEF Init, SlotInit
<1>1. \A s \in Sources : Holders(s) = {}
  BY DEF Holders
<1>2. \A s \in Sources : Cardinality(Holders(s)) = 0
  BY <1>1, FS_EmptySet
<1>3. \A s \in Sources : count[s] = 0 /\ 0 <= Max[s]
  BY LimitsPositive
<1> QED BY <1>2, <1>3 DEF Slots, SlotsAccounted

(* UpdateConcurrency: the counter of a source is the number of streams     *)
(* that hold one of its slots, and within the limit, with any number of    *)
(* requests, abandoned tasks and streams elsewhere; the deferred release   *)
(* never gives back a slot twice.                                          *)
THEOREM SlotsAlwaysAccounted == Spec => []SlotsAccounted
<1>1. Slots => SlotsAccounted
  BY DEF Slots
<1> QED BY <1>1, InitSlots, NextSlots, Invariance, PTL DEF Spec
=============================================================================

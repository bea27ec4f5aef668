---------------------------- MODULE DirectStream ----------------------------
(***************************************************************************)
(* Requests served without the shared buffer (SHARED_BUFFER=false):        *)
(* handleStreamWithoutSharedBuffer of handlers/stream_http.go, the         *)
(* ProxyStream goroutine it starts for every attempt                       *)
(* (proxy/stream/stream_instance.go), HandleDirectStream for media         *)
(* (proxy/stream/media_stream.go) and the M3U8Processor for HLS playlists  *)
(* (proxy/stream/failovers/m3u8.go). The VOD branch of ProxyStream with a  *)
(* shared buffer is the same goroutine.                                    *)
(*                                                                         *)
(* The k-th attempt of client c is the task <<c, k>>. A task outlives the  *)
(* handler's interest in it: exitStatus is unbuffered, the deferred        *)
(* release of the slot runs after the send, and a handler whose client has *)
(* left waits for it no longer than the grace period.                      *)
(*                                                                         *)
(* A response that is neither media nor a playlist goes to HandleStream    *)
(* with a coordinator of its own: module StreamSession with one client.    *)
(***************************************************************************)
EXTENDS Concurrency

CONSTANTS
  Clients,      (* requests                                                *)
  Others,       (* streams served elsewhere, which take slots as well      *)
  MaxAttempts,  (* bound: attempts of one request                          *)
  MaxDepth,     (* maxMasterFollowDepth                                    *)
  MaxChunks     (* bound: chunks of one media response                     *)

Attempts == 1..MaxAttempts
Tasks == Clients \X Attempts

ASSUME DirectAssumption ==
  /\ MaxAttempts \in Nat \ {0}
  /\ MaxDepth \in Nat
  /\ MaxChunks \in Nat \ {0}
  /\ Streams = Tasks \union Others
  /\ Tasks \intersect Others = {}

VARIABLES
  (* The handlers *)
  handler,   (* where the loop stands                                      *)
  attempt,   (* its coordinator, lbResult and exitStatus: the current task *)
  failed,    (* failedIndexes                                              *)
  gone,      (* ctx.Done(): the client has left                            *)
  headers,   (* HeadersSent: the attempt whose headers were sent, or 0     *)
  (* The tasks *)
  task,      (* where ProxyStream stands                                   *)
  source,    (* lbResult.Index                                             *)
  depth,     (* of processResponse                                         *)
  bodies,    (* response bodies neither closed nor read to their end       *)
  wrapped,   (* resp.Body is an io.NopCloser: its Close does nothing       *)
  reader,    (* the goroutine in Body.Read: "none", "reading" or "ready"   *)
  chunk,     (* what it put in readChan: [data, err]                       *)
  sent,      (* chunks written, bytesWritten                               *)
  status     (* what the task sends on exitStatus                          *)

handlerVars == <<handler, attempt, failed, gone>>
taskVars == <<task, source, depth, bodies, wrapped, reader, chunk, sent, status>>
directVars == <<handlerVars, headers, taskVars, slotVars>>

Task(c) == <<c, attempt[c]>>
NoChunk == [data |-> FALSE, err |-> "nil"]

Init ==
  /\ SlotInit
  /\ handler = [c \in Clients |-> "select"]
  /\ attempt = [c \in Clients |-> 1]
  /\ failed = [c \in Clients |-> {}]
  /\ gone = [c \in Clients |-> FALSE]
  /\ headers = [c \in Clients |-> 0]
  /\ task = [t \in Tasks |-> "none"]
  /\ source = [t \in Tasks |-> NoSource]
  /\ depth = [t \in Tasks |-> 0]
  /\ bodies = [t \in Tasks |-> 0]
  /\ wrapped = [t \in Tasks |-> FALSE]
  /\ reader = [t \in Tasks |-> "none"]
  /\ chunk = [t \in Tasks |-> NoChunk]
  /\ sent = [t \in Tasks |-> 0]
  /\ status = [t \in Tasks |-> "none"]

-----------------------------------------------------------------------------
(* The handler. *)

(* The client disconnects; net/http cancels the request's context.         *)
Leave(c) ==
  /\ ~gone[c] /\ handler[c] # "done"
  /\ gone' = [gone EXCEPT ![c] = TRUE]
  /\ UNCHANGED <<handler, attempt, failed, headers, taskVars, slotVars>>

(* The load balancer (module LoadBalancer) opens a response of a source    *)
(* that is not excluded, unless that leaves none, and had a free slot when *)
(* it looked; the goroutine is started. The selection does not depend on   *)
(* the client's context.                                                   *)
Selected(c) ==
  \E s \in IF Sources \ failed[c] # {} THEN Sources \ failed[c] ELSE Sources :
    /\ handler[c] = "select"
    /\ ~CheckConcurrency(s)
    /\ handler' = [handler EXCEPT ![c] = "wait"]
    /\ task' = [task EXCEPT ![Task(c)] = "peek"]
    /\ source' = [source EXCEPT ![Task(c)] = s]
    /\ bodies' = [bodies EXCEPT ![Task(c)] = 1]
    /\ UNCHANGED <<attempt, failed, gone, headers, depth, wrapped, reader,
                   chunk, sent, status, slotVars>>

(* The selection fails: with sources excluded the exclusions are cleared   *)
(* and the selection is repeated at once, otherwise the client is answered *)
(* with a 502 (unless headers were sent before).                           *)
SelectionFails(c) ==
  /\ handler[c] = "select"
  /\ failed' = [failed EXCEPT ![c] = {}]
  /\ IF failed[c] # {}
     THEN UNCHANGED <<handler, headers>>
     ELSE /\ handler' = [handler EXCEPT ![c] = "done"]
          /\ headers' = [headers EXCEPT ![c] = IF @ = 0 THEN attempt[c] ELSE @]
  /\ UNCHANGED <<attempt, gone, taskVars, slotVars>>

(* handleExitCode: whether the request is done; otherwise the source is    *)
(* penalised.                                                              *)
Final(s) == s \in {"M3U8Parsed", "Completed", "ClientClosed"}

(* The rendezvous on exitStatus. The task goes on to its deferred release. *)
Receive(c) ==
  LET t == Task(c)
  IN /\ handler[c] \in {"wait", "grace"}
     /\ task[t] = "send"
     /\ task' = [task EXCEPT ![t] = "return"]
     /\ handler' = [handler EXCEPT ![c] =
                      IF handler[c] = "grace" \/ Final(status[t])
                      THEN "done" ELSE "pause"]
     /\ failed' = [failed EXCEPT ![c] =
                     IF handler[c] = "grace" \/ Final(status[t])
                     THEN @ ELSE @ \union {source[t]}]
     /\ UNCHANGED <<attempt, gone, headers, source, depth, bodies, wrapped,
                    reader, chunk, sent, status, slotVars>>

(* Faulty variant: the handler returns without waiting for its task.       *)
CancelWithoutWaiting(c) ==
  /\ handler[c] = "wait" /\ gone[c]
  /\ handler' = [handler EXCEPT ![c] = "done"]
  /\ UNCHANGED <<attempt, failed, gone, headers, taskVars, slotVars>>

(* ctx.Done() wins the select: the task's context is cancelled and its     *)
(* result is awaited for the grace period.                                 *)
Cancel(c) ==
  /\ handler[c] = "wait" /\ gone[c]
  /\ handler' = [handler EXCEPT ![c] = "grace"]
  /\ UNCHANGED <<attempt, failed, gone, headers, taskVars, slotVars>>

(* The grace period expires; nobody will receive from exitStatus again.    *)
GraceExpires(c) ==
  /\ handler[c] = "grace"
  /\ handler' = [handler EXCEPT ![c] = "abandoned"]
  /\ UNCHANGED <<attempt, failed, gone, headers, taskVars, slotVars>>

(* After half a second the next attempt starts, with a fresh coordinator.  *)
Retry(c) ==
  /\ handler[c] = "pause"
  /\ \/ /\ gone[c]
        /\ handler' = [handler EXCEPT ![c] = "done"]
        /\ UNCHANGED attempt
     \/ /\ attempt[c] < MaxAttempts
        /\ handler' = [handler EXCEPT ![c] = "select"]
        /\ attempt' = [attempt EXCEPT ![c] = @ + 1]
  /\ UNCHANGED <<failed, gone, headers, taskVars, slotVars>>

-----------------------------------------------------------------------------
(* What a task does to the response. *)

Client(t) == t[1]

(* StreamClient.Write and WriteHeader: the first one sends the headers.    *)
SendHeaders(t) ==
  headers' = [headers EXCEPT ![Client(t)] = IF @ = 0 THEN t[2] ELSE @]

(* ProxyStream has its result and goes to send it; open is the number of   *)
(* bodies nobody has closed.                                               *)
Finish(t, s, open) ==
  /\ task' = [task EXCEPT ![t] = "send"]
  /\ status' = [status EXCEPT ![t] = s]
  /\ bodies' = [bodies EXCEPT ![t] = open]

(* IsProbablyM3U8, which waits for the response without a context: a       *)
(* playlist by its headers is not read; otherwise the first bytes decide,  *)
(* and a body they were taken from is put back behind them in an           *)
(* io.NopCloser. A body that ends or fails here has no first bytes.        *)
Peek(t) ==
  /\ task[t] = "peek"
  /\ \/ /\ task' = [task EXCEPT ![t] = "m3u8"]
        /\ UNCHANGED <<bodies, wrapped>>
     \/ /\ \E kind \in {"media", "m3u8"} : task' = [task EXCEPT ![t] = kind]
        /\ wrapped' = [wrapped EXCEPT ![t] = TRUE]
        /\ UNCHANGED bodies
     \/ /\ task' = [task EXCEPT ![t] = "media"]
        /\ bodies' = [bodies EXCEPT ![t] = 0]
        /\ UNCHANGED wrapped
  /\ UNCHANGED <<handlerVars, headers, source, depth, reader, chunk, sent,
                 status, slotVars>>

-----------------------------------------------------------------------------
(* ProxyStream for media: UpdateConcurrency and HandleDirectStream.        *)

(* The slot is taken and the headers of the source are sent; or the limit  *)
(* was reached since the selection, and the body of the response stays     *)
(* open: it is only closed below when the response is an M3U8.             *)
Admit(t) ==
  /\ task[t] = "media"
  /\ \/ /\ Acquire(t, source[t])
        /\ SendHeaders(t)
        /\ task' = [task EXCEPT ![t] = "read"]
        /\ UNCHANGED <<status, bodies>>
     \/ /\ CheckConcurrency(source[t])
        /\ Finish(t, "ServerError", bodies[t])
        /\ UNCHANGED <<headers, slotVars>>
  /\ UNCHANGED <<handlerVars, source, depth, wrapped, reader, chunk, sent>>

(* A goroutine is started that reads the body into the buffer.             *)
LaunchRead(t) ==
  /\ task[t] = "read"
  /\ reader' = [reader EXCEPT ![t] = "reading"]
  /\ task' = [task EXCEPT ![t] = "select"]
  /\ UNCHANGED <<handlerVars, headers, source, depth, bodies, wrapped, chunk,
                 sent, status, slotVars>>

(* The read returns data, an error or both; a body that failed in Peek has *)
(* no data. readChan has room for the result, so that the goroutine also   *)
(* ends when HandleDirectStream has returned; it may still have come to    *)
(* the end of the body.                                                    *)
ReadReturns(t) ==
  /\ reader[t] = "reading"
  /\ \/ /\ task[t] \in {"send", "return", "over"}
        /\ reader' = [reader EXCEPT ![t] = "none"]
        /\ \E open \in {bodies[t], 0} : bodies' = [bodies EXCEPT ![t] = open]
        /\ UNCHANGED chunk
     \/ /\ task[t] \notin {"send", "return", "over"}
        /\ reader' = [reader EXCEPT ![t] = "ready"]
        /\ \E data \in BOOLEAN, err \in {"nil", "EOF", "error"} :
             /\ ~data => err # "nil"
             /\ data => wrapped[t] /\ sent[t] < MaxChunks
             /\ chunk' = [chunk EXCEPT ![t] = [data |-> data, err |-> err]]
        /\ UNCHANGED bodies
  /\ UNCHANGED <<handlerVars, headers, task, source, depth, wrapped, sent,
                 status, slotVars>>

(* The context of the task: the handler's, or its own once the handler has *)
(* called cancel.                                                          *)
Cancelled(t) == gone[Client(t)]

(* HandleDirectStream returns. Its deferred Close does nothing to a        *)
(* wrapped body: one that has neither ended nor failed stays open.         *)
DirectReturns(t, s) ==
  Finish(t, s, IF wrapped[t] /\ chunk[t].err = "nil" THEN bodies[t] ELSE 0)

ContextDone(t) ==
  /\ task[t] = "select" /\ Cancelled(t)
  /\ DirectReturns(t, "ClientClosed")
  /\ reader' = [reader EXCEPT ![t] = IF @ = "ready" THEN "none" ELSE @]
  /\ UNCHANGED <<handlerVars, headers, source, depth, wrapped, chunk, sent,
                 slotVars>>

(* Faulty variant: the next read is started before the data is written.    *)
TakeReadingAhead(t) ==
  /\ task[t] = "select" /\ reader[t] = "ready"
  /\ task' = [task EXCEPT ![t] = IF chunk[t].data THEN "write" ELSE "end"]
  /\ reader' = [reader EXCEPT ![t] = "reading"]
  /\ UNCHANGED <<handlerVars, headers, source, depth, bodies, wrapped, chunk,
                 sent, status, slotVars>>

(* The result of the read is taken from readChan.                          *)
Take(t) ==
  /\ task[t] = "select" /\ reader[t] = "ready"
  /\ task' = [task EXCEPT ![t] = IF chunk[t].data THEN "write" ELSE "end"]
  /\ reader' = [reader EXCEPT ![t] = "none"]
  /\ UNCHANGED <<handlerVars, headers, source, depth, bodies, wrapped, chunk,
                 sent, status, slotVars>>

(* The data is written to the client; a client that has left may give an   *)
(* error.                                                                  *)
Write(t) ==
  /\ task[t] = "write"
  /\ sent' = [sent EXCEPT ![t] = @ + 1]
  /\ \/ /\ task' = [task EXCEPT ![t] = "end"]
        /\ UNCHANGED <<status, bodies>>
     \/ gone[Client(t)] /\ DirectReturns(t, "ClientClosed")
  /\ UNCHANGED <<handlerVars, headers, source, depth, wrapped, reader, chunk,
                 slotVars>>

(* The error of the read is looked at after its data: an end of file is a  *)
(* failure of the source when nothing was written, and the end of the      *)
(* stream otherwise.                                                       *)
CheckRead(t) ==
  /\ task[t] = "end"
  /\ CASE chunk[t].err = "nil" ->
            /\ task' = [task EXCEPT ![t] = "read"]
            /\ UNCHANGED <<status, bodies>>
       [] chunk[t].err = "EOF" ->
            DirectReturns(t, IF sent[t] = 0 THEN "EOF" ELSE "Completed")
       [] OTHER -> DirectReturns(t, "ServerError")
  /\ UNCHANGED <<handlerVars, headers, source, depth, wrapped, reader, chunk,
                 sent, slotVars>>

-----------------------------------------------------------------------------
(* ProxyStream for a playlist: ProcessM3U8Stream. Every level of           *)
(* processResponse reads its response to the end, before it does anything  *)
(* else, and closes it when it returns.                                    *)

(* Faulty variant: the response is not closed when processResponse returns *)
(* an error.                                                               *)
PlaylistFailsNotClosed(t) ==
  /\ task[t] = "m3u8"
  /\ \E open \in {0, bodies[t]} : Finish(t, "Incompatible", open)
  /\ UNCHANGED <<handlerVars, headers, source, depth, wrapped, reader, chunk,
                 sent, slotVars>>

(* The playlist cannot be read, is empty, is a master without a usable     *)
(* variant, or its variant cannot be fetched. A scan that stops early      *)
(* leaves a wrapped body open.                                             *)
PlaylistFails(t) ==
  /\ task[t] = "m3u8"
  /\ \E open \in IF wrapped[t] /\ depth[t] = 0 THEN {0, bodies[t]} ELSE {0} :
       Finish(t, "Incompatible", open)
  /\ UNCHANGED <<handlerVars, headers, source, depth, wrapped, reader, chunk,
                 sent, slotVars>>

(* A master playlist: its first variant is fetched and processed one level *)
(* deeper. Beyond the limit processResponse returns before it has arranged *)
(* for the new response to be closed.                                      *)
FollowVariant(t) ==
  /\ task[t] = "m3u8"
  /\ IF depth[t] < MaxDepth
     THEN /\ depth' = [depth EXCEPT ![t] = @ + 1]
          /\ bodies' = [bodies EXCEPT ![t] = 1]
          /\ UNCHANGED <<task, status>>
     ELSE /\ Finish(t, "Incompatible", 1)
          /\ UNCHANGED depth
  /\ UNCHANGED <<handlerVars, headers, source, wrapped, reader, chunk, sent,
                 slotVars>>

(* A media playlist: its lines are written one by one, the URLs replaced   *)
(* by segment URLs of this proxy.                                          *)
WriteLine(t) ==
  /\ task[t] \in {"m3u8", "lines"}
  /\ SendHeaders(t)
  /\ task' = [task EXCEPT ![t] = "lines"]
  /\ UNCHANGED <<handlerVars, source, depth, bodies, wrapped, reader, chunk,
                 sent, status, slotVars>>

(* A line cannot be written: the client has left, the source is blamed.    *)
WriteLineFails(t) ==
  /\ task[t] \in {"m3u8", "lines"} /\ gone[Client(t)]
  /\ SendHeaders(t)
  /\ Finish(t, "Incompatible", 0)
  /\ UNCHANGED <<handlerVars, source, depth, wrapped, reader, chunk, sent,
                 slotVars>>

(* All lines are written (a playlist of empty lines has none to write).    *)
PlaylistDone(t) ==
  /\ task[t] \in {"m3u8", "lines"}
  /\ Finish(t, "M3U8Parsed", 0)
  /\ UNCHANGED <<handlerVars, headers, source, depth, wrapped, reader, chunk,
                 sent, slotVars>>

-----------------------------------------------------------------------------
(* What a goroutine that ends leaves behind: its variables are gone.       *)
Forget(t) ==
  /\ task' = [task EXCEPT ![t] = "over"]
  /\ source' = [source EXCEPT ![t] = NoSource]
  /\ depth' = [depth EXCEPT ![t] = 0]
  /\ bodies' = [bodies EXCEPT ![t] = 0]
  /\ wrapped' = [wrapped EXCEPT ![t] = FALSE]
  /\ chunk' = [chunk EXCEPT ![t] = NoChunk]
  /\ sent' = [sent EXCEPT ![t] = 0]
  /\ status' = [status EXCEPT ![t] = "none"]

(* Faulty variant: the slot is given back only after a success.            *)
ReturnLeaking(t) ==
  /\ task[t] = "return"
  /\ IF held[t] = NoSource \/ status[t] # "Completed"
     THEN UNCHANGED slotVars ELSE Release(t)
  /\ Forget(t)
  /\ UNCHANGED <<handlerVars, headers, reader>>

(* The status has been received: ProxyStream returns, and its deferred     *)
(* UpdateConcurrency gives the slot back.                                  *)
Return(t) ==
  /\ task[t] = "return"
  /\ IF held[t] = NoSource THEN UNCHANGED slotVars ELSE Release(t)
  /\ Forget(t)
  /\ UNCHANGED <<handlerVars, headers, reader>>

(* Another stream takes or returns a slot.                                 *)
OtherStream(o) ==
  /\ IF held[o] = NoSource THEN \E s \in Sources : Acquire(o, s) ELSE Release(o)
  /\ UNCHANGED <<handlerVars, headers, taskVars>>

-----------------------------------------------------------------------------
HandlerStep(c) ==
  Selected(c) \/ SelectionFails(c) \/ Receive(c) \/ Cancel(c) \/ Retry(c)

TaskStep(t) ==
  \/ Admit(t) \/ LaunchRead(t) \/ ContextDone(t) \/ Take(t) \/ Write(t)
  \/ CheckRead(t) \/ PlaylistFails(t) \/ FollowVariant(t) \/ WriteLineFails(t)
  \/ PlaylistDone(t) \/ Return(t)

Next ==
  \/ \E c \in Clients : Leave(c) \/ HandlerStep(c) \/ GraceExpires(c)
  \/ \E t \in Tasks : TaskStep(t) \/ Peek(t) \/ WriteLine(t) \/ ReadReturns(t)
  \/ \E o \in Others : OtherStream(o)

Spec == Init /\ [][Next]_directVars

(* Goroutines are scheduled, the timers of the handler fire, and the       *)
(* select of HandleDirectStream, which chooses at random, does not         *)
(* overlook the cancelled context for ever. Nothing is assumed of a client *)
(* that stays or of a source: its body may be silent for ever in the peek, *)
(* in a read and in a playlist.                                            *)
Fairness ==
  /\ \A c \in Clients : WF_directVars(HandlerStep(c) \/ GraceExpires(c))
  /\ \A t \in Tasks : /\ WF_directVars(task[t] # "m3u8" /\ TaskStep(t))
                         /\ SF_directVars(ContextDone(t))

FairSpec == Spec /\ Fairness

-----------------------------------------------------------------------------
Speaking(t) == task[t] \notin {"none", "send", "return", "over"}

(* The ResponseWriter of a request is used by one task at a time, the one  *)
(* of the current attempt, and by none once the handler has returned       *)
(* (writing to it is then an error of net/http), except by a task that the *)
(* handler stopped waiting for when the grace period expired.              *)
OneSpeaker ==
  \A t \in Tasks :
    Speaking(t) => /\ t = Task(Client(t))
                   /\ handler[Client(t)] \in {"wait", "grace", "abandoned"}

(* HandleDirectStream reads every chunk into the same buffer: no read is   *)
(* in progress while the chunk before it is still being written to the     *)
(* client.                                                                 *)
ChunkNotOverwritten ==
  \A t \in Tasks : task[t] \in {"write", "end"} => reader[t] # "reading"

(* A task that has its result has released the responses it opened, so    *)
(* that no upstream connection stays in use, in all cases but those the    *)
(* code misses: media refused by the connection limit; the response        *)
(* fetched beyond the limit on nested master playlists; and, since Close   *)
(* does nothing to a body that was peeked, media the client left before    *)
(* its end and a playlist whose scan stopped before its end.               *)
ResponsesClosed ==
  \A t \in Tasks :
    task[t] \in {"send", "return"} =>
      \/ bodies[t] = 0
      \/ /\ bodies[t] = 1
         /\ \/ status[t] = "ServerError" /\ held[t] = NoSource
            \/ status[t] = "Incompatible" /\ depth[t] = MaxDepth
            \/ wrapped[t] /\ status[t] = "ClientClosed"
            \/ wrapped[t] /\ status[t] = "Incompatible" /\ depth[t] = 0

(* A slot taken for a client that leaves is given back, when               *)
(* HandleDirectStream sees the cancelled context or has its result. Only a *)
(* task abandoned when the grace period expired keeps its slot, for ever:  *)
(* its send on the unbuffered exitStatus never returns.                    *)
SlotReturned ==
  \A t \in Tasks :
    held[t] # NoSource /\ gone[Client(t)]
      ~> held[t] = NoSource \/ handler[Client(t)] = "abandoned"
=============================================================================

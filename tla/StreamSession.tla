---------------------------- MODULE StreamSession ----------------------------
(***************************************************************************)
(* The life of one shared stream: the request handlers of its clients      *)
(* (handlers/stream_http.go handleStream and, below it, ProxyStream and    *)
(* HandleStream of proxy/stream), the writer goroutine that feeds the      *)
(* shared ring (proxy/stream/buffer/coordinator_media.go) and the          *)
(* StreamCoordinator they share (proxy/stream/buffer/coordinator.go).      *)
(*                                                                         *)
(* One action is one critical section, one atomic operation or one channel *)
(* operation of the code. A handler and the ProxyStream goroutine it       *)
(* starts run one after the other and are one process, a client. Times are *)
(* left out: a timeout is an outcome that may always happen.               *)
(*                                                                         *)
(* The ring is the one of module SharedBuffer, without the sequence        *)
(* numbers: RingOrdered, proved there, makes the staleness check of        *)
(* ReadChunks true exactly for an empty slot once more than N chunks have  *)
(* been written.                                                           *)
(***************************************************************************)
EXTENDS Integers, FiniteSets

CONSTANTS
  Clients,  (* players that request this stream                            *)
  Sources,  (* indexes of the M3U sources that carry the channel           *)
  N,        (* config.SharedBufferSize                                     *)
  None      (* nil                                                         *)

ASSUME SessionAssumption ==
  /\ N \in Nat \ {0, 1}
  /\ Sources # {}
  /\ IsFiniteSet(Clients)
  /\ None \notin Sources \union Clients \union {"writer"}
  /\ "writer" \notin Clients

VARIABLES
  (* StreamCoordinator *)
  state,        (* c.state                                                 *)
  clientCount,  (* c.ClientCount                                           *)
  writerActive, (* c.WriterActive                                          *)
  setupBusy,    (* c.WriterSetupBusy                                       *)
  waiting,      (* clients blocked on c.WriterSetupWait                    *)
  lbOnWrite,    (* c.LBResultOnWrite: the source, or None                  *)
  initMu,       (* holder of c.InitializationMu                            *)
  writerCtx,    (* c.WriterCtx: "nil" or "live"                            *)
  headers,      (* the channel in c.respHeaderSet: "open" or "closed"      *)
  ring,         (* c.Buffer, as in SharedBuffer                            *)
  written,      (* c.writeSeq, counted up to N + 1                         *)
  subscribed,   (* clients blocked on c.broadcast                          *)
  (* The writer goroutine *)
  writer,       (* [pc, src, ctx, slot, status, panicked]                  *)
  (* The clients *)
  pc,
  lb,           (* lbResult of the handler: the source, or None            *)
  failed,       (* failedIndexes                                           *)
  behind,       (* distance from lastPosition to c.Buffer                  *)
  result        (* error chunk or result status the client holds           *)

coordVars == <<state, clientCount, writerActive, setupBusy, waiting,
               lbOnWrite, initMu, writerCtx, headers>>
ringVars == <<ring, written, subscribed>>
clientVars == <<pc, lb, failed, behind, result>>
vars == <<coordVars, ringVars, writer, clientVars>>

-----------------------------------------------------------------------------
(* The status of an error chunk: "failed" stands for StatusEOF and         *)
(* StatusServerError, after which handleExitCode asks for another source;  *)
(* "closed" is StatusClientClosed, with the writer context's error.        *)
ChunkStatus == {"failed", "closed"}

Idle(c) == pc[c] = "idle"

(* The client has a position in the ring.                                  *)
InReadLoop(c) == pc[c] \in {"read", "subscribe", "parked", "deliver", "headers",
                            "headersLost", "write"}

(* Clients that RegisterClient counted and UnregisterClient has not yet    *)
(* uncounted.                                                              *)
Registered == {c \in Clients : InReadLoop(c) \/ pc[c] \in {"attach", "leave"}}

NoWriter == [pc |-> "none", src |-> None, ctx |-> "nil",
             slot |-> FALSE, status |-> None, panicked |-> FALSE]

Init ==
  /\ state = "active"
  /\ clientCount = 0
  /\ writerActive = FALSE
  /\ setupBusy = FALSE
  /\ waiting = {}
  /\ lbOnWrite = None
  /\ initMu = None
  /\ writerCtx = "nil"
  /\ headers = "open"
  /\ ring = [k \in 1..N |-> "empty"]
  /\ written = 0
  /\ subscribed = {}
  /\ writer = NoWriter
  /\ pc = [c \in Clients |-> "idle"]
  /\ lb = [c \in Clients |-> None]
  /\ failed = [c \in Clients |-> {}]
  /\ behind = [c \in Clients |-> 0]
  /\ result = [c \in Clients |-> None]

Goto(c, place) == pc' = [pc EXCEPT ![c] = place]

(* The request ends; its local state goes with it.                         *)
Done(c) ==
  /\ Goto(c, "idle")
  /\ lb' = [lb EXCEPT ![c] = None]
  /\ failed' = [failed EXCEPT ![c] = {}]
  /\ behind' = [behind EXCEPT ![c] = 0]
  /\ result' = [result EXCEPT ![c] = None]

-----------------------------------------------------------------------------
(* The writer setup slot.                                                  *)

(* FinishWriterSetup; nothing happens when the slot is free.               *)
FinishWriterSetup ==
  /\ setupBusy' = FALSE
  /\ waiting' = IF setupBusy THEN {} ELSE waiting

(* A player requests the stream; the registry returns its coordinator.     *)
Connect(c) ==
  /\ Idle(c)
  /\ Goto(c, "start")
  /\ UNCHANGED <<coordVars, ringVars, writer, lb, failed, behind, result>>

(* GetWriterLBResult: attach to the running writer, or try to become the   *)
(* one that starts it.                                                     *)
GetWriterLBResult(c) ==
  /\ pc[c] = "start"
  /\ Goto(c, IF lbOnWrite # None THEN "peek" ELSE "claim")
  /\ lb' = [lb EXCEPT ![c] = lbOnWrite]
  /\ UNCHANGED <<coordVars, ringVars, writer, failed, behind, result>>

TryStartWriterSetup(c) ==
  /\ pc[c] = "claim"
  /\ IF setupBusy \/ writerActive \/ lbOnWrite # None
     THEN Goto(c, "wait") /\ UNCHANGED setupBusy
     ELSE Goto(c, "balance") /\ setupBusy' = TRUE
  /\ UNCHANGED <<state, clientCount, writerActive, waiting, lbOnWrite, initMu,
                 writerCtx, headers, ringVars, writer, lb, failed,
                 behind, result>>

(* WaitForWriterSetup: block on the slot's channel if the slot is taken.   *)
WaitForWriterSetup(c) ==
  /\ pc[c] = "wait"
  /\ IF setupBusy
     THEN Goto(c, "waiting") /\ waiting' = waiting \union {c}
     ELSE Goto(c, "start") /\ UNCHANGED waiting
  /\ UNCHANGED <<state, clientCount, writerActive, setupBusy, lbOnWrite,
                 initMu, writerCtx, headers, ringVars, writer, lb,
                 failed, behind, result>>

SetupFinished(c) ==
  /\ pc[c] = "waiting"
  /\ c \notin waiting
  /\ Goto(c, "start")
  /\ UNCHANGED <<coordVars, ringVars, writer, lb, failed, behind, result>>

(* The client disconnects while it waits for the setup or pauses before a  *)
(* retry.                                                                  *)
GiveUp(c) ==
  /\ pc[c] \in {"waiting", "pause"}
  /\ waiting' = waiting \ {c}
  /\ Done(c)
  /\ UNCHANGED <<state, clientCount, writerActive, setupBusy, lbOnWrite,
                 initMu, writerCtx, headers, ringVars, writer>>

(* The load balancer answers with a source. Failed ones are excluded,      *)
(* unless that leaves none.                                                *)
Selected(c) ==
  /\ pc[c] = "balance"
  /\ \E s \in IF Sources \ failed[c] # {} THEN Sources \ failed[c] ELSE Sources :
       lb' = [lb EXCEPT ![c] = s]
  /\ Goto(c, "peek")
  /\ UNCHANGED <<coordVars, ringVars, writer, failed, behind, result>>

(* Faulty variant: the error path forgets FinishWriterSetup.               *)
SelectionFailsSlotKept(c) ==
  /\ pc[c] = "balance"
  /\ IF failed[c] # {}
     THEN /\ failed' = [failed EXCEPT ![c] = {}]
          /\ Goto(c, "start")
          /\ UNCHANGED <<lb, behind, result>>
     ELSE Done(c)
  /\ UNCHANGED <<coordVars, ringVars, writer>>

(* It fails or times out: the exclusions are dropped for one more attempt, *)
(* and without exclusions the client gets 502.                             *)
SelectionFails(c) ==
  /\ pc[c] = "balance"
  /\ FinishWriterSetup
  /\ IF failed[c] # {}
     THEN /\ failed' = [failed EXCEPT ![c] = {}]
          /\ Goto(c, "start")
          /\ UNCHANGED <<lb, behind, result>>
     ELSE Done(c)
  /\ UNCHANGED <<state, clientCount, writerActive, lbOnWrite, initMu,
                 writerCtx, headers, ringVars, writer>>

-----------------------------------------------------------------------------
(* HandleStream up to its read loop.                                       *)

(* ProxyStream first peeks at the body with IsProbablyM3U8. The read waits *)
(* for the first byte without a context and without a deadline, also when  *)
(* the player has left, and a client that has claimed the setup slot holds *)
(* it meanwhile. A joining client takes up to 4096 bytes from the body the *)
(* writer is reading; the chunks of the model do not tell which bytes they *)
(* carry.                                                                  *)
Peek(c) ==
  /\ pc[c] = "peek"
  /\ Goto(c, "init")
  /\ UNCHANGED <<coordVars, ringVars, writer, lb, failed, behind, result>>

ClearBuffer == ring' = [k \in 1..N |-> "empty"]

(* A new channel takes the place of the header channel; who waits on the   *)
(* old one while it is open is never released.                             *)
NewHeaderChan ==
  /\ headers' = "open"
  /\ pc' = [c \in Clients |-> IF pc[c] = "headers" THEN "headersLost" ELSE pc[c]]

(* InitializationMu is taken; the first client to find no active writer    *)
(* claims it and provides the writer's context.                            *)
LockInitialization(c) ==
  /\ pc[c] = "init"
  /\ initMu = None
  /\ initMu' = c
  /\ IF writerActive
     THEN Goto(c, "register") /\ UNCHANGED <<writerActive, writerCtx>>
     ELSE Goto(c, "spawn") /\ writerActive' = TRUE /\ writerCtx' = "live"
  /\ UNCHANGED <<state, clientCount, setupBusy, waiting, lbOnWrite, headers,
                 ringVars, writer, lb, failed, behind, result>>

(* The ring is cleared and the writer goroutine started on this client's   *)
(* lbResult. It may be the result of an earlier writer: the Close of that  *)
(* writer does nothing to a body that was peeked, so it may still deliver. *)
SpawnWriter(c) ==
  /\ pc[c] = "spawn"
  /\ ClearBuffer
  /\ writer' = [NoWriter EXCEPT !.pc = "start", !.src = lb[c]]
  /\ Goto(c, "register")
  /\ UNCHANGED <<coordVars, written, subscribed, lb, failed, behind, result>>

(* Faulty variant: the count is raised only when the stream is reset.      *)
RegisterClientUncounted(c) ==
  /\ pc[c] = "register"
  /\ IF state # "active" /\ clientCount = 0
     THEN /\ state' = "active"
          /\ headers' = "open"
          /\ clientCount' = clientCount + 1
     ELSE UNCHANGED <<state, headers, clientCount>>
  /\ initMu' = None
  /\ Goto(c, "attach")
  /\ UNCHANGED <<writerActive, setupBusy, waiting, lbOnWrite, writerCtx,
                 ringVars, writer, lb, failed, behind, result>>

(* RegisterClient, and InitializationMu is released.                       *)
RegisterClient(c) ==
  /\ pc[c] = "register"
  /\ IF state # "active" /\ clientCount = 0
     THEN /\ state' = "active"
          /\ headers' = "open"
     ELSE UNCHANGED <<state, headers>>
  /\ clientCount' = clientCount + 1
  /\ initMu' = None
  /\ Goto(c, "attach")
  /\ UNCHANGED <<writerActive, setupBusy, waiting, lbOnWrite, writerCtx,
                 ringVars, writer, lb, failed, behind, result>>

(* lastPosition := h.coordinator.Buffer.Prev()                             *)
Attach(c) ==
  /\ pc[c] = "attach"
  /\ behind' = [behind EXCEPT ![c] = 1]
  /\ Goto(c, "read")
  /\ UNCHANGED <<coordVars, ringVars, writer, lb, failed, result>>

-----------------------------------------------------------------------------
(* The read loop of HandleStream.                                          *)

Stale(b) == ring[IF b = 0 THEN N ELSE b] = "empty" /\ written > N

(* The error chunk ReadChunks returns: the newest one on the way from      *)
(* position b to c.Buffer.                                                 *)
ErrorChunk(b) ==
  IF \E k \in 1..b : ring[k] \in ChunkStatus
  THEN LET k == CHOOSE k \in 1..b :
                  /\ ring[k] \in ChunkStatus
                  /\ \A j \in 1..(k - 1) : ring[j] \notin ChunkStatus
       IN  ring[k]
  ELSE None

(* Data is delivered before an error chunk is acted on.                    *)
Collect(c, b) ==
  /\ behind' = [behind EXCEPT ![c] = 0]
  /\ result' = [result EXCEPT ![c] = ErrorChunk(b)]
  /\ Goto(c, IF \E k \in 1..b : ring[k] = "data" THEN "deliver"
             ELSE IF ErrorChunk(b) # None THEN "leave" ELSE "read")

ReadChunks(c) ==
  LET from == IF Stale(behind[c]) THEN 0 ELSE behind[c]
  IN
  /\ pc[c] = "read"
  /\ IF from = 0 /\ state = "active"
     THEN /\ Goto(c, "subscribe")
          /\ behind' = [behind EXCEPT ![c] = 0]
          /\ UNCHANGED result
     ELSE Collect(c, from)
  /\ UNCHANGED <<coordVars, ringVars, writer, lb, failed>>

Subscribe(c) ==
  /\ pc[c] = "subscribe"
  /\ Goto(c, "parked")
  /\ subscribed' = subscribed \union {c}
  /\ UNCHANGED <<coordVars, ring, written, writer, lb, failed, behind, result>>

Wake(c) ==
  /\ pc[c] = "parked"
  /\ c \notin subscribed
  /\ IF behind[c] = 0 /\ state = "active"
     THEN Goto(c, "subscribe") /\ UNCHANGED <<behind, result>>
     ELSE Collect(c, behind[c])
  /\ UNCHANGED <<coordVars, ringVars, writer, lb, failed>>

(* WaitHeaders on the channel that is in respHeaderSet now.                *)
WaitHeaders(c) ==
  /\ pc[c] = "deliver"
  /\ Goto(c, IF headers = "closed" THEN "write" ELSE "headers")
  /\ UNCHANGED <<coordVars, ringVars, writer, lb, failed, behind, result>>

(* The chunks reach the player; then the error chunk, if any, ends the     *)
(* call.                                                                   *)
Deliver(c) ==
  /\ pc[c] = "write"
  /\ IF result[c] # None
     THEN Goto(c, "leave") /\ behind' = [behind EXCEPT ![c] = 0]
     ELSE Goto(c, "read") /\ UNCHANGED behind
  /\ UNCHANGED <<coordVars, ringVars, writer, lb, failed, result>>

(* The request context is done, or a write to the player fails: the result *)
(* is StatusClientClosed.                                                  *)
Disconnect(c) ==
  /\ pc[c] \in {"read", "parked", "headers", "headersLost", "write"}
  /\ Goto(c, "leave")
  /\ subscribed' = subscribed \ {c}
  /\ result' = [result EXCEPT ![c] = "gone"]
  /\ behind' = [behind EXCEPT ![c] = 0]
  /\ UNCHANGED <<coordVars, ring, written, writer, lb, failed>>

-----------------------------------------------------------------------------
(* The deferred cleanup of HandleStream, UnregisterClient first.           *)

Decrement(c) ==
  /\ pc[c] = "leave"
  /\ clientCount' = clientCount - 1
  /\ Goto(c, IF clientCount = 1 THEN "drain" ELSE "recount")
  /\ UNCHANGED <<state, writerActive, setupBusy, waiting, lbOnWrite, initMu,
                 writerCtx, headers, ringVars, writer, lb, failed,
                 behind, result>>

Drain(c) ==
  /\ pc[c] = "drain"
  /\ state' = "draining"
  /\ Goto(c, "clear")
  /\ UNCHANGED <<clientCount, writerActive, setupBusy, waiting, lbOnWrite,
                 initMu, writerCtx, headers, ringVars, writer, lb,
                 failed, behind, result>>

LastClears(c) ==
  /\ pc[c] = "clear"
  /\ ClearBuffer
  /\ Goto(c, "notify")
  /\ UNCHANGED <<coordVars, written, subscribed, writer, lb, failed,
                 behind, result>>

LastNotifies(c) ==
  /\ pc[c] = "notify"
  /\ subscribed' = {}
  /\ Goto(c, "recount")
  /\ UNCHANGED <<coordVars, ring, written, writer, lb, failed, behind, result>>

Recount(c) ==
  /\ pc[c] = "recount"
  /\ Goto(c, IF clientCount = 0 THEN "cancel" ELSE "exit")
  /\ UNCHANGED <<coordVars, ringVars, writer, lb, failed, behind, result>>

(* Faulty variant: the context is forgotten without being cancelled.       *)
CancelWriterForgets(c) ==
  /\ pc[c] = "cancel"
  /\ writerCtx' = "nil"
  /\ Goto(c, "clearAgain")
  /\ UNCHANGED <<state, clientCount, writerActive, setupBusy, waiting,
                 lbOnWrite, initMu, headers, ringVars, writer, lb,
                 failed, behind, result>>

(* Faulty variant: the cancelled context stays in WriterCtx for the next   *)
(* writer.                                                                 *)
CancelWriterKeeps(c) ==
  /\ pc[c] = "cancel"
  /\ writer' = [writer EXCEPT !.ctx = IF @ = "live" THEN "cancelled" ELSE @]
  /\ Goto(c, "clearAgain")
  /\ UNCHANGED <<coordVars, ringVars, lb, failed, behind, result>>

(* WriterCancel, under WriterCtxMu.                                        *)
CancelWriter(c) ==
  /\ pc[c] = "cancel"
  /\ writerCtx' = "nil"
  /\ writer' = [writer EXCEPT !.ctx = IF @ = "live" THEN "cancelled" ELSE @]
  /\ Goto(c, "clearAgain")
  /\ UNCHANGED <<state, clientCount, writerActive, setupBusy, waiting,
                 lbOnWrite, initMu, headers, ringVars, lb, failed,
                 behind, result>>

ClearAgain(c) ==
  /\ pc[c] = "clearAgain"
  /\ ClearBuffer
  /\ Goto(c, "exit")
  /\ UNCHANGED <<coordVars, written, subscribed, writer, lb, failed,
                 behind, result>>

(* handleExitCode: after a failure of the source it is excluded and the    *)
(* handler tries again; everything else ends the request.                  *)
HandleExitCode(c) ==
  /\ pc[c] = "exit"
  /\ IF result[c] = "failed"
     THEN /\ failed' = [failed EXCEPT ![c] = @ \union {lb[c]}]
          /\ Goto(c, "pause")
          /\ lb' = [lb EXCEPT ![c] = None]
          /\ result' = [result EXCEPT ![c] = None]
          /\ UNCHANGED behind
     ELSE Done(c)
  /\ UNCHANGED <<coordVars, ringVars, writer>>

(* The 500 ms before a retry.                                              *)
Retry(c) ==
  /\ pc[c] = "pause"
  /\ Goto(c, "start")
  /\ UNCHANGED <<coordVars, ringVars, writer, lb, failed, behind, result>>

-----------------------------------------------------------------------------
(* The writer goroutine: StartMediaWriter and readAndWriteStream.          *)

WriterAt(place) == writer.pc = place

(* The goroutine has peeked at the body once more, and evaluates           *)
(* h.coordinator.WriterCtx, without a lock.                                *)
WriterStarts ==
  /\ WriterAt("start")
  /\ writer' = [writer EXCEPT !.pc = "publish", !.ctx = writerCtx]
  /\ UNCHANGED <<coordVars, ringVars, clientVars>>

(* LBResultOnWrite.Store(lbResult): later clients attach to this writer.   *)
WriterPublishes ==
  /\ WriterAt("publish")
  /\ lbOnWrite' = writer.src
  /\ writer' = [writer EXCEPT !.pc = "finish"]
  /\ UNCHANGED <<state, clientCount, writerActive, setupBusy, waiting, initMu,
                 writerCtx, headers, ringVars, clientVars>>

WriterFinishesSetup ==
  /\ WriterAt("finish")
  /\ FinishWriterSetup
  /\ writer' = [writer EXCEPT !.pc = "acquire"]
  /\ UNCHANGED <<state, clientCount, writerActive, lbOnWrite, initMu,
                 writerCtx, headers, ringVars, clientVars>>

(* A new header channel, then UpdateConcurrency, which may refuse because  *)
(* of the other streams of the source.                                     *)
WriterAcquires ==
  /\ WriterAt("acquire")
  /\ NewHeaderChan
  /\ \/ writer' = [writer EXCEPT !.pc = "openHeaders", !.slot = TRUE]
     \/ writer' = [writer EXCEPT !.pc = "fail", !.status = "failed"]
  /\ UNCHANGED <<state, clientCount, writerActive, setupBusy, waiting,
                 lbOnWrite, initMu, writerCtx, ringVars, lb, failed,
                 behind, result>>

(* The response headers are set and the channel in respHeaderSet closed.   *)
WriterSetsHeaders ==
  /\ WriterAt("openHeaders")
  /\ headers' = "closed"
  /\ pc' = [c \in Clients |-> IF pc[c] = "headers" THEN "write" ELSE pc[c]]
  /\ writer' = [writer EXCEPT !.pc = "loop"]
  /\ UNCHANGED <<state, clientCount, writerActive, setupBusy, waiting,
                 lbOnWrite, initMu, writerCtx, ringVars, lb, failed,
                 behind, result>>

(* The head of the read loop: it ends without an error if the stream is    *)
(* not active, and with ctx.Err() if the context is done.                  *)
WriterChecksState ==
  /\ WriterAt("loop")
  /\ writer' = IF state # "active" THEN [writer EXCEPT !.pc = "release"]
               ELSE IF writer.ctx = "cancelled"
               THEN [writer EXCEPT !.pc = "fail", !.status = "closed"]
               ELSE [writer EXCEPT !.pc = "reading"]
  /\ UNCHANGED <<coordVars, ringVars, clientVars>>

(* Write on an active stream.                                              *)
Push(chunk) ==
  /\ ring' = [k \in 1..N |-> IF k = 1 THEN chunk ELSE ring[k - 1]]
  /\ written' = IF written > N THEN written ELSE written + 1
  /\ behind' = [c \in Clients |-> IF InReadLoop(c) THEN (behind[c] + 1) % N
                                  ELSE behind[c]]

(* A chunk arrives from upstream, and is dropped if the stream is no       *)
(* longer active. The last one may come together with io.EOF: then the     *)
(* writer does not look at the state again before it fails.                *)
WriterReads ==
  /\ WriterAt("reading")
  /\ writer.ctx # "nil"
  /\ \E eof \in {None, "failed"} :
       IF state = "active"
       THEN /\ Push("data")
            /\ writer' = [writer EXCEPT !.pc = "notify", !.status = eof]
       ELSE /\ writer' = [writer EXCEPT !.pc = IF eof = None THEN "loop" ELSE "fail",
                                        !.status = eof]
            /\ UNCHANGED <<ring, written, behind>>
  /\ UNCHANGED <<coordVars, subscribed, pc, lb, failed, result>>

(* A read that failed, or gave no data, is tried again after a pause.      *)
WriterRetries ==
  /\ WriterAt("reading")
  /\ writer.ctx # "nil"
  /\ writer' = [writer EXCEPT !.pc = "loop"]
  /\ UNCHANGED <<coordVars, ringVars, clientVars>>

(* The upstream ends, fails or stalls, or the context is cancelled.        *)
WriterStops ==
  /\ WriterAt("reading")
  /\ writer.ctx # "nil"
  /\ \E st \in IF writer.ctx = "cancelled" THEN ChunkStatus ELSE {"failed"} :
       writer' = [writer EXCEPT !.pc = "fail", !.status = st]
  /\ UNCHANGED <<coordVars, ringVars, clientVars>>

(* ctx.Done() on a nil context: the panic unwinds through the deferred     *)
(* calls before it is recovered.                                           *)
WriterPanics ==
  /\ WriterAt("reading")
  /\ writer.ctx = "nil"
  /\ writer' = [writer EXCEPT !.pc = "release", !.status = "failed",
                              !.panicked = TRUE]
  /\ UNCHANGED <<coordVars, ringVars, clientVars>>

(* notifySubscribers after a Write.                                        *)
WriterNotifies ==
  /\ writer.pc \in {"notify", "failNotify"}
  /\ subscribed' = {}
  /\ writer' = [writer EXCEPT !.pc = IF @ = "failNotify" THEN "close"
                                     ELSE IF writer.status = None THEN "loop"
                                     ELSE "fail"]
  /\ UNCHANGED <<coordVars, ring, written, clientVars>>

(* writeError: the Write of the error chunk ...                            *)
WriterFails ==
  /\ WriterAt("fail")
  /\ IF state = "active"
     THEN /\ Push(writer.status)
          /\ state' = "draining"
          /\ writer' = [writer EXCEPT !.pc = "failNotify", !.status = None]
     ELSE /\ writer' = [writer EXCEPT !.pc = "close", !.status = None]
          /\ UNCHANGED <<ring, written, behind, state>>
  /\ UNCHANGED <<clientCount, writerActive, setupBusy, waiting, lbOnWrite,
                 initMu, writerCtx, headers, subscribed, pc, lb, failed,
                 result>>

(* ... and the store of stateClosed after it.                              *)
WriterCloses ==
  /\ WriterAt("close")
  /\ state' = "closed"
  /\ writer' = [writer EXCEPT !.pc = IF writer.panicked THEN "exit" ELSE "release"]
  /\ UNCHANGED <<clientCount, writerActive, setupBusy, waiting, lbOnWrite,
                 initMu, writerCtx, headers, ringVars, clientVars>>

(* The deferred UpdateConcurrency(false) and the close of the body; the    *)
(* goroutine does not use its result and its context again.                *)
WriterReleases ==
  /\ WriterAt("release")
  /\ writer' = [writer EXCEPT !.pc = "unpublish", !.slot = FALSE, !.src = None,
                              !.ctx = "nil"]
  /\ UNCHANGED <<coordVars, ringVars, clientVars>>

(* Faulty variant: the flag is reset together with the result, before the  *)
(* goroutine takes InitializationMu.                                       *)
WriterUnpublishesEarlyReset ==
  /\ WriterAt("unpublish")
  /\ lbOnWrite' = None
  /\ writerActive' = FALSE
  /\ writer' = [writer EXCEPT !.pc = IF writer.panicked THEN "fail" ELSE "exit"]
  /\ UNCHANGED <<state, clientCount, setupBusy, waiting, initMu, writerCtx,
                 headers, ringVars, clientVars>>

(* Faulty variant: the result is withdrawn only after a panic.             *)
WriterUnpublishesOnPanic ==
  /\ WriterAt("unpublish")
  /\ lbOnWrite' = IF writer.panicked THEN None ELSE lbOnWrite
  /\ writer' = [writer EXCEPT !.pc = IF writer.panicked THEN "fail" ELSE "exit"]
  /\ UNCHANGED <<state, clientCount, writerActive, setupBusy, waiting, initMu,
                 writerCtx, headers, ringVars, clientVars>>

(* The deferred LBResultOnWrite.Store(nil), and the recovery from a panic. *)
WriterUnpublishes ==
  /\ WriterAt("unpublish")
  /\ lbOnWrite' = None
  /\ writer' = [writer EXCEPT !.pc = IF writer.panicked THEN "fail" ELSE "exit"]
  /\ UNCHANGED <<state, clientCount, writerActive, setupBusy, waiting, initMu,
                 writerCtx, headers, ringVars, clientVars>>

(* The goroutine's own deferred function: InitializationMu, the flag ...   *)
WriterExits ==
  /\ WriterAt("exit")
  /\ initMu = None
  /\ initMu' = "writer"
  /\ writerActive' = FALSE
  /\ writer' = [writer EXCEPT !.pc = "exitFinish"]
  /\ UNCHANGED <<state, clientCount, setupBusy, waiting, lbOnWrite, writerCtx,
                 headers, ringVars, clientVars>>

(* ... and FinishWriterSetup before the mutex is released.                 *)
WriterGone ==
  /\ WriterAt("exitFinish")
  /\ FinishWriterSetup
  /\ initMu' = None
  /\ writer' = NoWriter
  /\ UNCHANGED <<state, clientCount, writerActive, lbOnWrite, writerCtx,
                 headers, ringVars, clientVars>>

-----------------------------------------------------------------------------
(* What a client does by itself once it has connected.                     *)
ClientStep(c) ==
  \/ GetWriterLBResult(c) \/ TryStartWriterSetup(c) \/ WaitForWriterSetup(c)
  \/ SetupFinished(c) \/ Selected(c) \/ SelectionFails(c)
  \/ SpawnWriter(c) \/ RegisterClient(c) \/ Attach(c)
  \/ ReadChunks(c) \/ Subscribe(c) \/ Wake(c) \/ WaitHeaders(c) \/ Deliver(c)
  \/ Decrement(c) \/ Drain(c) \/ LastClears(c) \/ LastNotifies(c)
  \/ Recount(c) \/ CancelWriter(c) \/ ClearAgain(c) \/ HandleExitCode(c)
  \/ Retry(c)

(* What the player decides.                                                *)
PlayerStep(c) == Connect(c) \/ GiveUp(c) \/ Disconnect(c)

WriterStep ==
  \/ WriterStarts \/ WriterPublishes \/ WriterFinishesSetup \/ WriterAcquires
  \/ WriterSetsHeaders \/ WriterChecksState \/ WriterReads \/ WriterRetries
  \/ WriterStops \/ WriterPanics \/ WriterNotifies \/ WriterFails \/ WriterCloses
  \/ WriterReleases \/ WriterUnpublishes \/ WriterGone

Next ==
  \/ \E c \in Clients : \/ ClientStep(c) \/ PlayerStep(c)
                        \/ Peek(c) \/ LockInitialization(c)
  \/ WriterStep
  \/ WriterExits

Spec == Init /\ [][Next]_vars

(* The writer waits for an upstream that may be silent for as long as it   *)
(* likes: for the first byte in its peek, which nothing ends, and for the  *)
(* next chunk, STREAM_TIMEOUT being possibly 0, until its context is done. *)
AwaitsUpstream ==
  WriterAt("start") \/ (WriterAt("reading") /\ writer.ctx = "live")

(* Goroutines that can run are run, and sync.Mutex does not starve a       *)
(* goroutine that waits for it. Players and upstream owe nothing: Peek is  *)
(* not in ClientStep.                                                      *)
Fairness ==
  /\ \A c \in Clients :
       WF_vars(ClientStep(c)) /\ SF_vars(LockInitialization(c))
  /\ WF_vars(~AwaitsUpstream /\ WriterStep)
  /\ SF_vars(WriterExits)

FairSpec == Spec /\ Fairness

-----------------------------------------------------------------------------
TypeOK ==
  /\ state \in {"active", "draining", "closed"}
  /\ clientCount \in 0..Cardinality(Clients)
  /\ writerActive \in BOOLEAN /\ setupBusy \in BOOLEAN
  /\ waiting \subseteq Clients /\ subscribed \subseteq Clients
  /\ lbOnWrite \in Sources \union {None}
  /\ initMu \in Clients \union {"writer", None}
  /\ writerCtx \in {"nil", "live"} /\ headers \in {"open", "closed"}
  /\ ring \in [1..N -> {"empty", "data"} \union ChunkStatus]
  /\ written \in 0..(N + 1)
  /\ writer.src \in Sources \union {None}
  /\ writer.ctx \in {"nil", "live", "cancelled"}
  /\ lb \in [Clients -> Sources \union {None}]
  /\ failed \in [Clients -> SUBSET Sources]
  /\ behind \in [Clients -> 0..(N - 1)]
  /\ result \in [Clients -> ChunkStatus \union {"gone", None}]

(* HandleStream starts a writer only when the last one is gone: whatever   *)
(* the clients and a dying writer do, two writers never feed one ring.     *)
SingleWriter ==
  \A c \in Clients : pc[c] = "spawn" => WriterAt("none")

(* ClientCount, which is incremented under a mutex and decremented without *)
(* one, is the number of clients between RegisterClient and                *)
(* UnregisterClient.                                                       *)
CountMatches == clientCount = Cardinality(Registered)

(* A published load balancer result belongs to a writer that has not       *)
(* exited: while GetWriterLBResult answers, WriterActive holds and nobody  *)
(* can claim the setup slot.                                               *)
PublishedWhileActive == lbOnWrite # None => writerActive

(* A taken setup slot has someone who will release it: a client that       *)
(* balances, peeks or is about to start the writer, or a writer not yet    *)
(* gone. Without it everyone in WaitForWriterSetup would wait for ever.    *)
SetupHasOwner ==
  setupBusy => \/ \E c \in Clients : pc[c] \in {"balance", "peek", "init", "spawn"}
               \/ ~WriterAt("none")

(* When the last client and the writer are gone nothing is left behind:    *)
(* the setup slot and the mutex are free, no result is published, no       *)
(* context is live and no chunk is left in the ring for the next session.  *)
CleanWhenUnused ==
  (\A c \in Clients : Idle(c)) /\ WriterAt("none") =>
    /\ ~setupBusy /\ waiting = {} /\ initMu = None
    /\ lbOnWrite = None /\ ~writerActive
    /\ writerCtx = "nil"
    /\ \A k \in 1..N : ring[k] = "empty"

(* A client blocked in WaitForWriterSetup is released, unless a peek never *)
(* gets its first byte: the one of a client, or the second one, of the     *)
(* writer goroutine. Then the slot is held for ever and so are those who   *)
(* wait for it.                                                            *)
WaitersReleased ==
  \A c \in Clients :
    \/ pc[c] = "waiting" ~> pc[c] # "waiting"
    \/ \E d \in Clients : <>[](pc[d] = "peek")
    \/ <>[]WriterAt("start")

(* When nobody watches any more the writer stops and gives its concurrency *)
(* slot back (UnregisterClient's draining, cleanup's WriterCancel).        *)
WriterWindsDown ==
  (\A c \in Clients : Idle(c)) ~>
    (~writer.slot \/ \E c \in Clients : ~Idle(c))

(* "ensure headers are set for reader" (HandleStream, before WaitHeaders): *)
(* a client that holds chunks is not kept waiting for the headers for      *)
(* ever. RegisterClient installs a new header channel on a stream it       *)
(* resets, also when the writer it has just started has already closed the *)
(* old one; the new one is never closed.                                   *)
HeadersArrive ==
  \A c \in Clients : LET Waits == pc[c] \in {"headers", "headersLost"}
                     IN  Waits ~> ~Waits
=============================================================================

------------------------------ MODULE HLSWriter ------------------------------
(***************************************************************************)
(* One run of StartHLSWriter (proxy/stream/buffer/coordinator_m3u8.go):    *)
(* the writer polls a media playlist, fetches the segments that are new    *)
(* since the last poll and writes them to the shared ring, while the       *)
(* upstream moves its window and the viewers come and go.                  *)
(*                                                                         *)
(* Segments carry the number the upstream gave them. Time is counted in    *)
(* polls. The locking around the coordinator's state is the business of    *)
(* StreamSession: here Write and writeError are single steps.              *)
(***************************************************************************)
EXTENDS Integers, Sequences

CONSTANTS
  Masters,   (* master playlists of the source                             *)
  Media,     (* its media playlist                                         *)
  Variants,  (* the variant URLs a master playlist lists                   *)
  Window,    (* segments the media playlist holds at first                 *)
  Timeout,   (* config.TimeoutSeconds, in polls                            *)
  MaxSegment,    (* bound: last segment the upstream produces              *)
  MaxFailures    (* bound: segment requests that fail                     *)

ASSUME HLSAssumption ==
  /\ Media \notin Masters
  /\ Variants \in [Masters -> Seq(Masters \union {Media})]
  /\ Window \in Nat \ {0} /\ Timeout \in Nat /\ MaxSegment \in Nat
  /\ MaxFailures \in Nat

VARIABLES
  (* The upstream: the window of the media playlist *)
  live,         (* [first, len, ended]                                     *)
  (* StreamCoordinator *)
  state,        (* c.state                                                 *)
  viewers,      (* "some", "none", or "leaving": between the count at zero *)
                (* and WriterCancel                                        *)
  cancelled,    (* the writer's context is done                            *)
  (* Locals of StartHLSWriter *)
  pc,
  url,          (* playlistURL                                             *)
  resp,         (* the playlist in the response at hand, or NoResponse     *)
  lastMediaSeq,
  lastErr,      (* lastErr # nil                                           *)
  empties,      (* emptyPlaylistCount                                      *)
  age,          (* polls since lastChangeTime                              *)
  next,         (* next segment of the playlist to process                 *)
  (* History *)
  last,         (* newest segment written whole for the present viewers    *)
  missed,       (* segments that were on offer and were jumped over        *)
  repeated,     (* segments that were written again                        *)
  failures,     (* segment requests that failed                            *)
  resized       (* the window has changed its length                       *)

upstreamVars == <<live, resized>>
coordVars == <<state, viewers, cancelled>>
history == <<last, missed, repeated, failures>>
vars == <<upstreamVars, coordVars, pc, url, resp, lastMediaSeq, lastErr,
          empties, age, next, history>>

-----------------------------------------------------------------------------
NoResponse == [kind |-> "none"]
Unusable == [kind |-> "bad"]      (* status, body or syntax not acceptable *)
Empty == [kind |-> "empty"]       (* a media playlist without segments     *)
Master(u) == [kind |-> "master", variants |-> Variants[u]]
Snapshot == [kind |-> "media", first |-> live.first, len |-> live.len,
             ended |-> live.ended]

Newest(p) == p.first + p.len - 1

(* What the upstream may answer to a request for playlist u, after         *)
(* parsePlaylist has read it.                                              *)
Answers(u) == {Unusable, IF u = Media THEN Snapshot ELSE Master(u)}
                \union (IF u = Media THEN {Empty} ELSE {})

Init ==
  /\ live = [first |-> 0, len |-> Window, ended |-> FALSE]
  /\ resized = FALSE
  /\ state = "active" /\ viewers = "some" /\ cancelled = FALSE
  /\ pc = "start"
  /\ url \in Masters \union {Media}
  /\ resp \in Answers(url)
  /\ lastMediaSeq = -1 /\ lastErr = FALSE /\ empties = 0 /\ age = 0
  /\ next = 0
  /\ last = -1 /\ missed = {} /\ repeated = {} /\ failures = 0

-----------------------------------------------------------------------------
(* The upstream.                                                           *)

Slide ==
  /\ ~live.ended /\ Newest(live) < MaxSegment
  /\ live' = [live EXCEPT !.first = @ + 1]
  /\ UNCHANGED <<resized, coordVars, pc, url, resp, lastMediaSeq, lastErr,
                 empties, age, next, history>>

Grow ==
  /\ ~live.ended /\ Newest(live) < MaxSegment
  /\ live' = [live EXCEPT !.len = @ + 1]
  /\ resized' = TRUE
  /\ UNCHANGED <<coordVars, pc, url, resp, lastMediaSeq, lastErr, empties,
                 age, next, history>>

EndList ==
  /\ ~live.ended
  /\ live' = [live EXCEPT !.ended = TRUE]
  /\ UNCHANGED <<resized, coordVars, pc, url, resp, lastMediaSeq, lastErr,
                 empties, age, next, history>>

-----------------------------------------------------------------------------
(* The viewers: UnregisterClient of the last one drains the stream, the    *)
(* cleanup of HandleStream cancels the context if it still counts nobody,  *)
(* and RegisterClient makes the stream active again.                       *)

LastLeaves ==
  /\ viewers = "some" /\ pc # "done"
  /\ viewers' = "leaving" /\ state' = "draining"
  /\ last' = -1
  /\ UNCHANGED <<upstreamVars, cancelled, pc, url, resp, lastMediaSeq, lastErr,
                 empties, age, next, missed, repeated, failures>>

CancelWriter ==
  /\ viewers = "leaving"
  /\ viewers' = "none" /\ cancelled' = TRUE
  /\ UNCHANGED <<upstreamVars, state, pc, url, resp, lastMediaSeq, lastErr,
                 empties, age, next, history>>

Return ==
  /\ viewers \in {"leaving", "none"} /\ pc # "done"
  /\ viewers' = "some" /\ state' = "active"
  /\ UNCHANGED <<upstreamVars, cancelled, pc, url, resp, lastMediaSeq, lastErr,
                 empties, age, next, history>>

-----------------------------------------------------------------------------
(* writeError and return: the chunk reaches the ring if the stream is      *)
(* active; the stream is closed either way.                                *)
Fail == state' = "closed" /\ pc' = "done"

(* The result is published, the header channel replaced and the            *)
(* concurrency slot claimed; without a slot the writer fails.              *)
Start ==
  /\ pc = "start"
  /\ \/ pc' = "loop" /\ UNCHANGED state
     \/ Fail
  /\ UNCHANGED <<upstreamVars, viewers, cancelled, url, resp, lastMediaSeq,
                 lastErr, empties, age, next, history>>

(* The head of the loop.                                                   *)
CheckState ==
  /\ pc = "loop"
  /\ pc' = IF state # "active" THEN "done"
           ELSE IF resp # NoResponse THEN "response" ELSE "wait"
  /\ UNCHANGED <<upstreamVars, coordVars, url, resp, lastMediaSeq, lastErr,
                 empties, age, next, history>>

(* ctx.Done() between two polls: after an error the writer leaves without  *)
(* a word.                                                                 *)
Cancelled ==
  /\ pc = "wait" /\ cancelled
  /\ IF lastErr THEN pc' = "done" /\ UNCHANGED state ELSE Fail
  /\ UNCHANGED <<upstreamVars, viewers, cancelled, url, resp, lastMediaSeq,
                 lastErr, empties, age, next, history>>

(* The ticker: a playlist that has not changed for too long is given up,   *)
(* otherwise it is requested again.                                        *)
Poll ==
  /\ pc = "wait"
  /\ age' = age + 1
  /\ IF age' > Timeout + 1 THEN Fail ELSE pc' = "poll" /\ UNCHANGED state
  /\ UNCHANGED <<upstreamVars, viewers, cancelled, url, resp, lastMediaSeq,
                 lastErr, empties, next, history>>

(* A request for the playlist ends: with an answer, or with an error that  *)
(* is kept.                                                                *)
Answered ==
  /\ resp' \in Answers(url)
  /\ UNCHANGED lastErr

RequestFails ==
  /\ resp' = NoResponse
  /\ lastErr' = TRUE

(* The answer to a poll is read without another look at the state.         *)
Polled ==
  /\ pc = "poll"
  /\ \/ Answered /\ pc' = "response"
     \/ RequestFails /\ pc' = "loop"
  /\ UNCHANGED <<upstreamVars, coordVars, url, lastMediaSeq, empties, age,
                 next, history>>

Unacceptable ==
  /\ pc = "response" /\ resp = Unusable
  /\ resp' = NoResponse /\ lastErr' = TRUE
  /\ pc' = "loop"
  /\ UNCHANGED <<upstreamVars, coordVars, url, lastMediaSeq, empties, age,
                 next, history>>

(* A master playlist: its first variant is requested at once, unless there *)
(* is none or it is the playlist itself.                                   *)
FollowMaster ==
  /\ pc = "response" /\ resp.kind = "master"
  /\ resp' = NoResponse
  /\ IF resp.variants = <<>> \/ Head(resp.variants) = url
     THEN /\ Fail
          /\ UNCHANGED <<url, lastMediaSeq, empties, age>>
     ELSE /\ url' = Head(resp.variants)
          /\ lastMediaSeq' = -1 /\ empties' = 0 /\ age' = 0
          /\ pc' = "follow"
          /\ UNCHANGED state
  /\ UNCHANGED <<upstreamVars, viewers, cancelled, lastErr, next, history>>

(* Its answer waits in currentResp for the head of the loop.               *)
Followed ==
  /\ pc = "follow"
  /\ Answered \/ RequestFails
  /\ pc' = "loop"
  /\ UNCHANGED <<upstreamVars, coordVars, url, lastMediaSeq, empties, age,
                 next, history>>

(* The third playlist in a row without a segment ends the writer.          *)
NoSegments ==
  /\ pc = "response" /\ resp = Empty
  /\ empties' = empties + 1
  /\ lastErr' = TRUE
  /\ resp' = NoResponse
  /\ IF empties' >= 3 THEN Fail ELSE pc' = "loop" /\ UNCHANGED state
  /\ UNCHANGED <<upstreamVars, viewers, cancelled, url, lastMediaSeq, age,
                 next, history>>

-----------------------------------------------------------------------------
(* Segments.                                                               *)

(* Faulty variant: one segment too few is taken.                           *)
getNewSegmentsOffByOne(p, lastSeq) ==
  LET diff == p.first - lastSeq
  IN  IF lastSeq < 0
      THEN IF p.len <= 2 THEN p.first ELSE Newest(p) - 1
      ELSE IF diff <= 0 \/ diff >= p.len THEN p.first
      ELSE p.first + (p.len - diff) + 1

(* Faulty variant: the newest segment of the last batch is taken again.    *)
getNewSegmentsOneMore(p, lastSeq) ==
  LET diff == p.first - lastSeq
  IN  IF lastSeq < 0
      THEN IF p.len <= 2 THEN p.first ELSE Newest(p) - 1
      ELSE IF diff <= 0 \/ diff >= p.len THEN p.first
      ELSE p.first + (p.len - diff) - 1

(* The first of the segments to take from playlist p: the last two at      *)
(* startup, later as many as the media sequence has moved.                 *)
getNewSegments(p, lastSeq) ==
  LET diff == p.first - lastSeq
  IN  IF lastSeq < 0
      THEN IF p.len <= 2 THEN p.first ELSE Newest(p) - 1
      ELSE IF diff <= 0 \/ diff >= p.len THEN p.first
      ELSE p.first + (p.len - diff)

(* Faulty variant: a playlist counts as changed whenever it is read.       *)
ReadPlaylistAlwaysFresh ==
  /\ pc = "response" /\ resp.kind = "media"
  /\ empties' = 0
  /\ age' = 0
  /\ IF resp.ended \/ resp.first > lastMediaSeq
     THEN /\ next' = IF resp.ended THEN resp.first
                     ELSE getNewSegments(resp, lastMediaSeq)
          /\ pc' = "segments"
          /\ UNCHANGED resp
     ELSE /\ resp' = NoResponse
          /\ pc' = "loop"
          /\ UNCHANGED next
  /\ UNCHANGED <<upstreamVars, coordVars, url, lastMediaSeq, lastErr, history>>

(* A finished playlist is played from its first segment; a live one only   *)
(* if its media sequence has moved, which also counts as a change.         *)
ReadPlaylist ==
  /\ pc = "response" /\ resp.kind = "media"
  /\ empties' = 0
  /\ IF resp.ended \/ resp.first > lastMediaSeq
     THEN /\ next' = IF resp.ended THEN resp.first
                     ELSE getNewSegments(resp, lastMediaSeq)
          /\ age' = IF resp.ended THEN age ELSE 0
          /\ pc' = "segments"
          /\ UNCHANGED resp
     ELSE /\ resp' = NoResponse
          /\ pc' = "loop"
          /\ UNCHANGED <<next, age>>
  /\ UNCHANGED <<upstreamVars, coordVars, url, lastMediaSeq, lastErr, history>>

(* A whole segment is written, if the stream is active; readAndWriteStream *)
(* reports no error when it is not.                                        *)
Written(s) ==
  IF state = "active"
  THEN /\ last' = IF s > last THEN s ELSE last
       /\ missed' = IF last # -1 /\ lastMediaSeq # -1
                    THEN missed \union {x \in resp.first..s : last < x /\ x < s}
                    ELSE missed
       /\ repeated' = IF s <= last THEN repeated \union {s} ELSE repeated
  ELSE UNCHANGED <<last, missed, repeated>>

StreamSegment ==
  /\ pc = "segments" /\ next <= Newest(resp)
  /\ ~cancelled
  /\ Written(next)
  /\ next' = next + 1
  /\ UNCHANGED <<upstreamVars, coordVars, pc, url, resp, lastMediaSeq, lastErr,
                 empties, age, failures>>

(* The end of processSegments with an error: fatal if the context is done, *)
(* and for a finished playlist; otherwise lastMediaSeq stays.              *)
EndSegments ==
  /\ resp' = NoResponse
  /\ next' = 0

(* A segment cannot be fetched, or its body ends early or stalls, or the   *)
(* context is done.                                                        *)
SegmentFails ==
  /\ pc = "segments" /\ next <= Newest(resp)
  /\ \/ cancelled /\ UNCHANGED failures
     \/ failures < MaxFailures /\ failures' = failures + 1
  /\ EndSegments
  /\ IF cancelled \/ resp.ended
     THEN Fail /\ UNCHANGED lastErr
     ELSE lastErr' = TRUE /\ pc' = "loop" /\ UNCHANGED state
  /\ UNCHANGED <<upstreamVars, viewers, cancelled, url, lastMediaSeq, empties,
                 age, last, missed, repeated>>

(* Faulty variant: the writer leaves without closing the stream.           *)
SegmentsDoneSilently ==
  /\ pc = "segments" /\ next > Newest(resp)
  /\ EndSegments
  /\ IF resp.ended
     THEN pc' = "done" /\ UNCHANGED <<state, lastMediaSeq, lastErr>>
     ELSE /\ lastMediaSeq' = resp.first /\ lastErr' = FALSE
          /\ pc' = "loop" /\ UNCHANGED state
  /\ UNCHANGED <<upstreamVars, viewers, cancelled, url, empties, age, history>>

(* All segments of the playlist are processed.                             *)
SegmentsDone ==
  /\ pc = "segments" /\ next > Newest(resp)
  /\ EndSegments
  /\ IF resp.ended
     THEN Fail /\ UNCHANGED <<lastMediaSeq, lastErr>>
     ELSE /\ lastMediaSeq' = resp.first /\ lastErr' = FALSE
          /\ pc' = "loop" /\ UNCHANGED state
  /\ UNCHANGED <<upstreamVars, viewers, cancelled, url, empties, age, history>>

-----------------------------------------------------------------------------
Upstream == Slide \/ Grow \/ EndList

Viewers == LastLeaves \/ CancelWriter \/ Return

Writer ==
  \/ Start \/ CheckState \/ Cancelled \/ Poll \/ Polled \/ Unacceptable
  \/ FollowMaster \/ Followed \/ NoSegments \/ ReadPlaylist \/ StreamSegment
  \/ SegmentFails \/ SegmentsDone

(* The writer has ended and with it this run.                              *)
Ended == pc = "done" /\ UNCHANGED vars

Next == Upstream \/ Viewers \/ Writer \/ Ended

Spec == Init /\ [][Next]_vars

(* Where the writer waits for the upstream: for the answer to a request    *)
(* and for the body of a playlist or a segment. These requests carry no    *)
(* context and HTTPClient has no timeout, so that nothing ends a wait for  *)
(* an upstream that hangs.                                                 *)
AwaitingUpstream == {"poll", "follow", "response", "segments"}

(* The ticker ticks and the goroutine is run. Upstream and viewers owe     *)
(* nothing.                                                                *)
FairSpec == Spec /\ WF_vars(pc \notin AwaitingUpstream /\ Writer)

-----------------------------------------------------------------------------
(* While the playlist keeps its length, getNewSegments jumps over no       *)
(* segment that is still on offer once the writer is past its startup,     *)
(* whatever the upstream does between two polls and whichever segments     *)
(* fail: lastMediaSeq moves only when the whole batch has been written.    *)
NoSegmentSkipped == ~resized => missed = {}

(* While the playlist keeps its length no segment is written twice, unless *)
(* a segment failed and its batch was started again, or the upstream ended *)
(* the playlist: the writer then plays the last window from its first      *)
(* segment, and sends what its viewers have of it once more.               *)
NoSegmentRepeated ==
  ~resized /\ failures = 0 =>
    repeated \subseteq IF live.ended THEN live.first..Newest(live) ELSE {}

(* The writer that ends an active stream tells its viewers: the stream is  *)
(* closed by writeError. The one exception is the return at ctx.Done()     *)
(* after an earlier error.                                                 *)
EndIsVisible ==
  [][pc # "done" /\ pc' = "done" =>
       state' # "active" \/ (cancelled /\ lastErr)]_vars

(* A source that stops producing is given up: when the playlist no longer  *)
(* moves, or cannot be fetched any more, the writer ends and returns its   *)
(* concurrency slot, unless a request hangs, which the writer never gives  *)
(* up.                                                                     *)
StalledIsGivenUp ==
  <>(pc = "done") \/ \E p \in AwaitingUpstream : <>[](pc = p)
=============================================================================

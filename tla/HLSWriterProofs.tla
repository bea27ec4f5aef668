--------------------------- MODULE HLSWriterProofs ---------------------------
(***************************************************************************)
(* Proofs about HLSWriter for any playlists, window length, timeout and    *)
(* bounds.                                                                 *)
(*                                                                         *)
(* What the writer skips or repeats depends on three numbers it does not   *)
(* keep together: the last segment written, the media sequence of the last *)
(* whole batch and the first segment of the playlist at hand. While the    *)
(* window keeps its length they are related (Batch, CaughtUp, NotAhead).   *)
(***************************************************************************)
EXTENDS HLSWriter, TLAPS

(* A media playlist in a response.                                         *)
MediaType == [kind : {"media"}, first : Nat, len : Nat \ {0}, ended : BOOLEAN]

(* The types the argument needs.                                           *)
Types ==
  /\ live \in [first : Nat, len : Nat \ {0}, ended : BOOLEAN]
  /\ resized \in BOOLEAN
  /\ state \in {"active", "draining", "closed"}
  /\ pc \in {"start", "loop", "wait", "poll", "follow", "response", "segments", "done"}
  /\ url \in Masters \union {Media}
  /\ lastMediaSeq \in Nat \union {-1}
  /\ next \in Nat
  /\ last \in Nat \union {-1}
  /\ failures \in Nat

(* The playlist at hand is of the playlist's URL, no older than the last   *)
(* batch, and the final one if it says so.                                 *)
Playlist ==
  /\ lastMediaSeq <= live.first
  /\ resp.kind = "master" =>
       url # Media /\ resp.variants \in Seq(Masters \union {Media})
  /\ resp.kind = "media" =>
       /\ resp \in MediaType
       /\ url = Media
       /\ lastMediaSeq <= resp.first /\ resp.first <= live.first
       /\ resp.ended => live.ended /\ live.first = resp.first /\ live.len = resp.len
  /\ pc = "segments" =>
       resp.kind = "media" /\ (resp.ended \/ resp.first > lastMediaSeq)
  /\ url # Media => last = -1 /\ lastMediaSeq = -1

(* Nothing counts as written while the stream is not active, and a writer  *)
(* that closes it is done.                                                 *)
Silent ==
  /\ state = "draining" => last = -1
  /\ state = "closed" => pc = "done"

(* The window keeps its length.                                            *)
Constant ==
  /\ live.len = Window
  /\ resp.kind = "media" => resp.len = Window

(* The first segment taken from the playlist at hand.                      *)
From == IF resp.ended THEN resp.first ELSE getNewSegments(resp, lastMediaSeq)

(* Within a batch the segment before the next one has been written, unless *)
(* the batch has just begun or its viewers have.                           *)
Batch ==
  pc = "segments" =>
    /\ next >= From /\ next <= Newest(resp) + 1
    /\ last = -1 \/ last >= next - 1 \/ next = From

(* Past the startup everything up to the end of the last whole batch is    *)
(* written.                                                                *)
CaughtUp ==
  pc # "done" /\ ~(pc = "segments" /\ resp.ended) /\ lastMediaSeq # -1 =>
    last = -1 \/ last >= lastMediaSeq + Window - 1

(* What may be sent again: the final window, when the playlist ends.       *)
Final == IF live.ended THEN live.first..Newest(live) ELSE {}

(* ... and, as long as no batch was given up, nothing beyond it.           *)
NotAhead ==
  /\ repeated \subseteq Final
  /\ pc = "segments" /\ ~resp.ended => last < next
  /\ pc \notin {"segments", "done"} =>
       IF lastMediaSeq = -1 THEN last = -1 ELSE last <= lastMediaSeq + Window - 1

(* The inductive invariant.                                                *)
IInv ==
  /\ Types /\ Playlist /\ Silent
  /\ ~resized => Constant /\ Batch /\ CaughtUp /\ missed = {}
  /\ ~resized /\ failures = 0 => NotAhead

-----------------------------------------------------------------------------
(* The writer ends an active stream with writeError, or after an error     *)
(* when its context is done (coordinator_m3u8.go).                         *)
THEOREM EndAnnounced == Spec => EndIsVisible
<1>1. [Next]_vars => (pc # "done" /\ pc' = "done" =>
                        state' # "active" \/ (cancelled /\ lastErr))
  <2> SUFFICES ASSUME Next, pc # "done", pc' = "done"
               PROVE  state' # "active" \/ (cancelled /\ lastErr)
    BY DEF vars
  <2>1. CASE Upstream \/ Viewers \/ Ended
    BY <2>1 DEF Upstream, Viewers, Ended, Slide, Grow, EndList, LastLeaves,
       CancelWriter, Return
  <2>2. CASE Writer
    BY <2>2 DEF Writer, Start, CheckState, Cancelled, Poll, Polled, Unacceptable,
       FollowMaster, Followed, NoSegments, ReadPlaylist, StreamSegment, SegmentFails,
       SegmentsDone, Fail, coordVars
  <2> QED BY <2>1, <2>2 DEF Next
<1> QED BY <1>1, PTL DEF Spec, EndIsVisible

-----------------------------------------------------------------------------
(* An answer is of the kind its URL has.                                   *)
LEMMA AnswerKinds ==
  ASSUME Types, NEW u \in Masters \union {Media}, NEW r \in Answers(u)
  PROVE  /\ r.kind = "media" => r = Snapshot /\ u = Media /\ r \in MediaType
                               /\ r.first = live.first /\ r.len = live.len
                               /\ r.ended = live.ended
         /\ r.kind = "master" =>
              u # Media /\ r.variants \in Seq(Masters \union {Media})
<1>1. /\ NoResponse.kind = "none" /\ Unusable.kind = "bad" /\ Empty.kind = "empty"
      /\ Snapshot.kind = "media" /\ Master(u).kind = "master"
  BY DEF NoResponse, Unusable, Empty, Snapshot, Master
<1>2. /\ Snapshot \in MediaType /\ Snapshot.first = live.first
      /\ Snapshot.len = live.len /\ Snapshot.ended = live.ended
  BY DEF Snapshot, MediaType, Types
<1>3. r = Unusable \/ (u = Media /\ r = Snapshot) \/ (u # Media /\ r = Master(u))
      \/ (u = Media /\ r = Empty)
  BY DEF Answers
<1>4. u # Media => Master(u).variants \in Seq(Masters \union {Media})
  BY HLSAssumption DEF Master
<1> QED BY <1>1, <1>2, <1>3, <1>4

(* A request ends with a new response, or none.                            *)
LEMMA RequestKinds ==
  ASSUME Types, Answered \/ RequestFails
  PROVE  /\ resp'.kind = "media" => /\ url = Media /\ resp' \in MediaType
                                    /\ resp'.first = live.first
                                    /\ resp'.len = live.len
                                    /\ resp'.ended = live.ended
         /\ resp'.kind = "master" =>
              url # Media /\ resp'.variants \in Seq(Masters \union {Media})
<1>1. CASE resp' \in Answers(url)
  BY <1>1, AnswerKinds DEF Types
<1>2. CASE resp' = NoResponse
  BY <1>2 DEF NoResponse
<1> QED BY <1>1, <1>2 DEF Answered, RequestFails

(* Where a batch begins: after the last whole one, or at the first segment *)
(* still on offer, and inside the playlist.                                *)
LEMMA FromInWindow ==
  ASSUME Types, resp \in MediaType, resp.len = Window, ~resp.ended,
         resp.first > lastMediaSeq
  PROVE  /\ From \in Nat /\ From <= Newest(resp)
         /\ lastMediaSeq # -1 =>
              /\ From >= lastMediaSeq + Window
              /\ From = lastMediaSeq + Window \/ From = resp.first
<1> DEFINE f == resp.first
           m == lastMediaSeq
<1>1. f \in Nat /\ m \in Nat \union {-1} /\ Window \in Nat \ {0} /\ f > m
  BY HLSAssumption DEF Types, MediaType
<1>2. Newest(resp) = f + Window - 1
  BY DEF Newest
<1>3. From = IF m < 0 THEN IF Window <= 2 THEN f ELSE Newest(resp) - 1
             ELSE IF f - m <= 0 \/ f - m >= Window THEN f
             ELSE f + (Window - (f - m))
  BY DEF From, getNewSegments
<1> HIDE DEF f, m
<1>4. CASE m < 0
  BY <1>1, <1>2, <1>3, <1>4 DEF m
<1>5. CASE m >= 0 /\ f - m >= Window
  BY <1>1, <1>2, <1>3, <1>5 DEF f, m
<1>6. CASE m >= 0 /\ f - m < Window
  BY <1>1, <1>2, <1>3, <1>6 DEF f, m
<1> QED BY <1>1, <1>4, <1>5, <1>6

-----------------------------------------------------------------------------
(* A fresh writer with the first response.                                 *)
LEMMA InitIInv == Init => IInv
<1> SUFFICES ASSUME Init PROVE IInv
  OBVIOUS
<1> USE HLSAssumption DEF Init
<1>1. Types
  BY DEF Types
<1>2. /\ resp.kind = "media" => /\ url = Media /\ resp \in MediaType
                                /\ resp.first = 0 /\ resp.len = Window
                                /\ ~resp.ended
      /\ resp.kind = "master" =>
           url # Media /\ resp.variants \in Seq(Masters \union {Media})
  BY <1>1, AnswerKinds
<1>3. Playlist /\ Silent
  BY <1>2 DEF Playlist, Silent
<1>4. Constant /\ Batch /\ CaughtUp /\ NotAhead
  BY <1>2 DEF Constant, Batch, CaughtUp, NotAhead
<1> QED BY <1>1, <1>3, <1>4 DEF IInv

(* The upstream moves on: what the writer holds stays what it was.         *)
LEMMA UpstreamIInv ==
  ASSUME IInv, Upstream
  PROVE  IInv'
<1> USE DEF IInv
<1>1. UNCHANGED <<state, pc, url, resp, lastMediaSeq, next, last, missed, repeated,
                  failures>>
  BY DEF Upstream, Slide, Grow, EndList, coordVars, history
<1>2. /\ live' \in [first : Nat, len : Nat \ {0}, ended : BOOLEAN]
      /\ live.first <= live'.first
      /\ resized' \in BOOLEAN
      /\ ~resized' => ~resized /\ live'.len = live.len
      /\ ~live.ended
  <2>1. CASE Slide
    BY <2>1 DEF Slide, Types
  <2>2. CASE Grow
    BY <2>2 DEF Grow, Types
  <2>3. CASE EndList
    <3>1. live' = [live EXCEPT !.ended = TRUE] /\ resized' = resized
      BY <2>3 DEF EndList
    <3>2. live \in [first : Nat, len : Nat \ {0}, ended : BOOLEAN] /\ resized \in BOOLEAN
      BY DEF Types
    <3>3. live' \in [first : Nat, len : Nat \ {0}, ended : BOOLEAN]
      BY <3>1, <3>2
    <3>4. live'.first = live.first /\ live'.len = live.len
      BY <3>1, <3>2
    <3>5. live.first <= live'.first
      BY <3>2, <3>4
    <3> QED BY <2>3, <3>1, <3>2, <3>3, <3>4, <3>5 DEF EndList
  <2> QED BY <2>1, <2>2, <2>3 DEF Upstream
<1>3. Types' /\ Silent'
  BY <1>1, <1>2 DEF Types, Silent
<1>4. Playlist'
  <2>1. lastMediaSeq \in Int /\ live.first \in Int /\ live'.first \in Int
    BY <1>2 DEF Types
  <2>2. resp.kind = "media" => resp.first \in Int
    BY DEF Playlist, MediaType
  <2> QED BY <1>1, <1>2, <2>1, <2>2 DEF Playlist
<1>5. ~resized' => Constant' /\ Batch' /\ CaughtUp' /\ missed' = {}
  BY <1>1, <1>2 DEF Constant, Batch, CaughtUp, From, Newest
<1>6. ~resized' /\ failures' = 0 => NotAhead'
  <2> SUFFICES ASSUME ~resized', failures' = 0
               PROVE  NotAhead'
    OBVIOUS
  <2>1. NotAhead /\ repeated = {}
    BY <1>1, <1>2 DEF NotAhead, Final
  <2> QED BY <1>1, <2>1 DEF NotAhead
<1> QED BY <1>3, <1>4, <1>5, <1>6

(* The last viewer leaves, or someone comes back.                          *)
LEMMA ViewersIInv ==
  ASSUME IInv, Viewers
  PROVE  IInv'
<1> USE HLSAssumption DEF IInv
<1>1. UNCHANGED <<live, resized, pc, url, resp, lastMediaSeq, next, missed, repeated,
                  failures>>
  BY DEF Viewers, LastLeaves, CancelWriter, Return, upstreamVars, history
<1>2. /\ state' \in {"active", "draining", "closed"}
      /\ last' = last \/ last' = -1
      /\ state' = "draining" => last' = -1
      /\ state' = "closed" => pc = "done"
  BY DEF Viewers, LastLeaves, CancelWriter, Return, history, Types, Silent
<1>3. Types' /\ Playlist' /\ Silent'
  BY <1>1, <1>2 DEF Types, Playlist, Silent
<1>4. ~resized' => Constant' /\ Batch' /\ CaughtUp' /\ missed' = {}
  BY <1>1, <1>2 DEF Constant, Batch, CaughtUp, From, Newest
<1>5. ~resized' /\ failures' = 0 => NotAhead'
  BY <1>1, <1>2 DEF NotAhead, Final, Newest, Types
<1> QED BY <1>3, <1>4, <1>5

(* Outside a batch: the writer looks at its state and its playlist.        *)
LEMMA BetweenBatches ==
  ASSUME IInv, pc \notin {"segments", "done"}, pc' \notin {"segments"},
         UNCHANGED <<live, resized, url, lastMediaSeq, last, missed, repeated, failures>>,
         next' \in Nat, pc' \in {"loop", "wait", "poll", "follow", "response", "done"},
         state' \in {"active", "draining", "closed"},
         state' = state \/ (state' = "closed" /\ pc' = "done"),
         resp'.kind = "media" =>
           /\ resp' \in MediaType /\ url = Media
           /\ lastMediaSeq <= resp'.first /\ resp'.first <= live.first
           /\ resp'.ended => live.ended /\ live.first = resp'.first /\ live.len = resp'.len
           /\ ~resized => resp'.len = Window,
         resp'.kind = "master" =>
           url # Media /\ resp'.variants \in Seq(Masters \union {Media})
  PROVE  IInv'
<1> USE DEF IInv
<1>1. Types' /\ Playlist' /\ Silent'
  BY DEF Types, Playlist, Silent
<1>2. ~resized' => Constant' /\ Batch' /\ CaughtUp' /\ missed' = {}
  BY DEF Constant, Batch, CaughtUp
<1>3. ~resized' /\ failures' = 0 => NotAhead'
  BY DEF NotAhead, Final, Newest
<1> QED BY <1>1, <1>2, <1>3

(* The playlist is read: a batch begins, or there is nothing new.          *)
LEMMA ReadPlaylistIInv ==
  ASSUME IInv, ReadPlaylist
  PROVE  IInv'
<1> USE HLSAssumption DEF IInv
<1>1. /\ pc = "response" /\ resp.kind = "media"
      /\ UNCHANGED <<live, resized, state, url, lastMediaSeq, last, missed, repeated,
                     failures>>
  BY DEF ReadPlaylist, upstreamVars, coordVars, history
<1>2. resp \in MediaType /\ resp.first <= live.first /\ lastMediaSeq <= resp.first
  BY <1>1 DEF Playlist
<1>3. CASE resp.ended \/ resp.first > lastMediaSeq
  <2>1. next' = From /\ pc' = "segments" /\ resp' = resp
    BY <1>3, <1>1 DEF ReadPlaylist, From
  <2>2. From \in Nat
    <3>1. /\ resp.first \in Nat /\ resp.len \in Nat \ {0} /\ resp.ended \in BOOLEAN
          /\ lastMediaSeq \in Nat \union {-1}
      BY <1>2 DEF MediaType, Types
    <3> QED BY <3>1 DEF From, getNewSegments, Newest
  <2>3. Types' /\ Playlist' /\ Silent'
    BY <1>1, <1>2, <1>3, <2>1, <2>2 DEF Types, Playlist, Silent
  <2>4. ~resized' => Constant' /\ Batch' /\ CaughtUp' /\ missed' = {}
    <3>1. ~resized => From <= Newest(resp)
      <4>1. CASE resp.ended
        BY <1>2, <4>1 DEF From, Newest, MediaType
      <4>2. CASE ~resp.ended
        BY <1>1, <1>2, <1>3, <4>2, FromInWindow DEF Constant
      <4> QED BY <4>1, <4>2
    <3>2. Newest(resp) \in Int
      BY <1>2 DEF Newest, MediaType
    <3>3. /\ (~resized => Constant /\ CaughtUp /\ missed = {})
          /\ From' = From /\ Newest(resp)' = Newest(resp)
      BY <1>1, <2>1 DEF From, Newest
    <3> QED BY <1>1, <2>1, <2>2, <3>1, <3>2, <3>3 DEF Constant, Batch, CaughtUp
  <2>5. ~resized' /\ failures' = 0 => NotAhead'
    <3> SUFFICES ASSUME ~resized, failures = 0
                 PROVE  repeated \subseteq Final /\ (~resp.ended => last < From)
      BY <1>1, <2>1 DEF NotAhead, Final, Newest
    <3>1. /\ repeated \subseteq Final
          /\ IF lastMediaSeq = -1 THEN last = -1 ELSE last <= lastMediaSeq + Window - 1
      BY <1>1 DEF NotAhead
    <3>2. last \in Int /\ lastMediaSeq \in Int /\ From \in Nat
      BY <2>2 DEF Types
    <3>3. CASE ~resp.ended
      <4>1. lastMediaSeq # -1 => From >= lastMediaSeq + Window
        BY <1>1, <1>2, <1>3, <3>3, FromInWindow DEF Constant
      <4> QED BY <3>1, <3>2, <4>1
    <3> QED BY <3>1, <3>3
  <2> QED BY <2>3, <2>4, <2>5
<1>4. CASE ~(resp.ended \/ resp.first > lastMediaSeq)
  <2>1. resp' = NoResponse /\ pc' = "loop" /\ next' = next
    BY <1>1, <1>4 DEF ReadPlaylist
  <2>2. resp'.kind = "none"
    BY <2>1 DEF NoResponse
  <2> QED BY <1>1, <2>1, <2>2, BetweenBatches DEF Types
<1> QED BY <1>3, <1>4

(* A segment of the batch is written, or passes while nobody watches.      *)
LEMMA StreamSegmentIInv ==
  ASSUME IInv, StreamSegment
  PROVE  IInv'
<1> USE HLSAssumption DEF IInv
<1>1. /\ pc = "segments" /\ next' = next + 1 /\ Written(next)
      /\ next <= Newest(resp)
      /\ UNCHANGED <<live, resized, state, pc, url, resp, lastMediaSeq, failures>>
  BY DEF StreamSegment, upstreamVars, coordVars
<1>2. /\ resp \in MediaType /\ resp.kind = "media" /\ url = Media
      /\ next \in Nat /\ last \in Nat \union {-1} /\ lastMediaSeq \in Nat \union {-1}
      /\ resp.first \in Nat /\ resp.ended \in BOOLEAN
  BY <1>1 DEF Playlist, Types, MediaType
<1>3. state # "active" => last = -1 /\ UNCHANGED <<last, missed, repeated>>
  BY <1>1 DEF Silent, Types, Written
<1>4. state = "active" =>
        /\ last' = IF next > last THEN next ELSE last
        /\ missed' = IF last # -1 /\ lastMediaSeq # -1
                     THEN missed \union {x \in resp.first..next : last < x /\ x < next}
                     ELSE missed
        /\ repeated' = IF next <= last THEN repeated \union {next} ELSE repeated
  BY <1>1 DEF Written
<1>5. Types' /\ Playlist' /\ Silent'
  <2>1. last' \in Nat \union {-1} /\ next' \in Nat
    BY <1>1, <1>2, <1>3, <1>4
  <2>2. state' = "draining" => last' = -1
    BY <1>1, <1>3
  <2> QED BY <1>1, <1>2, <2>1, <2>2 DEF Types, Playlist, Silent
<1>6. ASSUME ~resized PROVE Constant' /\ Batch' /\ CaughtUp' /\ missed' = {}
  <2>1. From' = From /\ next >= From /\ From \in Nat
    <3>1. resp.len \in Nat
      BY <1>2 DEF MediaType
    <3>2. From' = From
      BY <1>1 DEF From
    <3>3. next >= From
      BY <1>1, <1>6 DEF Batch
    <3>4. From \in Nat
      BY <1>2, <3>1 DEF From, getNewSegments, Newest
    <3> QED BY <3>2, <3>3, <3>4
  <2>2. last' = -1 \/ last' >= next' - 1
    BY <1>1, <1>2, <1>3, <1>4
  <2>3. Constant' /\ Batch'
    <3>1. Newest(resp) \in Int /\ Newest(resp)' = Newest(resp)
      BY <1>1, <1>2 DEF Newest, MediaType
    <3> QED BY <1>1, <1>2, <1>6, <2>1, <2>2, <3>1 DEF Constant, Batch
  <2>4. ~resp.ended /\ lastMediaSeq # -1 =>
          /\ From >= lastMediaSeq + Window
          /\ From = lastMediaSeq + Window \/ From = resp.first
    BY <1>1, <1>2, <1>6, FromInWindow DEF Constant, Playlist
  <2>5. CaughtUp'
    <3>1. ~resp.ended /\ lastMediaSeq # -1 =>
            last' = -1 \/ last' >= lastMediaSeq + Window - 1
      BY <1>1, <1>2, <1>5, <2>1, <2>2, <2>4 DEF Types
    <3> QED BY <1>1, <3>1 DEF CaughtUp
  <2>6. ASSUME state = "active", last # -1, lastMediaSeq # -1,
               NEW x \in resp.first..next, last < x, x < next
        PROVE  FALSE
    <3>1. last >= next - 1 \/ next = From
      BY <1>1, <1>6, <2>6 DEF Batch
    <3>2. next = From
      BY <1>2, <2>6, <3>1
    <3>3. From # resp.first
      BY <1>2, <2>6, <3>2
    <3>4. ~resp.ended
      BY <3>3 DEF From
    <3>5. last >= lastMediaSeq + Window - 1
      BY <1>1, <1>6, <2>6, <3>4 DEF CaughtUp
    <3> QED BY <1>2, <2>4, <2>6, <3>2, <3>3, <3>4, <3>5
  <2>7. missed' = {}
    BY <1>3, <1>4, <1>6, <2>6
  <2> QED BY <2>3, <2>5, <2>7
<1>7. ASSUME ~resized, failures = 0 PROVE NotAhead'
  <2>1. repeated \subseteq Final /\ (~resp.ended => last < next)
    BY <1>1, <1>7 DEF NotAhead
  <2>2. next <= last => next \in Final
    <3> SUFFICES ASSUME next <= last
                 PROVE  next \in Final
      OBVIOUS
    <3>1. resp.ended
      BY <1>2, <2>1
    <3>2. live.ended /\ live.first = resp.first /\ live.len = resp.len
      BY <1>2, <3>1 DEF Playlist
    <3>3. next >= resp.first
      BY <1>1, <1>7, <3>1 DEF Batch, From
    <3>4. Newest(live) = Newest(resp) /\ Newest(resp) \in Int
      BY <1>2, <3>2 DEF Newest, MediaType
    <3> QED BY <1>1, <1>2, <3>2, <3>3, <3>4 DEF Final
  <2>3. repeated' \subseteq Final /\ Final' = Final
    BY <1>1, <1>3, <1>4, <2>1, <2>2 DEF Final, Newest
  <2>4. ~resp.ended => last' < next'
    BY <1>1, <1>2, <1>3, <1>4, <2>1
  <2> QED BY <1>1, <2>3, <2>4 DEF NotAhead
<1> QED BY <1>1, <1>5, <1>6, <1>7

(* The batch is given up after a failure: lastMediaSeq stays.              *)
LEMMA SegmentFailsIInv ==
  ASSUME IInv, SegmentFails
  PROVE  IInv'
<1> USE HLSAssumption DEF IInv
<1>1. /\ pc = "segments" /\ next' = 0 /\ resp' = NoResponse
      /\ \/ (pc' = "done" /\ state' = "closed")
         \/ (pc' = "loop" /\ state' = state /\ ~resp.ended /\ failures' = failures + 1)
      /\ failures' \in Nat /\ (failures' = 0 => failures = 0)
      /\ UNCHANGED <<live, resized, url, lastMediaSeq, last, missed, repeated>>
  BY DEF SegmentFails, EndSegments, Fail, upstreamVars, Types
<1>2. resp'.kind = "none"
  BY <1>1 DEF NoResponse
<1>3. Types' /\ Playlist' /\ Silent'
  BY <1>1, <1>2 DEF Types, Playlist, Silent
<1>4. ~resized' => Constant' /\ Batch' /\ CaughtUp' /\ missed' = {}
  BY <1>1, <1>2 DEF Constant, Batch, CaughtUp
<1>5. ~resized' /\ failures' = 0 => NotAhead'
  BY <1>1, <1>2 DEF NotAhead, Final, Newest, Types
<1> QED BY <1>3, <1>4, <1>5

(* The batch is whole.                                                     *)
LEMMA SegmentsDoneIInv ==
  ASSUME IInv, SegmentsDone
  PROVE  IInv'
<1> USE HLSAssumption DEF IInv
<1>1. /\ pc = "segments" /\ next > Newest(resp) /\ next' = 0 /\ resp' = NoResponse
      /\ UNCHANGED <<live, resized, url, last, missed, repeated, failures>>
  BY DEF SegmentsDone, EndSegments, upstreamVars, history
<1>2. resp'.kind = "none"
  BY <1>1 DEF NoResponse
<1>3. /\ resp \in MediaType /\ resp.kind = "media" /\ url = Media
      /\ resp.first \in Nat /\ resp.len \in Nat \ {0} /\ resp.first <= live.first
      /\ next \in Nat /\ last \in Nat \union {-1}
  BY <1>1 DEF Playlist, Types, MediaType
<1>4. CASE resp.ended
  <2>1. state' = "closed" /\ pc' = "done" /\ lastMediaSeq' = lastMediaSeq
    BY <1>4 DEF SegmentsDone, Fail
  <2>2. Types' /\ Playlist' /\ Silent'
    BY <1>1, <1>2, <2>1 DEF Types, Playlist, Silent
  <2>3. ~resized' => Constant' /\ Batch' /\ CaughtUp' /\ missed' = {}
    BY <1>1, <1>2, <2>1 DEF Constant, Batch, CaughtUp
  <2>4. ~resized' /\ failures' = 0 => NotAhead'
    BY <1>1, <2>1 DEF NotAhead, Final, Newest
  <2> QED BY <2>2, <2>3, <2>4
<1>5. CASE ~resp.ended
  <2>1. lastMediaSeq' = resp.first /\ pc' = "loop" /\ state' = state
    BY <1>5 DEF SegmentsDone
  <2>2. Types' /\ Playlist' /\ Silent'
    BY <1>1, <1>2, <1>3, <2>1 DEF Types, Playlist, Silent
  <2>3. ASSUME ~resized PROVE last = -1 \/ last >= resp.first + Window - 1
    <3>1. resp.len = Window /\ resp.first > lastMediaSeq
      BY <1>1, <1>3, <1>5, <2>3 DEF Constant, Playlist
    <3>2. From \in Nat /\ From <= Newest(resp)
      BY <1>3, <1>5, <3>1, FromInWindow
    <3>3. Newest(resp) = resp.first + Window - 1
      BY <3>1 DEF Newest
    <3>4. last = -1 \/ last >= next - 1
      BY <1>1, <1>3, <2>3, <3>1, <3>2, <3>3 DEF Batch
    <3> QED BY <1>1, <1>3, <3>3, <3>4
  <2>4. ~resized' => Constant' /\ Batch' /\ CaughtUp' /\ missed' = {}
    BY <1>1, <1>2, <2>1, <2>3 DEF Constant, Batch, CaughtUp
  <2>5. ASSUME ~resized, failures = 0 PROVE NotAhead'
    <3>1. repeated \subseteq Final /\ last < next
      BY <1>1, <1>5, <2>5 DEF NotAhead
    <3>2. last <= resp.first + Window - 1
      BY <1>1, <1>3, <2>5, <3>1 DEF Batch, Constant, Newest
    <3>3. Final' = Final
      BY <1>1 DEF Final, Newest
    <3> QED BY <1>1, <1>3, <2>1, <3>1, <3>2, <3>3 DEF NotAhead
  <2> QED BY <1>1, <2>2, <2>4, <2>5
<1> QED BY <1>3, <1>4, <1>5 DEF MediaType

(* The other steps of the writer.                                          *)
LEMMA WriterIInv ==
  ASSUME IInv, Writer
  PROVE  IInv'
<1> USE DEF IInv
<1>0. /\ url \in Masters \union {Media} /\ lastMediaSeq <= live.first /\ live.first \in Nat
      /\ ~resized => live.len = Window
  BY DEF Types, Playlist, Constant
<1>1. CASE Start \/ CheckState \/ Cancelled
  <2>1. /\ pc \notin {"segments", "done"} /\ pc' \in {"loop", "wait", "response", "done"}
        /\ state' \in {state, "closed"} /\ (state' = state \/ (state' = "closed" /\ pc' = "done"))
        /\ UNCHANGED <<live, resized, url, resp, lastMediaSeq, next, last, missed, repeated,
                       failures>>
    BY <1>1 DEF Start, CheckState, Cancelled, Fail, upstreamVars, coordVars, history
  <2> QED BY <2>1, BetweenBatches DEF Types, Playlist, Constant
<1>2. CASE Poll
  <2>1. /\ pc = "wait" /\ pc' \in {"poll", "done"}
        /\ state' = state \/ (state' = "closed" /\ pc' = "done")
        /\ UNCHANGED <<live, resized, url, resp, lastMediaSeq, next, last, missed, repeated,
                       failures>>
    BY <1>2 DEF Poll, Fail, upstreamVars, history
  <2> QED BY <2>1, BetweenBatches DEF Types, Playlist, Constant
<1>5. CASE Polled \/ Followed
  <2>1. /\ pc \in {"poll", "follow"} /\ pc' \in {"loop", "response"}
        /\ Answered \/ RequestFails
        /\ UNCHANGED <<state, live, resized, url, lastMediaSeq, next, last, missed,
                       repeated, failures>>
    BY <1>5 DEF Polled, Followed, upstreamVars, coordVars, history
  <2> QED BY <1>0, <2>1, RequestKinds, BetweenBatches DEF Types
<1>3. CASE Unacceptable \/ NoSegments
  <2>1. /\ pc = "response" /\ resp' = NoResponse
        /\ pc' \in {"loop", "done"} /\ (state' = state \/ (state' = "closed" /\ pc' = "done"))
        /\ UNCHANGED <<live, resized, url, lastMediaSeq, next, last, missed, repeated,
                       failures>>
    BY <1>3 DEF Unacceptable, NoSegments, Fail, upstreamVars, coordVars, history
  <2>2. resp'.kind = "none"
    BY <2>1 DEF NoResponse
  <2> QED BY <2>1, <2>2, BetweenBatches DEF Types
<1>4. CASE FollowMaster
  <2>1. /\ pc = "response" /\ resp.kind = "master" /\ url # Media
        /\ last = -1 /\ lastMediaSeq = -1
        /\ UNCHANGED <<live, resized, next, last, missed, repeated, failures>>
    BY <1>4 DEF FollowMaster, upstreamVars, history, Playlist
  <2>2. CASE resp.variants = <<>> \/ Head(resp.variants) = url
    <3>1. /\ pc' = "done" /\ state' = "closed" /\ resp' = NoResponse
          /\ UNCHANGED <<url, lastMediaSeq>>
      BY <1>4, <2>2 DEF FollowMaster, Fail
    <3>2. resp'.kind = "none"
      BY <3>1 DEF NoResponse
    <3> QED BY <2>1, <3>1, <3>2, BetweenBatches DEF Types
  <2>3. CASE ~(resp.variants = <<>> \/ Head(resp.variants) = url)
    <3>1. /\ url' = Head(resp.variants) /\ lastMediaSeq' = -1 /\ resp' = NoResponse
          /\ pc' = "follow" /\ state' = state
      BY <1>4, <2>3 DEF FollowMaster
    <3>2. url' \in Masters \union {Media}
      BY <2>1, <2>3, <3>1 DEF Playlist
    <3>3. resp'.kind = "none"
      BY <3>1 DEF NoResponse
    <3>4. live.first \in Nat /\ -1 <= live.first
      BY DEF Types
    <3>5. Types' /\ Playlist' /\ Silent'
      BY <2>1, <3>1, <3>2, <3>3, <3>4 DEF Types, Playlist, Silent
    <3>6. ~resized' => Constant' /\ Batch' /\ CaughtUp' /\ missed' = {}
      BY <2>1, <3>1, <3>3 DEF Constant, Batch, CaughtUp
    <3>7. ~resized' /\ failures' = 0 => NotAhead'
      BY <2>1, <3>1 DEF NotAhead, Final, Newest
    <3> QED BY <3>5, <3>6, <3>7
  <2> QED BY <2>2, <2>3
<1> QED BY <1>1, <1>2, <1>3, <1>4, <1>5, ReadPlaylistIInv, StreamSegmentIInv, SegmentFailsIInv,
        SegmentsDoneIInv DEF Writer

(* No step breaks the invariant.                                           *)
LEMMA NextIInv == IInv /\ [Next]_vars => IInv'
<1> SUFFICES ASSUME IInv, [Next]_vars PROVE IInv'
  OBVIOUS
<1>1. CASE UNCHANGED vars
  BY <1>1 DEF IInv, Types, Playlist, Silent, Constant, Batch, From, CaughtUp, NotAhead,
     Final, Newest, vars, upstreamVars, coordVars, history
<1>2. CASE Next
  BY <1>1, <1>2, UpstreamIInv, ViewersIInv, WriterIInv DEF Next, Ended
<1> QED BY <1>1, <1>2

(* The invariant holds of every state of the writer.                       *)
THEOREM Invariance == Spec => []IInv
BY InitIInv, NextIInv, PTL DEF Spec

(* While the window keeps its length no segment still on offer is jumped   *)
(* over, whatever its length, however far it slides between two polls and  *)
(* whichever segments fail (getNewSegments, processSegments).              *)
THEOREM NothingSkipped == Spec => []NoSegmentSkipped
<1>1. IInv => NoSegmentSkipped
  BY DEF IInv, NoSegmentSkipped
<1> QED BY <1>1, Invariance, PTL

(* ... and, as long as no segment fails, none is written twice but those   *)
(* of the final window, which an ended playlist makes the writer play from *)
(* its first segment (coordinator_m3u8.go).                                *)
THEOREM NothingRepeated == Spec => []NoSegmentRepeated
<1>1. IInv => NoSegmentRepeated
  BY DEF IInv, NotAhead, Final, NoSegmentRepeated
<1> QED BY <1>1, Invariance, PTL
=============================================================================

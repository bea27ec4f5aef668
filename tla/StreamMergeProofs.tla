-------------------------- MODULE StreamMergeProofs --------------------------
(***************************************************************************)
(* Proofs about StreamMerge for any sources, lines, rules and filters, any *)
(* size of the buffer and any order in which the workers add the streams.  *)
(*                                                                         *)
(* The properties speak of the finished playlist. The invariant says what  *)
(* a half-merged stream owes to the streams added so far, wherever it is:  *)
(* it has an attribute as soon as one of them has it, it is not behind any *)
(* of them, and it knows the sources that gave an id (Merged). While       *)
(* nothing failed a title is either buffered or spilled, so that a flush   *)
(* never merges and what it loses, AutoLogoURL, does not matter.           *)
(***************************************************************************)
EXTENDS StreamMerge, WellFoundedInduction, TLAPS

(* The attributes of a stream.                                             *)
Fields == {"title", "id", "logo", "group", "auto", "src", "num", "url", "from", "epg"}

(* The ids that streams of S have.                                         *)
IdsOf(S) == {s.id : s \in S}

(* a comes before b, or is b.                                              *)
NotAfter(a, b) ==
  \/ StringRank[a.src] < StringRank[b.src]
  \/ a.src = b.src /\ a.num <= b.num

(* A stream of a line.                                                     *)
Parsed(s) ==
  /\ DOMAIN s = Fields /\ s.src \in Sources /\ s.num \in Nat
  /\ s.epg = [k \in Sources |-> IF k = s.src THEN s.id ELSE None]
  /\ s.from = s.src

(* e is merged from some of the streams of all, and from those of added.   *)
Merged(e, all, added) ==
  /\ DOMAIN e = Fields /\ e.src \in Sources /\ e.num \in Nat
  /\ e.epg \in [Sources -> IdsOf(all) \union {None}]
  /\ e.id \in IdsOf(all) /\ (e.id = None => \A s \in added : s.id = None)
  /\ e.logo \in {s.logo : s \in all} /\ (e.logo = None => \A s \in added : s.logo = None)
  /\ e.group \in {s.group : s \in all} /\ (e.group = None => \A s \in added : s.group = None)
  /\ e.title \in {s.title : s \in all}
  /\ \E s \in all : e.from = s.src /\ e.url = s.url
  /\ \E s \in all : e.src = s.src /\ e.num = s.num
  /\ \A s \in added : NotAfter(e, s)
  /\ \A s \in added : s.id # None => e.epg[s.src] # None

(* The streams of a key that have left the queue.                          *)
Added(t) == Of(t) \ queue

(* The lines are lines, and the streams to be added are accepted ones.     *)
Types ==
  /\ lines \subseteq LineType /\ read \subseteq LineType
  /\ queue \subseteq Accepted
  /\ phase \in {"add", "compile", "done"}
  /\ phase # "add" => lines = {} /\ queue = {}

(* Every stream has a file that can be decoded, or its file failed.        *)
Filed ==
  /\ \A f \in files : ~f.whole => Name(f) \in lost
  /\ \A s \in Streams :
       Name(s) \in lost \/ \E f \in files : Name(f) = Name(s) /\ f.whole

(* While streams are added a key that was seen is buffered or spilled.     *)
Sorted ==
  /\ \A s \in Accepted \ queue : Key[s.title] \in index
  /\ \A t \in index : \E s \in Accepted : Key[s.title] = t
  /\ DOMAIN buffer \intersect DOMAIN shard = {}
  /\ DOMAIN buffer \union DOMAIN shard = index
  /\ \A t \in DOMAIN buffer : Merged(buffer[t], Of(t), Added(t))
  /\ \A t \in DOMAIN shard : Merged(shard[t], Of(t), Added(t))

(* What the playlist promises of the stream of an entry.                   *)
StreamKept(t, e, conf) ==
  /\ e.title \in {s.title : s \in Of(t)}
  /\ TakenFrom(e.id, IdsOf(Of(t)))
  /\ TakenFrom(e.logo, {s.logo : s \in Of(t)})
  /\ TakenFrom(e.group, {s.group : s \in Of(t)})
  /\ \E s \in Of(t) :
       /\ \A r \in Of(t) : NotAfter(s, r)
       /\ IF s.src \in conf THEN e.src = s.src /\ e.num = s.num
          ELSE e.src \in conf \union {None}
  /\ \A s \in Of(t) : s.src \in conf /\ s.id # None =>
       e.epg[s.src] \in IdsOf(Of(t)) \ {None}

(* And of its URLs, where the files of gone failed.                        *)
UrlsKept(t, x, gone) ==
  /\ \A s \in Streams :
       /\ s.title = x.stream.title /\ Name(s) \notin gone
       /\ s.src \in x.loaded \intersect x.conf
       => \E u \in x.urls : u.under = s.src /\ u.src = s.src /\ u.url = s.url
  /\ \A u \in x.urls :
       \/ u.src = u.under \/ <<u.under, u.src>> \in Prefixed
       \/ x.urls = {u} /\ \E s \in Of(t) : u.src = s.src /\ u.url = s.url
  /\ x.stream.src # None /\ x.stream.url # None => x.urls # {}

EntryKept(t, x, gone) == StreamKept(t, x.stream, x.conf) /\ UrlsKept(t, x, gone)

(* Entries are made of what was sorted, unless the last flush failed.      *)
Compiled ==
  /\ phase = "add" => DOMAIN entries = {}
  /\ DOMAIN entries \subseteq DOMAIN shard
  /\ phase = "done" => DOMAIN entries = DOMAIN shard
  /\ DOMAIN buffer = {} => \A t \in DOMAIN entries : EntryKept(t, entries[t], lost)

(* The inductive invariant.                                                *)
IInv == Types /\ Filed /\ (~critical => Sorted /\ Compiled)
-----------------------------------------------------------------------------
(* Merging two streams.                                                    *)

(* Accepted streams are streams of lines.                                  *)
LEMMA AcceptedParsed == Types => \A s \in Accepted : Parsed(s)
<1> SUFFICES ASSUME Types, NEW l \in read PROVE Parsed(parseLine(l))
  BY DEF Accepted, Streams
<1>1. l.src \in Sources /\ l.num \in Nat
  BY DEF Types, LineType
<1> QED BY <1>1 DEF Parsed, parseLine, Fields

(* An id that is recorded replaces the one of its source alone.            *)
LEMMA Recorded ==
  ASSUME NEW X, NEW epg \in [Sources -> X], NEW src \in Sources, NEW id \in X
  PROVE  /\ Record(epg, src, id) \in [Sources -> X]
         /\ \A k \in Sources : epg[k] # None => Record(epg, src, id)[k] # None
         /\ id # None => Record(epg, src, id)[src] = id
BY DEF Record

(* Merging one more stream.                                                *)
LEMMA MergedOnto ==
  ASSUME NEW all, \A s \in all : Parsed(s), NEW added \in SUBSET all,
         NEW base, Merged(base, all, added), NEW new \in all
  PROVE  Merged(mergeStreamInfoAttributes(base, new), all, added \union {new})
<1> DEFINE m == mergeStreamInfoAttributes(base, new)
           X == IdsOf(all) \union {None}
<1>1. /\ DOMAIN base = Fields /\ base.src \in Sources /\ base.num \in Nat
      /\ base.epg \in [Sources -> X]
      /\ base.id \in IdsOf(all) /\ (base.id = None => \A s \in added : s.id = None)
  BY DEF Merged
<1>2. /\ new.src \in Sources /\ new.num \in Nat /\ new.id \in IdsOf(all)
      /\ new.epg = [k \in Sources |-> IF k = new.src THEN new.id ELSE None]
  BY DEF Parsed, IdsOf
<1>3. /\ DOMAIN m = Fields /\ m.id = FirstPresent(base.id, new.id)
      /\ \/ m.logo = base.logo /\ base.logo # None
         \/ m.logo = new.logo /\ (base.logo # None => new.logo # None)
      /\ m.group = FirstPresent(base.group, new.group)
      /\ m.title = base.title /\ m.url = base.url /\ m.from = base.from
  BY <1>1 DEF mergeStreamInfoAttributes, Fields
<1>4. \/ m.src = base.src /\ m.num = base.num /\ ~Before(new, base)
      \/ m.src = new.src /\ m.num = new.num /\ Before(new, base)
  BY <1>1 DEF mergeStreamInfoAttributes, Fields
<1>5. m.epg = [s \in Sources |->
                 IF new.epg[s] # None THEN new.epg[s]
                 ELSE Record(Record(base.epg, base.src, m.id), new.src, new.id)[s]]
  BY <1>1, <1>3 DEF mergeStreamInfoAttributes, mergeSourceEPGMeta, Fields
<1> HIDE DEF m
<1>6. m.id \in IdsOf(all) /\ (m.id = None => \A s \in added \union {new} : s.id = None)
  BY <1>1, <1>2, <1>3 DEF FirstPresent
<1>7. /\ m.logo \in {s.logo : s \in all}
      /\ m.logo = None => \A s \in added \union {new} : s.logo = None
  BY <1>3 DEF Merged
<1>8. \E s \in all : m.src = s.src /\ m.num = s.num
  BY <1>4 DEF Merged
<1>9. \A s \in added \union {new} : NotAfter(m, s)
  <2>1. NotAfter(m, base) /\ NotAfter(m, new)
    <3>1. StringRank[base.src] \in Nat /\ StringRank[new.src] \in Nat
      BY <1>1, <1>2, MergeAssumption
    <3>2. StringRank[base.src] = StringRank[new.src] => base.src = new.src
      BY <1>1, <1>2, MergeAssumption
    <3>3. CASE Before(new, base)
      BY <1>1, <1>2, <1>4, <3>1, <3>3 DEF NotAfter, Before
    <3>4. CASE ~Before(new, base)
      BY <1>1, <1>2, <1>4, <3>1, <3>2, <3>4 DEF NotAfter, Before
    <3> QED BY <3>3, <3>4
  <2>2. ASSUME NEW s \in added PROVE NotAfter(m, s)
    <3>1. NotAfter(base, s)
      BY DEF Merged
    <3>2. s.src \in Sources /\ s.num \in Nat
      BY DEF Parsed
    <3>3. /\ StringRank[m.src] \in Nat /\ StringRank[base.src] \in Nat
          /\ StringRank[s.src] \in Nat /\ m.num \in Nat
      BY <1>1, <1>2, <1>4, <3>2, MergeAssumption
    <3> QED BY <1>1, <2>1, <3>1, <3>2, <3>3 DEF NotAfter
  <2> QED BY <2>1, <2>2
<1>10. /\ m.epg \in [Sources -> X]
       /\ \A s \in added \union {new} : s.id # None => m.epg[s.src] # None
  <2> DEFINE one == Record(base.epg, base.src, m.id)
             two == Record(one, new.src, new.id)
  <2>1. m.id \in X /\ new.id \in X
    BY <1>2, <1>6
  <2>2. one \in [Sources -> X] /\ \A k \in Sources : base.epg[k] # None => one[k] # None
    <3>1. base.epg \in [Sources -> X] /\ base.src \in Sources
      BY <1>1
    <3> DEFINE e == base.epg
               k == base.src
               i == m.id
    <3>2. e \in [Sources -> X] /\ k \in Sources /\ i \in X
      BY <2>1, <3>1
    <3> HIDE DEF X, e, k, i
    <3>3. /\ Record(e, k, i) \in [Sources -> X]
          /\ \A j \in Sources : e[j] # None => Record(e, k, i)[j] # None
      BY <3>2, Recorded
    <3> QED BY <3>3 DEF e, k, i
  <2> HIDE DEF one
  <2>3. two \in [Sources -> X] /\ \A k \in Sources : one[k] # None => two[k] # None
    <3>1. new.src \in Sources
      BY <1>2
    <3> HIDE DEF X
    <3> QED BY <2>1, <2>2, <3>1, Recorded
  <2>4. m.epg = [s \in Sources |-> IF new.epg[s] # None THEN new.epg[s] ELSE two[s]]
    BY <1>5 DEF one
  <2> HIDE DEF two
  <2>5. \A k \in Sources : new.epg[k] \in X
    BY <1>2, <2>1
  <2>6. m.epg \in [Sources -> X]
    BY <2>3, <2>4, <2>5
  <2>7. \A k \in Sources : base.epg[k] # None => m.epg[k] # None
    BY <2>2, <2>3, <2>4
  <2>8. new.id # None => m.epg[new.src] # None
    BY <1>2, <2>4
  <2>9. \A s \in added : s.id # None => base.epg[s.src] # None /\ s.src \in Sources
    BY DEF Merged, Parsed
  <2> QED BY <2>6, <2>7, <2>8, <2>9
<1>11. m.src \in Sources /\ m.num \in Nat
  BY <1>1, <1>2, <1>4
<1>12. /\ m.group \in {s.group : s \in all}
       /\ m.group = None => \A s \in added \union {new} : s.group = None
  BY <1>3 DEF Merged, FirstPresent
<1>13. /\ m.title \in {s.title : s \in all}
       /\ \E s \in all : m.from = s.src /\ m.url = s.url
  BY <1>3 DEF Merged
<1> QED BY <1>3, <1>6, <1>7, <1>8, <1>9, <1>10, <1>11, <1>12, <1>13 DEF Merged, m

(* A stream alone is merged from itself.                                   *)
LEMMA MergedAlone ==
  ASSUME NEW all, NEW s \in all, Parsed(s)
  PROVE  Merged(s, all, {s})
<1>1. /\ DOMAIN s = Fields /\ s.src \in Sources /\ s.num \in Nat
      /\ s.epg = [k \in Sources |-> IF k = s.src THEN s.id ELSE None]
      /\ s.from = s.src
  BY DEF Parsed
<1>2. s.id \in IdsOf(all)
  BY DEF IdsOf
<1>3. s.epg \in [Sources -> IdsOf(all) \union {None}]
  BY <1>1, <1>2
<1>4. NotAfter(s, s)
  BY <1>1 DEF NotAfter
<1>5. s.id # None => s.epg[s.src] # None
  BY <1>1
<1> QED BY <1>1, <1>2, <1>3, <1>4, <1>5 DEF Merged

(* It does not matter to a merged stream that AutoLogoURL is not spilled.  *)
LEMMA MergedSpilled ==
  ASSUME NEW all, NEW added, NEW e, Merged(e, all, added)
  PROVE  Merged(Spilled(e), all, added)
<1>1. DOMAIN e = Fields
  BY DEF Merged
<1>2. /\ DOMAIN Spilled(e) = Fields
      /\ Spilled(e).id = e.id /\ Spilled(e).logo = e.logo /\ Spilled(e).epg = e.epg
      /\ Spilled(e).src = e.src /\ Spilled(e).num = e.num /\ Spilled(e).title = e.title
      /\ Spilled(e).group = e.group /\ Spilled(e).from = e.from /\ Spilled(e).url = e.url
  BY <1>1 DEF Spilled, Fields
<1>3. ASSUME NEW s, NotAfter(e, s) PROVE NotAfter(Spilled(e), s)
  BY <1>2, <1>3 DEF NotAfter
<1> HIDE DEF Spilled
<1> QED BY <1>2, <1>3 DEF Merged

(* Streams that are still to come change nothing.                          *)
LEMMA MergedMore ==
  ASSUME NEW all, NEW added, NEW e, Merged(e, all, added),
         NEW more, all \subseteq more, NEW less \in SUBSET added
  PROVE  Merged(e, more, less)
<1>1. IdsOf(all) \subseteq IdsOf(more)
  BY DEF IdsOf
<1>2. e.epg \in [Sources -> IdsOf(more) \union {None}]
  BY <1>1 DEF Merged
<1>3. /\ {s.logo : s \in all} \subseteq {s.logo : s \in more}
      /\ {s.group : s \in all} \subseteq {s.group : s \in more}
      /\ {s.title : s \in all} \subseteq {s.title : s \in more}
  OBVIOUS
<1> QED BY <1>1, <1>2, <1>3 DEF Merged

-----------------------------------------------------------------------------
(* Reading and sorting.                                                    *)

(* Before anything is read.                                                *)
LEMMA InitIInv == Init => IInv
<1> SUFFICES ASSUME Init PROVE IInv
  OBVIOUS
<1>1. Streams = {} /\ Accepted = {}
  BY DEF Init, Accepted, Streams
<1>2. Types
  BY <1>1, MergeAssumption DEF Init, Types
<1>3. DOMAIN buffer = {} /\ DOMAIN shard = {} /\ DOMAIN entries = {}
  BY DEF Init, Empty
<1>4. Sorted
  BY <1>1, <1>3 DEF Init, Sorted
<1>5. Compiled
  BY <1>3 DEF Init, Compiled
<1>6. Filed
  BY <1>1 DEF Init, Filed
<1> QED BY <1>2, <1>4, <1>5, <1>6 DEF IInv

(* Only HandleLine changes which streams are accepted.                     *)
LEMMA SameAccepted ==
  ASSUME UNCHANGED read
  PROVE  /\ Streams' = Streams /\ Accepted' = Accepted
         /\ \A t : Of(t)' = Of(t)
BY DEF Accepted, Streams, Of

(* What is promised of an entry is about the lines that were read.         *)
LEMMA KeptSame ==
  ASSUME UNCHANGED read
  PROVE  \A t, x, gone : EntryKept(t, x, gone) => EntryKept(t, x, gone)'
<1> SUFFICES ASSUME NEW t, NEW x, NEW gone, EntryKept(t, x, gone)
             PROVE  EntryKept(t, x, gone)'
  OBVIOUS
<1>1. Streams' = Streams /\ Of(t)' = Of(t)
  BY SameAccepted
<1>2. StreamKept(t, x.stream, x.conf)'
  BY <1>1 DEF EntryKept, StreamKept
<1>3. UrlsKept(t, x, gone)'
  BY <1>1 DEF EntryKept, UrlsKept
<1> QED BY <1>2, <1>3 DEF EntryKept

(* A line that is read adds a stream that is queued, or none.              *)
LEMMA HandleLineIInv ==
  ASSUME IInv, NEW l \in lines, HandleLine(l)
  PROVE  IInv'
<1> DEFINE s == parseLine(l)
<1>1. /\ Accepted \subseteq Accepted' /\ Accepted' \subseteq Accepted \union {s}
      /\ Streams' = Streams \union {s}
  BY DEF HandleLine, Accepted, Streams
<1>2. queue \subseteq queue' /\ (s \in Accepted' \ Accepted => s \in queue')
  BY <1>1 DEF HandleLine, Accepted
<1>3. queue' \subseteq Accepted'
  BY <1>1 DEF HandleLine, Accepted, IInv, Types
<1>4. \A t : Of(t) \subseteq Of(t)' /\ Added(t)' \subseteq Added(t)
  BY <1>1, <1>2 DEF Of, Added
<1>5. Types'
  BY <1>3 DEF HandleLine, IInv, Types
<1>6. Filed'
  <2> DEFINE file == [title |-> s.title, src |-> s.src, url |-> s.url, num |-> s.num,
                      whole |-> TRUE]
             part == [file EXCEPT !.whole = FALSE]
  <2>1. Filed /\ indexStreamURL(s)
    BY DEF HandleLine, IInv
  <2>2. /\ Name(file) = Name(s) /\ file.whole /\ Name(part) = Name(s)
    BY DEF Name
  <2>3. CASE UNCHANGED <<files, lost>> /\ \E f \in files : Name(f) = Name(s)
    BY <1>1, <2>1, <2>3 DEF Filed
  <2>4. CASE files' = files \union {file} /\ UNCHANGED lost
    <3> HIDE DEF file
    <3> QED BY <1>1, <2>1, <2>2, <2>4 DEF Filed
  <2>5. CASE /\ files' \in {files, files \union {part}}
             /\ lost' = lost \union {Name(s)}
    <3> HIDE DEF part
    <3> QED BY <1>1, <2>1, <2>2, <2>5 DEF Filed
  <2> QED BY <2>1, <2>3, <2>4, <2>5 DEF indexStreamURL
<1>7. ASSUME ~critical' PROVE Sorted' /\ Compiled'
  <2>1. Sorted /\ Compiled /\ phase = "add"
    BY <1>7 DEF HandleLine, IInv
  <2>2. UNCHANGED <<buffer, index, shard, phase, entries>>
    BY DEF HandleLine, sorter
  <2>3. \A r \in Accepted' \ queue' : Key[r.title] \in index
    BY <1>1, <1>2, <2>1 DEF Sorted
  <2>4. \A t \in DOMAIN buffer : Merged(buffer[t], Of(t)', Added(t)')
    BY <1>4, <2>1, MergedMore DEF Sorted
  <2>5. \A t \in DOMAIN shard : Merged(shard[t], Of(t)', Added(t)')
    BY <1>4, <2>1, MergedMore DEF Sorted
  <2>6. Sorted'
    BY <1>1, <2>1, <2>2, <2>3, <2>4, <2>5 DEF Sorted
  <2>7. Compiled'
    BY <2>1, <2>2 DEF Compiled
  <2> QED BY <2>6, <2>7
<1> QED BY <1>5, <1>6, <1>7 DEF IInv

(* The streams of a title once s has been taken from the queue.            *)
LEMMA AddedThen ==
  ASSUME UNCHANGED read, NEW s \in queue, queue \subseteq Accepted, queue' = queue \ {s}
  PROVE  \A t : Added(t)' = IF t = Key[s.title] THEN Added(t) \union {s} ELSE Added(t)
<1>1. \A t : Of(t)' = Of(t)
  BY SameAccepted
<1>2. s \in Of(Key[s.title]) /\ \A t : s \in Of(t) => t = Key[s.title]
  BY DEF Of
<1> QED BY <1>1, <1>2 DEF Added

(* Titles of a buffer are not in the shard file: a flush only moves them.  *)
LEMMA FlushedMoves ==
  ASSUME NEW buf, DOMAIN buf \intersect DOMAIN shard = {}
  PROVE  /\ DOMAIN Flushed(buf) = DOMAIN shard \union DOMAIN buf
         /\ \A t \in DOMAIN shard : Flushed(buf)[t] = shard[t]
         /\ \A t \in DOMAIN buf : Flushed(buf)[t] = Spilled(buf[t])
BY DEF Flushed

(* A worker adds a stream to those of its title, in memory or in the       *)
(* shard, or begins a title.                                               *)
LEMMA AddSorted ==
  ASSUME Types, Sorted, NEW s \in queue, AddToSorter(s)
  PROVE  Sorted'
<1>1. UNCHANGED read /\ s \in queue /\ queue \subseteq Accepted /\ queue' = queue \ {s}
  BY DEF AddToSorter, Types, input
<1>2. Streams' = Streams /\ Accepted' = Accepted /\ \A t : Of(t)' = Of(t)
  BY <1>1, SameAccepted
<1>3. \A t : Added(t)' = IF t = Key[s.title] THEN Added(t) \union {s} ELSE Added(t)
  BY <1>1, AddedThen
<1> DEFINE t0 == Key[s.title]
<1>4. s \in Of(t0) /\ Added(t0) \subseteq Of(t0) /\ \A r \in Of(t0) : Parsed(r)
  BY <1>1, AcceptedParsed DEF Of, Added
<1>5. \A r \in (Accepted \ queue') : Key[r.title] \in index \union {t0}
  BY <1>1 DEF Sorted
<1>6. CASE t0 \in DOMAIN buffer
  <2>1. /\ buffer' = [buffer EXCEPT ![t0] = mergeStreamInfoAttributes(buffer[t0], s)]
        /\ UNCHANGED <<shard, index>>
    BY <1>6 DEF AddToSorter, HandleExisting, Sorted
  <2>2. Merged(buffer[t0], Of(t0), Added(t0))
    BY <1>6 DEF Sorted
  <2>3. Merged(mergeStreamInfoAttributes(buffer[t0], s), Of(t0), Added(t0) \union {s})
    <3> HIDE DEF t0
    <3> QED BY <1>4, <2>2, MergedOnto
  <2>4. t0 \in index /\ t0 \notin DOMAIN shard
    BY <1>6 DEF Sorted
  <2> HIDE DEF t0
  <2>5. \A t \in DOMAIN buffer' :
          Merged(buffer'[t], Of(t)', Added(t)')
    BY <1>2, <1>3, <1>6, <2>1, <2>3 DEF Sorted, t0
  <2>6. \A t \in DOMAIN shard' : Merged(shard'[t], Of(t)', Added(t)')
    BY <1>2, <1>3, <2>1, <2>4 DEF Sorted, t0
  <2> QED BY <1>2, <1>5, <2>1, <2>4, <2>5, <2>6 DEF Sorted
<1>7. CASE t0 \in index /\ t0 \notin DOMAIN buffer
  <2> DEFINE m == Spilled(mergeStreamInfoAttributes(shard[t0], s))
  <2>1. t0 \in DOMAIN shard
    BY <1>7 DEF Sorted
  <2>2. shard' = With(shard, t0, m) /\ UNCHANGED <<buffer, index>>
    BY <1>7, <2>1 DEF AddToSorter, HandleExisting
  <2>3. Merged(shard[t0], Of(t0), Added(t0))
    BY <2>1 DEF Sorted
  <2>4. Merged(m, Of(t0), Added(t0) \union {s})
    <3> HIDE DEF t0
    <3>1. Merged(mergeStreamInfoAttributes(shard[t0], s), Of(t0), Added(t0) \union {s})
      BY <1>4, <2>3, MergedOnto
    <3> QED BY <3>1, MergedSpilled
  <2> HIDE DEF t0, m
  <2>5. /\ DOMAIN shard' = DOMAIN shard /\ shard'[t0] = m
        /\ \A t \in DOMAIN shard : t # t0 => shard'[t] = shard[t]
    BY <2>1, <2>2 DEF With
  <2>6. \A t \in DOMAIN buffer' :
          Merged(buffer'[t], Of(t)', Added(t)')
    BY <1>2, <1>3, <1>7, <2>2 DEF Sorted, t0
  <2>7. \A t \in DOMAIN shard' : Merged(shard'[t], Of(t)', Added(t)')
    BY <1>2, <1>3, <2>4, <2>5 DEF Sorted, t0
  <2> QED BY <1>2, <1>5, <1>7, <2>2, <2>5, <2>6, <2>7 DEF Sorted
<1>8. CASE t0 \notin index
  <2> DEFINE filled == With(buffer, t0, s)
  <2>1. t0 \notin DOMAIN buffer /\ t0 \notin DOMAIN shard
    BY <1>8 DEF Sorted
  <2>2. Added(t0) = {}
    BY <1>8 DEF Sorted, Added, Of
  <2>3. Merged(s, Of(t0), {s})
    <3> HIDE DEF t0
    <3> QED BY <1>4, MergedAlone
  <2>5. index' = index \union {t0}
    BY <1>8 DEF AddToSorter, BufferNew
  <2>6. \/ buffer' = filled /\ UNCHANGED shard
        \/ shard' = Flushed(filled) /\ buffer' = Empty
    BY <1>8 DEF AddToSorter, BufferNew
  <2>7. \E r \in Accepted : Key[r.title] = t0
    BY <1>1
  <2> HIDE DEF t0
  <2>8. /\ DOMAIN filled = DOMAIN buffer \union {t0} /\ filled[t0] = s
        /\ \A t \in DOMAIN buffer : filled[t] = buffer[t]
    BY <2>1 DEF With
  <2> HIDE DEF filled
  <2>9. \A t \in DOMAIN filled : Merged(filled[t], Of(t)', Added(t)')
    <3>1. ASSUME NEW t \in DOMAIN buffer
          PROVE  Merged(filled[t], Of(t)', Added(t)')
      BY <1>2, <1>3, <2>1, <2>8 DEF Sorted, t0
    <3>2. Merged(filled[t0], Of(t0)', Added(t0)')
      <4>1. Added(t0)' = {s}
        BY <1>3, <2>2 DEF t0
      <4> QED BY <1>2, <2>3, <2>8, <4>1
    <3> QED BY <2>8, <3>1, <3>2
  <2>10. \A t \in DOMAIN shard : Merged(shard[t], Of(t)', Added(t)')
    BY <1>2, <1>3, <2>1 DEF Sorted, t0
  <2>11. /\ \A r \in Accepted' \ queue' : Key[r.title] \in index'
         /\ \A t \in index' : \E r \in Accepted' : Key[r.title] = t
    BY <1>2, <1>5, <2>5, <2>7 DEF Sorted
  <2>12. /\ DOMAIN filled \intersect DOMAIN shard = {}
         /\ DOMAIN filled \union DOMAIN shard = index'
    BY <2>1, <2>5, <2>8 DEF Sorted
  <2>13. CASE buffer' = filled /\ UNCHANGED shard
    BY <2>9, <2>10, <2>11, <2>12, <2>13 DEF Sorted
  <2>14. CASE shard' = Flushed(filled) /\ buffer' = Empty
    <3>1. DOMAIN buffer' = {}
      BY <2>14 DEF Empty
    <3>2. /\ DOMAIN shard' = DOMAIN shard \union DOMAIN filled
          /\ \A t \in DOMAIN shard : shard'[t] = shard[t]
          /\ \A t \in DOMAIN filled : shard'[t] = Spilled(filled[t])
      BY <2>12, <2>14, FlushedMoves
    <3>3. \A t \in DOMAIN filled :
            Merged(shard'[t], Of(t)', Added(t)')
      BY <2>9, <3>2, MergedSpilled
    <3> QED BY <2>10, <2>11, <2>12, <3>1, <3>2, <3>3 DEF Sorted
  <2> QED BY <2>6, <2>13, <2>14
<1> QED BY <1>6, <1>7, <1>8

(* Adding a stream.                                                        *)
LEMMA AddToSorterIInv ==
  ASSUME IInv, NEW s \in queue, AddToSorter(s)
  PROVE  IInv'
<1>1. UNCHANGED <<lines, read, files, lost, critical, phase, entries>>
  BY DEF AddToSorter, input
<1>2. Streams' = Streams /\ Accepted' = Accepted
  BY <1>1, SameAccepted
<1>3. Types'
  BY <1>1, <1>2 DEF AddToSorter, IInv, Types
<1>4. Filed'
  BY <1>1, <1>2 DEF IInv, Filed
<1>5. ASSUME ~critical' PROVE Sorted' /\ Compiled'
  <2>1. Types /\ Sorted /\ Compiled
    BY <1>1, <1>5 DEF IInv
  <2>2. Sorted'
    BY <2>1, AddSorted
  <2>3. phase = "add"
    BY DEF AddToSorter
  <2>4. Compiled'
    BY <1>1, <2>1, <2>3 DEF Compiled
  <2> QED BY <2>2, <2>4
<1> QED BY <1>3, <1>4, <1>5 DEF IInv

(* A failure of the sorter ends what is promised.                          *)
LEMMA FailsIInv ==
  ASSUME IInv, SortingFails \/ \E s \in queue : AddFails(s)
  PROVE  IInv'
<1>1. UNCHANGED <<lines, read, files, lost>> /\ queue' \subseteq queue
  BY DEF SortingFails, AddFails, input
<1>2. Streams' = Streams /\ Accepted' = Accepted
  BY <1>1, SameAccepted
<1>3. critical'
  BY Zenon DEF SortingFails, AddFails
<1>4. Types'
  <2>1. CASE SortingFails
    BY <1>1, <1>2, <2>1 DEF SortingFails, IInv, Types
  <2>2. CASE \E s \in queue : AddFails(s)
    BY <1>1, <1>2, <2>2 DEF AddFails, IInv, Types
  <2> QED BY <2>1, <2>2
<1>5. Filed'
  BY <1>1, <1>2 DEF IInv, Filed
<1> QED BY <1>3, <1>4, <1>5 DEF IInv

(* What is still buffered is moved to the shard, or stays there.           *)
LEMMA GetSortedEntriesIInv ==
  ASSUME IInv, GetSortedEntries
  PROVE  IInv'
<1>1. /\ UNCHANGED <<lines, read, files, lost, queue, index, critical, entries>>
      /\ phase = "add" /\ phase' = "compile" /\ lines = {} /\ queue = {}
  BY DEF GetSortedEntries, input
<1>2. Streams' = Streams /\ Accepted' = Accepted /\ \A t : Of(t)' = Of(t)
  BY <1>1, SameAccepted
<1>3. \A t : Added(t)' = Added(t)
  BY <1>1, <1>2 DEF Added
<1>4. Types'
  BY <1>1, <1>2 DEF IInv, Types
<1>5. Filed'
  BY <1>1, <1>2 DEF IInv, Filed
<1>6. ASSUME ~critical' PROVE Sorted' /\ Compiled'
  <2>1. Sorted /\ Compiled /\ DOMAIN entries = {}
    BY <1>1, <1>6 DEF IInv, Compiled
  <2>2. Sorted'
    <3>1. CASE UNCHANGED <<shard, buffer>>
      BY <1>1, <1>2, <1>3, <2>1, <3>1 DEF Sorted
    <3>2. CASE shard' = Flushed(buffer) /\ buffer' = Empty
      <4>1. DOMAIN buffer' = {}
        BY <3>2 DEF Empty
      <4>2. /\ DOMAIN shard' = DOMAIN shard \union DOMAIN buffer
            /\ \A t \in DOMAIN shard : shard'[t] = shard[t]
            /\ \A t \in DOMAIN buffer : shard'[t] = Spilled(buffer[t])
        BY <2>1, <3>2, FlushedMoves DEF Sorted
      <4>3. \A t \in DOMAIN buffer :
              Merged(shard'[t], Of(t), Added(t))
        BY <2>1, <4>2, MergedSpilled DEF Sorted
      <4>4. \A t \in DOMAIN shard' :
              Merged(shard'[t], Of(t)', Added(t)')
        BY <1>2, <1>3, <2>1, <4>2, <4>3 DEF Sorted
      <4> QED BY <1>1, <1>2, <2>1, <4>1, <4>2, <4>4 DEF Sorted
    <3> QED BY <3>1, <3>2 DEF GetSortedEntries
  <2>3. Compiled'
    BY <1>1, <2>1 DEF Compiled
  <2> QED BY <2>2, <2>3
<1> QED BY <1>4, <1>5, <1>6 DEF IInv

(* The playlist is written out.                                            *)
LEMMA FlushIInv ==
  ASSUME IInv, Flush
  PROVE  IInv'
<1>1. /\ UNCHANGED <<lines, read, files, lost, queue, buffer, index, shard, entries>>
      /\ phase = "compile" /\ phase' = "done" /\ DOMAIN entries = DOMAIN shard
  BY DEF Flush, input, sorter
<1>2. Streams' = Streams /\ Accepted' = Accepted /\ \A t : Of(t)' = Of(t)
  BY <1>1, SameAccepted
<1>3. \A t : Added(t)' = Added(t)
  BY <1>1, <1>2 DEF Added
<1>4. Types'
  BY <1>1, <1>2 DEF IInv, Types
<1>5. Filed'
  BY <1>1, <1>2 DEF IInv, Filed
<1>6. ~critical' => ~critical
  BY Zenon DEF Flush
<1>7. ASSUME ~critical' PROVE Sorted' /\ Compiled'
  <2>1. Sorted /\ Compiled
    BY <1>6, <1>7 DEF IInv
  <2>2. Sorted'
    BY <1>1, <1>2, <1>3, <2>1 DEF Sorted
  <2>3. \A t, x, gone : EntryKept(t, x, gone) => EntryKept(t, x, gone)'
    BY <1>1, KeptSame
  <2>4. Compiled'
    BY <1>1, <2>1, <2>3 DEF Compiled
  <2> QED BY <2>2, <2>4
<1> QED BY <1>4, <1>5, <1>7 DEF IInv

-----------------------------------------------------------------------------
(* Compiling the entries.                                                  *)

(* loadStreamURLs keeps a URL that is read under its own source, and       *)
(* beside those only the ones of sources it is a prefix of.                *)
LEMMA UrlsFound ==
  ASSUME NEW e, NEW t, NEW loaded, NEW done \in SUBSET Reads(t, loaded)
  PROVE  /\ \A f \in files : f.title = t /\ f.src \in loaded =>
              <<f.src, f>> \in Reads(t, loaded)
         /\ \A f : <<f.src, f>> \in done /\ f.whole =>
              [under |-> f.src, src |-> f.src, url |-> f.url, num |-> f.num]
                \in loadStreamURLs(e, done)
         /\ \A u \in loadStreamURLs(e, done) :
              u.src = u.under \/ <<u.under, u.src>> \in Prefixed
<1> DEFINE whole == {r \in done : r[2].whole}
           Own(r) == \E q \in whole : q[1] = r[1] /\ q[2].src = r[1] /\ q[2].url = r[2].url
           kept == {q \in whole : q[2].src = q[1] \/ ~Own(q)}
           Url(r) == [under |-> r[1], src |-> r[2].src, url |-> r[2].url, num |-> r[2].num]
<1>1. loadStreamURLs(e, done) = {Url(r) : r \in kept}
  BY DEF loadStreamURLs
<1>2. ASSUME NEW f \in files, f.title = t, f.src \in loaded
      PROVE  <<f.src, f>> \in Reads(t, loaded)
  BY <1>2 DEF Reads, Found
<1>3. ASSUME NEW f, <<f.src, f>> \in done, f.whole
      PROVE  [under |-> f.src, src |-> f.src, url |-> f.url, num |-> f.num]
               \in loadStreamURLs(e, done)
  <2> DEFINE r == <<f.src, f>>
  <2>1. r[1] = f.src /\ r[2] = f
    OBVIOUS
  <2>2. r \in whole
    BY <1>3, <2>1
  <2>3. r \in kept
    BY <2>1, <2>2
  <2> HIDE DEF r, kept
  <2> QED BY <1>1, <2>1, <2>3
<1>4. ASSUME NEW u \in loadStreamURLs(e, done)
      PROVE  u.src = u.under \/ <<u.under, u.src>> \in Prefixed
  <2>1. PICK r \in kept : u = Url(r)
    BY <1>1
  <2>2. r \in Reads(t, loaded)
    OBVIOUS
  <2>3. PICK k \in loaded : \E g \in Found(t, k) : r = <<k, g>>
    BY <2>2 DEF Reads
  <2>4. PICK f \in Found(t, k) : r = <<k, f>>
    BY <2>3
  <2>5. u.under = k /\ u.src = f.src
    BY <2>1, <2>4
  <2> QED BY <2>4, <2>5 DEF Found
<1> QED BY <1>2, <1>3, <1>4

(* A set of numbers has a least one.                                       *)
LEMMA LeastIn ==
  ASSUME NEW S \in SUBSET Nat, S # {}
  PROVE  Least(S) \in S
<1>1. PICK m \in S : \A u \in S : <<u, m>> \notin OpToRel(<, Nat)
  BY WFMin, NatLessThanWellFounded
<1>2. m \in Nat /\ S \subseteq Nat
  OBVIOUS
<1>3. \A u \in S : ~(u < m)
  BY <1>1, <1>2 DEF OpToRel
<1>4. \A u \in S : m <= u
  BY <1>2, <1>3
<1> QED BY <1>4 DEF Least

(* The id that is picked is one the stream knows.                          *)
LEMMA PickedKnown ==
  ASSUME NEW X, NEW s, s.id \in X, s.src \in Nat,
         s.epg \in [Sources -> X \union {None}], pickBestTvgID(s) # None
  PROVE  pickBestTvgID(s) \in X
<1> DEFINE others == {[id |-> s.epg[k], rank |-> 2 * k + 1] :
                        k \in {j \in Sources : s.epg[j] \notin {None, s.id}}}
           ranked == {[id |-> s.id, rank |-> 2 * s.src]} \union others
           present == {c \in ranked : c.id # None}
           known == {c \in present : c.id \in Known}
           from == IF known = {} THEN present ELSE known
           ranks == {c.rank : c \in from}
           best == Least(ranks)
<1>1. \A c \in others : c.id \in X /\ c.rank \in Nat
  BY MergeAssumption
<1>2. \A c \in ranked : c.id \in X /\ c.rank \in Nat
  BY <1>1
<1>3. present # {} /\ pickBestTvgID(s) = (CHOOSE c \in from : c.rank = best).id
  BY DEF pickBestTvgID
<1> HIDE DEF ranked
<1>4. from # {} /\ from \subseteq ranked
  BY <1>3
<1> HIDE DEF from
<1>5. ranks \in SUBSET Nat /\ ranks # {}
  BY <1>2, <1>4
<1>6. best \in ranks
  <2> HIDE DEF ranks
  <2> QED BY <1>5, LeastIn
<1> HIDE DEF best
<1>7. \E c \in from : c.rank = best
  BY <1>6
<1>8. (CHOOSE c \in from : c.rank = best) \in from
  BY <1>7
<1> QED BY <1>2, <1>3, <1>4, <1>8

(* What pruning and restoring leave of a stream: its URLs are those that   *)
(* were loaded or, if there are none, the one kept in the stream itself.   *)
LEMMA RestoredKeeps ==
  ASSUME NEW e, DOMAIN e = Fields, NEW loaded, NEW conf, NEW done,
         NEW x \in Restored(e, loaded, conf, done)
  PROVE  LET urls == {u \in loadStreamURLs(e, done) : u.under \in conf}
         IN /\ DOMAIN x.stream = Fields /\ DOMAIN x = {"stream", "urls", "loaded", "conf"}
            /\ x.loaded = loaded /\ x.conf = conf
            /\ x.stream.id = e.id /\ x.stream.logo = e.logo
            /\ x.stream.title = e.title /\ x.stream.group = e.group
            /\ x.stream.epg = [k \in Sources |-> IF k \in conf THEN e.epg[k] ELSE None]
            /\ IF e.src \in conf THEN x.stream.src = e.src /\ x.stream.num = e.num
               ELSE x.stream.src \in conf \union {None}
            /\ \/ urls # {} /\ x.urls = urls
               \/ urls = {} /\ x.urls = {} /\ (x.stream.src = None \/ x.stream.url = None)
               \/ /\ urls = {}
                  /\ x.urls = {[under |-> e.src, src |-> e.from, url |-> e.url,
                                num |-> e.num]}
<1> DEFINE urls == {u \in loadStreamURLs(e, done) : u.under \in conf}
           under == {u.under : u \in urls}
           epg == [k \in Sources |-> IF k \in conf THEN e.epg[k] ELSE None]
           kept == [e EXCEPT !.epg = epg]
<1>1. \A u \in urls : u.under \in conf
  OBVIOUS
<1>2. urls = {} <=> under = {}
  OBVIOUS
<1> HIDE DEF urls, epg
<1>3. PICK p \in Pruned(e, urls, conf) :
        x = [stream |-> p, loaded |-> loaded, conf |-> conf,
             urls |-> IF urls = {} THEN Fallback(p) ELSE urls]
  BY DEF Restored, urls
<1>4. /\ x.stream = p /\ DOMAIN x = {"stream", "urls", "loaded", "conf"}
      /\ x.loaded = loaded /\ x.conf = conf
      /\ x.urls = IF urls = {} THEN Fallback(p) ELSE urls
  BY <1>3
<1>5. /\ DOMAIN kept = Fields /\ kept.id = e.id /\ kept.logo = e.logo /\ kept.epg = epg
      /\ kept.title = e.title /\ kept.group = e.group /\ kept.src = e.src
      /\ kept.num = e.num /\ kept.url = e.url /\ kept.from = e.from
  BY DEF Fields
<1>6. CASE e.src \in conf
  <2>1. p = kept
    BY <1>6 DEF Pruned, epg
  <2>2. \/ x.urls = urls /\ urls # {}
        \/ urls = {} /\ x.urls = {} /\ (x.stream.src = None \/ x.stream.url = None)
        \/ urls = {} /\ x.urls = {[under |-> e.src, src |-> e.from, url |-> e.url,
                                   num |-> e.num]}
    <3> HIDE DEF kept
    <3> QED BY <1>4, <1>5, <2>1 DEF Fallback
  <2> HIDE DEF kept
  <2> QED BY <1>4, <1>5, <1>6, <2>1, <2>2 DEF urls, epg
<1>7. CASE e.src \notin conf /\ under = {}
  <2>1. p = [kept EXCEPT !.src = None, !.num = 0, !.url = None, !.from = None]
    BY <1>7 DEF Pruned, epg
  <2>2. /\ DOMAIN p = Fields /\ p.id = e.id /\ p.logo = e.logo /\ p.epg = epg
        /\ p.title = e.title /\ p.group = e.group /\ p.src = None
    <3> HIDE DEF kept
    <3> QED BY <1>5, <2>1 DEF Fields
  <2>3. x.urls = {}
    BY <1>2, <1>4, <1>7, <2>2 DEF Fallback
  <2> HIDE DEF kept
  <2> QED BY <1>2, <1>4, <1>7, <2>2, <2>3 DEF urls, epg
<1>8. CASE e.src \notin conf /\ under # {}
  <2>1. PICK u \in urls : p = [kept EXCEPT !.src = u.under, !.num = u.num, !.url = u.url,
                                           !.from = u.src]
    BY <1>8 DEF Pruned, epg
  <2>2. /\ DOMAIN p = Fields /\ p.id = e.id /\ p.logo = e.logo /\ p.epg = epg
        /\ p.title = e.title /\ p.group = e.group /\ p.src = u.under
    <3> HIDE DEF kept
    <3> QED BY <1>5, <2>1 DEF Fields
  <2>3. urls # {} /\ u.under \in conf
    BY <1>1
  <2> HIDE DEF kept
  <2> QED BY <1>4, <1>8, <2>2, <2>3 DEF urls, epg
<1> QED BY <1>6, <1>7, <1>8

(* What is promised of an entry is left by compiling it, whether an id is  *)
(* inferred from the other sources or not.                                 *)
LEMMA EntryOf ==
  ASSUME Types, Filed, NEW t, NEW e, Merged(e, Of(t), Of(t)),
         NEW loaded \in Configurations, NEW conf \in Configurations,
         NEW done \in SUBSET Reads(e.title, loaded),
         NEW x \in Restored(e, loaded, conf, done),
         NEW gone, gone = lost \union {Name(r[2]) : r \in Reads(e.title, loaded) \ done}
  PROVE  EntryKept(t, x, gone) /\ EntryKept(t, Inferred(x), gone)
<1> DEFINE X == IdsOf(Of(t))
           urls == {u \in loadStreamURLs(e, done) : u.under \in conf}
           epg == [k \in Sources |-> IF k \in conf THEN e.epg[k] ELSE None]
<1>1. /\ DOMAIN x.stream = Fields /\ DOMAIN x = {"stream", "urls", "loaded", "conf"}
      /\ x.loaded = loaded /\ x.conf = conf
      /\ x.stream.id = e.id /\ x.stream.logo = e.logo
      /\ x.stream.title = e.title /\ x.stream.group = e.group /\ x.stream.epg = epg
      /\ IF e.src \in conf THEN x.stream.src = e.src /\ x.stream.num = e.num
         ELSE x.stream.src \in conf \union {None}
      /\ \/ urls # {} /\ x.urls = urls
         \/ urls = {} /\ x.urls = {} /\ (x.stream.src = None \/ x.stream.url = None)
         \/ /\ urls = {}
            /\ x.urls = {[under |-> e.src, src |-> e.from, url |-> e.url, num |-> e.num]}
  <2>1. DOMAIN e = Fields
    BY DEF Merged
  <2> QED BY <2>1, RestoredKeeps
<1>2. ASSUME NEW s \in Streams, s.title = e.title, Name(s) \notin gone,
             s.src \in loaded \intersect conf
      PROVE  \E u \in urls : u.under = s.src /\ u.src = s.src /\ u.url = s.url
  <2>1. PICK f \in files : Name(f) = Name(s) /\ f.whole
    BY <1>2 DEF Filed
  <2>2. f.title = s.title /\ f.src = s.src /\ f.url = s.url
    BY <2>1 DEF Name
  <2> DEFINE r == <<f.src, f>>
             u == [under |-> f.src, src |-> f.src, url |-> f.url, num |-> f.num]
  <2>3. r \in Reads(e.title, loaded)
    BY <1>2, <2>2, UrlsFound
  <2>4. r \in done
    <3>1. r[2] = f
      OBVIOUS
    <3>2. ASSUME r \notin done PROVE Name(f) \in gone
      <4> HIDE DEF r
      <4> QED BY <2>3, <3>1, <3>2
    <3> QED BY <1>2, <2>1, <3>2
  <2>5. u \in loadStreamURLs(e, done)
    BY <2>1, <2>4, UrlsFound
  <2>6. u.under = s.src /\ u.src = s.src /\ u.url = s.url
    BY <2>2
  <2> HIDE DEF u
  <2> QED BY <1>2, <2>5, <2>6
<1>3. \A u \in urls : u.src = u.under \/ <<u.under, u.src>> \in Prefixed
  BY UrlsFound
<1>4. PICK first \in Of(t) : e.src = first.src /\ e.num = first.num
  BY DEF Merged
<1>5. \A r \in Of(t) : NotAfter(first, r)
  BY <1>4 DEF Merged, NotAfter
<1>6. e.epg \in [Sources -> X \union {None}] /\ e.id \in X /\ e.src \in Sources
  BY DEF Merged
<1>7. /\ e.title \in {s.title : s \in Of(t)}
      /\ \E s \in Of(t) : e.from = s.src /\ e.url = s.url
  BY DEF Merged
<1>8. /\ TakenFrom(e.id, X) /\ TakenFrom(e.logo, {s.logo : s \in Of(t)})
      /\ TakenFrom(e.group, {s.group : s \in Of(t)})
  BY DEF Merged, TakenFrom, IdsOf
<1>9. \A s \in Of(t) : s.src \in conf /\ s.id # None => epg[s.src] \in X \ {None}
  <2> SUFFICES ASSUME NEW s \in Of(t), s.src \in conf, s.id # None
               PROVE  epg[s.src] \in X \ {None}
    OBVIOUS
  <2>1. e.epg[s.src] # None /\ s.src \in Sources
    BY MergeAssumption DEF Merged
  <2> QED BY <1>6, <2>1
<1>10. epg \in [Sources -> X \union {None}]
  BY <1>6
<1> HIDE DEF urls, epg, X
<1>11. UrlsKept(t, x, gone)
  <2>1. CASE urls # {} /\ x.urls = urls
    BY <1>1, <1>2, <1>3, <2>1 DEF UrlsKept
  <2>2. CASE /\ urls = {} /\ x.urls = {}
             /\ x.stream.src = None \/ x.stream.url = None
    BY <1>1, <1>2, <2>2 DEF UrlsKept
  <2>3. ASSUME urls = {},
               x.urls = {[under |-> e.src, src |-> e.from, url |-> e.url, num |-> e.num]}
        PROVE  UrlsKept(t, x, gone)
    <3> DEFINE v == [under |-> e.src, src |-> e.from, url |-> e.url, num |-> e.num]
    <3>1. v.src = e.from /\ v.url = e.url /\ x.urls = {v}
      BY <2>3
    <3> HIDE DEF v
    <3> QED BY <1>1, <1>2, <1>7, <2>3, <3>1 DEF UrlsKept
  <2> QED BY <1>1, <2>1, <2>2, <2>3
<1>12. StreamKept(t, x.stream, conf)
  BY <1>1, <1>4, <1>5, <1>6, <1>7, <1>8, <1>9 DEF StreamKept, X
<1>13. EntryKept(t, x, gone)
  BY <1>1, <1>11, <1>12 DEF EntryKept
<1>14. CASE Inferred(x) = x
  BY <1>13, <1>14
<1>15. CASE Inferred(x) # x
  <2> DEFINE i == pickBestTvgID(x.stream)
             y == Inferred(x)
  <2>1. i # None /\ y = [x EXCEPT !.stream = [@ EXCEPT !.id = i]]
    BY <1>15 DEF Inferred
  <2>2. x.stream.src \in Nat
    <3>1. Sources \subseteq Nat /\ None \in Nat
      BY MergeAssumption DEF None
    <3>2. conf \subseteq Sources
      BY MergeAssumption
    <3>3. x.stream.src \in Sources \union {None}
      BY <1>1, <1>6, <3>2
    <3> QED BY <3>1, <3>3
  <2>3. i \in X
    <3> DEFINE p == x.stream
    <3>1. p.id \in X /\ p.src \in Nat /\ p.epg \in [Sources -> X \union {None}]
      BY <1>1, <1>6, <1>10, <2>2
    <3>2. pickBestTvgID(p) # None
      BY <2>1
    <3> HIDE DEF p
    <3>3. pickBestTvgID(p) \in X
      BY <3>1, <3>2, PickedKnown
    <3> QED BY <3>3 DEF p
  <2> HIDE DEF i, y
  <2>4. /\ y.urls = x.urls /\ y.stream = [x.stream EXCEPT !.id = i]
        /\ y.loaded = x.loaded /\ y.conf = x.conf
    BY <1>1, <2>1
  <2>5. /\ y.stream.id = i /\ y.stream.logo = x.stream.logo /\ y.stream.epg = x.stream.epg
        /\ y.stream.src = x.stream.src /\ y.stream.num = x.stream.num
        /\ y.stream.title = x.stream.title /\ y.stream.group = x.stream.group
        /\ y.stream.url = x.stream.url
    BY <1>1, <2>4 DEF Fields
  <2>6. StreamKept(t, y.stream, conf)
    BY <1>12, <2>1, <2>3, <2>5 DEF StreamKept, TakenFrom, X
  <2>7. UrlsKept(t, y, gone)
    BY <1>11, <2>4, <2>5 DEF UrlsKept
  <2>8. EntryKept(t, y, gone)
    BY <1>1, <2>4, <2>6, <2>7 DEF EntryKept
  <2> QED BY <1>13, <2>8 DEF y
<1> QED BY <1>14, <1>15

(* What is promised of an entry does not change as more files fail.        *)
LEMMA KeptLonger ==
  ASSUME NEW t, NEW x, NEW gone, NEW more, gone \subseteq more, EntryKept(t, x, gone)
  PROVE  EntryKept(t, x, more)
BY DEF EntryKept, UrlsKept

(* One more entry.                                                         *)
LEMMA CompileEntryIInv ==
  ASSUME IInv, NEW t \in DOMAIN shard, CompileEntry(t)
  PROVE  IInv'
<1>1. /\ UNCHANGED <<lines, read, files, queue, buffer, index, shard, critical, phase>>
      /\ phase = "compile" /\ t \notin DOMAIN entries
  BY DEF CompileEntry, input, sorter
<1>2. Streams' = Streams /\ Accepted' = Accepted /\ \A u : Of(u)' = Of(u)
  BY <1>1, SameAccepted
<1>3. \A u : Added(u)' = Added(u)
  BY <1>1, <1>2 DEF Added
<1>4. Types'
  BY <1>1, <1>2 DEF IInv, Types
<1> DEFINE title == shard[t].title
<1>5. PICK loaded \in Configurations, conf \in Configurations :
        \E done \in SUBSET Reads(title, loaded) :
          /\ lost' = lost \union {Name(r[2]) : r \in Reads(title, loaded) \ done}
          /\ \E x \in Restored(shard[t], loaded, conf, done) :
               entries' = With(entries, t, IF epgMerge THEN Inferred(x) ELSE x)
  BY DEF CompileEntry
<1>6. PICK done \in SUBSET Reads(title, loaded) :
        /\ lost' = lost \union {Name(r[2]) : r \in Reads(title, loaded) \ done}
        /\ \E x \in Restored(shard[t], loaded, conf, done) :
             entries' = With(entries, t, IF epgMerge THEN Inferred(x) ELSE x)
  BY <1>5
<1>7. lost \subseteq lost'
  BY <1>6
<1>8. Filed'
  BY <1>1, <1>2, <1>7 DEF IInv, Filed
<1>9. ASSUME ~critical' PROVE Sorted' /\ Compiled'
  <2>1. Types /\ Filed /\ Sorted /\ Compiled
    BY <1>1, <1>9 DEF IInv
  <2>2. Sorted'
    BY <1>1, <1>2, <1>3, <2>1 DEF Sorted
  <2>3. \A u, x, gone : EntryKept(u, x, gone) => EntryKept(u, x, gone)'
    BY <1>1, KeptSame
  <2>4. PICK x \in Restored(shard[t], loaded, conf, done) :
          entries' = With(entries, t, IF epgMerge THEN Inferred(x) ELSE x)
    BY <1>6
  <2>5. /\ DOMAIN entries' = DOMAIN entries \union {t}
        /\ entries'[t] \in {x, Inferred(x)}
        /\ \A u \in DOMAIN entries : entries'[u] = entries[u]
    BY <1>1, <2>4 DEF With
  <2>6. Added(t) = Of(t)
    BY <1>1, <2>1 DEF Added, Types
  <2>7. Merged(shard[t], Of(t), Of(t))
    BY <2>1, <2>6 DEF Sorted
  <2>8. EntryKept(t, x, lost') /\ EntryKept(t, Inferred(x), lost')
    BY <1>6, <2>1, <2>7, EntryOf
  <2>9. EntryKept(t, entries'[t], lost')
    BY <2>5, <2>8
  <2>10. ASSUME DOMAIN buffer = {}, NEW u \in DOMAIN entries
         PROVE  EntryKept(u, entries[u], lost')
    BY <1>7, <2>1, <2>10, KeptLonger DEF Compiled
  <2>11. DOMAIN buffer' = {} => \A u \in DOMAIN entries' : EntryKept(u, entries'[u], lost')
    BY <1>1, <2>5, <2>9, <2>10
  <2>12. Compiled'
    BY <1>1, <2>1, <2>3, <2>5, <2>11 DEF Compiled
  <2> QED BY <2>2, <2>12
<1> QED BY <1>4, <1>8, <1>9 DEF IInv

-----------------------------------------------------------------------------
(* Every step keeps the invariant.                                         *)
LEMMA NextIInv == IInv /\ [Next]_vars => IInv'
<1> SUFFICES ASSUME IInv, [Next]_vars PROVE IInv'
  OBVIOUS
<1>1. ASSUME NEW l \in lines, HandleLine(l) PROVE IInv'
  BY <1>1, HandleLineIInv
<1>2. ASSUME NEW s \in queue, AddToSorter(s) PROVE IInv'
  BY <1>2, AddToSorterIInv
<1>3. CASE SortingFails \/ \E s \in queue : AddFails(s)
  BY <1>3, FailsIInv
<1>4. CASE GetSortedEntries
  BY <1>4, GetSortedEntriesIInv
<1>5. ASSUME NEW t \in DOMAIN shard, CompileEntry(t) PROVE IInv'
  BY <1>5, CompileEntryIInv
<1>6. CASE Flush
  BY <1>6, FlushIInv
<1>7. CASE UNCHANGED vars
  <2>1. UNCHANGED <<lines, read, files, lost, queue, buffer, index, shard, critical, phase,
                    entries>>
    BY <1>7 DEF vars, input, sorter
  <2>2. Streams' = Streams /\ Accepted' = Accepted /\ \A t : Of(t)' = Of(t)
    BY <2>1, SameAccepted
  <2>3. \A t : Added(t)' = Added(t)
    BY <2>1, <2>2 DEF Added
  <2>4. Types' /\ Filed'
    BY <2>1, <2>2 DEF IInv, Types, Filed
  <2>5. Sorted => Sorted'
    BY <2>1, <2>2, <2>3 DEF Sorted
  <2>6. \A t, x, gone : EntryKept(t, x, gone) => EntryKept(t, x, gone)'
    BY <2>1, KeptSame
  <2>7. Compiled => Compiled'
    BY <2>1, <2>6 DEF Compiled
  <2>8. critical' = critical
    BY <2>1
  <2> QED BY <2>4, <2>5, <2>7, <2>8 DEF IInv
<1> QED BY <1>1, <1>2, <1>3, <1>4, <1>5, <1>6, <1>7 DEF Next

(* The invariant holds of every reachable state.                           *)
THEOREM Invariance == Spec => []IInv
BY InitIInv, NextIInv, PTL DEF Spec

(* What is published: the entries of all titles, as they were promised.    *)
LEMMA PublishedKept ==
  ASSUME IInv, Published
  PROVE  /\ DOMAIN entries = {Key[s.title] : s \in Accepted}
         /\ \A t \in DOMAIN entries : EntryKept(t, entries[t], lost)
<1>1. Types /\ Sorted /\ Compiled /\ phase = "done" /\ DOMAIN buffer = {}
  BY DEF IInv, Published, Empty
<1>2. queue = {}
  BY <1>1 DEF Types
<1>3. index = {Key[s.title] : s \in Accepted}
  BY <1>1, <1>2 DEF Sorted
<1>4. DOMAIN entries = index
  BY <1>1 DEF Compiled, Sorted
<1> QED BY <1>1, <1>3, <1>4 DEF Compiled

(* In whatever order the workers add the streams and wherever a title is   *)
(* when one more of its streams comes (sorting.go handleExisting,          *)
(* flushShard), every accepted title has one entry of a published          *)
(* playlist, and the id and logo of one of its streams if any has one.     *)
THEOREM AlwaysMergedOnce == Spec => []MergedOnce
<1>1. IInv => MergedOnce
  BY PublishedKept DEF MergedOnce, EntryKept, StreamKept, IdsOf
<1> QED BY <1>1, Invariance, PTL

(* However streams are merged, an entry has the source and line of its     *)
(* first stream while that source is configured (mergeStreamInfoAttributes *)
(* and pruneStreamToConfiguredSources).                                    *)
THEOREM AlwaysFirstStreamLeads == Spec => []FirstStreamLeads
<1>1. IInv => FirstStreamLeads
  BY PublishedKept DEF FirstStreamLeads, EntryKept, StreamKept, NotAfter
<1> QED BY <1>1, Invariance, PTL

(* No merge, spill or pruning loses a configured source that gave an id    *)
(* (mergeSourceEPGMeta).                                                   *)
THEOREM AlwaysEpgSourcesKept == Spec => []EpgSourcesKept
<1>1. IInv => EpgSourcesKept
  BY PublishedKept DEF EpgSourcesKept, EntryKept, StreamKept, IdsOf
<1> QED BY <1>1, Invariance, PTL

(* The URLs that were not spilled come back from the stream files          *)
(* (restoreCompileStreamURLs) for every line that is spelled like the      *)
(* entry, filtered out or not, unless its source was not configured or its *)
(* file failed; and no entry with a source and a URL is left without any.  *)
THEOREM AlwaysUrlsRestored == Spec => []UrlsRestored
<1>1. IInv => UrlsRestored
  BY PublishedKept DEF UrlsRestored, EntryKept, UrlsKept
<1> QED BY <1>1, Invariance, PTL
=============================================================================

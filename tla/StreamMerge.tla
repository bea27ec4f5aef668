----------------------------- MODULE StreamMerge -----------------------------
(***************************************************************************)
(* From the lines of the sources to the entries of the playlist: parseLine *)
(* and indexStreamURL (sourceproc/parser.go), checkFilter and the channel  *)
(* rules (filter.go), the SortingManager that merges streams of one title  *)
(* and spills them to disk (sorting.go), and the steps of compileM3U that  *)
(* restore what was not spilled (filter.go restoreCompileStreamURLs,       *)
(* epg_groups.go applyInferredMultiSourceEPG).                             *)
(*                                                                         *)
(* The workers add streams in any order, each one atomically, in the       *)
(* Compute of its shard; shards are independent, so the module has one.    *)
(* A title has three forms: the one it is spelled in, which names the      *)
(* stream files; the key sanitizeField makes of it, by which streams are   *)
(* merged; and the key by which the channel merge rules find it.           *)
(***************************************************************************)
EXTENDS Integers, FiniteSets

CONSTANTS
  Titles,         (* titles as they are spelled, white space collapsed     *)
  Key,            (* sanitizeField: the key a title is merged by           *)
  MergeKey,       (* normalizeChannelMergeKey                              *)
  Sources,        (* indexes of the M3U sources                            *)
  StringRank,     (* their order as strings, by which                      *)
                  (* mergeStreamInfoAttributes compares them               *)
  Prefixed,       (* pairs of sources: the index of the first begins the   *)
                  (* index of the second                                   *)
  Inputs,         (* possible sets of lines                                *)
  Stale,          (* stream files of earlier runs                          *)
  ChannelMerges,  (* CHANNEL_MERGE: a function from merge keys to titles   *)
  ChannelRules,   (* CHANNEL_SOURCES: [titles, sources]                    *)
  IncludeGroups, IncludeTitles, ExcludeGroups, ExcludeTitles,
                  (* the filters, each the set of what it matches          *)
  Known,          (* ids the EPG index has                                 *)
  Configurations, (* what utils.GetM3UIndexes() may return                 *)
  BufferLimit,    (* streams a shard buffers, 250 in the code              *)
  MaxFailures     (* bound: stream files that cannot be written or read    *)

None == 0

(* A line of a source as it is parsed, with the URL that follows it; what  *)
(* it does not give is None.                                               *)
LineType == [title : Titles, src : Sources, num : Nat, url : Nat, id : Nat,
             logo : Nat, group : Nat, auto : BOOLEAN]

(* A stream file, named by title, source and hash of the URL. One that was *)
(* not written to its end is not whole and cannot be decoded.              *)
FileType == [title : Titles, src : Sources, url : Nat, num : Nat, whole : BOOLEAN]

(* Indexes of two sources are never the same string.                       *)
ASSUME MergeAssumption ==
  /\ Sources \subseteq Nat \ {None}
  /\ StringRank \in [Sources -> Nat]
  /\ \A s, r \in Sources : StringRank[s] = StringRank[r] => s = r
  /\ \A input \in Inputs : input \subseteq LineType
  /\ Stale \subseteq FileType
  /\ Prefixed \subseteq Sources \X Sources
  /\ DOMAIN Key = Titles /\ DOMAIN MergeKey = Titles
  /\ Configurations \subseteq SUBSET Sources
  /\ BufferLimit \in Nat \ {0}
  /\ MaxFailures \in Nat

VARIABLES
  lines,       (* lines not yet read                                       *)
  read,        (* lines that were parsed                                   *)
  files,       (* the stream files of DATA_PATH/streams                    *)
  lost,        (* names of those a write or a read of has failed           *)
  queue,       (* streams on streamCh, and with the workers                *)
  buffer,      (* shardData.buffer: a function from keys to streams        *)
  index,       (* shardData.index: keys seen                               *)
  shard,       (* the shard file, as a function; empty without a file      *)
  critical,    (* criticalErrorOccurred                                    *)
  phase,       (* "add", "compile" or "done"                               *)
  epgMerge,    (* IsChannelEPGMergeActive() and no channel number groups   *)
  entries      (* the entries of the playlist by key                       *)

input == <<lines, read>>
sorter == <<buffer, index, shard>>
vars == <<input, files, lost, queue, sorter, critical, phase, epgMerge, entries>>

Empty == [t \in {} |-> None]
With(f, t, x) == [u \in DOMAIN f \union {t} |-> IF u = t THEN x ELSE f[u]]

(* The name of the stream file of f, or of the one for stream f.           *)
Name(f) == [title |-> f.title, src |-> f.src, url |-> f.url]

Init ==
  /\ lines \in Inputs
  /\ read = {} /\ queue = {}
  /\ files = Stale /\ lost = {Name(f) : f \in {g \in Stale : ~g.whole}}
  /\ buffer = Empty /\ index = {} /\ shard = Empty
  /\ critical = FALSE /\ phase = "add"
  /\ epgMerge = FALSE /\ entries = Empty

-----------------------------------------------------------------------------
(* applyChannelMergeRule follows the rules from a title until none applies *)
(* or one applies for the second time.                                     *)
Follow[t \in Titles, seen \in SUBSET DOMAIN ChannelMerges] ==
  IF MergeKey[t] \in DOMAIN ChannelMerges \ seen
  THEN Follow[ChannelMerges[MergeKey[t]], seen \union {MergeKey[t]}]
  ELSE t

applyChannelMergeRule(t) == Follow[t, {}]

matchChannelSourceRule(s) ==
  LET matching == {r \in ChannelRules : s.title \in r.titles}
  IN matching = {} \/ \E r \in matching : s.src \in r.sources

matchAny(filters, x) == \E f \in filters : x \in f

(* checkFilter: an include filter that matches wins over an exclude filter *)
(* that does; what matches neither is kept if there is no include filter.  *)
checkFilter(s) ==
  /\ matchChannelSourceRule(s)
  /\ \/ matchAny(IncludeGroups, s.group) \/ matchAny(IncludeTitles, s.title)
     \/ /\ ~matchAny(ExcludeGroups, s.group) /\ ~matchAny(ExcludeTitles, s.title)
        /\ IncludeGroups = {} /\ IncludeTitles = {}

(* parseLine: the stream of a line. Its SourceURL, from, is told apart     *)
(* from its own URL because a merge does not keep the two together.        *)
parseLine(l) ==
  [title |-> applyChannelMergeRule(l.title), id |-> l.id, logo |-> l.logo,
   group |-> l.group, auto |-> l.auto, src |-> l.src, num |-> l.num, url |-> l.url,
   from |-> l.src,
   epg |-> [s \in Sources |-> IF s = l.src THEN l.id ELSE None]]

(* indexStreamURL: the URL is written to a stream file unless there is     *)
(* one. A write that fails leaves no file or a part of one; it is only     *)
(* logged.                                                                 *)
indexStreamURL(s) ==
  LET file == [title |-> s.title, src |-> s.src, url |-> s.url, num |-> s.num,
               whole |-> TRUE]
  IN \/ /\ \E f \in files : Name(f) = Name(s)
        /\ UNCHANGED <<files, lost>>
     \/ /\ \A f \in files : Name(f) # Name(s)
        /\ \/ files' = files \union {file} /\ UNCHANGED lost
           \/ /\ files' \in {files, files \union {[file EXCEPT !.whole = FALSE]}}
              /\ lost' = lost \union {Name(s)}
              /\ Cardinality(lost') <= MaxFailures

(* handleDownloaded: the next line of a source is parsed, its URL indexed, *)
(* and the stream handed to the workers.                                   *)
HandleLine(l) ==
  LET s == parseLine(l)
  IN /\ phase = "add" /\ l \in lines
     /\ \A m \in lines : m.src = l.src => l.num <= m.num
     /\ lines' = lines \ {l}
     /\ read' = read \union {l}
     /\ indexStreamURL(s)
     /\ queue' = IF checkFilter(s) THEN queue \union {s} ELSE queue
     /\ UNCHANGED <<sorter, critical, phase, epgMerge, entries>>

-----------------------------------------------------------------------------
(* recordSourceEPGMeta *)
Record(epg, src, id) == IF id = None THEN epg ELSE [epg EXCEPT ![src] = id]

(* Faulty variant: the ids the new stream knows of are not taken over.     *)
mergeSourceEPGMetaBaseOnly(base, new) == Record(base.epg, base.src, base.id)

(* mergeSourceEPGMeta, after the other attributes: base.id may come from   *)
(* another source than base.src.                                           *)
mergeSourceEPGMeta(base, new) ==
  LET own == Record(Record(base.epg, base.src, base.id), new.src, new.id)
  IN [s \in Sources |-> IF new.epg[s] # None THEN new.epg[s] ELSE own[s]]

(* Faulty variant: the line number is compared first.                      *)
BeforeByLine(a, b) == a.num < b.num

Before(a, b) ==
  \/ StringRank[a.src] < StringRank[b.src]
  \/ a.src = b.src /\ a.num < b.num

(* Faulty variant: the new value replaces the first, present or not.      *)
FirstPresentOverwritten(a, b) == b

(* An attribute is taken over only where there is none.                    *)
FirstPresent(a, b) == IF a # None THEN a ELSE b

(* mergeStreamInfoAttributes: what base lacks is taken from new, a logo    *)
(* that was found automatically is replaced by a given one, and the        *)
(* earlier source and line win. The title and SourceURL of base stay.      *)
mergeStreamInfoAttributes(base, new) ==
  LET takesLogo == \/ base.logo = None
                   \/ base.auto /\ ~new.auto /\ new.logo # None
      named == [base EXCEPT !.id = FirstPresent(base.id, new.id),
                            !.logo = IF takesLogo THEN new.logo ELSE @,
                            !.auto = IF takesLogo THEN new.auto ELSE @,
                            !.group = FirstPresent(base.group, new.group)]
      first == IF Before(new, base) THEN new ELSE base
  IN [named EXCEPT !.epg = mergeSourceEPGMeta(named, new),
                   !.src = first.src, !.num = first.num]

-----------------------------------------------------------------------------
(* writeShard and readShard: AutoLogoURL is not part of the JSON.          *)
Spilled(s) == [s EXCEPT !.auto = FALSE]

(* flushShard: the streams of a buffer are added to the shard file.        *)
Flushed(buf) ==
  [k \in DOMAIN shard \union DOMAIN buf |->
     CASE k \notin DOMAIN buf -> shard[k]
       [] k \notin DOMAIN shard -> Spilled(buf[k])
       [] OTHER -> Spilled(mergeStreamInfoAttributes(shard[k], buf[k]))]

(* handleExisting: the key was seen; its stream is buffered or spilled.    *)
HandleExisting(s) ==
  LET k == Key[s.title]
  IN /\ IF k \in DOMAIN buffer
        THEN /\ buffer' = [buffer EXCEPT ![k] = mergeStreamInfoAttributes(@, s)]
             /\ UNCHANGED shard
        ELSE /\ shard' = With(shard, k,
                    Spilled(IF k \in DOMAIN shard
                            THEN mergeStreamInfoAttributes(shard[k], s) ELSE s))
             /\ UNCHANGED buffer
     /\ UNCHANGED index

(* A new key is buffered; a full buffer is flushed.                        *)
BufferNew(s) ==
  LET filled == With(buffer, Key[s.title], s)
  IN /\ index' = index \union {Key[s.title]}
     /\ IF Cardinality(DOMAIN filled) >= BufferLimit
        THEN /\ shard' = Flushed(filled)
             /\ buffer' = Empty
        ELSE /\ buffer' = filled
             /\ UNCHANGED shard

(* addStream and AddToSorter: a worker adds a stream.                      *)
AddToSorter(s) ==
  /\ phase = "add" /\ s \in queue
  /\ queue' = queue \ {s}
  /\ IF Key[s.title] \in index THEN HandleExisting(s) ELSE BufferNew(s)
  /\ UNCHANGED <<input, files, lost, critical, phase, epgMerge, entries>>

(* The shard file cannot be read or written, and the run will not be       *)
(* published. The stream is lost, unless it is new and only the flush of   *)
(* the full buffer fails: then the buffer keeps it.                        *)
AddFails(s) ==
  LET k == Key[s.title]
      filled == With(buffer, k, s)
  IN /\ phase = "add" /\ s \in queue /\ k \notin DOMAIN buffer
     /\ queue' = queue \ {s}
     /\ critical' = TRUE
     /\ \/ /\ k \in index \/ shard # Empty
           /\ UNCHANGED <<buffer, index>>
        \/ /\ k \notin index
           /\ Cardinality(DOMAIN filled) >= BufferLimit
           /\ buffer' = filled
           /\ index' = index \union {k}
     /\ UNCHANGED <<input, files, lost, shard, phase, epgMerge, entries>>

(* GetSortedEntries: what is still buffered is flushed and the shard read  *)
(* back; a flush that fails because the file cannot be created is only     *)
(* logged.                                                                 *)
GetSortedEntries ==
  /\ phase = "add" /\ lines = {} /\ queue = {}
  /\ \/ shard' = Flushed(buffer) /\ buffer' = Empty
     \/ buffer # Empty /\ UNCHANGED <<shard, buffer>>
  /\ phase' = "compile"
  /\ epgMerge' \in BOOLEAN
  /\ UNCHANGED <<input, files, lost, queue, index, critical, entries>>

(* The header cannot be written or a shard not be read back: compileM3U    *)
(* marks the run as failed and returns.                                    *)
SortingFails ==
  /\ phase = "add" /\ lines = {} /\ queue = {}
  /\ phase' = "done"
  /\ critical' = TRUE
  /\ UNCHANGED <<input, files, lost, queue, sorter, epgMerge, entries>>

-----------------------------------------------------------------------------
(* The files filepath.Glob finds for a title and a source: those whose     *)
(* name begins with the title, as it is spelled, and the index.            *)
Found(t, s) == {f \in files : f.title = t /\ (s = f.src \/ <<s, f.src>> \in Prefixed)}
Reads(t, conf) == UNION {{<<s, f>> : f \in Found(t, s)} : s \in conf}

(* Faulty variant: only the URLs of the stream's own source are loaded.    *)
loadStreamURLsOfFirst(s, done) ==
  {[under |-> r[1], src |-> r[2].src, url |-> r[2].url, num |-> r[2].num] :
     r \in {p \in done : p[1] = s.src /\ p[2].src = s.src /\ p[2].whole}}

(* loadStreamURLs for every source, of the files that could be read: those *)
(* that can be decoded. The URLs of a source are a map; where two files    *)
(* give the same URL the one named by the very index is read last and      *)
(* stays.                                                                  *)
loadStreamURLs(s, done) ==
  LET whole == {r \in done : r[2].whole}
      Own(r) == \E q \in whole : q[1] = r[1] /\ q[2].src = r[1] /\ q[2].url = r[2].url
  IN {[under |-> r[1], src |-> r[2].src, url |-> r[2].url, num |-> r[2].num] :
        r \in {q \in whole : q[2].src = q[1] \/ ~Own(q)}}

Least(S) == CHOOSE s \in S : \A u \in S : s <= u

(* pruneStreamToConfiguredSources: a source that is gone is forgotten, and *)
(* a stream that loses its own gets the first one it still has a URL of,   *)
(* with whichever URL primarySourceURL meets first.                        *)
Pruned(s, urls, conf) ==
  LET under == {u.under : u \in urls}
      kept == [s EXCEPT !.epg = [k \in Sources |-> IF k \in conf THEN @[k] ELSE None]]
  IN IF s.src \in conf THEN {kept}
     ELSE IF under = {}
     THEN {[kept EXCEPT !.src = None, !.num = 0, !.url = None, !.from = None]}
     ELSE {[kept EXCEPT !.src = u.under, !.num = u.num, !.url = u.url, !.from = u.src] :
             u \in {v \in urls : v.under = Least(under)}}

(* restoreStreamFallbackURL: without a URL the one kept in the stream      *)
(* itself is used, under its source.                                       *)
Fallback(p) ==
  IF p.src = None \/ p.url = None THEN {}
  ELSE {[under |-> p.src, src |-> p.from, url |-> p.url, num |-> p.num]}

(* restoreCompileStreamURLs: the entries s may become if the sources were  *)
(* loaded when GetM3UIndexes() returned one set and pruned when it         *)
(* returned another, and the reads of done succeeded.                      *)
Restored(s, loaded, conf, done) ==
  LET urls == {u \in loadStreamURLs(s, done) : u.under \in conf}
  IN {[stream |-> p, loaded |-> loaded, conf |-> conf,
       urls |-> IF urls = {} THEN Fallback(p) ELSE urls] : p \in Pruned(s, urls, conf)}

(* collectTvgIDCandidates and pickBestTvgID: the own id, counted for the   *)
(* own source, then those of the sources in order; an id that the EPG      *)
(* index has is preferred.                                                 *)
pickBestTvgID(s) ==
  LET ranked == {[id |-> s.id, rank |-> 2 * s.src]} \union
                {[id |-> s.epg[k], rank |-> 2 * k + 1] :
                   k \in {j \in Sources : s.epg[j] \notin {None, s.id}}}
      present == {c \in ranked : c.id # None}
      known == {c \in present : c.id \in Known}
      from == IF known = {} THEN present ELSE known
      best == Least({c.rank : c \in from})
  IN IF present = {} THEN None
     ELSE (CHOOSE c \in from : c.rank = best).id

(* applyInferredMultiSourceEPG *)
Inferred(e) ==
  IF Cardinality({u.under : u \in e.urls}) < 2 \/ pickBestTvgID(e.stream) = None
  THEN e
  ELSE [e EXCEPT !.stream = [@ EXCEPT !.id = pickBestTvgID(e.stream)]]

(* compileM3U takes up one entry after the other. Discovery may change the *)
(* configured sources at any time; a stream file that cannot be read is    *)
(* skipped.                                                                *)
CompileEntry(k) ==
  /\ phase = "compile" /\ k \in DOMAIN shard \ DOMAIN entries
  /\ \E loaded, conf \in Configurations :
       \E done \in SUBSET Reads(shard[k].title, loaded) :
         /\ lost' = lost \union {Name(r[2]) : r \in Reads(shard[k].title, loaded) \ done}
         /\ lost' = lost \/ Cardinality(lost') <= MaxFailures
         /\ \E e \in Restored(shard[k], loaded, conf, done) :
              entries' = With(entries, k, IF epgMerge THEN Inferred(e) ELSE e)
  /\ UNCHANGED <<input, files, queue, sorter, critical, phase, epgMerge>>

(* The entries are written out; a write or the last Flush that fails marks *)
(* the run as failed.                                                      *)
Flush ==
  /\ phase = "compile" /\ DOMAIN entries = DOMAIN shard
  /\ phase' = "done"
  /\ critical' \in {critical, TRUE}
  /\ UNCHANGED <<input, files, lost, queue, sorter, epgMerge, entries>>

Next ==
  \/ \E l \in lines : HandleLine(l)
  \/ \E s \in queue : AddToSorter(s) \/ AddFails(s)
  \/ GetSortedEntries \/ SortingFails
  \/ \E k \in DOMAIN shard : CompileEntry(k)
  \/ Flush

Spec == Init /\ [][Next]_vars

-----------------------------------------------------------------------------
(* The streams that were read, and those the playlist is about.            *)
Streams == {parseLine(l) : l \in read}
Accepted == {s \in Streams : checkFilter(s)}
Of(k) == {s \in Accepted : Key[s.title] = k}

(* The run is published, and no stream was lost in a last flush that       *)
(* failed.                                                                 *)
Published == phase = "done" /\ ~critical /\ buffer = Empty

(* An attribute that is taken from the streams that have it.               *)
TakenFrom(x, values) == x \in values /\ (x = None => values = {None})

(* In whatever order the workers add the streams, and whether they were    *)
(* merged in memory or after having been spilled: the accepted titles of   *)
(* one key have one entry, spelled like one of them, and the entry has an  *)
(* id, a logo and a group whenever one of its streams has one, and takes   *)
(* them from its streams.                                                  *)
MergedOnce ==
  Published =>
    /\ DOMAIN entries = {Key[s.title] : s \in Accepted}
    /\ \A k \in DOMAIN entries :
         LET e == entries[k].stream
         IN /\ e.title \in {s.title : s \in Of(k)}
            /\ TakenFrom(e.id, {s.id : s \in Of(k)})
            /\ TakenFrom(e.logo, {s.logo : s \in Of(k)})
            /\ TakenFrom(e.group, {s.group : s \in Of(k)})

(* The source and line of an entry are those of its first stream, by       *)
(* source and then by line, however they were merged; they change only if  *)
(* that source is no longer configured when the entry is pruned.           *)
FirstStreamLeads ==
  Published =>
    \A k \in DOMAIN entries :
      LET e == entries[k].stream
          conf == entries[k].conf
      IN \E s \in Of(k) :
           /\ \A r \in Of(k) : \/ StringRank[s.src] < StringRank[r.src]
                               \/ s.src = r.src /\ s.num <= r.num
           /\ IF s.src \in conf THEN e.src = s.src /\ e.num = s.num
              ELSE e.src \in conf \union {None}

(* Every configured source that gave an id for the key is still known with *)
(* an id of one of its streams.                                            *)
EpgSourcesKept ==
  Published =>
    \A k \in DOMAIN entries : \A s \in Of(k) :
      s.src \in entries[k].conf /\ s.id # None =>
        entries[k].stream.epg[s.src] \in {r.id : r \in Of(k)} \ {None}

(* URLs are not spilled; they come back from the stream files. An entry    *)
(* has, under its source, the URL of every line that is spelled like it,   *)
(* of lines that were filtered out too, if the source was configured both  *)
(* when URLs were loaded and when they were pruned and no write or read of *)
(* the file failed. (The URLs of a line that is merged into the entry but  *)
(* spelled differently do not come back.) A URL is listed under its own    *)
(* source, or one its index begins with, or is the only one, kept from one *)
(* of the entry's streams; and an entry with a source and a URL of its own *)
(* is never without URLs.                                                  *)
UrlsRestored ==
  Published =>
    \A k \in DOMAIN entries :
      LET e == entries[k].stream
          urls == entries[k].urls
      IN /\ \A s \in Streams :
              /\ s.title = e.title /\ Name(s) \notin lost
              /\ s.src \in entries[k].loaded \intersect entries[k].conf
              => \E u \in urls : u.under = s.src /\ u.src = s.src /\ u.url = s.url
         /\ \A u \in urls :
              \/ u.src = u.under \/ <<u.under, u.src>> \in Prefixed
              \/ urls = {u} /\ \E s \in Of(k) : u.src = s.src /\ u.url = s.url
         /\ e.src # None /\ e.url # None => urls # {}
=============================================================================

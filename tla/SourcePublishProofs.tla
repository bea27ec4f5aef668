------------------------- MODULE SourcePublishProofs -------------------------
(***************************************************************************)
(* Proofs about SourcePublish for any channels, sources and contents, any  *)
(* clock, and any number of runs, failing file operations and crashes.     *)
(*                                                                         *)
(* The argument follows the slugs of the playlist published last: from     *)
(* Rename on they are complete in new-slugs; copying, if it comes to its   *)
(* end, makes them the current ones, and they stay that until the next     *)
(* Rename. A crash in between leaves them where they are, except for the   *)
(* file that was being written.                                            *)
(***************************************************************************)
EXTENDS SourcePublish, FiniteSetTheorems, TLAPS

(* Where a run has not yet touched what was published, and from where on   *)
(* it is published.                                                        *)
Early == {"download", "compile", "fail", "clean", "unslug", "rename"}
Late == {"caches", "clear", "copy", "remove", "old"}

(* The states of a slug file; a download that is kept, or none.            *)
Slug == {"none", "ok", "torn", "broken"}
Files == (SUBSET Channels) \union {NoFile}

(* A run, and a DecodeSlug call.                                           *)
RunType ==
  [pc : {"idle", "result"} \union Early \union Late, id : Nat,
   todo : SUBSET (Sources \union Channels), channels : SUBSET Channels,
   critical : BOOLEAN, lossy : BOOLEAN, missing : BOOLEAN]
ReaderType ==
  [pc : {"idle", "current", "new", "found", "error"},
   channel : Channels \union {"none"}, overlap : BOOLEAN]

(* The types the argument needs.                                           *)
Types ==
  /\ playlists \in SUBSET [id : Nat \ {0}, channels : SUBSET Channels]
  /\ cur \in [Channels -> Slug] /\ new \in [Channels -> Slug]
  /\ cache \in [Sources -> Files] /\ fresh \in [Sources -> Files]
  /\ boot \in {"discovery", "latest", "ready", "done"}
  /\ run \in RunType /\ reader \in ReaderType
  /\ run.pc \in Early \union Late => run.id # 0
  /\ run.pc \in {"compile", "copy"} => run.todo \subseteq Channels
  /\ reader.pc # "idle" => reader.channel \in Channels
  /\ time \in Nat \ {0} /\ faults \in Nat /\ crashes \in Nat

(* Only a run writes slug files, one at a time.                            *)
Torn ==
  /\ \A ch \in Channels : cur[ch] = "torn" => run.pc = "copy" /\ ch \in run.todo
  /\ \A ch \in Channels : new[ch] = "torn" => run.pc = "compile" /\ ch \in run.todo
  /\ \A ch, other \in Channels :
       /\ cur[ch] = "torn" /\ cur[other] = "torn" => ch = other
       /\ new[ch] = "torn" /\ new[other] = "torn" => ch = other

(* A critical error keeps a run from publishing.                           *)
Flags == run.critical => run.pc \in {"compile", "fail", "clean", "unslug", "result"}

(* The slugs of a run before it publishes.                                 *)
Compiled ==
  ~run.lossy =>
    /\ run.pc = "compile" => \A ch \in run.channels \ run.todo : new[ch] = "ok"
    /\ run.pc = "rename" => \A ch \in run.channels : new[ch] = "ok"

(* How far the publication has come.                                       *)
Progress ==
  /\ run.pc \in {"caches", "clear", "copy"} => partial \/ lost
  /\ run.pc = "remove" => ~partial \/ lost

(* The slugs of the playlist published last.                               *)
Kept ==
  ~lost =>
    \A ch \in Listed(published) :
      /\ cur[ch] # "none" \/ new[ch] # "none"
      /\ run.pc \in {"caches", "clear", "copy"} => new[ch] = "ok"
      /\ run.pc = "copy" => ch \in run.todo \/ cur[ch] = "ok"
      /\ ~partial => cur[ch] = "ok"

(* Files cut off in the middle: each took a crash or a failing write.      *)
Bad == {ch \in Channels : cur[ch] = "broken" \/ new[ch] = "broken"}
Counted == IsFiniteSet(Bad) /\ Cardinality(Bad) <= crashes + faults

(* A DecodeSlug call no publication overlaps finds the current slug.       *)
Reads ==
  reader.pc # "idle" /\ ~reader.overlap /\ ~partial /\ ~lost =>
    cur[reader.channel] = "ok" /\ reader.pc \in {"current", "found"}

(* A run that has published, and whose playlist is there.                  *)
Named ==
  run.pc \in Late \union {"result"} /\ run.id # 0 /\ ~run.missing =>
    published = run.id /\ run.id \in Ids

(* The handler's path, and the one Initialize holds, as long as no run     *)
(* has published since.                                                    *)
Unpublished == \/ run.pc \in Early \union {"idle"}
               \/ run.pc = "result" /\ run.id = 0
Served ==
  Unpublished /\ ~stray =>
    /\ boot \in {"ready", "done"} /\ InOrder => path = Latest
    /\ boot = "latest" => bootPath = Latest
    /\ boot \in {"discovery", "latest"} /\ InOrder => path = 0 \/ path \in Ids

(* The inductive invariant.                                                *)
IInv ==
  /\ Types /\ Torn /\ Flags /\ Compiled /\ Progress /\ Kept
  /\ Counted /\ Reads /\ Named /\ Served

-----------------------------------------------------------------------------
(* The greatest of a set of numbers.                                       *)
LEMMA Greatest ==
  ASSUME NEW S \in SUBSET Nat, NEW i \in S, \A j \in S : j <= i
  PROVE  (CHOOSE k \in S : \A j \in S : j <= k) = i
<1>1. \A k \in S : (\A j \in S : j <= k) => k = i
  OBVIOUS
<1> QED BY <1>1

(* The playlists, and what they list.                                      *)
LEMMA LatestIs ==
  ASSUME Types, NEW i \in Ids, \A j \in Ids : j <= i
  PROVE  Latest = i
<1>1. Ids \in SUBSET Nat
  BY DEF Types, Ids
<1> QED BY <1>1, Greatest DEF Latest

(* A channel is listed by one of the playlists.                            *)
LEMMA ListedBy ==
  ASSUME Types, NEW id, NEW ch \in Listed(id)
  PROVE  /\ ch \in Channels /\ id \in Ids
         /\ \E p \in playlists : p.id = id /\ ch \in p.channels
<1>1. \E p \in playlists : p.id = id /\ ch \in p.channels
  BY DEF Listed
<1> QED BY <1>1 DEF Ids, Types

(* The playlists stay: so do the latest one and its channels.              *)
LEMMA PlaylistsFrame ==
  ASSUME UNCHANGED <<playlists, published>>
  PROVE  /\ Ids' = Ids /\ Latest' = Latest /\ (InOrder' <=> InOrder)
         /\ Listed(published)' = Listed(published)
BY DEF Ids, Latest, Listed, InOrder

(* Playlists are removed.                                                  *)
LEMMA FewerPlaylists ==
  ASSUME playlists' \subseteq playlists, published' = published
  PROVE  Listed(published)' \subseteq Listed(published)
BY DEF Listed

(* Counting.                                                               *)
LEMMA NoMore ==
  ASSUME NEW S, NEW T, IsFiniteSet(S), T \subseteq S
  PROVE  /\ IsFiniteSet(T) /\ Cardinality(T) <= Cardinality(S)
         /\ Cardinality(S) \in Nat /\ Cardinality(T) \in Nat
BY FS_Subset, FS_CardinalityType

LEMMA OneMore ==
  ASSUME NEW S, NEW T, NEW x, IsFiniteSet(S), T \subseteq S \union {x}
  PROVE  /\ IsFiniteSet(T) /\ Cardinality(T) <= Cardinality(S) + 1
         /\ Cardinality(S) \in Nat /\ Cardinality(T) \in Nat
<1>1. /\ IsFiniteSet(S \union {x}) /\ Cardinality(S) \in Nat
      /\ Cardinality(S \union {x}) <= Cardinality(S) + 1
  <2>1. /\ IsFiniteSet(S \union {x})
        /\ Cardinality(S \union {x}) = IF x \in S THEN Cardinality(S) ELSE Cardinality(S) + 1
    BY FS_AddElement
  <2>2. Cardinality(S) \in Nat
    BY FS_CardinalityType
  <2> QED BY <2>1, <2>2
<1>2. /\ IsFiniteSet(T) /\ Cardinality(T) <= Cardinality(S \union {x})
      /\ Cardinality(T) \in Nat /\ Cardinality(S \union {x}) \in Nat
  BY <1>1, NoMore
<1> QED BY <1>1, <1>2

-----------------------------------------------------------------------------
(* What the steps do, in groups: those of nobody's run, ...                *)
Aside == BootLatest \/ BootSetPath \/ BootSync \/ Request \/ Tick \/ Decode

(* those of a run that touch neither slugs nor playlists before it         *)
(* publishes, ...                                                          *)
Prepare == \/ (\E s \in Sources : Download(s)) \/ Compile \/ Flush
           \/ RemoveTmp \/ CleanDownloads

(* and when it does.                                                       *)
Ready == (\E s \in Sources : ApplyCache(s)) \/ EnsureSlugDir

(* The groups are all there is.                                            *)
LEMMA Steps ==
  ASSUME [Next]_vars
  PROVE  \/ UNCHANGED vars \/ Aside \/ BootClear \/ NewProcessor \/ Prepare
         \/ (\E ch \in Channels : EncodeSlug(ch)) \/ CleanFailed \/ Rename \/ Ready
         \/ ClearSlug \/ CopySlug \/ RemoveNewSlugs \/ ClearOldResults
         \/ SetProcessedPath \/ Crash
BY DEF Next, BootStep, RunStep, Aside, Prepare, Ready

(* A failing operation is counted.                                         *)
LEMMA Faults ==
  ASSUME Types, Fault \/ NoFault
  PROVE  /\ faults' \in Nat /\ faults' >= faults /\ (Fault => faults' = faults + 1)
         /\ UNCHANGED <<time, crashes>>
BY DEF Types, Fault, NoFault, bounds

(* A file that was being written is incomplete, the others stay.           *)
LEMMA Settled ==
  ASSUME NEW f \in [Channels -> Slug]
  PROVE  /\ Settle(f) \in [Channels -> Slug]
         /\ \A ch \in Channels :
              Settle(f)[ch] = IF f[ch] = "torn" THEN "broken" ELSE f[ch]
BY DEF Settle, Slug

(* What the steps of a publication do to a DecodeSlug call.                *)
LEMMA Overlapped ==
  ASSUME reader \in ReaderType, Overlap
  PROVE  /\ reader' \in ReaderType /\ reader'.pc = reader.pc
         /\ reader'.channel = reader.channel
         /\ reader.pc # "idle" => reader'.overlap
<1>1. reader' = [reader EXCEPT !.overlap = reader.pc # "idle"]
  BY DEF Overlap
<1>2. (reader.pc # "idle") \in BOOLEAN
  OBVIOUS
<1>3. reader' \in ReaderType
  BY <1>1, <1>2, Zenon DEF ReaderType
<1> QED BY <1>1, <1>3 DEF ReaderType

(* A step aside touches neither the disk nor the run.                      *)
LEMMA AsideFrame ==
  ASSUME Aside
  PROVE  UNCHANGED <<playlists, tmp, cur, new, cache, fresh, run, published, partial,
                     lost, stray, faults, crashes>>
BY DEF Aside, BootLatest, BootSetPath, BootSync, Request, Tick, Decode, DecodeStart,
   DecodeRead, DecodeEnd, NoFault, diskVars, bounds, history

(* A boot that clears the processed directory.                             *)
LEMMA ClearFrame ==
  ASSUME Types, BootClear
  PROVE  /\ playlists' \subseteq playlists
         /\ run' \in RunType /\ run'.pc = run.pc /\ run'.id = run.id
         /\ run'.todo = run.todo /\ run'.channels = run.channels
         /\ run'.critical = run.critical /\ run'.lossy = run.lossy
         /\ run.pc # "idle" => run'.missing
         /\ UNCHANGED <<cur, new, cache, fresh, path, reader, published, partial, lost>>
         /\ faults' \in Nat /\ faults' >= faults /\ UNCHANGED <<time, crashes>>
<1>1. run' = [run EXCEPT !.missing = run.pc # "idle"]
  BY DEF BootClear
<1>2. (run.pc # "idle") \in BOOLEAN /\ run \in RunType
  BY DEF Types
<1>3. run' \in RunType
  BY <1>1, <1>2, Zenon DEF RunType
<1>4. /\ run'.pc = run.pc /\ run'.id = run.id /\ run'.todo = run.todo
      /\ run'.channels = run.channels /\ run'.critical = run.critical
      /\ run'.lossy = run.lossy /\ (run.pc # "idle" => run'.missing)
  BY <1>1, <1>2 DEF RunType
<1>5. Fault \/ NoFault
  BY DEF BootClear
<1> QED BY <1>3, <1>4, <1>5, Faults DEF BootClear

(* What a source gave, or the file kept of it, lists channels.             *)
LEMMA DownloadFrame ==
  ASSUME Types, NEW s \in Sources, Download(s)
  PROVE  /\ run' \in RunType /\ fresh' \in [Sources -> Files]
         /\ run.pc = "download" /\ run'.pc = "download" /\ run'.id = run.id
         /\ run'.critical = run.critical /\ run'.lossy = run.lossy
<1> USE DEF Types
<1>1. PICK content \in SUBSET Carries[s], ok \in BOOLEAN :
        LET got == IF ok THEN content ELSE cache[s]
        IN /\ fresh' = [fresh EXCEPT ![s] = IF ok THEN content ELSE @]
           /\ run' = [run EXCEPT !.todo = @ \ {s},
                                 !.channels = IF got = NoFile THEN @ ELSE @ \union got]
  BY DEF Download
<1>2. content \in SUBSET Channels /\ content \in Files
  BY PublishAssumption DEF Files
<1>3. fresh' \in [Sources -> Files]
  BY <1>1, <1>2
<1> DEFINE got == IF ok THEN content ELSE cache[s]
<1>4. got \in Files
  BY <1>2
<1>5. run.channels \in SUBSET Channels /\ run.todo \in SUBSET (Sources \union Channels)
  BY DEF RunType
<1>6. (IF got = NoFile THEN run.channels ELSE run.channels \union got) \in SUBSET Channels
  BY <1>4, <1>5 DEF Files
<1>7. run' = [run EXCEPT !.todo = run.todo \ {s},
                !.channels = IF got = NoFile THEN run.channels ELSE run.channels \union got]
  BY <1>1
<1> HIDE DEF got
<1>8. run' \in RunType
  BY <1>5, <1>6, <1>7 DEF RunType
<1>9. run.pc = "download"
  BY DEF Download
<1>10. /\ run'.pc = "download" /\ run'.id = run.id
       /\ run'.critical = run.critical /\ run'.lossy = run.lossy
  BY <1>7, <1>9 DEF RunType
<1> QED BY <1>3, <1>8, <1>9, <1>10

(* A run that prepares touches .new files and its own .tmp file only.      *)
LEMMA PrepareFrame ==
  ASSUME Types, Prepare
  PROVE  /\ run' \in RunType /\ fresh' \in [Sources -> Files]
         /\ run.pc \in Early \ {"rename"} /\ run'.pc \in Early /\ run'.id = run.id
         /\ run'.lossy = run.lossy
         /\ run'.pc = "compile" => run'.todo = run'.channels
         /\ run.pc = "compile" =>
              /\ run.todo = {} /\ run'.channels = run.channels
              /\ run'.pc = "rename" => ~run.critical
         /\ run'.pc = "rename" => run.pc = "compile"
         /\ run'.critical => run.critical \/ run'.pc \in {"compile", "fail"}
         /\ run.critical => run'.pc \in {run.pc, "fail", "clean", "unslug", "compile"}
         /\ UNCHANGED <<playlists, cur, new, cache, path, boot, bootPath, reader,
                        published, partial, lost, stray>>
         /\ faults' \in Nat /\ faults' >= faults /\ UNCHANGED <<time, crashes>>
<1> USE DEF Early
<1>0. run \in RunType
  BY DEF Types
<1>1. Fault \/ NoFault
  BY DEF Prepare, Download, Compile, Flush, RemoveTmp, CleanDownloads
<1>2. UNCHANGED <<playlists, cur, new, cache, path, boot, bootPath, reader, published,
                  partial, lost, stray>>
  BY DEF Prepare, Download, Compile, Flush, RemoveTmp, CleanDownloads, diskVars, memVars,
     history
<1> DEFINE Moves ==
      /\ run' \in RunType /\ fresh' \in [Sources -> Files]
      /\ run.pc \in Early \ {"rename"} /\ run'.pc \in Early /\ run'.id = run.id
      /\ run'.lossy = run.lossy
      /\ run'.pc = "compile" => run'.todo = run'.channels
      /\ run.pc = "compile" =>
           /\ run.todo = {} /\ run'.channels = run.channels
           /\ run'.pc = "rename" => ~run.critical
      /\ run'.pc = "rename" => run.pc = "compile"
      /\ run'.critical => run.critical \/ run'.pc \in {"compile", "fail"}
      /\ run.critical => run'.pc \in {run.pc, "fail", "clean", "unslug", "compile"}
<1>3. ASSUME NEW s \in Sources, Download(s) PROVE Moves
  BY <1>3, DownloadFrame
<1>4. ASSUME Compile PROVE Moves
  <2>1. fresh' = fresh
    BY <1>4 DEF Compile, diskVars
  <2>2. /\ run.pc = "download"
        /\ \/ run' = [run EXCEPT !.pc = "compile", !.todo = run.channels]
           \/ run' = [run EXCEPT !.pc = "compile", !.todo = run.channels, !.critical = TRUE]
           \/ run' = [run EXCEPT !.pc = "fail", !.critical = TRUE]
    BY <1>4 DEF Compile
  <2>3. run' \in RunType
    BY <1>0, <2>2 DEF RunType
  <2>4. /\ run'.pc \in {"compile", "fail"} /\ run'.id = run.id /\ run'.lossy = run.lossy
        /\ run'.pc = "compile" => run'.todo = run'.channels
    BY <1>0, <2>2 DEF RunType
  <2> QED BY <2>1, <2>2, <2>3, <2>4 DEF Types
<1>5. ASSUME Flush PROVE Moves
  <2>1. fresh' = fresh
    BY <1>5 DEF Flush, diskVars
  <2>2. /\ run.pc = "compile" /\ run.todo = {}
        /\ \/ run.critical /\ run' = [run EXCEPT !.pc = "fail"]
           \/ ~run.critical /\ run' = [run EXCEPT !.pc = "rename"]
           \/ run' = [run EXCEPT !.pc = "fail", !.critical = TRUE]
    BY <1>5 DEF Flush
  <2>3. run' \in RunType
    BY <1>0, <2>2 DEF RunType
  <2>4. /\ run'.id = run.id /\ run'.lossy = run.lossy /\ run'.channels = run.channels
    BY <1>0, <2>2 DEF RunType
  <2>5. \/ run'.pc = "fail"
        \/ run'.pc = "rename" /\ ~run.critical /\ run'.critical = run.critical
    BY <1>0, <2>2 DEF RunType
  <2> QED BY <2>1, <2>2, <2>3, <2>4, <2>5 DEF Types
<1>6. ASSUME RemoveTmp \/ CleanDownloads PROVE Moves
  <2>1. fresh' \in [Sources -> Files]
    BY <1>6 DEF RemoveTmp, CleanDownloads, Types, Files
  <2>2. \/ run.pc = "fail" /\ run' = [run EXCEPT !.pc = "clean"]
        \/ run.pc = "clean" /\ run' = run
        \/ run.pc = "clean" /\ run' = [run EXCEPT !.pc = "unslug"]
    BY <1>6 DEF RemoveTmp, CleanDownloads
  <2>3. run' \in RunType
    BY <1>0, <2>2 DEF RunType
  <2>4. /\ run'.pc \in {"clean", "unslug"} /\ run'.id = run.id /\ run'.lossy = run.lossy
        /\ run'.critical = run.critical
    BY <1>0, <2>2 DEF RunType
  <2> QED BY <2>1, <2>2, <2>3, <2>4
<1>7. Moves
  BY <1>3, <1>4, <1>5, <1>6 DEF Prepare
<1> QED BY <1>1, <1>2, <1>7, Faults

(* EncodeSlug: one file of new-slugs, opened, filled or given up.          *)
LEMMA EncodeFrame ==
  ASSUME Types, NEW ch \in Channels, EncodeSlug(ch)
  PROVE  /\ run' \in RunType /\ new' \in [Channels -> Slug]
         /\ run.pc = "compile" /\ run'.pc = "compile" /\ ch \in run.todo
         /\ run'.id = run.id /\ run'.channels = run.channels
         /\ run'.critical = run.critical
         /\ \A other \in Channels \ {ch} : new[other] # "torn" /\ new'[other] = new[other]
         /\ \/ run'.todo = run.todo /\ run'.lossy = run.lossy /\ new'[ch] = "torn"
            \/ run'.todo = run.todo \ {ch} /\ run'.lossy = run.lossy /\ new'[ch] = "ok"
            \/ /\ run'.todo = run.todo \ {ch} /\ run'.lossy
               /\ new'[ch] = IF new[ch] = "torn" THEN "broken" ELSE new[ch]
               /\ faults' = faults + 1
         /\ UNCHANGED <<playlists, cur, cache, fresh, path, boot, bootPath, reader,
                        published, partial, lost, stray>>
         /\ faults' \in Nat /\ faults' >= faults /\ UNCHANGED <<time, crashes>>
<1>0. run \in RunType /\ new \in [Channels -> Slug]
  BY DEF Types
<1>1. Fault \/ NoFault
  BY DEF EncodeSlug
<1>2. UNCHANGED <<playlists, cur, cache, fresh, path, boot, bootPath, reader, published,
                  partial, lost, stray>>
  BY DEF EncodeSlug, memVars, history
<1>3. /\ run.pc = "compile" /\ ch \in run.todo
      /\ \A other \in Channels \ {ch} : new[other] # "torn"
  BY DEF EncodeSlug
<1>4. \/ run' = run /\ new' = [new EXCEPT ![ch] = "torn"]
      \/ run' = [run EXCEPT !.todo = @ \ {ch}] /\ new' = [new EXCEPT ![ch] = "ok"]
      \/ /\ run' = [run EXCEPT !.todo = @ \ {ch}, !.lossy = TRUE]
         /\ new' = Settle(new) /\ faults' = faults + 1
  BY <1>1, Faults DEF EncodeSlug
<1>5. run' \in RunType
  BY <1>0, <1>4 DEF RunType
<1>6. new' \in [Channels -> Slug]
  BY <1>0, <1>4, Settled DEF Slug
<1>7. \A other \in Channels \ {ch} : new'[other] = new[other]
  BY <1>0, <1>3, <1>4, Settled
<1>8. /\ run'.pc = "compile" /\ run'.id = run.id /\ run'.channels = run.channels
      /\ run'.critical = run.critical
  BY <1>0, <1>3, <1>4 DEF RunType
<1>9. \/ run'.todo = run.todo /\ run'.lossy = run.lossy /\ new'[ch] = "torn"
      \/ run'.todo = run.todo \ {ch} /\ run'.lossy = run.lossy /\ new'[ch] = "ok"
      \/ /\ run'.todo = run.todo \ {ch} /\ run'.lossy
         /\ new'[ch] = IF new[ch] = "torn" THEN "broken" ELSE new[ch]
         /\ faults' = faults + 1
  BY <1>0, <1>4, Settled DEF RunType
<1> QED BY <1>1, <1>2, <1>3, <1>5, <1>6, <1>7, <1>8, <1>9, Faults

(* cleanFailedRemoteFiles: new-slugs is removed.                           *)
LEMMA CleanFrame ==
  ASSUME Types, CleanFailed
  PROVE  /\ run' \in RunType /\ new' \in [Channels -> Slug] /\ run.pc = "unslug"
         /\ \/ run'.pc = "unslug" /\ run'.id = run.id
            \/ run'.pc = "result" /\ run'.id = 0
         /\ \A ch \in Channels :
              new'[ch] = new[ch] \/ (new'[ch] = "none" /\ (lost' \/ ~partial))
         /\ lost => lost'
         /\ UNCHANGED <<playlists, cur, cache, fresh, path, boot, bootPath, reader,
                        published, partial, stray>>
         /\ faults' \in Nat /\ faults' >= faults /\ UNCHANGED <<time, crashes>>
<1>0. run \in RunType /\ new \in [Channels -> Slug]
  BY DEF Types
<1>1. Fault \/ NoFault
  BY DEF CleanFailed
<1>2. UNCHANGED <<playlists, cur, cache, fresh, path, boot, bootPath, reader, published,
                  partial, stray>>
  BY DEF CleanFailed, memVars
<1>3. /\ run.pc = "unslug"
      /\ \/ run' = run /\ \E ch \in Channels : new' = [new EXCEPT ![ch] = "none"]
         \/ run' = [run EXCEPT !.pc = "result", !.id = 0] /\ new' = new
  BY DEF CleanFailed
<1>4. run' \in RunType
  <2>1. run' = run \/ run' = [run EXCEPT !.pc = "result", !.id = 0]
    BY <1>3
  <2>2. CASE run' = run
    BY <1>0, <2>2
  <2>3. CASE run' = [run EXCEPT !.pc = "result", !.id = 0]
    BY <1>0, <2>3 DEF RunType
  <2> QED BY <2>1, <2>2, <2>3
<1>5. new' \in [Channels -> Slug]
  BY <1>0, <1>3 DEF Slug
<1>6. \/ run'.pc = "unslug" /\ run'.id = run.id
      \/ run'.pc = "result" /\ run'.id = 0
  BY <1>0, <1>3 DEF RunType
<1>7. (lost => lost') /\ (new' = new \/ (partial => lost'))
  <2>1. lost' = (IF partial THEN TRUE ELSE lost) \/ (lost' = lost /\ new' = new)
    BY DEF CleanFailed
  <2>2. CASE partial
    <3>1. lost' = TRUE \/ (lost' = lost /\ new' = new)
      BY <2>1, <2>2
    <3> QED BY <3>1
  <2>3. CASE ~partial
    <3>1. lost' = lost
      BY <2>1, <2>3
    <3> QED BY <2>3, <3>1
  <2> QED BY <2>2, <2>3
<1>8. \A ch \in Channels :
        new'[ch] = new[ch] \/ (new'[ch] = "none" /\ (lost' \/ ~partial))
  <2>1. \A ch \in Channels : new'[ch] = new[ch] \/ new'[ch] = "none"
    BY <1>0, <1>3
  <2> QED BY <1>7, <2>1
<1> QED BY <1>1, <1>2, <1>3, <1>4, <1>5, <1>6, <1>7, <1>8, Faults

(* Rename: the playlist is published, or the run goes on without it.       *)
LEMMA RenameFrame ==
  ASSUME Types, Rename
  PROVE  /\ run' \in RunType /\ run.pc = "rename" /\ run'.pc = "caches" /\ run'.id = run.id
         /\ run'.critical = run.critical
         /\ \/ /\ playlists' = {p \in playlists : p.id # run.id}
                    \union {[id |-> run.id, channels |-> run.channels]}
               /\ published' = run.id /\ partial' = TRUE /\ lost' = run.lossy
            \/ /\ playlists' = playlists /\ published' = published
               /\ run'.missing /\ lost'
         /\ UNCHANGED <<cur, new, cache, fresh, path, boot, bootPath, stray>>
         /\ Overlap
         /\ faults' \in Nat /\ faults' >= faults /\ UNCHANGED <<time, crashes>>
<1>0. run \in RunType
  BY DEF Types
<1>1. Fault \/ NoFault
  BY DEF Rename
<1>2. \/ /\ playlists' = {p \in playlists : p.id # run.id}
              \union {[id |-> run.id, channels |-> run.channels]}
         /\ published' = run.id /\ partial' = TRUE /\ lost' = run.lossy
         /\ run' = [run EXCEPT !.pc = "caches", !.todo = Sources, !.missing = FALSE]
      \/ /\ playlists' = playlists /\ published' = published /\ lost' = TRUE
         /\ run' = [run EXCEPT !.pc = "caches", !.todo = Sources, !.missing = TRUE]
  BY DEF Rename
<1>3. run' \in RunType
  BY <1>0, <1>2 DEF RunType, Late
<1>4. /\ run'.pc = "caches" /\ run'.id = run.id /\ run'.critical = run.critical
  BY <1>0, <1>2 DEF RunType
<1>5. \/ /\ playlists' = {p \in playlists : p.id # run.id}
              \union {[id |-> run.id, channels |-> run.channels]}
         /\ published' = run.id /\ partial' = TRUE /\ lost' = run.lossy
      \/ playlists' = playlists /\ published' = published /\ run'.missing /\ lost'
  BY <1>0, <1>2 DEF RunType
<1> QED BY <1>1, <1>3, <1>4, <1>5, Faults DEF Rename, memVars

(* The files of the sources, and the directory of the slugs.               *)
LEMMA ReadyFrame ==
  ASSUME Types, Ready
  PROVE  /\ run' \in RunType /\ cache' \in [Sources -> Files] /\ fresh' \in [Sources -> Files]
         /\ run.pc = "caches" /\ run'.pc \in {"caches", "clear", "old"} /\ run'.id = run.id
         /\ run'.critical = run.critical /\ run'.missing = run.missing
         /\ UNCHANGED <<playlists, cur, new, path, boot, bootPath, published, partial, lost,
                        stray>>
         /\ Overlap
         /\ faults' \in Nat /\ faults' >= faults /\ UNCHANGED <<time, crashes>>
<1>0. run \in RunType
  BY DEF Types
<1>1. (Fault \/ NoFault) /\ Overlap
  BY DEF Ready, ApplyCache, EnsureSlugDir
<1>2. UNCHANGED <<playlists, cur, new, path, boot, bootPath, published, partial, lost, stray>>
  BY DEF Ready, ApplyCache, EnsureSlugDir, diskVars, memVars, history
<1>3. /\ run.pc = "caches"
      /\ \/ \E s \in Sources : run' = [run EXCEPT !.todo = @ \ {s}]
         \/ run' = [run EXCEPT !.pc = "clear"] \/ run' = [run EXCEPT !.pc = "old"]
  BY DEF Ready, ApplyCache, EnsureSlugDir
<1>4. run' \in RunType
  BY <1>0, <1>3 DEF RunType, Late
<1>5. /\ run'.pc \in {"caches", "clear", "old"} /\ run'.id = run.id
      /\ run'.critical = run.critical /\ run'.missing = run.missing
  BY <1>0, <1>3 DEF RunType
<1>6. cache' \in [Sources -> Files] /\ fresh' \in [Sources -> Files]
  BY DEF Ready, ApplyCache, EnsureSlugDir, diskVars, Types, Files
<1> QED BY <1>1, <1>2, <1>3, <1>4, <1>5, <1>6, Faults

(* clearDirFiles: the current slugs are removed.                           *)
LEMMA ClearSlugFrame ==
  ASSUME Types, ClearSlug
  PROVE  /\ run' \in RunType /\ cur' \in [Channels -> Slug] /\ run.pc = "clear"
         /\ run'.id = run.id /\ run'.critical = run.critical /\ run'.missing = run.missing
         /\ \/ run'.pc = "clear"
            \/ run'.pc = "copy" /\ run'.todo = {ch \in Channels : new[ch] # "none"}
         /\ \A ch \in Channels : cur'[ch] = cur[ch] \/ cur'[ch] = "none"
         /\ UNCHANGED <<playlists, new, cache, fresh, path, boot, bootPath, published,
                        partial, lost, stray>>
         /\ Overlap
         /\ faults' \in Nat /\ faults' >= faults /\ UNCHANGED <<time, crashes>>
<1>0. run \in RunType /\ cur \in [Channels -> Slug]
  BY DEF Types
<1>1. (Fault \/ NoFault) /\ Overlap
  BY DEF ClearSlug
<1>2. UNCHANGED <<playlists, new, cache, fresh, path, boot, bootPath, published, partial,
                  lost, stray>>
  BY DEF ClearSlug, memVars, history
<1>3. /\ run.pc = "clear"
      /\ \/ run' = run /\ \E ch \in Channels : cur' = [cur EXCEPT ![ch] = "none"]
         \/ /\ run' = [run EXCEPT !.pc = "copy", !.todo = {ch \in Channels : new[ch] # "none"}]
            /\ cur' = cur
  BY DEF ClearSlug
<1>4. {ch \in Channels : new[ch] # "none"} \in SUBSET (Sources \union Channels)
  OBVIOUS
<1>5. run' \in RunType
  BY <1>0, <1>3, <1>4 DEF RunType, Late
<1>6. /\ run'.id = run.id /\ run'.critical = run.critical /\ run'.missing = run.missing
      /\ \/ run'.pc = "clear"
         \/ run'.pc = "copy" /\ run'.todo = {ch \in Channels : new[ch] # "none"}
  BY <1>0, <1>3 DEF RunType
<1>7. cur' \in [Channels -> Slug] /\ \A ch \in Channels : cur'[ch] = cur[ch] \/ cur'[ch] = "none"
  BY <1>0, <1>3 DEF Slug
<1> QED BY <1>1, <1>2, <1>3, <1>5, <1>6, <1>7, Faults

(* copyDirContents: one file is opened or filled, or all are copied, or    *)
(* one cannot be.                                                          *)
LEMMA CopyFrame ==
  ASSUME Types, CopySlug
  PROVE  /\ run' \in RunType /\ cur' \in [Channels -> Slug] /\ run.pc = "copy"
         /\ run'.id = run.id /\ run'.critical = run.critical /\ run'.missing = run.missing
         /\ \/ /\ run'.pc = "copy" /\ partial' = partial /\ lost' = lost
               /\ \E ch \in run.todo \intersect Channels :
                    /\ \A other \in Channels \ {ch} :
                         cur[other] # "torn" /\ cur'[other] = cur[other]
                    /\ \/ run'.todo = run.todo \ {ch} /\ cur'[ch] = new[ch]
                       \/ run'.todo = run.todo /\ cur'[ch] = "torn"
            \/ /\ run'.pc = "remove" /\ run.todo = {} /\ cur' = cur
               /\ partial' = FALSE /\ lost' = lost
            \/ /\ run'.pc = "remove" /\ cur' = Settle(cur) /\ lost' /\ faults' = faults + 1
         /\ UNCHANGED <<playlists, new, cache, fresh, path, boot, bootPath, published, stray>>
         /\ Overlap
         /\ faults' \in Nat /\ faults' >= faults /\ UNCHANGED <<time, crashes>>
<1>0. run \in RunType /\ cur \in [Channels -> Slug] /\ new \in [Channels -> Slug]
  BY DEF Types
<1>1. (Fault \/ NoFault) /\ Overlap
  BY DEF CopySlug
<1>2. UNCHANGED <<playlists, new, cache, fresh, path, boot, bootPath, published, stray>>
  BY DEF CopySlug, memVars
<1>3. run.pc = "copy"
  BY DEF CopySlug
<1> DEFINE Copies ==
      /\ run' \in RunType /\ cur' \in [Channels -> Slug]
      /\ run'.id = run.id /\ run'.critical = run.critical /\ run'.missing = run.missing
      /\ \/ /\ run'.pc = "copy" /\ partial' = partial /\ lost' = lost
            /\ \E ch \in run.todo \intersect Channels :
                 /\ \A other \in Channels \ {ch} :
                      cur[other] # "torn" /\ cur'[other] = cur[other]
                 /\ \/ run'.todo = run.todo \ {ch} /\ cur'[ch] = new[ch]
                    \/ run'.todo = run.todo /\ cur'[ch] = "torn"
         \/ /\ run'.pc = "remove" /\ run.todo = {} /\ cur' = cur
            /\ partial' = FALSE /\ lost' = lost
         \/ /\ run'.pc = "remove" /\ cur' = Settle(cur) /\ lost' /\ faults' = faults + 1
<1>4. ASSUME NEW ch \in run.todo,
             \A other \in Channels \ {ch} : cur[other] # "torn",
             \/ /\ cur' = [cur EXCEPT ![ch] = new[ch]]
                /\ run' = [run EXCEPT !.todo = @ \ {ch}]
             \/ cur' = [cur EXCEPT ![ch] = "torn"] /\ run' = run,
             partial' = partial, lost' = lost
      PROVE  Copies
  <2>1. ch \in Channels
    BY <1>3 DEF Types
  <2>2. cur' \in [Channels -> Slug] /\ \A other \in Channels \ {ch} : cur'[other] = cur[other]
    BY <1>0, <1>4, <2>1 DEF Slug
  <2>3. run' \in RunType
    BY <1>0, <1>4 DEF RunType
  <2>4. /\ run'.pc = "copy" /\ run'.id = run.id /\ run'.critical = run.critical
        /\ run'.missing = run.missing
    BY <1>0, <1>3, <1>4 DEF RunType
  <2>5. \/ run'.todo = run.todo \ {ch} /\ cur'[ch] = new[ch]
        \/ run'.todo = run.todo /\ cur'[ch] = "torn"
    BY <1>0, <1>4, <2>1 DEF RunType
  <2> QED BY <1>4, <2>1, <2>2, <2>3, <2>4, <2>5
<1>5. ASSUME run' = [run EXCEPT !.pc = "remove"],
             \/ run.todo = {} /\ cur' = cur /\ partial' = FALSE /\ lost' = lost
             \/ cur' = Settle(cur) /\ lost' /\ faults' = faults + 1
      PROVE  Copies
  <2>1. run' \in RunType
    BY <1>0, <1>5 DEF RunType, Late
  <2>2. /\ run'.pc = "remove" /\ run'.id = run.id /\ run'.critical = run.critical
        /\ run'.missing = run.missing
    BY <1>0, <1>5 DEF RunType
  <2>3. cur' \in [Channels -> Slug]
    BY <1>0, <1>5, Settled
  <2> QED BY <1>5, <2>1, <2>2, <2>3
<1>6. Copies
  <2>1. \/ /\ \E ch \in run.todo :
                /\ \A other \in Channels \ {ch} : cur[other] # "torn"
                /\ \/ /\ cur' = [cur EXCEPT ![ch] = new[ch]]
                      /\ run' = [run EXCEPT !.todo = @ \ {ch}]
                   \/ cur' = [cur EXCEPT ![ch] = "torn"] /\ run' = run
           /\ partial' = partial /\ lost' = lost
        \/ /\ run' = [run EXCEPT !.pc = "remove"]
           /\ run.todo = {} /\ cur' = cur /\ partial' = FALSE /\ lost' = lost
        \/ /\ run' = [run EXCEPT !.pc = "remove"]
           /\ cur' = Settle(cur) /\ lost' = TRUE /\ faults' = faults + 1
    BY <1>1, Faults DEF CopySlug
  <2> HIDE DEF Copies
  <2> QED BY <1>4, <1>5, <2>1
<1> QED BY <1>1, <1>2, <1>3, <1>6, Faults

(* new-slugs is removed once it is copied.                                 *)
LEMMA RemoveFrame ==
  ASSUME Types, RemoveNewSlugs
  PROVE  /\ run' \in RunType /\ new' \in [Channels -> Slug] /\ run.pc = "remove"
         /\ run'.pc \in {"remove", "old"} /\ run'.id = run.id
         /\ run'.critical = run.critical /\ run'.missing = run.missing
         /\ \A ch \in Channels : new'[ch] = new[ch] \/ new'[ch] = "none"
         /\ UNCHANGED <<playlists, cur, cache, fresh, path, boot, bootPath, published,
                        partial, lost, stray>>
         /\ Overlap
         /\ faults' \in Nat /\ faults' >= faults /\ UNCHANGED <<time, crashes>>
<1>0. run \in RunType /\ new \in [Channels -> Slug]
  BY DEF Types
<1>1. (Fault \/ NoFault) /\ Overlap
  BY DEF RemoveNewSlugs
<1>2. UNCHANGED <<playlists, cur, cache, fresh, path, boot, bootPath, published, partial,
                  lost, stray>>
  BY DEF RemoveNewSlugs, memVars, history
<1>3. /\ run.pc = "remove"
      /\ \/ run' = run /\ \E ch \in Channels : new' = [new EXCEPT ![ch] = "none"]
         \/ run' = [run EXCEPT !.pc = "old", !.todo = {}] /\ new' = new
  BY DEF RemoveNewSlugs
<1>4. run' \in RunType
  BY <1>0, <1>3 DEF RunType, Late
<1>5. /\ run'.pc \in {"remove", "old"} /\ run'.id = run.id
      /\ run'.critical = run.critical /\ run'.missing = run.missing
  BY <1>0, <1>3 DEF RunType
<1>6. new' \in [Channels -> Slug] /\ \A ch \in Channels : new'[ch] = new[ch] \/ new'[ch] = "none"
  BY <1>0, <1>3 DEF Slug
<1> QED BY <1>1, <1>2, <1>3, <1>4, <1>5, <1>6, Faults

(* clearOldResults: the playlist of the run stays.                         *)
LEMMA OldFrame ==
  ASSUME Types, ClearOldResults
  PROVE  /\ run' \in RunType /\ run.pc = "old" /\ run'.pc \in {"old", "result"}
         /\ run'.id = run.id /\ run'.critical = run.critical /\ run'.missing = run.missing
         /\ playlists' \subseteq playlists
         /\ \A p \in playlists : p.id = run.id => p \in playlists'
         /\ UNCHANGED <<cur, new, cache, fresh, path, boot, bootPath, reader, published,
                        partial, lost, stray>>
         /\ faults' \in Nat /\ faults' >= faults /\ UNCHANGED <<time, crashes>>
<1>0. run \in RunType
  BY DEF Types
<1>1. Fault \/ NoFault
  BY DEF ClearOldResults
<1>2. UNCHANGED <<cur, new, cache, fresh, path, boot, bootPath, reader, published, partial,
                  lost, stray>>
  BY DEF ClearOldResults, memVars, history
<1>3. run.pc = "old" /\ (run' = run \/ run' = [run EXCEPT !.pc = "result"])
  BY DEF ClearOldResults
<1>4. run' \in RunType
  BY <1>0, <1>3 DEF RunType
<1>5. /\ run'.pc \in {"old", "result"} /\ run'.id = run.id
      /\ run'.critical = run.critical /\ run'.missing = run.missing
  BY <1>0, <1>3 DEF RunType
<1>6. /\ playlists' \subseteq playlists
      /\ \A p \in playlists : p.id = run.id => p \in playlists'
  BY DEF ClearOldResults
<1> QED BY <1>1, <1>2, <1>3, <1>4, <1>5, <1>6, Faults

(* NewProcessor: a run starts from nothing.                                *)
LEMMA NewFrame ==
  ASSUME Types, NewProcessor
  PROVE  /\ run' \in RunType /\ run.pc = "idle" /\ run'.pc = "download" /\ run'.id # 0
         /\ ~run'.critical
         /\ UNCHANGED <<playlists, cur, new, cache, fresh, path, boot, bootPath, reader,
                        published, partial, lost, stray, time, faults, crashes>>
<1>1. run' = [NoRun EXCEPT !.pc = "download", !.id = time, !.todo = Sources]
  BY DEF NewProcessor
<1>2. time \in Nat \ {0}
  BY DEF Types
<1>3. run' \in RunType /\ run'.pc = "download" /\ run'.id # 0 /\ ~run'.critical
  BY <1>1, <1>2 DEF NoRun, RunType, Early
<1> QED BY <1>3 DEF NewProcessor, history

(* SetProcessedPath: the run is over.                                      *)
LEMMA PathFrame ==
  ASSUME Types, SetProcessedPath
  PROVE  /\ run' = NoRun /\ run.pc = "result"
         /\ path' = IF run.id = 0 THEN Latest ELSE run.id
         /\ boot = "latest" /\ ~stray' => ~stray /\ run.id = 0
         /\ boot # "latest" /\ ~stray' => run.id = 0 \/ ~run.missing
         /\ UNCHANGED <<playlists, cur, new, cache, fresh, boot, bootPath, reader,
                        published, partial, lost, time, faults, crashes>>
<1>1. UNCHANGED <<playlists, cur, new, cache, fresh, boot, bootPath, reader, published,
                  partial, lost, time, faults, crashes>>
  BY DEF SetProcessedPath, diskVars, bounds
<1>2. CASE boot = "latest"
  <2>1. stray' = (stray \/ run.id # 0)
    BY <1>2 DEF SetProcessedPath
  <2>2. ~stray' => ~stray /\ run.id = 0
    BY <2>1, Zenon
  <2> QED BY <1>1, <1>2, <2>2 DEF SetProcessedPath
<1>3. CASE boot # "latest"
  <2>1. stray' = (run.id # 0 /\ run.missing)
    BY <1>3 DEF SetProcessedPath
  <2>2. ~stray' => run.id = 0 \/ ~run.missing
    BY <2>1, Zenon
  <2> QED BY <1>1, <1>3, <2>2 DEF SetProcessedPath
<1> QED BY <1>2, <1>3

(* The process ends.                                                       *)
LEMMA CrashFrame ==
  ASSUME Types, Crash
  PROVE  /\ run' = NoRun /\ reader' = NoReader /\ path' = 0 /\ boot' = "discovery"
         /\ cur' = Settle(cur) /\ new' = Settle(new) /\ crashes' = crashes + 1
         /\ UNCHANGED <<playlists, cache, fresh, published, partial, lost, time, faults>>
BY DEF Crash

(* No run, and no DecodeSlug call.                                         *)
LEMMA Nobody ==
  /\ NoRun \in RunType /\ NoRun.pc = "idle" /\ ~NoRun.critical
  /\ NoReader \in ReaderType /\ NoReader.pc = "idle"
BY DEF NoRun, RunType, NoReader, ReaderType

-----------------------------------------------------------------------------
(* Every step keeps the types.                                             *)
LEMMA AsideTypes == ASSUME Types, Aside PROVE Types'
<1> USE DEF Types
<1>0. UNCHANGED <<playlists, cur, new, cache, fresh, run, faults, crashes>>
  BY AsideFrame
<1>1. CASE BootLatest \/ BootSetPath \/ BootSync \/ Request
  BY <1>0, <1>1 DEF BootLatest, BootSetPath, BootSync, Request, bounds
<1>2. CASE Tick
  BY <1>0, <1>2, PublishAssumption DEF Tick, memVars
<1>3. CASE DecodeStart
  <2>1. PICK ch \in Listed(path) :
          reader' = [pc |-> "current", channel |-> ch,
                     overlap |-> Publishing \/ run.pc \in {"old", "result"}
                                 \/ path # published]
    BY <1>3 DEF DecodeStart
  <2>2. ch \in Channels
    BY ListedBy
  <2>3. (Publishing \/ run.pc \in {"old", "result"} \/ path # published) \in BOOLEAN
    BY DEF Publishing
  <2>4. reader' \in ReaderType /\ reader'.channel \in Channels
    BY <2>1, <2>2, <2>3, Zenon DEF ReaderType
  <2> QED BY <1>0, <1>3, <2>4 DEF DecodeStart, NoFault, memVars, bounds
<1>4. CASE DecodeRead
  <2>1. PICK p \in {"current", "new", "found", "error"} :
          reader' = [reader EXCEPT !.pc = p]
    BY <1>4 DEF DecodeRead
  <2>2. reader.pc # "idle"
    BY <1>4 DEF DecodeRead
  <2>3. reader' \in ReaderType /\ reader'.channel = reader.channel
    BY <2>1 DEF ReaderType
  <2> QED BY <1>0, <1>4, <2>2, <2>3 DEF DecodeRead, NoFault, memVars, bounds
<1>5. CASE DecodeEnd
  BY <1>0, <1>5, Nobody DEF DecodeEnd, NoFault, memVars, bounds
<1> QED BY <1>1, <1>2, <1>3, <1>4, <1>5 DEF Aside, Decode

(* In every group.                                                         *)
LEMMA TypesKept == ASSUME Types, [Next]_vars PROVE Types'
<1>0. run \in RunType /\ reader \in ReaderType
  BY DEF Types
<1>1. CASE UNCHANGED vars
  BY <1>1 DEF vars, diskVars, memVars, bounds, Types
<1>2. CASE Aside
  BY <1>2, AsideTypes
<1>3. CASE BootClear
  <2>1. boot' = "ready"
    BY <1>3 DEF BootClear
  <2> QED BY <1>3, <2>1, ClearFrame DEF Types
<1>4. CASE NewProcessor
  BY <1>4, NewFrame DEF Types
<1>5. CASE Prepare
  <2>1. run'.pc = "compile" => run'.todo \subseteq Channels
    BY <1>5, PrepareFrame DEF RunType
  <2>2. run.id # 0 /\ run'.pc # "copy"
    BY <1>5, PrepareFrame DEF Types, Early
  <2> QED BY <1>5, <2>1, <2>2, PrepareFrame DEF Types
<1>6. ASSUME NEW ch \in Channels, EncodeSlug(ch) PROVE Types'
  <2>1. run'.todo \subseteq Channels /\ run.id # 0
    BY <1>6, EncodeFrame DEF Types, Early
  <2> QED BY <1>6, <2>1, EncodeFrame DEF Types
<1>7. CASE CleanFailed
  <2>1. run.id # 0
    BY <1>7, CleanFrame DEF Types, Early
  <2>2. run'.pc \in Early \union Late => run'.id # 0
    BY <1>7, <2>1, CleanFrame DEF Early, Late
  <2> QED BY <1>7, <2>2, CleanFrame DEF Types
<1>8. CASE Rename
  <2>1. run.id \in Nat \ {0} /\ run.channels \in SUBSET Channels
    BY <1>8, RenameFrame DEF Types, RunType, Early
  <2>2. playlists' \in SUBSET [id : Nat \ {0}, channels : SUBSET Channels]
    <3>1. [id |-> run.id, channels |-> run.channels]
            \in [id : Nat \ {0}, channels : SUBSET Channels]
      BY <2>1
    <3>2. \/ playlists' = {p \in playlists : p.id # run.id}
               \union {[id |-> run.id, channels |-> run.channels]}
          \/ playlists' = playlists
      BY <1>8, RenameFrame
    <3> QED BY <3>1, <3>2 DEF Types
  <2> QED BY <1>0, <1>8, <2>1, <2>2, RenameFrame, Overlapped DEF Types
<1>9. CASE Ready
  <2>1. run.id # 0
    BY <1>9, ReadyFrame DEF Types, Late
  <2> QED BY <1>0, <1>9, <2>1, ReadyFrame, Overlapped DEF Types
<1>10. CASE ClearSlug
  <2>1. run.id # 0
    BY <1>10, ClearSlugFrame DEF Types, Late
  <2>2. run'.pc \in {"compile", "copy"} => run'.todo \subseteq Channels
    BY <1>10, ClearSlugFrame
  <2> QED BY <1>0, <1>10, <2>1, <2>2, ClearSlugFrame, Overlapped DEF Types
<1>11. CASE CopySlug
  <2>1. run.id # 0 /\ run.todo \subseteq Channels
    BY <1>11, CopyFrame DEF Types, Late
  <2>2. run'.pc \in {"compile", "copy"} => run'.todo \subseteq Channels
    BY <1>11, <2>1, CopyFrame
  <2> QED BY <1>0, <1>11, <2>1, <2>2, CopyFrame, Overlapped DEF Types
<1>12. CASE RemoveNewSlugs
  <2>1. run.id # 0
    BY <1>12, RemoveFrame DEF Types, Late
  <2> QED BY <1>0, <1>12, <2>1, RemoveFrame, Overlapped DEF Types
<1>13. CASE ClearOldResults
  <2>1. run.id # 0
    BY <1>13, OldFrame DEF Types, Late
  <2> QED BY <1>13, <2>1, OldFrame DEF Types
<1>14. CASE SetProcessedPath
  BY <1>14, PathFrame, Nobody DEF Types, Early, Late
<1>15. CASE Crash
  BY <1>15, CrashFrame, Nobody, Settled DEF Types, Early, Late
<1> QED BY <1>1, <1>2, <1>3, <1>4, <1>5, <1>6, <1>7, <1>8, <1>9, <1>10, <1>11, <1>12, <1>13,
           <1>14, <1>15, Steps

-----------------------------------------------------------------------------
(* No two slug files are written at a time.                                *)
LEMMA TornKept == ASSUME Types, Torn, [Next]_vars PROVE Torn'
<1> USE DEF Torn
<1>0. cur \in [Channels -> Slug] /\ new \in [Channels -> Slug]
  BY DEF Types
<1>1. CASE UNCHANGED vars
  BY <1>1 DEF vars, diskVars
<1>2. CASE Aside
  BY <1>2, AsideFrame
<1>3. CASE BootClear
  BY <1>3, ClearFrame
<1>4. CASE NewProcessor
  BY <1>4, NewFrame
<1>5. CASE Prepare
  <2>1. run.pc \in Early \ {"rename"} /\ cur' = cur /\ new' = new
        /\ (run.pc = "compile" => run.todo = {})
    BY <1>5, PrepareFrame
  <2>2. \A ch \in Channels : cur[ch] # "torn" /\ new[ch] # "torn"
    BY <2>1 DEF Early
  <2> QED BY <2>1, <2>2
<1>6. ASSUME NEW ch \in Channels, EncodeSlug(ch) PROVE Torn'
  <2>1. \A c \in Channels : cur[c] # "torn"
    BY <1>6, EncodeFrame
  <2> QED BY <1>6, <2>1, EncodeFrame
<1>7. CASE CleanFailed
  BY <1>7, CleanFrame
<1>8. CASE Rename
  BY <1>8, RenameFrame
<1>9. CASE Ready
  BY <1>9, ReadyFrame
<1>10. CASE ClearSlug
  BY <1>10, ClearSlugFrame
<1>11. CASE CopySlug
  <2>1. \A c \in Channels : new[c] # "torn" /\ new' = new
    BY <1>11, CopyFrame
  <2>2. CASE cur' = Settle(cur)
    BY <1>0, <2>1, <2>2, Settled
  <2>3. CASE cur' = cur /\ run.todo = {}
    BY <2>1, <2>3
  <2>4. ASSUME run'.pc = "copy", NEW ch \in run.todo \intersect Channels,
               \A other \in Channels \ {ch} : cur[other] # "torn" /\ cur'[other] = cur[other],
               \/ run'.todo = run.todo \ {ch} /\ cur'[ch] = new[ch]
               \/ run'.todo = run.todo /\ cur'[ch] = "torn"
        PROVE  Torn'
    BY <2>1, <2>4
  <2> QED BY <1>11, <2>2, <2>3, <2>4, CopyFrame
<1>12. CASE RemoveNewSlugs
  BY <1>12, RemoveFrame
<1>13. CASE ClearOldResults
  BY <1>13, OldFrame
<1>14. CASE SetProcessedPath
  BY <1>14, PathFrame
<1>15. CASE Crash
  BY <1>0, <1>15, CrashFrame, Settled
<1> QED BY <1>1, <1>2, <1>3, <1>4, <1>5, <1>6, <1>7, <1>8, <1>9, <1>10, <1>11, <1>12, <1>13,
           <1>14, <1>15, Steps

(* A run with a critical error does not publish.                           *)
LEMMA FlagsKept == ASSUME Types, Flags, [Next]_vars PROVE Flags'
<1> USE DEF Flags
<1>1. CASE UNCHANGED vars \/ Aside
  BY <1>1, AsideFrame DEF vars
<1>2. CASE BootClear
  BY <1>2, ClearFrame
<1>3. CASE NewProcessor
  BY <1>3, NewFrame
<1>4. CASE Prepare
  BY <1>4, PrepareFrame
<1>5. ASSUME NEW ch \in Channels, EncodeSlug(ch) PROVE Flags'
  BY <1>5, EncodeFrame
<1>6. CASE CleanFailed
  BY <1>6, CleanFrame
<1>7. CASE Rename
  BY <1>7, RenameFrame
<1>8. CASE Ready \/ ClearSlug \/ CopySlug \/ RemoveNewSlugs
  BY <1>8, ReadyFrame, ClearSlugFrame, CopyFrame, RemoveFrame
<1>9. CASE ClearOldResults
  BY <1>9, OldFrame
<1>10. CASE SetProcessedPath \/ Crash
  BY <1>10, PathFrame, CrashFrame, Nobody
<1> QED BY <1>1, <1>2, <1>3, <1>4, <1>5, <1>6, <1>7, <1>8, <1>9, <1>10, Steps

(* The slugs of a run are in new-slugs when it publishes.                  *)
LEMMA CompiledKept == ASSUME Types, Compiled, [Next]_vars PROVE Compiled'
<1> USE DEF Compiled
<1>1. CASE UNCHANGED vars \/ Aside
  BY <1>1, AsideFrame DEF vars, diskVars
<1>2. CASE BootClear
  BY <1>2, ClearFrame
<1>3. CASE Prepare
  <2>1. CASE run.pc = "compile"
    BY <1>3, <2>1, PrepareFrame
  <2>2. CASE run.pc # "compile"
    BY <1>3, <2>2, PrepareFrame
  <2> QED BY <2>1, <2>2
<1>4. ASSUME NEW ch \in Channels, EncodeSlug(ch) PROVE Compiled'
  <2>1. run.channels \in SUBSET Channels
    BY DEF Types, RunType
  <2> QED BY <1>4, <2>1, EncodeFrame
<1>5. CASE NewProcessor \/ CleanFailed \/ Rename \/ Ready
  BY <1>5, NewFrame, CleanFrame, RenameFrame, ReadyFrame
<1>6. CASE ClearSlug \/ CopySlug \/ RemoveNewSlugs \/ ClearOldResults
  BY <1>6, ClearSlugFrame, CopyFrame, RemoveFrame, OldFrame
<1>7. CASE SetProcessedPath \/ Crash
  BY <1>7, PathFrame, CrashFrame, Nobody
<1> QED BY <1>1, <1>2, <1>3, <1>4, <1>5, <1>6, <1>7, Steps

(* A publication is complete when copying has come to its end.             *)
LEMMA ProgressKept == ASSUME Types, Progress, [Next]_vars PROVE Progress'
<1> USE DEF Progress
<1>1. CASE UNCHANGED vars \/ Aside
  BY <1>1, AsideFrame DEF vars, history
<1>2. CASE BootClear
  BY <1>2, ClearFrame
<1>3. CASE NewProcessor \/ Prepare
  BY <1>3, NewFrame, PrepareFrame DEF Early
<1>4. ASSUME NEW ch \in Channels, EncodeSlug(ch) PROVE Progress'
  BY <1>4, EncodeFrame
<1>5. CASE CleanFailed
  BY <1>5, CleanFrame
<1>6. CASE Rename
  BY <1>6, RenameFrame
<1>7. CASE Ready \/ ClearSlug
  BY <1>7, ReadyFrame, ClearSlugFrame
<1>8. CASE CopySlug
  BY <1>8, CopyFrame
<1>9. CASE RemoveNewSlugs
  BY <1>9, RemoveFrame
<1>10. CASE ClearOldResults
  BY <1>10, OldFrame
<1>11. CASE SetProcessedPath \/ Crash
  BY <1>11, PathFrame, CrashFrame, Nobody
<1> QED BY <1>1, <1>2, <1>3, <1>4, <1>5, <1>6, <1>7, <1>8, <1>9, <1>10, <1>11, Steps

-----------------------------------------------------------------------------
(* The slugs of the playlist published last are kept.                      *)
LEMMA KeptKept ==
  ASSUME Types, Torn, Compiled, Progress, Kept, Types', [Next]_vars
  PROVE  Kept'
<1> USE DEF Kept
<1>0. \A ch \in Listed(published) : ch \in Channels
  BY ListedBy
<1>1. CASE UNCHANGED vars \/ Aside
  <2>1. UNCHANGED <<playlists, published, cur, new, run, partial, lost>>
    BY <1>1, AsideFrame DEF vars, diskVars, history
  <2> QED BY <2>1, PlaylistsFrame
<1>2. CASE BootClear
  BY <1>2, ClearFrame, FewerPlaylists
<1>3. CASE NewProcessor \/ Prepare
  <2>1. /\ UNCHANGED <<playlists, published, cur, new, partial, lost>>
        /\ run'.pc \notin {"caches", "clear", "copy"}
    BY <1>3, NewFrame, PrepareFrame DEF Early
  <2> QED BY <2>1, PlaylistsFrame
<1>4. ASSUME NEW ch \in Channels, EncodeSlug(ch) PROVE Kept'
  <2>1. /\ UNCHANGED <<playlists, published, cur, partial, lost>>
        /\ run'.pc = "compile"
        /\ \A c \in Channels : new[c] # "none" => new'[c] # "none"
    BY <1>4, EncodeFrame
  <2> QED BY <1>0, <2>1, PlaylistsFrame
<1>5. CASE CleanFailed
  <2>1. /\ UNCHANGED <<playlists, published, cur, partial>> /\ (lost => lost')
        /\ run'.pc \in {"unslug", "result"}
        /\ \A c \in Channels : new'[c] = new[c] \/ lost' \/ ~partial
    BY <1>5, CleanFrame
  <2>2. Listed(published)' = Listed(published)
    BY <2>1, PlaylistsFrame
  <2> QED BY <1>0, <2>1, <2>2
<1>6. CASE Rename
  <2>1. run.pc = "rename" /\ run'.pc = "caches" /\ new' = new /\ cur' = cur
    BY <1>6, RenameFrame
  <2>2. CASE lost'
    BY <2>2
  <2>3. CASE ~lost'
    <3>1. /\ playlists' = {p \in playlists : p.id # run.id}
               \union {[id |-> run.id, channels |-> run.channels]}
          /\ published' = run.id /\ partial' = TRUE /\ ~run.lossy
      BY <1>6, <2>3, RenameFrame
    <3>2. Listed(published)' = UNION {p.channels : p \in {q \in playlists' : q.id = run.id}}
      BY <3>1 DEF Listed
    <3>3. \A ch \in Listed(published)' : ch \in run.channels
      BY <3>1, <3>2
    <3>4. \A ch \in run.channels : new[ch] = "ok"
      BY <2>1, <3>1 DEF Compiled
    <3> QED BY <2>1, <3>1, <3>3, <3>4
  <2> QED BY <2>2, <2>3
<1>7. CASE Ready
  <2>1. /\ UNCHANGED <<playlists, published, cur, new, partial, lost>>
        /\ run.pc = "caches" /\ run'.pc \in {"caches", "clear", "old"}
    BY <1>7, ReadyFrame
  <2> QED BY <2>1, PlaylistsFrame
<1>8. CASE ClearSlug
  <2>1. /\ UNCHANGED <<playlists, published, new, partial, lost>> /\ run.pc = "clear"
        /\ run'.pc \in {"clear", "copy"}
        /\ run'.pc = "copy" => run'.todo = {ch \in Channels : new[ch] # "none"}
    BY <1>8, ClearSlugFrame
  <2>2. partial \/ lost
    BY <2>1 DEF Progress
  <2>3. Listed(published)' = Listed(published)
    BY <2>1, PlaylistsFrame
  <2> QED BY <1>0, <2>1, <2>2, <2>3
<1>9. CASE CopySlug
  <2>1. /\ UNCHANGED <<playlists, published, new>> /\ run.pc = "copy"
    BY <1>9, CopyFrame
  <2>2. Listed(published)' = Listed(published)
    BY <2>1, PlaylistsFrame
  <2>3. CASE lost'
    BY <2>3
  <2>4. CASE ~lost' /\ run'.pc = "remove"
    <3>1. run.todo = {} /\ cur' = cur /\ lost' = lost
      BY <1>9, <2>4, CopyFrame
    <3>2. ~lost
      BY <2>4, <3>1
    <3> QED BY <2>1, <2>2, <2>4, <3>1, <3>2
  <2>5. CASE ~lost' /\ run'.pc = "copy"
    <3>1. PICK ch \in run.todo \intersect Channels :
            /\ \A other \in Channels \ {ch} : cur'[other] = cur[other]
            /\ \/ run'.todo = run.todo \ {ch} /\ cur'[ch] = new[ch]
               \/ run'.todo = run.todo /\ cur'[ch] = "torn"
      BY <1>9, <2>5, CopyFrame
    <3>2. partial' = partial /\ lost' = lost
      BY <1>9, <2>5, CopyFrame
    <3>3. partial' /\ ~lost
      BY <2>1, <2>5, <3>2 DEF Progress
    <3> QED BY <1>0, <2>1, <2>2, <2>5, <3>1, <3>3
  <2> QED BY <1>9, <2>3, <2>4, <2>5, CopyFrame
<1>10. CASE RemoveNewSlugs
  <2>1. /\ UNCHANGED <<playlists, published, cur, partial, lost>> /\ run.pc = "remove"
        /\ run'.pc \in {"remove", "old"}
    BY <1>10, RemoveFrame
  <2>2. ~partial \/ lost
    BY <2>1 DEF Progress
  <2>3. Listed(published)' = Listed(published)
    BY <2>1, PlaylistsFrame
  <2> QED BY <2>1, <2>2, <2>3
<1>11. CASE ClearOldResults
  BY <1>11, OldFrame, FewerPlaylists
<1>12. CASE SetProcessedPath
  BY <1>12, PathFrame, PlaylistsFrame, Nobody
<1>13. CASE Crash
  <2>1. /\ UNCHANGED <<playlists, published, partial, lost>> /\ run'.pc = "idle"
        /\ cur' = Settle(cur) /\ new' = Settle(new)
    BY <1>13, CrashFrame, Nobody
  <2>2. \A c \in Channels :
          /\ cur[c] # "none" => cur'[c] # "none"
          /\ new[c] # "none" => new'[c] # "none"
          /\ cur[c] = "ok" => cur'[c] = "ok"
    BY <2>1, Settled DEF Types
  <2>3. Listed(published)' = Listed(published)
    BY <2>1, PlaylistsFrame
  <2> QED BY <1>0, <2>1, <2>2, <2>3
<1> QED BY <1>1, <1>2, <1>3, <1>4, <1>5, <1>6, <1>7, <1>8, <1>9, <1>10, <1>11, <1>12, <1>13,
           Steps

(* Every incomplete file took a crash or a failing write.                  *)
LEMMA CountedKept == ASSUME Types, Torn, Counted, [Next]_vars PROVE Counted'
<1>0. crashes \in Nat /\ faults \in Nat
  BY DEF Types
<1>1. ASSUME Bad' \subseteq Bad, crashes' = crashes, faults' \in Nat, faults' >= faults
      PROVE  Counted'
  <2>1. /\ IsFiniteSet(Bad') /\ Cardinality(Bad') <= Cardinality(Bad)
        /\ Cardinality(Bad) \in Nat /\ Cardinality(Bad') \in Nat
    BY <1>1, NoMore DEF Counted
  <2>2. Cardinality(Bad') <= crashes' + faults'
    BY <1>0, <1>1, <2>1 DEF Counted
  <2> QED BY <2>1, <2>2 DEF Counted
<1>2. ASSUME NEW x, Bad' \subseteq Bad \union {x}, crashes' \in Nat, faults' \in Nat,
             crashes' + faults' = crashes + faults + 1
      PROVE  Counted'
  <2>1. /\ IsFiniteSet(Bad') /\ Cardinality(Bad') <= Cardinality(Bad) + 1
        /\ Cardinality(Bad) \in Nat /\ Cardinality(Bad') \in Nat
    BY <1>2, OneMore DEF Counted
  <2>2. Cardinality(Bad') <= crashes' + faults'
    <3>1. Cardinality(Bad) <= crashes + faults
      BY DEF Counted
    <3>2. ASSUME NEW m \in Nat, NEW n \in Nat, NEW k \in Nat, n <= m + 1, m <= k
          PROVE  n <= k + 1
      BY <3>2
    <3>3. crashes + faults \in Nat
      BY <1>0
    <3>4. Cardinality(Bad') <= (crashes + faults) + 1
      BY <2>1, <3>1, <3>2, <3>3
    <3> QED BY <1>2, <3>4
  <2> QED BY <2>1, <2>2 DEF Counted
<1>3. CASE UNCHANGED vars \/ Aside \/ NewProcessor \/ SetProcessedPath
  <2>1. UNCHANGED <<cur, new, crashes, faults>>
    BY <1>3, AsideFrame, NewFrame, PathFrame DEF vars, diskVars, bounds
  <2> QED BY <1>0, <1>1, <2>1 DEF Bad
<1>4. CASE BootClear \/ Prepare \/ Rename \/ Ready \/ ClearOldResults
  <2>1. /\ UNCHANGED <<cur, new, crashes>> /\ faults' \in Nat /\ faults' >= faults
    BY <1>4, ClearFrame, PrepareFrame, RenameFrame, ReadyFrame, OldFrame
  <2> QED BY <1>1, <2>1 DEF Bad
<1>5. ASSUME NEW ch \in Channels, EncodeSlug(ch) PROVE Counted'
  <2>1. CASE new'[ch] \in {"torn", "ok", new[ch]}
    <3>1. Bad' \subseteq Bad
      BY <1>5, <2>1, EncodeFrame DEF Bad
    <3> QED BY <1>1, <1>5, <3>1, EncodeFrame
  <2>2. CASE new'[ch] \notin {"torn", "ok", new[ch]}
    <3>1. Bad' \subseteq Bad \union {ch}
      BY <1>5, EncodeFrame DEF Bad
    <3>2. faults' = faults + 1 /\ crashes' = crashes
      BY <1>5, <2>2, EncodeFrame
    <3> QED BY <1>0, <1>2, <3>1, <3>2
  <2> QED BY <2>1, <2>2
<1>6. CASE CleanFailed
  <2>1. Bad' \subseteq Bad
    BY <1>6, CleanFrame DEF Bad
  <2> QED BY <1>1, <1>6, <2>1, CleanFrame
<1>7. CASE ClearSlug
  <2>1. Bad' \subseteq Bad
    BY <1>7, ClearSlugFrame DEF Bad
  <2> QED BY <1>1, <1>7, <2>1, ClearSlugFrame
<1>8. CASE RemoveNewSlugs
  <2>1. Bad' \subseteq Bad
    BY <1>8, RemoveFrame DEF Bad
  <2> QED BY <1>1, <1>8, <2>1, RemoveFrame
<1>9. CASE CopySlug
  <2>1. CASE run'.pc = "copy" \/ cur' = cur
    <3>1. Bad' \subseteq Bad
      BY <1>9, <2>1, CopyFrame DEF Bad
    <3> QED BY <1>1, <1>9, <3>1, CopyFrame
  <2>2. CASE cur' = Settle(cur) /\ faults' = faults + 1
    <3>1. \E x : \A ch \in Channels : cur[ch] = "torn" => ch = x
      BY DEF Torn
    <3>2. PICK x : \A ch \in Channels : cur[ch] = "torn" => ch = x
      BY <3>1
    <3>3. new' = new /\ crashes' = crashes
      BY <1>9, CopyFrame
    <3>4. Bad' \subseteq Bad \union {x}
      BY <2>2, <3>2, <3>3, Settled DEF Bad, Types
    <3> QED BY <1>0, <1>2, <2>2, <3>3, <3>4
  <2> QED BY <1>9, <2>1, <2>2, CopyFrame
<1>10. CASE Crash
  <2>1. \E x : \A ch \in Channels : cur[ch] = "torn" \/ new[ch] = "torn" => ch = x
    BY DEF Torn
  <2>2. PICK x : \A ch \in Channels : cur[ch] = "torn" \/ new[ch] = "torn" => ch = x
    BY <2>1
  <2>3. /\ cur' = Settle(cur) /\ new' = Settle(new)
        /\ crashes' = crashes + 1 /\ faults' = faults
    BY <1>10, CrashFrame
  <2>4. Bad' \subseteq Bad \union {x}
    BY <2>2, <2>3, Settled DEF Bad, Types
  <2> QED BY <1>0, <1>2, <2>3, <2>4
<1> QED BY <1>3, <1>4, <1>5, <1>6, <1>7, <1>8, <1>9, <1>10, Steps

-----------------------------------------------------------------------------
(* DecodeSlug and the steps of others.                                     *)
LEMMA ReadsKept ==
  ASSUME Types, Kept, Reads, [Next]_vars
  PROVE  Reads'
<1>0. reader \in ReaderType
  BY DEF Types
<1>1. ASSUME UNCHANGED <<reader, cur, partial>>, lost => lost' PROVE Reads'
  BY <1>1 DEF Reads
<1>2. ASSUME Overlap PROVE Reads'
  BY <1>0, <1>2, Overlapped DEF Reads
<1>3. CASE UNCHANGED vars \/ BootLatest \/ BootSetPath \/ BootSync \/ Request \/ Tick
  BY <1>1, <1>3 DEF vars, BootLatest, BootSetPath, BootSync, Request, Tick, diskVars, history
<1>4. CASE DecodeStart
  <2>1. PICK ch \in Listed(path) :
          reader' = [pc |-> "current", channel |-> ch,
                     overlap |-> Publishing \/ run.pc \in {"old", "result"}
                                 \/ path # published]
    BY <1>4 DEF DecodeStart
  <2>2. reader'.pc = "current" /\ reader'.channel = ch
    BY <2>1
  <2>3. UNCHANGED <<cur, partial, lost>>
    BY <1>4 DEF DecodeStart, diskVars, history
  <2>4. ~reader'.overlap => path = published
    <3>1. reader'.overlap = (Publishing \/ run.pc \in {"old", "result"} \/ path # published)
      BY <2>1
    <3> QED BY <3>1, Zenon
  <2> QED BY <2>2, <2>3, <2>4 DEF Reads, Kept
<1>5. CASE DecodeRead
  <2>1. UNCHANGED <<cur, new, partial, lost>>
    BY <1>5 DEF DecodeRead, diskVars, history
  <2>2. /\ reader'.channel = reader.channel /\ reader'.overlap = reader.overlap
        /\ reader.pc \in {"current", "new"}
        /\ reader.pc = "current" /\ cur[reader.channel] = "ok" => reader'.pc = "found"
    BY <1>0, <1>5 DEF DecodeRead, ReaderType
  <2> QED BY <2>1, <2>2 DEF Reads
<1>6. CASE DecodeEnd \/ Crash
  <2>1. reader'.pc = "idle"
    BY <1>6, Nobody DEF DecodeEnd, Crash
  <2> QED BY <2>1 DEF Reads
<1>7. CASE BootClear \/ NewProcessor \/ Prepare \/ CleanFailed
  BY <1>1, <1>7, ClearFrame, NewFrame, PrepareFrame, CleanFrame
<1>8. ASSUME NEW ch \in Channels, EncodeSlug(ch) PROVE Reads'
  BY <1>1, <1>8, EncodeFrame
<1>9. CASE ClearOldResults \/ SetProcessedPath
  BY <1>1, <1>9, OldFrame, PathFrame
<1>10. CASE Rename \/ Ready \/ ClearSlug \/ CopySlug \/ RemoveNewSlugs
  BY <1>2, <1>10, RenameFrame, ReadyFrame, ClearSlugFrame, CopyFrame, RemoveFrame
<1> QED BY <1>3, <1>4, <1>5, <1>6, <1>7, <1>8, <1>9, <1>10, Steps DEF Aside, Decode

(* The playlist a run has published stays.                                 *)
LEMMA NamedKept == ASSUME Types, Named, [Next]_vars PROVE Named'
<1> USE DEF Named
<1>1. CASE UNCHANGED vars \/ Aside
  <2>1. UNCHANGED <<playlists, published, run>>
    BY <1>1, AsideFrame DEF vars, diskVars, history
  <2> QED BY <2>1, PlaylistsFrame
<1>2. CASE BootClear
  BY <1>2, ClearFrame DEF Late
<1>3. CASE NewProcessor \/ Prepare \/ CleanFailed
  BY <1>3, NewFrame, PrepareFrame, CleanFrame DEF Early, Late
<1>4. ASSUME NEW ch \in Channels, EncodeSlug(ch) PROVE Named'
  BY <1>4, EncodeFrame DEF Late
<1>5. CASE Rename
  <2>1. CASE run'.missing
    BY <2>1
  <2>2. CASE ~run'.missing
    <3>1. /\ published' = run.id /\ run'.id = run.id
          /\ [id |-> run.id, channels |-> run.channels] \in playlists'
      BY <1>5, <2>2, RenameFrame
    <3>2. run.id \in Ids'
      BY <3>1 DEF Ids
    <3> QED BY <3>1, <3>2
  <2> QED BY <2>1, <2>2
<1>6. CASE Ready \/ ClearSlug \/ CopySlug \/ RemoveNewSlugs
  <2>1. /\ UNCHANGED <<playlists, published>> /\ run'.id = run.id /\ run'.missing = run.missing
        /\ run.pc \in Late
    BY <1>6, ReadyFrame, ClearSlugFrame, CopyFrame, RemoveFrame DEF Late
  <2> QED BY <2>1, PlaylistsFrame
<1>7. CASE ClearOldResults
  <2>1. /\ published' = published /\ run'.id = run.id /\ run'.missing = run.missing
        /\ run.pc \in Late /\ \A p \in playlists : p.id = run.id => p \in playlists'
    BY <1>7, OldFrame DEF Late
  <2>2. run.id \in Ids => run.id \in Ids'
    BY <2>1 DEF Ids
  <2> QED BY <2>1, <2>2
<1>8. CASE SetProcessedPath \/ Crash
  BY <1>8, PathFrame, CrashFrame, Nobody DEF Late
<1> QED BY <1>1, <1>2, <1>3, <1>4, <1>5, <1>6, <1>7, <1>8, Steps

(* The latest playlist is one of them, and the one published last where    *)
(* the names are in order.                                                 *)
LEMMA LatestFacts ==
  ASSUME Types
  PROVE  /\ Ids = {} => Latest = 0
         /\ InOrder => Latest = 0 \/ Latest \in Ids
         /\ InOrder /\ Ids # {} => Latest = published
         /\ Latest = 0 /\ InOrder => Ids = {}
<1>1. Ids \in SUBSET (Nat \ {0})
  BY DEF Types, Ids
<1>2. Ids = {} => Latest = 0
  BY DEF Latest
<1>3. ASSUME InOrder, Ids # {} PROVE Latest = published /\ published \in Ids
  BY <1>3, LatestIs DEF InOrder
<1> QED BY <1>1, <1>2, <1>3

(* What the handler serves.                                                *)
LEMMA ServedKept ==
  ASSUME Types, Named, Served, Types', [Next]_vars
  PROVE  Served'
<1> USE DEF Early, Late
<1> DEFINE Same == UNCHANGED <<playlists, published, stray>> /\ (Unpublished' => Unpublished)
<1>1. ASSUME Same, UNCHANGED <<path, boot, bootPath>> PROVE Served'
  BY <1>1, PlaylistsFrame DEF Served
<1>2. CASE UNCHANGED vars
  BY <1>1, <1>2 DEF vars, diskVars, memVars, history, Unpublished
<1>3. CASE Request \/ Tick \/ Decode
  <2>1. UNCHANGED <<path, boot, bootPath, run>>
    BY <1>3 DEF Request, Tick, Decode, DecodeStart, DecodeRead, DecodeEnd, memVars
  <2> QED BY <1>1, <1>3, <2>1, AsideFrame DEF Aside, Unpublished
<1>4. CASE BootLatest \/ BootSetPath \/ BootSync
  <2>1. UNCHANGED <<playlists, published, stray, run>>
    BY <1>4, AsideFrame DEF Aside
  <2>2. Ids' = Ids /\ Latest' = Latest /\ (InOrder' <=> InOrder)
    BY <2>1, PlaylistsFrame
  <2>3. Unpublished' => Unpublished
    BY <2>1 DEF Unpublished
  <2>4. CASE BootLatest
    <3>1. /\ boot = "discovery" /\ boot' = "latest" /\ bootPath' = Latest /\ path' = path
      BY <2>4 DEF BootLatest
    <3> QED BY <2>1, <2>2, <2>3, <3>1 DEF Served
  <2>5. CASE BootSetPath
    <3>1. /\ boot = "latest" /\ boot' = "ready"
          /\ path' = IF bootPath = 0 THEN path ELSE bootPath
      BY <2>5 DEF BootSetPath
    <3>2. ASSUME Unpublished', ~stray', InOrder' PROVE path' = Latest
      <4>1. bootPath = Latest /\ (path = 0 \/ path \in Ids)
        BY <2>1, <2>2, <2>3, <3>1, <3>2 DEF Served
      <4>2. Latest = 0 => Ids = {}
        BY <2>2, <3>2, LatestFacts
      <4> QED BY <3>1, <4>1, <4>2
    <3> QED BY <2>2, <3>1, <3>2 DEF Served
  <2>6. CASE BootSync
    <3>1. boot = "ready" /\ boot' = "done" /\ path' = path
      BY <2>6 DEF BootSync
    <3> QED BY <2>1, <2>2, <2>3, <3>1 DEF Served
  <2> QED BY <1>4, <2>4, <2>5, <2>6
<1>5. CASE BootClear
  <2>1. boot' = "ready" /\ path' = path /\ stray' = (stray \/ path # 0 \/ playlists' # {})
    BY <1>5 DEF BootClear
  <2>2. ~stray' => path = 0 /\ playlists' = {}
    BY <2>1, Zenon
  <2>3. playlists' = {} => Latest' = 0
    BY DEF Latest, Ids
  <2> QED BY <2>1, <2>2, <2>3 DEF Served
<1>6. CASE NewProcessor \/ Prepare \/ CleanFailed
  <2>1. UNCHANGED <<playlists, published, stray, path, boot, bootPath>> /\ Unpublished
    BY <1>6, NewFrame, PrepareFrame, CleanFrame DEF Unpublished
  <2> QED BY <1>1, <2>1
<1>7. ASSUME NEW ch \in Channels, EncodeSlug(ch) PROVE Served'
  BY <1>1, <1>7, EncodeFrame DEF Unpublished
<1>8. CASE Rename \/ Ready \/ ClearSlug \/ CopySlug \/ RemoveNewSlugs \/ ClearOldResults
  <2>1. run.id # 0 /\ run'.id = run.id /\ run'.pc \in Late \union {"result"}
    BY <1>8, RenameFrame, ReadyFrame, ClearSlugFrame, CopyFrame, RemoveFrame, OldFrame
       DEF Types
  <2> QED BY <2>1 DEF Served, Unpublished
<1>9. CASE SetProcessedPath
  <2>1. /\ run.pc = "result" /\ path' = IF run.id = 0 THEN Latest ELSE run.id
        /\ boot = "latest" /\ ~stray' => ~stray /\ run.id = 0
        /\ boot # "latest" /\ ~stray' => run.id = 0 \/ ~run.missing
        /\ UNCHANGED <<playlists, published, boot, bootPath>>
    BY <1>9, PathFrame
  <2>2. Ids' = Ids /\ Latest' = Latest /\ (InOrder' <=> InOrder)
    BY <2>1, PlaylistsFrame
  <2>3. ASSUME ~stray'
        PROVE  run.id # 0 => published = run.id /\ run.id \in Ids
    BY <2>1, <2>3 DEF Named
  <2>4. ASSUME ~stray', InOrder PROVE path' = Latest /\ (path' = 0 \/ path' \in Ids)
    BY <2>1, <2>3, <2>4, LatestFacts
  <2>5. ASSUME ~stray', boot = "latest" PROVE bootPath = Latest
    BY <2>1, <2>5 DEF Served, Unpublished
  <2> QED BY <2>1, <2>2, <2>4, <2>5 DEF Served
<1>10. CASE Crash
  BY <1>10, CrashFrame DEF Served
<1> QED BY <1>2, <1>3, <1>4, <1>5, <1>6, <1>7, <1>8, <1>9, <1>10, Steps DEF Aside

-----------------------------------------------------------------------------
(* An empty disk and a process that starts.                                *)
LEMMA InitIInv == Init => IInv
<1> SUFFICES ASSUME Init PROVE IInv
  OBVIOUS
<1> USE DEF Init
<1>1. run.pc = "idle" /\ run \in RunType /\ ~run.critical /\ reader.pc = "idle"
      /\ reader \in ReaderType
  BY Nobody
<1>2. /\ cur \in [Channels -> Slug] /\ new \in [Channels -> Slug]
      /\ \A ch \in Channels : cur[ch] = "none" /\ new[ch] = "none"
  BY DEF NoSlugs, Slug
<1>3. Types
  BY <1>1, <1>2 DEF Types, Files, Early, Late
<1>4. Ids = {} /\ Latest = 0 /\ Listed(published) = {}
  BY DEF Ids, Latest, Listed
<1>5. Torn /\ Flags /\ Compiled /\ Progress /\ Kept
  BY <1>1, <1>2, <1>4 DEF Torn, Flags, Compiled, Progress, Kept
<1>6. Counted
  <2>1. Bad = {}
    BY <1>2 DEF Bad
  <2> QED BY <2>1, FS_EmptySet DEF Counted
<1>7. Reads /\ Named /\ Served
  BY <1>1, <1>4 DEF Reads, Named, Served, Late
<1> QED BY <1>3, <1>5, <1>6, <1>7 DEF IInv

(* No step breaks the invariant.                                           *)
LEMMA NextIInv == IInv /\ [Next]_vars => IInv'
<1> SUFFICES ASSUME IInv, [Next]_vars PROVE IInv'
  OBVIOUS
<1> USE DEF IInv
<1>1. Types' /\ Torn' /\ Flags' /\ Compiled' /\ Progress'
  BY TypesKept, TornKept, FlagsKept, CompiledKept, ProgressKept
<1>2. Kept' /\ Counted' /\ Reads' /\ Named' /\ Served'
  BY <1>1, KeptKept, CountedKept, ReadsKept, NamedKept, ServedKept
<1> QED BY <1>1, <1>2

(* The invariant holds of every state the process and the disk reach.      *)
THEOREM Invariance == Spec => []IInv
BY InitIInv, NextIInv, PTL DEF Spec

(* Whatever fails and whenever the process ends, DecodeSlug resolves every *)
(* channel of the latest playlist but those whose file was cut off in the  *)
(* middle, at most one for every crash and every failing write, unless a   *)
(* failing step of the publication itself, or a run that failed after an   *)
(* interrupted one, cost slugs (processor.go, slug.go).                    *)
THEOREM NothingUnresolvable == Spec => []LatestResolvable
<1>1. IInv => LatestResolvable
  <2> SUFFICES ASSUME IInv, InOrder, ~lost PROVE LatestResolvable
    BY DEF LatestResolvable
  <2> USE DEF IInv
  <2> DEFINE unresolved == {ch \in Listed(Latest) : Found(ch) # "ok" /\ ~Writing(ch)}
  <2>1. \A ch \in Listed(Latest) : ch \in Channels /\ ch \in Listed(published)
    <3>1. CASE Ids = {}
      BY <3>1, ListedBy
    <3>2. CASE Ids # {}
      BY <3>2, ListedBy, LatestFacts
    <3> QED BY <3>1, <3>2
  <2>2. ASSUME NEW ch \in unresolved PROVE Found(ch) = "broken" /\ ch \in Bad
    <3>1. ch \in Channels /\ ch \in Listed(published) /\ Found(ch) # "ok" /\ ~Writing(ch)
      BY <2>1
    <3>2. cur[ch] # "none" \/ new[ch] # "none"
      BY <3>1 DEF Kept
    <3>3. Found(ch) # "none"
      BY <3>2 DEF Found
    <3>4. Found(ch) # "torn"
      BY <3>1 DEF Found, Torn, Writing
    <3>5. Found(ch) \in Slug
      BY <3>1 DEF Found, Types
    <3>6. Found(ch) = "broken"
      BY <3>1, <3>3, <3>4, <3>5 DEF Slug
    <3> QED BY <3>1, <3>6 DEF Bad, Found
  <2>3. Cardinality(unresolved) <= crashes + faults
    <3>1. unresolved \subseteq Bad
      BY <2>2
    <3> HIDE DEF unresolved
    <3>2. /\ Cardinality(unresolved) <= Cardinality(Bad)
          /\ Cardinality(unresolved) \in Nat /\ Cardinality(Bad) \in Nat
      BY <3>1, NoMore DEF Counted
    <3>3. Cardinality(Bad) <= crashes + faults /\ crashes \in Nat /\ faults \in Nat
      BY DEF Counted, Types
    <3> QED BY <3>2, <3>3
  <2> QED BY <2>2, <2>3 DEF LatestResolvable
<1> QED BY <1>1, Invariance, PTL

(* Until the next publication the handler serves the latest playlist, and  *)
(* that exists (SetProcessedPath, clearOldResults), unless a run ended     *)
(* inside updater.Initialize, the boot cleared what it had published, or   *)
(* its playlist could not be renamed.                                      *)
THEOREM LatestServed == Spec => []ServesLatest
<1>1. IInv => ServesLatest
  BY DEF IInv, Served, Unpublished, Early, ServesLatest
<1> QED BY <1>1, Invariance, PTL

(* DecodeSlug finds every channel of the served playlist when no           *)
(* publication overlaps the call and the last one was completed.           *)
THEOREM DecodeSucceeds == Spec => []DecodeFinds
<1>1. IInv => DecodeFinds
  BY DEF IInv, Reads, DecodeFinds
<1> QED BY <1>1, Invariance, PTL

(* Until a run cannot fail any more it changes neither the playlists nor   *)
(* the current slugs nor the previous downloads: revalidation that fails   *)
(* keeps the old data, as far as that is in these files.                   *)
THEOREM OldDataKept == Spec => FailureKeepsOldData
<1> DEFINE A ==
      /\ playlists' # playlists => run.pc \in {"rename", "old"} \/ boot = "discovery"
      /\ cur' # cur \/ cache' # cache => Publishing
      /\ run.critical => UNCHANGED <<cur, cache>>
<1>1. IInv /\ [Next]_vars => A
  <2> SUFFICES ASSUME IInv, [Next]_vars PROVE A
    OBVIOUS
  <2> USE DEF IInv
  <2>1. /\ playlists' # playlists => run.pc \in {"rename", "old"} \/ boot = "discovery"
        /\ cur' # cur \/ cache' # cache => Publishing
    <3>1. CASE UNCHANGED vars \/ Aside \/ NewProcessor \/ Prepare \/ CleanFailed
      BY <3>1, AsideFrame, NewFrame, PrepareFrame, CleanFrame DEF vars, diskVars
    <3>2. ASSUME NEW ch \in Channels, EncodeSlug(ch)
          PROVE  UNCHANGED <<playlists, cur, cache>>
      BY <3>2, EncodeFrame
    <3>3. CASE BootClear
      BY <3>3, ClearFrame DEF BootClear
    <3>4. CASE Rename \/ ClearOldResults
      BY <3>4, RenameFrame, OldFrame
    <3>5. CASE Ready \/ ClearSlug \/ CopySlug \/ RemoveNewSlugs
      BY <3>5, ReadyFrame, ClearSlugFrame, CopyFrame, RemoveFrame DEF Publishing
    <3>6. CASE SetProcessedPath
      BY <3>6, PathFrame
    <3>7. CASE Crash
      <4>1. UNCHANGED <<playlists, cache>> /\ cur' = Settle(cur)
        BY <3>7, CrashFrame
      <4>2. CASE run.pc = "copy"
        BY <4>1, <4>2 DEF Publishing
      <4>3. CASE run.pc # "copy"
        <5>1. \A ch \in Channels : cur[ch] # "torn"
          BY <4>3 DEF Torn
        <5>2. cur' = cur
          BY <4>1, <5>1 DEF Settle, Types
        <5> QED BY <4>1, <5>2
      <4> QED BY <4>2, <4>3
    <3> QED BY <3>1, <3>2, <3>3, <3>4, <3>5, <3>6, <3>7, Steps
  <2>2. run.critical => ~Publishing
    BY DEF Flags, Publishing
  <2> QED BY <2>1, <2>2
<1> QED BY <1>1, Invariance, PTL DEF Spec, FailureKeepsOldData
=============================================================================

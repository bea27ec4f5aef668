---------------------------- MODULE SourcePublish ----------------------------
(***************************************************************************)
(* Building and publishing the merged playlist: the updater                *)
(* (updater/updater.go), one run of the M3UProcessor                       *)
(* (sourceproc/processor.go, downloader.go), the slug files that resolve   *)
(* the URLs of the playlist (sourceproc/slug.go), the handler that serves  *)
(* it (handlers/m3u_http.go), and what a crash at any point leaves on      *)
(* disk for the next start.                                                *)
(*                                                                         *)
(* A playlist is the set of channels it lists; a slug file stands for its  *)
(* channel and is missing ("none"), complete ("ok"), being written by      *)
(* os.WriteFile ("torn"), or left incomplete by a write that failed or a   *)
(* process that ended ("broken"). Every file operation may fail where the  *)
(* code only logs it or ignores it. LockSources is left out: the process   *)
(* has one flock object, whose Lock returns at once when it is already     *)
(* held; it excludes nobody in the process. So is ctx: main never cancels  *)
(* it before the process ends.                                             *)
(***************************************************************************)
EXTENDS Integers, FiniteSets

CONSTANTS
  Channels,    (* channels, each with its slug                             *)
  Sources,     (* remote M3U sources                                       *)
  Carries,     (* the channels a source may list                           *)
  NoFile,      (* a source file that does not exist                        *)
  MaxTime,     (* bound: seconds that pass                                 *)
  MaxRequests, (* bound: UpdateSources calls that wait at one time         *)
  MaxRuns,     (* bound: runs of the processor                             *)
  MaxFaults,   (* bound: failing file operations                           *)
  MaxCrashes   (* bound: crashes of the process                            *)

ASSUME PublishAssumption ==
  /\ Carries \in [Sources -> SUBSET Channels]
  /\ \A file \in SUBSET Channels : NoFile # file
  /\ MaxTime \in Nat /\ MaxRequests \in Nat /\ MaxRuns \in Nat
  /\ MaxFaults \in Nat /\ MaxCrashes \in Nat

VARIABLES
  (* On disk *)
  playlists,  (* DATA_PATH/processed: [id, channels], id a time            *)
  tmp,        (* whether the .tmp file of the run exists                   *)
  cur, new,   (* the slug files in DATA_PATH/slugs and new-slugs           *)
  cache,      (* the last good download of every source                    *)
  fresh,      (* its .new file                                             *)
  (* In memory *)
  path,       (* processedPath of the M3U handler: an id, or 0             *)
  boot,       (* how far updater.Initialize has come                       *)
  bootPath,   (* its latestM3u                                             *)
  requests,   (* UpdateSources calls waiting for the mutex                 *)
  run,        (* the one that holds it                                     *)
  reader,     (* one DecodeSlug call                                       *)
  (* Bounds and history *)
  time, runs, faults, crashes,
  published,  (* the id of the playlist renamed last                       *)
  partial,    (* its slugs have not been copied to the end                 *)
  lost,       (* slugs of it may be missing: writing, copying or renaming  *)
              (* failed, or a failed run removed what was not yet copied   *)
  stray       (* path may be wrong, see SetProcessedPath and BootClear     *)

diskVars == <<playlists, tmp, cur, new, cache, fresh>>
memVars == <<path, boot, bootPath, requests>>
bounds == <<time, runs, faults, crashes>>
history == <<published, partial, lost, stray>>
vars == <<diskVars, memVars, run, reader, bounds, history>>

NoSlugs == [ch \in Channels |-> "none"]
NoRun == [pc |-> "idle", id |-> 0, todo |-> {}, channels |-> {}, critical |-> FALSE,
          lossy |-> FALSE, missing |-> FALSE]
NoReader == [pc |-> "idle", channel |-> "none", overlap |-> FALSE]

(* A run is lossy once one of its slugs could not be written; its playlist *)
(* is missing if it could not be renamed or was removed.                   *)

Init ==
  /\ playlists = {} /\ tmp = FALSE
  /\ cur = NoSlugs /\ new = NoSlugs
  /\ cache = [s \in Sources |-> NoFile] /\ fresh = [s \in Sources |-> NoFile]
  /\ path = 0 /\ boot = "discovery" /\ bootPath = 0 /\ requests = 0
  /\ run = NoRun /\ reader = NoReader
  /\ time = 1 /\ runs = 0 /\ faults = 0 /\ crashes = 0
  /\ published = 0 /\ partial = FALSE /\ lost = FALSE /\ stray = FALSE

-----------------------------------------------------------------------------
Ids == {p.id : p \in playlists}

(* GetLatestProcessedM3UPath: the last name in order; 0 where it fails.    *)
Latest == IF Ids = {} THEN 0 ELSE CHOOSE i \in Ids : \A j \in Ids : j <= i
Listed(id) == UNION {p.channels : p \in {q \in playlists : q.id = id}}

(* The slug file DecodeSlug takes.                                         *)
Found(ch) == IF cur[ch] # "none" THEN cur[ch] ELSE new[ch]

(* What is left of the files that were being written.                      *)
Settle(files) ==
  [ch \in Channels |-> IF files[ch] = "torn" THEN "broken" ELSE files[ch]]

Fault == /\ faults < MaxFaults
         /\ faults' = faults + 1
         /\ UNCHANGED <<time, runs, crashes>>
NoFault == UNCHANGED bounds

(* Names of result files are local times in seconds: two runs may share    *)
(* one, and a later run may have a smaller one (main sets the time zone    *)
(* after updater.Initialize).                                              *)
Tick ==
  /\ time' \in 1..MaxTime /\ time' # time
  /\ UNCHANGED <<diskVars, memVars, run, reader, runs, faults, crashes, history>>

-----------------------------------------------------------------------------
(* updater.Initialize. discovery.Initialize has started the discovery jobs *)
(* first, so that their requests may come while it goes on.                *)

(* CLEAR_ON_BOOT: ClearProcessedM3Us removes the processed directory, with *)
(* the files of a run that has already started, or what can be removed.    *)
BootClear ==
  /\ boot = "discovery"
  /\ \/ NoFault /\ playlists' = {} /\ tmp' = FALSE
     \/ Fault /\ playlists' \in SUBSET playlists /\ tmp' \in {FALSE, tmp}
  /\ run' = [run EXCEPT !.missing = run.pc # "idle"]
  /\ stray' = (stray \/ path # 0 \/ playlists' # {})
  /\ boot' = "ready"
  /\ UNCHANGED <<cur, new, cache, fresh, path, bootPath, requests, reader,
                 published, partial, lost>>

BootLatest ==
  /\ boot = "discovery"
  /\ bootPath' = Latest
  /\ boot' = "latest"
  /\ UNCHANGED <<diskVars, path, requests, run, reader, bounds, history>>

BootSetPath ==
  /\ boot = "latest"
  /\ path' = IF bootPath = 0 THEN path ELSE bootPath
  /\ boot' = "ready"
  /\ UNCHANGED <<diskVars, bootPath, requests, run, reader, bounds, history>>

(* SYNC_ON_BOOT; the cron entry is started at the same time.               *)
BootSync ==
  /\ boot = "ready"
  /\ boot' = "done"
  /\ requests' \in {requests, requests + 1} \intersect (0..MaxRequests)
  /\ UNCHANGED <<diskVars, path, bootPath, run, reader, bounds, history>>

(* The cron entry, or a discovery job whose sources changed.               *)
Request ==
  /\ requests < MaxRequests
  /\ requests' = requests + 1
  /\ UNCHANGED <<diskVars, path, boot, bootPath, run, reader, bounds, history>>

-----------------------------------------------------------------------------
(* UpdateSources: one run at a time. *)

(* NewProcessor creates the .tmp file.                                     *)
NewProcessor ==
  /\ run.pc = "idle" /\ requests > 0 /\ runs < MaxRuns
  /\ requests' = requests - 1
  /\ runs' = runs + 1
  /\ tmp' = TRUE
  /\ run' = [NoRun EXCEPT !.pc = "download", !.id = time, !.todo = Sources]
  /\ UNCHANGED <<playlists, cur, new, cache, fresh, path, boot, bootPath, reader,
                 time, faults, crashes, history>>

(* streamDownloadM3USources for one source and handleDownloaded: a good    *)
(* answer is copied to the .new file while it is read; one that breaks off *)
(* is no different, it just lists fewer channels. Without an M3U answer    *)
(* the previous download is used, if there is one.                         *)
Download(s) ==
  /\ run.pc = "download" /\ s \in run.todo
  /\ \E content \in SUBSET Carries[s], ok \in BOOLEAN :
       LET got == IF ok THEN content ELSE cache[s]
       IN /\ ~ok => content = {}
          /\ fresh' = [fresh EXCEPT ![s] = IF ok THEN content ELSE @]
          /\ run' = [run EXCEPT !.todo = @ \ {s},
                                !.channels = IF got = NoFile THEN @ ELSE @ \union got]
  /\ UNCHANGED <<playlists, tmp, cur, new, cache, memVars, reader, history>>
  /\ NoFault

(* All sources are read; the channels are compiled in order. A stream that *)
(* could not be added to the sorter is a critical error, which does not    *)
(* stop the run; so is a sorter that cannot be read, which ends it.        *)
Compile ==
  /\ run.pc = "download" /\ run.todo = {}
  /\ \/ NoFault /\ run' = [run EXCEPT !.pc = "compile", !.todo = run.channels]
     \/ Fault /\ run' = [run EXCEPT !.pc = "compile", !.todo = run.channels,
                                     !.critical = TRUE]
     \/ Fault /\ run' = [run EXCEPT !.pc = "fail", !.critical = TRUE]
  /\ UNCHANGED <<diskVars, memVars, reader, history>>

(* formatStreamEntry: EncodeSlug writes the slug files one after the other *)
(* into new-slugs, each first opened empty, then filled. A failure is only *)
(* logged.                                                                 *)
EncodeSlug(ch) ==
  /\ run.pc = "compile" /\ ch \in run.todo
  /\ \A other \in Channels \ {ch} : new[other] # "torn"
  /\ \/ /\ new[ch] # "torn"
        /\ new' = [new EXCEPT ![ch] = "torn"]
        /\ UNCHANGED run
        /\ NoFault
     \/ /\ new[ch] = "torn"
        /\ new' = [new EXCEPT ![ch] = "ok"]
        /\ run' = [run EXCEPT !.todo = @ \ {ch}]
        /\ NoFault
     \/ /\ new' = Settle(new)
        /\ run' = [run EXCEPT !.todo = @ \ {ch}, !.lossy = TRUE]
        /\ Fault
  /\ UNCHANGED <<playlists, tmp, cur, cache, fresh, memVars, reader, history>>

(* The playlist is flushed into the .tmp file and closed; or that fails,   *)
(* which is a critical error.                                              *)
Flush ==
  /\ run.pc = "compile" /\ run.todo = {}
  /\ \/ NoFault /\ run' = [run EXCEPT !.pc = IF run.critical THEN "fail" ELSE "rename"]
     \/ Fault /\ run' = [run EXCEPT !.pc = "fail", !.critical = TRUE]
  /\ UNCHANGED <<diskVars, memVars, reader, history>>

(* Wait, after a critical error: the .tmp file is removed.                 *)
RemoveTmp ==
  /\ run.pc = "fail"
  /\ \/ tmp' = FALSE /\ NoFault
     \/ UNCHANGED tmp /\ Fault
  /\ run' = [run EXCEPT !.pc = "clean"]
  /\ UNCHANGED <<playlists, cur, new, cache, fresh, memVars, reader, history>>

(* cleanFailedRemoteFiles removes the downloads, as far as it can,         *)
CleanDownloads ==
  /\ run.pc = "clean"
  /\ \/ /\ \E s \in Sources : /\ fresh[s] # NoFile
                              /\ fresh' = [fresh EXCEPT ![s] = NoFile]
        /\ UNCHANGED run
        /\ NoFault
     \/ /\ run' = [run EXCEPT !.pc = "unslug"]
        /\ UNCHANGED fresh
        /\ IF \A s \in Sources : fresh[s] = NoFile THEN NoFault ELSE Fault
  /\ UNCHANGED <<playlists, tmp, cur, new, cache, memVars, reader, history>>

(* Faulty variant: the current slugs are removed.                          *)
CleanFailedCurrent ==
  /\ run.pc = "unslug"
  /\ \/ /\ \E ch \in Channels : cur[ch] # "none" /\ cur' = [cur EXCEPT ![ch] = "none"]
        /\ UNCHANGED run
        /\ NoFault
     \/ /\ run' = [run EXCEPT !.pc = "result", !.id = 0]
        /\ UNCHANGED cur
        /\ IF cur = NoSlugs THEN NoFault ELSE Fault
  /\ UNCHANGED <<playlists, tmp, new, cache, fresh, memVars, reader, history>>

(* then new-slugs, also where it holds slugs that an earlier run published *)
(* and did not copy.                                                       *)
CleanFailed ==
  /\ run.pc = "unslug"
  /\ \/ /\ \E ch \in Channels : new[ch] # "none" /\ new' = [new EXCEPT ![ch] = "none"]
        /\ lost' = IF partial THEN TRUE ELSE lost
        /\ UNCHANGED run
        /\ NoFault
     \/ /\ run' = [run EXCEPT !.pc = "result", !.id = 0]
        /\ UNCHANGED <<new, lost>>
        /\ IF new = NoSlugs THEN NoFault ELSE Fault
  /\ UNCHANGED <<playlists, tmp, cur, cache, fresh, memVars, reader, published,
                 partial, stray>>

(* A DecodeSlug call in progress now overlaps the publication.             *)
Overlap == reader' = [reader EXCEPT !.overlap = reader.pc # "idle"]

(* Wait, otherwise: the .tmp file becomes the playlist. A failure is only  *)
(* logged, and the run goes on as if it were there.                        *)
Rename ==
  /\ run.pc = "rename"
  /\ \/ /\ tmp
        /\ playlists' = {p \in playlists : p.id # run.id}
             \union {[id |-> run.id, channels |-> run.channels]}
        /\ tmp' = FALSE
        /\ run' = [run EXCEPT !.pc = "caches", !.todo = Sources, !.missing = FALSE]
        /\ published' = run.id /\ partial' = TRUE /\ lost' = run.lossy
        /\ NoFault
     \/ /\ run' = [run EXCEPT !.pc = "caches", !.todo = Sources, !.missing = TRUE]
        /\ lost' = TRUE
        /\ IF tmp THEN Fault ELSE NoFault
        /\ UNCHANGED <<playlists, tmp, published, partial>>
  /\ Overlap
  /\ UNCHANGED <<cur, new, cache, fresh, memVars, stray>>

-----------------------------------------------------------------------------
(* applyNewRemoteFiles. *)
Publishing == run.pc \in {"caches", "clear", "copy", "remove"}

(* The .new file of a source replaces the previous download.               *)
ApplyCache(s) ==
  /\ run.pc = "caches" /\ s \in run.todo
  /\ run' = [run EXCEPT !.todo = @ \ {s}]
  /\ \/ /\ NoFault
        /\ cache' = [cache EXCEPT ![s] = IF fresh[s] = NoFile THEN @ ELSE fresh[s]]
        /\ fresh' = [fresh EXCEPT ![s] = NoFile]
     \/ fresh[s] # NoFile /\ Fault /\ UNCHANGED <<cache, fresh>>
  /\ Overlap
  /\ UNCHANGED <<playlists, tmp, cur, new, memVars, history>>

(* Without a directory for the current slugs they are not published.       *)
EnsureSlugDir ==
  /\ run.pc = "caches" /\ run.todo = {}
  /\ \/ NoFault /\ run' = [run EXCEPT !.pc = "clear"]
     \/ Fault /\ run' = [run EXCEPT !.pc = "old"]
  /\ Overlap
  /\ UNCHANGED <<diskVars, memVars, history>>

(* clearDirFiles removes the current slugs one by one and stops when one   *)
(* cannot be removed.                                                      *)
ClearSlug ==
  /\ run.pc = "clear"
  /\ \/ /\ \E ch \in Channels : cur[ch] # "none" /\ cur' = [cur EXCEPT ![ch] = "none"]
        /\ UNCHANGED run
        /\ NoFault
     \/ /\ run' = [run EXCEPT !.pc = "copy", !.todo = {ch \in Channels : new[ch] # "none"}]
        /\ UNCHANGED cur
        /\ IF cur = NoSlugs THEN NoFault ELSE Fault
  /\ Overlap
  /\ UNCHANGED <<playlists, tmp, new, cache, fresh, memVars, history>>

(* copyDirContents copies every file of new-slugs, whichever run wrote it, *)
(* one after the other, and stops when one cannot be copied.               *)
CopySlug ==
  /\ run.pc = "copy"
  /\ \/ /\ \E ch \in run.todo :
             /\ \A other \in Channels \ {ch} : cur[other] # "torn"
             /\ IF cur[ch] = "torn"
                THEN /\ cur' = [cur EXCEPT ![ch] = new[ch]]
                     /\ run' = [run EXCEPT !.todo = @ \ {ch}]
                ELSE /\ cur' = [cur EXCEPT ![ch] = "torn"]
                     /\ UNCHANGED run
        /\ UNCHANGED <<partial, lost>>
        /\ NoFault
     \/ /\ run.todo = {}
        /\ run' = [run EXCEPT !.pc = "remove"]
        /\ partial' = FALSE
        /\ UNCHANGED <<cur, lost>>
        /\ NoFault
     \/ /\ run.todo # {}
        /\ run' = [run EXCEPT !.pc = "remove"]
        /\ cur' = Settle(cur)
        /\ lost' = TRUE
        /\ UNCHANGED partial
        /\ Fault
  /\ Overlap
  /\ UNCHANGED <<playlists, tmp, new, cache, fresh, memVars, published, stray>>

(* Faulty variant: new-slugs is removed before it is copied.               *)
RemoveNewSlugsEarly ==
  /\ run.pc \in {"copy", "remove"}
  /\ new' = NoSlugs
  /\ run' = [run EXCEPT !.pc = "old", !.todo = {}]
  /\ Overlap
  /\ UNCHANGED <<playlists, tmp, cur, cache, fresh, memVars, history>>
  /\ NoFault

(* os.RemoveAll of new-slugs, or what of it can be removed.                *)
RemoveNewSlugs ==
  /\ run.pc = "remove"
  /\ \/ /\ \E ch \in Channels : new[ch] # "none" /\ new' = [new EXCEPT ![ch] = "none"]
        /\ UNCHANGED run
        /\ NoFault
     \/ /\ run' = [run EXCEPT !.pc = "old", !.todo = {}]
        /\ UNCHANGED new
        /\ IF new = NoSlugs THEN NoFault ELSE Fault
  /\ Overlap
  /\ UNCHANGED <<playlists, tmp, cur, cache, fresh, memVars, history>>

-----------------------------------------------------------------------------
(* Faulty variant: the name that is kept is the one of the .tmp file.      *)
ClearOldResultsByTmp ==
  /\ run.pc = "old"
  /\ playlists' = {}
  /\ run' = [run EXCEPT !.pc = "result"]
  /\ UNCHANGED <<tmp, cur, new, cache, fresh, memVars, reader, history>>
  /\ NoFault

(* clearOldResults: every other file of the processed directory is removed *)
(* in the order of the names, a .tmp file that could not be renamed too,   *)
(* until one cannot be.                                                    *)
ClearOldResults ==
  LET others == {p \in playlists : p.id # run.id}
  IN /\ run.pc = "old"
     /\ \/ /\ \E p \in others : /\ \A q \in others : p.id <= q.id
                                /\ playlists' = playlists \ {p}
           /\ UNCHANGED <<tmp, run>>
           /\ NoFault
        \/ /\ tmp /\ tmp' = FALSE
           /\ UNCHANGED <<playlists, run>>
           /\ NoFault
        \/ /\ run' = [run EXCEPT !.pc = "result"]
           /\ UNCHANGED <<playlists, tmp>>
           /\ IF others = {} /\ ~tmp THEN NoFault ELSE Fault
     /\ UNCHANGED <<cur, new, cache, fresh, memVars, reader, history>>

(* SetProcessedPath(GetResultPath()): the playlist of the run or, after a  *)
(* failure, the latest one there is. Initialize may be about to set the    *)
(* path it read before.                                                    *)
SetProcessedPath ==
  /\ run.pc = "result"
  /\ path' = IF run.id = 0 THEN Latest ELSE run.id
  /\ stray' = IF boot = "latest" THEN stray \/ run.id # 0
              ELSE run.id # 0 /\ run.missing
  /\ run' = NoRun
  /\ UNCHANGED <<diskVars, boot, bootPath, requests, reader, bounds, published,
                 partial, lost>>

-----------------------------------------------------------------------------
(* A client resolves a channel of the playlist it was served, before or    *)
(* while the next one is published.                                        *)
DecodeStart ==
  /\ reader.pc = "idle" /\ path # 0
  /\ \E ch \in Listed(path) :
       reader' = [pc |-> "current", channel |-> ch,
                  overlap |-> Publishing \/ run.pc \in {"old", "result"}
                              \/ path # published]
  /\ UNCHANGED <<diskVars, memVars, run, history>>
  /\ NoFault

(* Faulty variant: the new slug is read first.                             *)
DecodeReadNewFirst ==
  LET dir == IF reader.pc = "current" THEN new ELSE cur
      found == dir[reader.channel]
  IN /\ reader.pc \in {"current", "new"}
     /\ reader' = [reader EXCEPT !.pc =
                     IF found = "ok" THEN "found"
                     ELSE IF found = "none" /\ reader.pc = "current" THEN "new"
                     ELSE "error"]
     /\ UNCHANGED <<diskVars, memVars, run, history>>
     /\ NoFault

(* DecodeSlug reads the current slug; if there is none, the new one. A     *)
(* file that is there is used, complete or not.                            *)
DecodeRead ==
  LET dir == IF reader.pc = "current" THEN cur ELSE new
      found == dir[reader.channel]
  IN /\ reader.pc \in {"current", "new"}
     /\ reader' = [reader EXCEPT !.pc =
                     IF found = "ok" THEN "found"
                     ELSE IF found = "none" /\ reader.pc = "current" THEN "new"
                     ELSE "error"]
     /\ UNCHANGED <<diskVars, memVars, run, history>>
     /\ NoFault

DecodeEnd ==
  /\ reader.pc \in {"found", "error"}
  /\ reader' = NoReader
  /\ UNCHANGED <<diskVars, memVars, run, history>>
  /\ NoFault

-----------------------------------------------------------------------------
(* The process ends, also because NewProcessor could not create its file   *)
(* and returned nil, and is started again. The disk is as it was.          *)
Crash ==
  /\ crashes < MaxCrashes
  /\ crashes' = crashes + 1
  /\ path' = 0 /\ boot' = "discovery" /\ bootPath' = 0 /\ requests' = 0
  /\ run' = NoRun /\ reader' = NoReader
  /\ cur' = Settle(cur) /\ new' = Settle(new)
  /\ stray' = FALSE
  /\ UNCHANGED <<playlists, tmp, cache, fresh, time, runs, faults, published,
                 partial, lost>>

BootStep == BootClear \/ BootLatest \/ BootSetPath \/ BootSync

RunStep ==
  \/ NewProcessor \/ (\E s \in Sources : Download(s)) \/ Compile
  \/ (\E ch \in Channels : EncodeSlug(ch)) \/ Flush
  \/ RemoveTmp \/ CleanDownloads \/ CleanFailed
  \/ Rename \/ (\E s \in Sources : ApplyCache(s)) \/ EnsureSlugDir
  \/ ClearSlug \/ CopySlug \/ RemoveNewSlugs \/ ClearOldResults
  \/ SetProcessedPath

Decode == DecodeStart \/ DecodeRead \/ DecodeEnd

Next == BootStep \/ Request \/ Tick \/ RunStep \/ Decode \/ Crash

Spec == Init /\ [][Next]_vars

-----------------------------------------------------------------------------
(* The playlist published last, if there is one, has the last name. It has *)
(* not while the clock was set back and older files are still there.       *)
InOrder == Ids = {} \/ (published \in Ids /\ \A i \in Ids : i <= published)

(* The slug of a channel is being written, for the run in progress.        *)
Writing(ch) ==
  /\ ch \in run.todo
  /\ \/ run.pc = "copy" /\ cur[ch] = "torn"
     \/ run.pc = "compile" /\ new[ch] = "torn"

(* At any moment, after a crash and a restart too, and through the next    *)
(* runs, DecodeSlug resolves every channel of the latest playlist, but for *)
(* files cut off in the middle: at most one for every crash and every      *)
(* failing write. No slug file is missing, as long as no run has failed    *)
(* after an interrupted publication and no operation of the publication    *)
(* itself has failed.                                                      *)
LatestResolvable ==
  InOrder /\ ~lost =>
    LET unresolved == {ch \in Listed(Latest) : Found(ch) # "ok" /\ ~Writing(ch)}
    IN  /\ \A ch \in unresolved : Found(ch) = "broken"
        /\ Cardinality(unresolved) <= crashes + faults

(* "Revalidation failed, keeping old data": when a run has failed, the     *)
(* slugs of the latest playlist are still there.                           *)
FailedRunKeepsSlugs ==
  run.pc = "result" /\ run.id = 0 =>
    \A ch \in Listed(Latest) : Found(ch) # "none"

(* Until a run publishes the next one, the handler serves the latest       *)
(* playlist, and it exists. The exceptions: a run that ended between the   *)
(* two steps of updater.Initialize, a boot that cleared what a run had     *)
(* published, or could not, and a playlist that could not be renamed.      *)
ServesLatest ==
  /\ InOrder /\ ~stray
  /\ run.pc \in {"idle", "download", "compile", "rename", "fail", "clean", "unslug"}
  /\ boot \in {"ready", "done"}
  => path = Latest

(* A channel of the served playlist can be resolved by DecodeSlug whenever *)
(* no publication overlaps the call and the last one was completed: the    *)
(* slugs of a run in progress, or of one that failed, do not show.         *)
DecodeFinds ==
  reader.pc = "error" => reader.overlap \/ partial \/ lost

(* A run changes what was published before only once it cannot fail any    *)
(* more; until then the playlists, their slugs and the previous downloads  *)
(* stay as they are. (What the log calls "keeping old data"; see           *)
(* FailedRunKeepsSlugs for slugs that are in new-slugs only.)              *)
FailureKeepsOldData ==
  [][/\ playlists' # playlists => run.pc \in {"rename", "old"} \/ boot = "discovery"
     /\ cur' # cur \/ cache' # cache => Publishing
     /\ run.critical => UNCHANGED <<cur, cache>>]_vars
=============================================================================

------------------------------ MODULE Discovery ------------------------------
(***************************************************************************)
(* The discovery manager (discovery/manager.go) with the part of the       *)
(* updater it drives: jobs read from the environment scan a web site for   *)
(* playlists, publish what they find as dynamic sources                    *)
(* (utils.SetDynamicSources) and ask for a rebuild of the playlist.        *)
(*                                                                         *)
(* The first scans run one after the other inside Initialize; then every   *)
(* job has a goroutine of its own. m.mu protects the maps, except that     *)
(* refreshJob reads sourceOverrides without it. Requests and crawling are  *)
(* external: what a site links to and answers may be different every time. *)
(***************************************************************************)
EXTENDS Integers, FiniteSets, Sequences

CONSTANTS
  Configs,         (* possible DISCOVERY_JOB_<n> lists: sequences of       *)
                   (* [valid, id, enabled, start, follow, max]             *)
  DefaultID,       (* the number of a job as its id                        *)
  Upper,           (* strings.ToUpper on ids                               *)
  Prefix,          (* an upper-case id up to its first underscore          *)
  URLs,
  Final,           (* the URL a request for a URL ends at                  *)
  Hash,            (* of the lower-cased URL: equal for URLs that differ   *)
                   (* in case                                              *)
  PlaylistURLs,    (* isCandidatePlaylistURL                               *)
  SiteURLs,        (* of the host of the start URL                         *)
  Disallowed,      (* by robots.txt                                        *)
  EnvOverrides,    (* DISCOVERED_SOURCE_CONFIG_<n>: a function from        *)
                   (* indexes to BOOLEAN (enabled)                         *)
  DefaultMaxPages,
  MaxJobs,         (* bound: jobs in the environment                       *)
  MaxScans,        (* bound: scans of a job after the first                *)
  MaxRequests      (* bound: rebuilds asked for by cron                    *)

IDs == DOMAIN Upper
Slots == 1..MaxJobs
NoJob == 0

(* Job, as it is parsed; an id may be left out.                            *)
JobType == [valid : BOOLEAN, id : IDs \union {""}, enabled : BOOLEAN, start : STRING,
            follow : BOOLEAN, max : Int]

ASSUME DiscoveryAssumption ==
  /\ MaxJobs \in Nat
  /\ Configs \subseteq Seq(JobType) /\ \A c \in Configs : Len(c) <= MaxJobs
  /\ DefaultID \in [Slots -> IDs]
  /\ Final \in [URLs -> URLs]
  /\ DefaultMaxPages \in Nat \ {0}
  /\ MaxScans \in Nat /\ MaxRequests \in Nat

VARIABLES
  raw,              (* the environment                                     *)
  jobs,             (* m.jobs                                              *)
  phase,            (* "start", "boot", "loops", "failed" or "crashed"     *)
  boot,             (* the job refreshAll is at                            *)
  changed,          (* its local of that name                              *)
  scan,             (* per job: [pc, robots, candidates, urls]             *)
  scans,            (* scans begun per job                                 *)
  found,            (* history: what the last complete scan of an id gave  *)
  hashByJob, sourcesByJob, sourceOverrides,
  lock,             (* the job that holds m.mu between two steps           *)
  dynamicSources,   (* a function from indexes to URLs                     *)
  waiting,          (* goroutines in UpdateSources that wait for its mutex *)
  requests,         (* rebuilds cron asked for                             *)
  updater,          (* "idle" or "run"                                     *)
  downloaded,       (* the sources the run downloads                       *)
  served,           (* the sources of the playlist                         *)
  failed,           (* the last run failed                                 *)
  cancelled         (* ctx                                                 *)

manager == <<hashByJob, sourcesByJob, sourceOverrides, lock, dynamicSources>>
updates == <<requests, updater, downloaded, served, failed>>
vars == <<raw, jobs, phase, boot, changed, scan, scans, found, manager, waiting,
          updates, cancelled>>

IdleScan == [pc |-> "idle", robots |-> FALSE, candidates |-> {}, urls |-> {}]
Empty == [i \in {} |-> {}]

Init ==
  /\ raw \in Configs /\ jobs = <<>>
  /\ phase = "start" /\ boot = 1 /\ changed = FALSE
  /\ scan = [k \in Slots |-> IdleScan] /\ scans = [k \in Slots |-> 0]
  /\ found = [i \in IDs |-> {}]
  /\ hashByJob = [i \in IDs |-> {}] /\ sourcesByJob = [i \in IDs |-> {}]
  /\ sourceOverrides = {} /\ lock = NoJob
  /\ dynamicSources = Empty
  /\ waiting = 0 /\ requests = 0
  /\ updater = "idle" /\ downloaded = {} /\ served = {} /\ failed = FALSE
  /\ cancelled = FALSE

-----------------------------------------------------------------------------
normalizeJob(job, n) ==
  [job EXCEPT !.id = IF @ = "" THEN DefaultID[n] ELSE @,
              !.max = IF @ < 1 THEN DefaultMaxPages ELSE @]

(* The jobs that are enabled and have a start URL, in their order.         *)
LoadJobsFromEnv ==
  LET kept == {n \in DOMAIN raw : raw[n].enabled /\ raw[n].start # ""}
      Nth(i) == CHOOSE n \in kept : Cardinality({m \in kept : m <= n}) = i
  IN [i \in 1..Cardinality(kept) |-> normalizeJob(raw[Nth(i)], Nth(i))]

(* Faulty variant: the id is not brought to upper case.                    *)
belongsToActiveJobsExactly(index, list) ==
  Prefix[index[1]] \in {list[k].id : k \in DOMAIN list}

(* discoveredSourceIndexBelongsToActiveJobs: what follows DISC_ up to the  *)
(* next underscore is compared with the ids.                               *)
belongsToActiveJobs(index, list) ==
  Prefix[index[1]] \in {Upper[list[k].id] : k \in DOMAIN list}

(* pruneStaleJobDataLocked, where the jobs never change: sourcesByJob and  *)
(* hashByJob have no other ids, and only overrides can be stale.           *)
pruneStaleJobData(list) ==
  {i \in DOMAIN EnvOverrides : belongsToActiveJobs(i, list)}

(* Initialize: one job that cannot be parsed fails the start of the        *)
(* server.                                                                 *)
Initialize ==
  /\ phase = "start"
  /\ IF \A n \in DOMAIN raw : raw[n].valid
     THEN /\ jobs' = LoadJobsFromEnv
          /\ phase' = "boot"
          /\ sourceOverrides' = IF jobs' = <<>> THEN pruneStaleJobData(jobs')
                                ELSE DOMAIN EnvOverrides
     ELSE /\ phase' = "failed"
          /\ UNCHANGED <<jobs, sourceOverrides>>
  /\ UNCHANGED <<raw, boot, changed, scan, scans, found, hashByJob, sourcesByJob,
                 lock, dynamicSources, waiting, updates, cancelled>>

-----------------------------------------------------------------------------
(* startJobLoops: of the jobs with one id only the first has a goroutine.  *)
HasLoop(k) == \A j \in 1..(k - 1) : jobs[j].id # jobs[k].id

(* runJobLoop's ticker, and the loop of refreshAll; newCrawler refuses a   *)
(* start URL that is not http, loadRobots may fail.                        *)
BeginScan(k) ==
  /\ k \in DOMAIN jobs /\ scan[k].pc = "idle" /\ jobs[k].start = "http"
  /\ \/ phase = "boot" /\ boot = k
     \/ phase = "loops" /\ HasLoop(k) /\ scans[k] <= MaxScans
  /\ \E robots \in {FALSE, jobs[k].follow} :
       scan' = [scan EXCEPT ![k] = [IdleScan EXCEPT !.pc = "crawl", !.robots = robots]]
  /\ scans' = [scans EXCEPT ![k] = @ + 1]
  /\ UNCHANGED <<raw, jobs, phase, boot, changed, found, manager, waiting,
                 updates, cancelled>>

shouldVisitURL(u, robots) == u \in SiteURLs /\ (robots => u \notin Disallowed)
isCandidatePlaylistURL(u) == u \in PlaylistURLs

(* addCandidate, called for links of the sitemaps and, from several        *)
(* goroutines at once, for what the crawl meets; what does not fit under   *)
(* MaxPages is dropped, so that the order decides what is looked at.       *)
addCandidate(k, u) ==
  /\ scan[k].pc = "crawl" /\ phase # "crashed"
  /\ isCandidatePlaylistURL(u) \/ shouldVisitURL(u, scan[k].robots)
  /\ Cardinality(scan[k].candidates) < jobs[k].max
  /\ u \notin scan[k].candidates
  /\ scan' = [scan EXCEPT ![k].candidates = @ \union {u}]
  /\ UNCHANGED <<raw, jobs, phase, boot, changed, scans, found, manager, waiting,
                 updates, cancelled>>

(* The crawl ends, and every candidate is requested (validatePlaylist):    *)
(* those that answer with a playlist count, under the URL they were        *)
(* finally read from. Requests fail once ctx is cancelled.                 *)
Validate(k) ==
  /\ scan[k].pc = "crawl" /\ phase # "crashed"
  /\ \E valid \in SUBSET scan[k].candidates :
       /\ cancelled => valid = {}
       /\ scan' = [scan EXCEPT ![k] = [IdleScan EXCEPT
                     !.pc = "build", !.urls = {Final[u] : u \in valid}]]
  /\ UNCHANGED <<raw, jobs, phase, boot, changed, scans, found, manager, waiting,
                 updates, cancelled>>

-----------------------------------------------------------------------------
(* What refreshAll, and a loop, do with the outcome of refreshJob.         *)
Done(k, c) ==
  IF phase = "boot"
  THEN /\ boot' = boot + 1 /\ changed' = (changed \/ c)
       /\ scan' = [scan EXCEPT ![k] = IdleScan]
  ELSE /\ scan' = [scan EXCEPT ![k] =
                     [IdleScan EXCEPT !.pc = IF c THEN "notify" ELSE "idle"]]
       /\ UNCHANGED <<boot, changed>>

(* refreshJob fails: newCrawler or the crawl returns an error, and the     *)
(* sources found before stay.                                              *)
ScanFails(k) ==
  /\ phase # "crashed"
  /\ \/ scan[k].pc = "crawl"
     \/ k \in DOMAIN jobs /\ jobs[k].start # "http" /\ phase = "boot" /\ boot = k
  /\ Done(k, FALSE)
  /\ UNCHANGED <<raw, jobs, phase, scans, found, manager, waiting, updates,
                 cancelled>>

(* refreshJob reads sourceOverrides for every URL, without m.mu: while     *)
(* another job deletes from the map the runtime may end the process.       *)
ReadOverrides(k) ==
  /\ scan[k].pc = "build" /\ phase # "crashed"
  /\ \/ /\ scan' = [scan EXCEPT ![k].pc = "refresh"]
        /\ UNCHANGED phase
     \/ /\ lock \notin {NoJob, k} /\ scan[k].urls # {}
        /\ pruneStaleJobData(jobs) # DOMAIN EnvOverrides
        /\ phase' = "crashed"
        /\ UNCHANGED scan
  /\ UNCHANGED <<raw, jobs, boot, changed, scans, found, manager, waiting,
                 updates, cancelled>>

(* Faulty variant: the URLs are compared by their number.                  *)
sameFingerprintByCount(a, b) == Cardinality(a) = Cardinality(b)

(* fingerprintURLs: a job without an entry in hashByJob has the one of no  *)
(* URLs.                                                                   *)
sameFingerprint(a, b) == a = b

(* refreshJob takes m.mu and compares with the last scan of the id.        *)
refreshJob(k) ==
  LET id == jobs[k].id
      urls == scan[k].urls
  IN /\ phase # "crashed" /\ scan[k].pc = "refresh" /\ lock = NoJob
     /\ found' = [found EXCEPT ![id] = urls]
     /\ IF sameFingerprint(hashByJob[id], urls)
        THEN /\ Done(k, FALSE)
             /\ UNCHANGED manager
        ELSE /\ hashByJob' = [hashByJob EXCEPT ![id] = urls]
             /\ sourcesByJob' = [sourcesByJob EXCEPT ![id] = urls]
             /\ sourceOverrides' = DOMAIN EnvOverrides
             /\ lock' = k
             /\ scan' = [scan EXCEPT ![k].pc = "publish"]
             /\ UNCHANGED <<boot, changed, dynamicSources>>
     /\ UNCHANGED <<raw, jobs, phase, scans, waiting, updates, cancelled>>

(* The URLs a job has under an index that is not disabled.                 *)
buildDynamicSourceIndex(job, u) == <<Upper[job.id], Hash[u]>>

Enabled(index, overrides) == index \in overrides => EnvOverrides[index]

Combined(k, overrides) ==
  {s \in {[index |-> buildDynamicSourceIndex(jobs[k], u), url |-> u] :
            u \in sourcesByJob[jobs[k].id]} : Enabled(s.index, overrides)}

(* SetDynamicSources: of the sources with one index the first stays; those *)
(* of one job are sorted by their index, in any order if it is the same.   *)
SetDynamicSources(sourcesOf) ==
  LET all == UNION {sourcesOf[k] : k \in DOMAIN jobs}
      indexes == {s.index : s \in all}
      HasIndex(k, i) == \E s \in sourcesOf[k] : s.index = i
  IN {f \in [indexes -> {s.url : s \in all}] :
        \A i \in indexes : \E k \in DOMAIN jobs :
          /\ [index |-> i, url |-> f[i]] \in sourcesOf[k]
          /\ \A j \in 1..(k - 1) : ~HasIndex(j, i)}

(* publishDynamicSourcesLocked, after the overrides were loaded again; the *)
(* lock is released.                                                       *)
publishDynamicSources(k) ==
  LET kept == pruneStaleJobData(jobs)
  IN /\ phase # "crashed" /\ lock = k /\ scan[k].pc = "publish"
     /\ sourceOverrides' = kept
     /\ dynamicSources' \in
          SetDynamicSources([j \in DOMAIN jobs |-> Combined(j, kept)])
     /\ lock' = NoJob
     /\ Done(k, TRUE)
     /\ UNCHANGED <<raw, jobs, phase, scans, found, hashByJob, sourcesByJob,
                    waiting, updates, cancelled>>

(* Faulty variant: a request is dropped when a rebuild is running.         *)
onSourcesChangedDropped == waiting' = IF updater = "run" THEN waiting ELSE waiting + 1

(* go m.onSourcesChanged() *)
onSourcesChanged == waiting' = waiting + 1

Notify(k) ==
  /\ phase # "crashed" /\ scan[k].pc = "notify"
  /\ scan' = [scan EXCEPT ![k] = IdleScan]
  /\ onSourcesChanged
  /\ UNCHANGED <<raw, jobs, phase, boot, changed, scans, found, manager, updates,
                 cancelled>>

(* refreshAll ends, the loops start, and updater.Initialize goes on.       *)
EndBoot ==
  /\ phase = "boot" /\ boot > Len(jobs)
  /\ phase' = "loops" /\ changed' = FALSE
  /\ IF changed THEN onSourcesChanged ELSE UNCHANGED waiting
  /\ UNCHANGED <<raw, jobs, boot, scan, scans, found, manager, updates, cancelled>>

-----------------------------------------------------------------------------
(* SYNC_ON_BOOT, or cron.                                                  *)
Request ==
  /\ phase = "loops" /\ requests < MaxRequests
  /\ requests' = requests + 1 /\ waiting' = waiting + 1
  /\ UNCHANGED <<raw, jobs, phase, boot, changed, scan, scans, found, manager,
                 updater, downloaded, served, failed, cancelled>>

(* Faulty variant: a run that fails returns without releasing the mutex.   *)
UpdateSourcesLocked ==
  /\ phase # "crashed" /\ waiting > 0 /\ updater = "idle" /\ ~failed
  /\ waiting' = waiting - 1
  /\ updater' = "run" /\ downloaded' = DOMAIN dynamicSources
  /\ UNCHANGED <<raw, jobs, phase, boot, changed, scan, scans, found, manager,
                 requests, served, failed, cancelled>>

(* UpdateSources gets its mutex and downloads the sources there are.       *)
UpdateSources ==
  /\ phase # "crashed" /\ waiting > 0 /\ updater = "idle"
  /\ waiting' = waiting - 1
  /\ IF cancelled
     THEN failed' = TRUE /\ UNCHANGED <<updater, downloaded>>
     ELSE /\ updater' = "run" /\ downloaded' = DOMAIN dynamicSources
          /\ UNCHANGED failed
  /\ UNCHANGED <<raw, jobs, phase, boot, changed, scan, scans, found, manager,
                 requests, served, cancelled>>

(* compileM3U looks at the configured sources again: what is no longer one *)
(* is left out.                                                            *)
RunEnds ==
  /\ phase # "crashed" /\ updater = "run"
  /\ updater' = "idle" /\ served' = downloaded \intersect DOMAIN dynamicSources
  /\ downloaded' = {} /\ failed' = FALSE
  /\ UNCHANGED <<raw, jobs, phase, boot, changed, scan, scans, found, manager,
                 waiting, requests, cancelled>>

(* A run that fails keeps the old playlist, and is not tried again.        *)
RunFails ==
  /\ phase # "crashed" /\ updater = "run"
  /\ updater' = "idle" /\ downloaded' = {} /\ failed' = TRUE
  /\ UNCHANGED <<raw, jobs, phase, boot, changed, scan, scans, found, manager,
                 waiting, requests, served, cancelled>>

(* The server is shut down; a tick that is due may still be taken.         *)
Cancel ==
  /\ phase # "crashed" /\ ~cancelled
  /\ cancelled' = TRUE
  /\ UNCHANGED <<raw, jobs, phase, boot, changed, scan, scans, found, manager,
                 waiting, updates>>

Job(k) ==
  \/ BeginScan(k) \/ Validate(k) \/ ScanFails(k) \/ ReadOverrides(k)
  \/ refreshJob(k) \/ publishDynamicSources(k) \/ Notify(k)
  \/ \E u \in URLs : addCandidate(k, u)

Run == UpdateSources \/ RunEnds \/ RunFails

Next ==
  \/ Initialize \/ EndBoot \/ Request \/ Cancel \/ Run
  \/ \E k \in Slots : Job(k)

Spec == Init /\ [][Next]_vars

(* Goroutines make progress; nothing makes the ticker fire here. A run     *)
(* need not end: it downloads the sources without a context, and           *)
(* HTTPClient has no timeout.                                              *)
FairSpec ==
  /\ Spec /\ WF_vars(EndBoot) /\ WF_vars(UpdateSources)
  /\ \A k \in Slots : WF_vars(Notify(k))

-----------------------------------------------------------------------------
(* What is published is what the last complete scans found, whatever scans *)
(* failed, found nothing new or ended at the same time, and whichever of   *)
(* the jobs with the same id ended last: no source of theirs is missing    *)
(* but the disabled ones, and none is of an earlier scan.                  *)
PublishedIsFound ==
  lock = NoJob =>
    DOMAIN dynamicSources =
      {i \in {<<Upper[jobs[k].id], Hash[u]>> : k \in DOMAIN jobs, u \in URLs} :
         /\ Enabled(i, pruneStaleJobData(jobs))
         /\ \E k \in DOMAIN jobs : \E u \in found[jobs[k].id] :
              i = <<Upper[jobs[k].id], Hash[u]>>}

(* A source the user disabled is never published, unless the id of its job *)
(* has an underscore: then its override is taken for one of another job.   *)
DisabledStaysOut ==
  \A i \in DOMAIN dynamicSources \intersect DOMAIN EnvOverrides :
    EnvOverrides[i] \/ Prefix[i[1]] # i[1]

(* A change that is not yet in the playlist and has not reached the        *)
(* updater.                                                                *)
ToNotify == \/ changed \/ lock # NoJob
            \/ \E k \in Slots : scan[k].pc = "notify"

(* No change is lost between discovery and the updater: when nothing is    *)
(* left to be told or to be rebuilt, and the last rebuild did not fail,    *)
(* the playlist has exactly the published sources. It needs a rebuild for  *)
(* every change, those that come while one is running included.            *)
PlaylistFollows ==
  phase # "crashed" /\ ~ToNotify /\ waiting = 0 /\ updater = "idle" /\ ~failed =>
    served = DOMAIN dynamicSources

Unserved == waiting > 0 \/ \E k \in Slots : scan[k].pc = "notify"

(* Every change is told to the updater, and every request served, unless   *)
(* the process dies or a run hangs in a download: it keeps the mutex, and  *)
(* all later requests wait for ever.                                       *)
ChangesAreServed ==
  \/ Unserved ~> (~Unserved /\ updater = "idle") \/ phase = "crashed"
  \/ <>[](updater = "run")
=============================================================================

--------------------------- MODULE DiscoveryProofs ---------------------------
(***************************************************************************)
(* Proofs about Discovery for any number of jobs, any ids and URLs, any    *)
(* overrides and any answers of the sites.                                 *)
(*                                                                         *)
(* What is published rests on found, hashByJob and sourcesByJob being the  *)
(* same at every step; that the playlist follows rests on every change     *)
(* being in one of four places until a run has downloaded it: changed, a   *)
(* job about to notify, the lock, or a request that waits.                 *)
(***************************************************************************)
EXTENDS Discovery, FiniteSetTheorems, WellFoundedInduction, TLAPS

(* A scan of a job.                                                        *)
ScanType ==
  [pc : {"idle", "crawl", "build", "refresh", "publish", "notify"},
   robots : BOOLEAN, candidates : SUBSET URLs, urls : SUBSET URLs]

(* The types the argument needs.                                           *)
Types ==
  /\ raw \in Configs
  /\ \A k \in DOMAIN jobs : jobs[k] \in JobType /\ jobs[k].id \in IDs
  /\ scan \in [Slots -> ScanType]
  /\ found \in [IDs -> SUBSET URLs]
  /\ waiting \in Nat /\ changed \in BOOLEAN /\ updater \in {"idle", "run"}

(* No scan before the jobs are loaded, and none of refreshAll notifies.    *)
Phases ==
  /\ \A k \in Slots :
       /\ scan[k].pc # "idle" => phase \in {"boot", "loops", "crashed"}
       /\ scan[k].pc = "notify" => phase \in {"loops", "crashed"}
  /\ phase = "start" =>
       /\ found = [i \in IDs |-> {}] /\ DOMAIN dynamicSources = {}
       /\ lock = NoJob

(* The fingerprint and the sources of an id are those of its last scan.    *)
Same == hashByJob = found /\ sourcesByJob = found

(* When nothing waits to be told or rebuilt, a run has downloaded what is  *)
(* published, or the playlist has it.                                      *)
Follows ==
  phase # "crashed" /\ ~ToNotify /\ waiting = 0 =>
    /\ updater = "run" => downloaded = DOMAIN dynamicSources
    /\ updater = "idle" /\ ~failed => served = DOMAIN dynamicSources

(* The inductive invariant.                                                *)
IInv ==
  /\ Types /\ Phases /\ Same /\ PublishedIsFound /\ DisabledStaysOut /\ Follows

-----------------------------------------------------------------------------
(* A finite set of numbers has an i-th element.                            *)
LEMMA NthExists ==
  ASSUME NEW N \in Nat, NEW kept \in SUBSET (1..N), NEW i \in 1..Cardinality(kept)
  PROVE  \E n \in kept : Cardinality({m \in kept : m <= n}) = i
<1> DEFINE B(u) == {m \in kept : m <= u}
           D == {u \in Nat : Cardinality(B(u)) >= i}
<1>0. \A m \in kept : m \in Nat /\ 1 <= m /\ m <= N
  OBVIOUS
<1>1. IsFiniteSet(kept) /\ Cardinality(kept) \in Nat /\ i \in Nat /\ i # 0
  <2>1. IsFiniteSet(1..N)
    BY FS_Interval
  <2>2. IsFiniteSet(kept)
    BY <2>1, FS_Subset
  <2>3. Cardinality(kept) \in Nat
    BY <2>2, FS_CardinalityType
  <2> QED BY <2>2, <2>3
<1>2. ASSUME NEW u PROVE IsFiniteSet(B(u)) /\ Cardinality(B(u)) \in Nat
  <2>1. B(u) \in SUBSET kept
    OBVIOUS
  <2> HIDE DEF B
  <2>2. IsFiniteSet(B(u))
    BY <1>1, <2>1, FS_Subset
  <2> QED BY <2>2, FS_CardinalityType
<1>3. N \in D
  <2>1. B(N) = kept
    BY <1>0
  <2> QED BY <1>1, <2>1
<1>4. PICK u \in D : \A v \in D : <<v, u>> \notin OpToRel(<, Nat)
  <2>1. D \subseteq Nat /\ D # {}
    BY <1>3
  <2> HIDE DEF D
  <2> QED BY <2>1, WFMin, NatLessThanWellFounded
<1>5. u \in Nat /\ \A v \in D : ~(v < u)
  <2>1. u \in Nat /\ D \subseteq Nat
    OBVIOUS
  <2> HIDE DEF D
  <2> QED BY <1>4, <2>1 DEF OpToRel
<1>6. u # 0
  <2>0. \A m \in kept : ~(m <= 0)
    BY <1>0
  <2>1. B(0) = {}
    BY <2>0
  <2>2. Cardinality(B(0)) = 0
    BY <2>1, FS_EmptySet
  <2> QED BY <1>1, <2>2
<1>7. u - 1 \in Nat /\ Cardinality(B(u - 1)) < i
  <2>1. u - 1 \in Nat /\ u - 1 < u
    BY <1>5, <1>6
  <2>2. u - 1 \notin D
    BY <1>5, <2>1
  <2>3. ~(Cardinality(B(u - 1)) >= i)
    BY <2>1, <2>2
  <2>4. Cardinality(B(u - 1)) \in Nat
    BY <1>2
  <2> HIDE DEF B
  <2> QED BY <1>1, <2>1, <2>3, <2>4
<1>8. u \in kept
  <2> SUFFICES ASSUME u \notin kept PROVE FALSE
    OBVIOUS
  <2>1. \A m \in kept : m <= u <=> m <= u - 1
    BY <1>0, <1>5
  <2>2. B(u) = B(u - 1)
    BY <2>1
  <2>3. Cardinality(B(u)) >= i
    OBVIOUS
  <2>4. Cardinality(B(u - 1)) \in Nat
    BY <1>2
  <2> HIDE DEF B
  <2> QED BY <1>1, <1>7, <2>2, <2>3, <2>4
<1>9. Cardinality(B(u)) = Cardinality(B(u - 1)) + 1
  <2>1. \A m \in kept : m <= u <=> (m <= u - 1 \/ m = u)
    BY <1>0, <1>5
  <2>2. B(u) = B(u - 1) \union {u}
    BY <1>5, <1>8, <2>1
  <2>3. u \notin B(u - 1)
    BY <1>5
  <2>4. IsFiniteSet(B(u - 1))
    BY <1>2
  <2> HIDE DEF B
  <2> QED BY <2>2, <2>3, <2>4, FS_AddElement
<1>10. Cardinality(B(u)) = i
  <2>1. Cardinality(B(u)) >= i
    OBVIOUS
  <2>2. Cardinality(B(u - 1)) \in Nat
    BY <1>2
  <2> HIDE DEF B
  <2> QED BY <1>1, <1>7, <1>9, <2>1, <2>2
<1> QED BY <1>8, <1>10

(* Every job that is loaded has an id, the one of the environment or its   *)
(* number.                                                                 *)
LEMMA LoadedJobs ==
  ASSUME raw \in Configs
  PROVE  \A k \in DOMAIN LoadJobsFromEnv :
           LoadJobsFromEnv[k] \in JobType /\ LoadJobsFromEnv[k].id \in IDs
<1> DEFINE kept == {n \in DOMAIN raw : raw[n].enabled /\ raw[n].start # ""}
           Nth(i) == CHOOSE n \in kept : Cardinality({m \in kept : m <= n}) = i
<1>1. /\ raw \in Seq(JobType) /\ Len(raw) <= MaxJobs /\ MaxJobs \in Nat
      /\ DefaultID \in [Slots -> IDs]
  BY DiscoveryAssumption
<1>6. DefaultMaxPages \in Int
  BY DiscoveryAssumption
<1>2. kept \in SUBSET (1..Len(raw)) /\ Len(raw) \in Nat
  <2>1. DOMAIN raw = 1..Len(raw) /\ Len(raw) \in Nat
    BY <1>1
  <2>2. kept \subseteq DOMAIN raw
    OBVIOUS
  <2> HIDE DEF kept
  <2> QED BY <2>1, <2>2
<1>3. ASSUME NEW n \in 1..Len(raw)
      PROVE  normalizeJob(raw[n], n) \in JobType /\ normalizeJob(raw[n], n).id \in IDs
  <2>1. raw[n] \in JobType /\ DefaultID[n] \in IDs
    BY <1>1 DEF Slots
  <2> DEFINE job == raw[n]
             id == IF job.id = "" THEN DefaultID[n] ELSE job.id
             max == IF job.max < 1 THEN DefaultMaxPages ELSE job.max
  <2>2. job.id \in IDs \union {""} /\ job.max \in Int
    BY <2>1 DEF JobType
  <2>3. id \in IDs /\ max \in Int
    <3> HIDE DEF job
    <3>1. id \in IDs
      BY <2>1, <2>2
    <3>2. DefaultMaxPages \in Int /\ job.max \in Int
      BY <1>6, <2>2
    <3>3. max \in Int
      BY <3>2
    <3> QED BY <3>1, <3>3
  <2>4. normalizeJob(raw[n], n) = [job EXCEPT !.id = id, !.max = max]
    BY <2>1 DEF normalizeJob, JobType
  <2>5. job \in JobType
    BY <2>1
  <2> HIDE DEF job, id, max
  <2> QED BY <2>3, <2>4, <2>5 DEF JobType
<1>4. LoadJobsFromEnv = [i \in 1..Cardinality(kept) |-> normalizeJob(raw[Nth(i)], Nth(i))]
  BY DEF LoadJobsFromEnv
<1> HIDE DEF kept
<1>5. ASSUME NEW i \in 1..Cardinality(kept) PROVE Nth(i) \in 1..Len(raw)
  BY <1>2, NthExists
<1> HIDE DEF Nth
<1> QED BY <1>3, <1>4, <1>5

-----------------------------------------------------------------------------
(* The steps of a scan that neither compare nor publish.                   *)
Scanning(k) ==
  \/ BeginScan(k) \/ Validate(k) \/ ScanFails(k) \/ ReadOverrides(k)
  \/ \E u \in URLs : addCandidate(k, u)

(* The steps that bring a change to the updater, and the updater's own.    *)
Telling == EndBoot \/ Request \/ Cancel \/ Run \/ \E k \in Slots : Notify(k)

(* The cases of a step.                                                    *)
LEMMA Steps ==
  ASSUME [Next]_vars
  PROVE  \/ UNCHANGED vars \/ Initialize \/ Telling
         \/ \E k \in Slots : Scanning(k) \/ refreshJob(k) \/ publishDynamicSources(k)
BY DEF Next, Job, Scanning, Telling

(* A scan in progress touches neither the maps of the manager nor the      *)
(* updater.                                                                *)
LEMMA ScanningFrame ==
  ASSUME NEW k \in Slots, Scanning(k)
  PROVE  UNCHANGED <<raw, jobs, found, hashByJob, sourcesByJob, lock, dynamicSources,
                     waiting, updater, downloaded, served, failed>>
BY DEF Scanning, BeginScan, Validate, ScanFails, ReadOverrides, addCandidate,
   manager, updates

(* Nothing is found or published while a change is being told.             *)
LEMMA TellingFrame ==
  ASSUME Telling
  PROVE  UNCHANGED <<raw, jobs, found, hashByJob, sourcesByJob, lock, dynamicSources>>
BY DEF Telling, EndBoot, Request, Cancel, Run, UpdateSources, RunEnds, RunFails, Notify,
   manager

(* The outcome of a scan.                                                  *)
LEMMA DoneScan ==
  ASSUME Types, NEW k \in Slots, NEW c \in BOOLEAN, Done(k, c)
  PROVE  /\ scan' \in [Slots -> ScanType] /\ changed' \in BOOLEAN
         /\ \A j \in Slots : j # k => scan'[j] = scan[j]
         /\ scan'[k].pc = IF phase # "boot" /\ c THEN "notify" ELSE "idle"
         /\ changed' <=> (changed \/ (phase = "boot" /\ c))
<1>1. IdleScan \in ScanType /\ IdleScan.pc = "idle"
  BY DEF IdleScan, ScanType
<1>2. [IdleScan EXCEPT !.pc = IF c THEN "notify" ELSE "idle"] \in ScanType
  BY DEF IdleScan, ScanType
<1>3. [IdleScan EXCEPT !.pc = IF c THEN "notify" ELSE "idle"].pc
        = IF c THEN "notify" ELSE "idle"
  BY DEF IdleScan
<1>4. CASE phase = "boot"
  <2>1. scan' = [scan EXCEPT ![k] = IdleScan] /\ changed' = (changed \/ c)
    BY <1>4 DEF Done
  <2>2. changed' \in BOOLEAN /\ (changed' <=> (changed \/ c))
    BY <2>1, Zenon
  <2> QED BY <1>1, <1>4, <2>1, <2>2 DEF Types
<1>5. CASE phase # "boot"
  <2>1. /\ scan' = [scan EXCEPT ![k] =
                      [IdleScan EXCEPT !.pc = IF c THEN "notify" ELSE "idle"]]
        /\ changed' = changed
    BY <1>5 DEF Done
  <2> QED BY <1>2, <1>3, <1>5, <2>1 DEF Types
<1> QED BY <1>4, <1>5

(* A scan goes on, ends without a change or ends the process: nobody is    *)
(* about to notify who was not before.                                     *)
LEMMA ScanningKept ==
  ASSUME Types, Phases, NEW k \in Slots, Scanning(k)
  PROVE  /\ scan' \in [Slots -> ScanType] /\ changed' \in BOOLEAN
         /\ \A j \in Slots : j # k => scan'[j] = scan[j]
         /\ scan[k].pc # "notify" /\ scan'[k].pc # "notify"
         /\ changed' <=> changed
         /\ phase' = phase \/ phase' = "crashed"
         /\ phase \in {"boot", "loops", "crashed"}
<1> USE DEF Types
<1>0. Final \in [URLs -> URLs]
  BY DiscoveryAssumption
<1>1. CASE BeginScan(k)
  <2>1. PICK robots \in {FALSE, jobs[k].follow} :
          scan' = [scan EXCEPT ![k] = [IdleScan EXCEPT !.pc = "crawl", !.robots = robots]]
    BY <1>1 DEF BeginScan
  <2>2. robots \in BOOLEAN
    BY <1>1 DEF BeginScan, JobType
  <2>3. /\ [IdleScan EXCEPT !.pc = "crawl", !.robots = robots] \in ScanType
        /\ [IdleScan EXCEPT !.pc = "crawl", !.robots = robots].pc = "crawl"
    BY <2>2 DEF IdleScan, ScanType
  <2>4. /\ scan[k].pc = "idle" /\ UNCHANGED <<changed, phase>>
        /\ phase \in {"boot", "loops"}
    BY <1>1 DEF BeginScan
  <2> QED BY <2>1, <2>3, <2>4
<1>2. CASE Validate(k)
  <2>1. PICK valid \in SUBSET scan[k].candidates :
          scan' = [scan EXCEPT ![k] = [IdleScan EXCEPT
                     !.pc = "build", !.urls = {Final[u] : u \in valid}]]
    BY <1>2 DEF Validate
  <2>2. {Final[u] : u \in valid} \in SUBSET URLs
    BY <1>0 DEF ScanType
  <2>3. /\ [IdleScan EXCEPT !.pc = "build", !.urls = {Final[u] : u \in valid}] \in ScanType
        /\ [IdleScan EXCEPT !.pc = "build", !.urls = {Final[u] : u \in valid}].pc = "build"
    BY <2>2 DEF IdleScan, ScanType
  <2>4. scan[k].pc = "crawl" /\ UNCHANGED <<changed, phase>>
    BY <1>2 DEF Validate
  <2> QED BY <2>1, <2>3, <2>4 DEF Phases
<1>3. CASE ScanFails(k)
  <2>1. Done(k, FALSE) /\ phase' = phase /\ (scan[k].pc = "crawl" \/ phase = "boot")
    BY <1>3 DEF ScanFails
  <2>2. scan[k].pc # "notify" /\ phase \in {"boot", "loops", "crashed"}
    BY <2>1 DEF Phases
  <2>3. /\ scan' \in [Slots -> ScanType] /\ changed' \in BOOLEAN
        /\ \A j \in Slots : j # k => scan'[j] = scan[j]
        /\ scan'[k].pc = "idle" /\ (changed' <=> changed)
    BY <2>1, DoneScan
  <2> QED BY <2>1, <2>2, <2>3
<1>4. CASE ReadOverrides(k)
  <2>1. /\ scan[k].pc = "build" /\ UNCHANGED changed
        /\ phase' = phase \/ phase' = "crashed"
        /\ scan' = scan \/ scan' = [scan EXCEPT ![k].pc = "refresh"]
    BY <1>4 DEF ReadOverrides
  <2>2. scan' \in [Slots -> ScanType] /\ scan'[k].pc \in {"build", "refresh"}
    BY <2>1 DEF ScanType
  <2> QED BY <2>1, <2>2 DEF Phases
<1>5. ASSUME NEW u \in URLs, addCandidate(k, u)
      PROVE  /\ scan' = [scan EXCEPT ![k].candidates = @ \union {u}]
             /\ scan[k].pc = "crawl" /\ UNCHANGED <<changed, phase>>
  BY <1>5 DEF addCandidate
<1>6. ASSUME NEW u \in URLs, scan' = [scan EXCEPT ![k].candidates = @ \union {u}],
             scan[k].pc = "crawl"
      PROVE  scan' \in [Slots -> ScanType] /\ scan'[k].pc = "crawl"
  BY <1>6 DEF ScanType
<1>7. CASE \E u \in URLs : addCandidate(k, u)
  BY <1>5, <1>6, <1>7 DEF Phases
<1> QED BY <1>1, <1>2, <1>3, <1>4, <1>7 DEF Scanning

(* refreshJob compares: nothing new, or the job takes the lock.            *)
LEMMA Refreshed ==
  ASSUME Types, Phases, Same, NEW k \in Slots, refreshJob(k)
  PROVE  /\ lock = NoJob /\ UNCHANGED <<raw, jobs, phase, dynamicSources, waiting, updater,
                                       downloaded, served, failed>>
         /\ found' \in [IDs -> SUBSET URLs] /\ Same'
         /\ scan' \in [Slots -> ScanType] /\ changed' \in BOOLEAN /\ (changed' <=> changed)
         /\ \A j \in Slots : j # k => scan'[j] = scan[j]
         /\ scan[k].pc = "refresh" /\ scan'[k].pc # "notify"
         /\ lock' = k \/ (lock' = NoJob /\ found' = found)
<1> USE DEF Types
<1> DEFINE id == jobs[k].id
           urls == scan[k].urls
<1>1. /\ lock = NoJob /\ scan[k].pc = "refresh" /\ found' = [found EXCEPT ![id] = urls]
      /\ UNCHANGED <<raw, jobs, phase, waiting, updater, downloaded, served, failed>>
  BY DEF refreshJob, updates
<1>2. found' \in [IDs -> SUBSET URLs]
  <2>1. urls \in SUBSET URLs
    BY DEF ScanType
  <2> QED BY <1>1, <2>1
<1>3. CASE sameFingerprint(hashByJob[id], urls)
  <2>1. Done(k, FALSE) /\ UNCHANGED <<hashByJob, sourcesByJob, lock, dynamicSources>>
    BY <1>3 DEF refreshJob, manager
  <2>2. found[id] = urls
    BY <1>3 DEF sameFingerprint, Same
  <2>3. found' = found
    BY <1>1, <2>2
  <2>4. Same'
    BY <2>1, <2>3 DEF Same
  <2> QED BY <1>1, <1>2, <2>1, <2>3, <2>4, DoneScan
<1>4. CASE ~sameFingerprint(hashByJob[id], urls)
  <2>1. /\ hashByJob' = [hashByJob EXCEPT ![id] = urls]
        /\ sourcesByJob' = [sourcesByJob EXCEPT ![id] = urls]
        /\ lock' = k /\ scan' = [scan EXCEPT ![k].pc = "publish"]
        /\ UNCHANGED <<changed, dynamicSources>>
    BY <1>4 DEF refreshJob
  <2>2. scan' \in [Slots -> ScanType] /\ scan'[k].pc = "publish"
    BY <2>1 DEF ScanType
  <2>3. Same'
    BY <1>1, <2>1 DEF Same
  <2> QED BY <1>1, <1>2, <2>1, <2>2, <2>3
<1> QED BY <1>3, <1>4

(* The indexes that are published: those of the URLs every job has, but    *)
(* the disabled ones.                                                      *)
LEMMA PublishedIndexes ==
  ASSUME NEW k \in Slots, publishDynamicSources(k), NEW i
  PROVE  i \in DOMAIN dynamicSources' <=>
           /\ Enabled(i, pruneStaleJobData(jobs))
           /\ \E j \in DOMAIN jobs : \E u \in sourcesByJob[jobs[j].id] :
                i = <<Upper[jobs[j].id], Hash[u]>>
<1> DEFINE kept == pruneStaleJobData(jobs)
           of == [j \in DOMAIN jobs |-> Combined(j, kept)]
           all == UNION {of[j] : j \in DOMAIN jobs}
           indexes == {s.index : s \in all}
<1>1. dynamicSources' \in SetDynamicSources(of)
  BY DEF publishDynamicSources
<1>2. DOMAIN dynamicSources' = indexes
  <2> HIDE DEF of
  <2>1. dynamicSources' \in [indexes -> {s.url : s \in all}]
    BY <1>1 DEF SetDynamicSources
  <2> HIDE DEF indexes, all
  <2> QED BY <2>1
<1>3. i \in indexes <=> \E j \in DOMAIN jobs : \E s \in Combined(j, kept) : s.index = i
  <2> HIDE DEF kept
  <2> QED OBVIOUS
<1>4. ASSUME NEW j
      PROVE  (\E s \in Combined(j, kept) : s.index = i) <=>
               /\ Enabled(i, kept)
               /\ \E u \in sourcesByJob[jobs[j].id] : i = <<Upper[jobs[j].id], Hash[u]>>
  <2> HIDE DEF kept
  <2> DEFINE src(u) == [index |-> <<Upper[jobs[j].id], Hash[u]>>, url |-> u]
             have == sourcesByJob[jobs[j].id]
  <2>1. Combined(j, kept) = {s \in {src(u) : u \in have} : Enabled(s.index, kept)}
    BY DEF Combined, buildDynamicSourceIndex
  <2>2. \A u : src(u).index = <<Upper[jobs[j].id], Hash[u]>>
    OBVIOUS
  <2> HIDE DEF src, have
  <2>3. (\E s \in Combined(j, kept) : s.index = i) <=>
          /\ Enabled(i, kept)
          /\ \E u \in have : i = src(u).index
    BY <2>1, Zenon
  <2> QED BY <2>2, <2>3 DEF have
<1> HIDE DEF indexes, kept
<1> QED BY <1>2, <1>3, <1>4 DEF kept

-----------------------------------------------------------------------------
(* What should be published, of the scans that are complete.               *)
Due == {i \in {<<Upper[jobs[k].id], Hash[u]>> : k \in DOMAIN jobs, u \in URLs} :
          /\ Enabled(i, pruneStaleJobData(jobs))
          /\ \E k \in DOMAIN jobs : \E u \in found[jobs[k].id] :
               i = <<Upper[jobs[k].id], Hash[u]>>}

(* The right sources are published under the lock.                         *)
LEMMA PublishedDue ==
  ASSUME Types, Same, NEW k \in Slots, publishDynamicSources(k)
  PROVE  DOMAIN dynamicSources' = Due'
<1>1. UNCHANGED <<jobs, found>>
  BY DEF publishDynamicSources
<1>2. Due' = Due
  BY <1>1 DEF Due, pruneStaleJobData, belongsToActiveJobs
<1>3. \A j \in DOMAIN jobs : found[jobs[j].id] \in SUBSET URLs
  BY DEF Types
<1>4. ASSUME NEW i PROVE i \in DOMAIN dynamicSources' <=> i \in Due
  <2>1. i \in DOMAIN dynamicSources' <=>
          /\ Enabled(i, pruneStaleJobData(jobs))
          /\ \E j \in DOMAIN jobs : \E u \in found[jobs[j].id] :
               i = <<Upper[jobs[j].id], Hash[u]>>
    BY PublishedIndexes DEF Same
  <2> DEFINE Any == {<<Upper[jobs[j].id], Hash[u]>> : j \in DOMAIN jobs, u \in URLs}
             Have == \E j \in DOMAIN jobs : \E u \in found[jobs[j].id] :
                       i = <<Upper[jobs[j].id], Hash[u]>>
  <2>2. Have => i \in Any
    BY <1>3
  <2>3. i \in Due <=> i \in Any /\ Enabled(i, pruneStaleJobData(jobs)) /\ Have
    BY DEF Due
  <2> HIDE DEF Any
  <2> QED BY <2>1, <2>2, <2>3
<1> QED BY <1>2, <1>4

(* ... and never one that is disabled under an id that can be matched.     *)
LEMMA PublishedEnabled ==
  ASSUME NEW k \in Slots, publishDynamicSources(k)
  PROVE  DisabledStaysOut'
<1> SUFFICES ASSUME NEW i \in DOMAIN dynamicSources', i \in DOMAIN EnvOverrides,
                    Prefix[i[1]] = i[1]
             PROVE  EnvOverrides[i]
  BY DEF DisabledStaysOut
<1>1. PICK j \in DOMAIN jobs : \E u \in sourcesByJob[jobs[j].id] :
        i = <<Upper[jobs[j].id], Hash[u]>>
  BY PublishedIndexes
<1>2. i[1] = Upper[jobs[j].id]
  BY <1>1
<1>3. belongsToActiveJobs(i, jobs)
  BY <1>2 DEF belongsToActiveJobs
<1>4. i \in pruneStaleJobData(jobs)
  BY <1>3 DEF pruneStaleJobData
<1>5. Enabled(i, pruneStaleJobData(jobs))
  BY PublishedIndexes
<1> QED BY <1>4, <1>5 DEF Enabled

-----------------------------------------------------------------------------
(* The jobs are loaded, or the start fails.                                *)
LEMMA InitializeIInv == ASSUME IInv, Initialize PROVE IInv'
<1> USE DEF IInv
<1>1. /\ phase = "start" /\ phase' \in {"boot", "failed"}
      /\ jobs' = LoadJobsFromEnv \/ jobs' = jobs
      /\ UNCHANGED <<raw, changed, scan, found, hashByJob, sourcesByJob, lock,
                     dynamicSources, waiting, updater, downloaded, served, failed>>
  BY DEF Initialize, updates
<1>2. Types'
  BY <1>1, LoadedJobs DEF Types
<1>3. Phases'
  BY <1>1 DEF Phases
<1>4. Same' /\ DisabledStaysOut'
  BY <1>1 DEF Same, DisabledStaysOut
<1>5. PublishedIsFound'
  <2>1. DOMAIN dynamicSources' = {} /\ found' = [i \in IDs |-> {}]
    BY <1>1 DEF Phases
  <2>2. \A k \in DOMAIN jobs' : found'[jobs'[k].id] = {}
    BY <1>2, <2>1 DEF Types
  <2>3. Due' = {}
    BY <2>2 DEF Due
  <2>4. PublishedIsFound' <=> (lock' = NoJob => DOMAIN dynamicSources' = Due')
    BY DEF PublishedIsFound, Due
  <2> QED BY <2>1, <2>3, <2>4
<1>6. Follows'
  BY <1>1 DEF Follows, ToNotify
<1> QED BY <1>2, <1>3, <1>4, <1>5, <1>6

(* Published and found stay.                                               *)
LEMMA PublishedFrame ==
  ASSUME UNCHANGED <<jobs, found, hashByJob, sourcesByJob, lock, dynamicSources>>,
         Same, PublishedIsFound, DisabledStaysOut
  PROVE  Same' /\ PublishedIsFound' /\ DisabledStaysOut'
<1>1. Same' /\ DisabledStaysOut'
  BY DEF Same, DisabledStaysOut
<1>2. Due' = Due
  BY DEF Due, pruneStaleJobData, belongsToActiveJobs
<1>3. PublishedIsFound <=> (lock = NoJob => DOMAIN dynamicSources = Due)
  BY DEF PublishedIsFound, Due
<1>4. PublishedIsFound' <=> (lock' = NoJob => DOMAIN dynamicSources' = Due')
  BY DEF PublishedIsFound, Due
<1> QED BY <1>1, <1>2, <1>3, <1>4

(* A scan goes on or ends without a change.                                *)
LEMMA ScanningIInv == ASSUME IInv, NEW k \in Slots, Scanning(k) PROVE IInv'
<1> USE DEF IInv
<1>1. UNCHANGED <<raw, jobs, found, hashByJob, sourcesByJob, lock, dynamicSources,
                  waiting, updater, downloaded, served, failed>>
  BY ScanningFrame
<1>2. /\ scan' \in [Slots -> ScanType] /\ changed' \in BOOLEAN
      /\ \A j \in Slots : j # k => scan'[j] = scan[j]
      /\ scan[k].pc # "notify" /\ scan'[k].pc # "notify"
      /\ changed' <=> changed
      /\ phase' = phase \/ phase' = "crashed"
      /\ phase \in {"boot", "loops", "crashed"}
  BY ScanningKept
<1>3. Types'
  BY <1>1, <1>2 DEF Types
<1>4. Phases'
  BY <1>1, <1>2 DEF Phases
<1>5. Same' /\ PublishedIsFound' /\ DisabledStaysOut'
  BY <1>1, PublishedFrame
<1>6. Follows'
  <2>1. ToNotify => ToNotify'
    BY <1>1, <1>2 DEF ToNotify
  <2> QED BY <1>1, <1>2, <2>1 DEF Follows
<1> QED BY <1>3, <1>4, <1>5, <1>6

(* refreshJob.                                                             *)
LEMMA RefreshIInv == ASSUME IInv, NEW k \in Slots, refreshJob(k) PROVE IInv'
<1> USE DEF IInv
<1>1. /\ lock = NoJob /\ UNCHANGED <<raw, jobs, phase, dynamicSources, waiting, updater,
                                     downloaded, served, failed>>
      /\ found' \in [IDs -> SUBSET URLs] /\ Same'
      /\ scan' \in [Slots -> ScanType] /\ changed' \in BOOLEAN /\ (changed' <=> changed)
      /\ \A j \in Slots : j # k => scan'[j] = scan[j]
      /\ scan[k].pc = "refresh" /\ scan'[k].pc # "notify"
      /\ lock' = k \/ (lock' = NoJob /\ found' = found)
  BY Refreshed
<1>2. k # NoJob
  BY DiscoveryAssumption DEF Slots, NoJob
<1>3. phase \in {"boot", "loops", "crashed"}
  BY <1>1 DEF Phases
<1>4. Types' /\ DisabledStaysOut'
  BY <1>1 DEF Types, DisabledStaysOut
<1>5. Phases'
  BY <1>1, <1>3 DEF Phases
<1>6. PublishedIsFound'
  <2>1. CASE lock' = k
    BY <1>2, <2>1 DEF PublishedIsFound
  <2>2. CASE lock' = NoJob /\ found' = found
    <3>1. UNCHANGED <<hashByJob, sourcesByJob, lock>>
      BY <1>1, <2>2 DEF Same
    <3> QED BY <1>1, <2>2, <3>1, PublishedFrame
  <2> QED BY <1>1, <2>1, <2>2
<1>7. Follows'
  <2>1. ToNotify => ToNotify'
    BY <1>1 DEF ToNotify
  <2> QED BY <1>1, <2>1 DEF Follows
<1> QED BY <1>1, <1>4, <1>5, <1>6, <1>7

(* publishDynamicSourcesLocked: the change is to be told.                  *)
LEMMA PublishIInv == ASSUME IInv, NEW k \in Slots, publishDynamicSources(k) PROVE IInv'
<1> USE DEF IInv
<1>1. /\ phase # "crashed" /\ scan[k].pc = "publish" /\ lock' = NoJob /\ Done(k, TRUE)
      /\ UNCHANGED <<raw, jobs, phase, found, hashByJob, sourcesByJob, waiting, updater,
                     downloaded, served, failed>>
  BY DEF publishDynamicSources, updates
<1>2. /\ scan' \in [Slots -> ScanType] /\ changed' \in BOOLEAN
      /\ \A j \in Slots : j # k => scan'[j] = scan[j]
      /\ scan'[k].pc = IF phase # "boot" THEN "notify" ELSE "idle"
      /\ changed' <=> (changed \/ phase = "boot")
  <2>1. TRUE \in BOOLEAN
    OBVIOUS
  <2> QED BY <1>1, <2>1, DoneScan
<1>3. phase \in {"boot", "loops"}
  BY <1>1 DEF Phases
<1>4. Types' /\ Same' /\ DisabledStaysOut'
  BY <1>1, <1>2, PublishedEnabled DEF Types, Same
<1>5. Phases'
  BY <1>1, <1>2, <1>3 DEF Phases
<1>6. PublishedIsFound'
  <2>1. PublishedIsFound' <=> (lock' = NoJob => DOMAIN dynamicSources' = Due')
    BY DEF PublishedIsFound, Due
  <2> QED BY <2>1, PublishedDue
<1>7. Follows'
  <2>1. ToNotify'
    BY <1>2, <1>3 DEF ToNotify
  <2> QED BY <2>1 DEF Follows
<1> QED BY <1>4, <1>5, <1>6, <1>7

(* What is told to the updater, and what it does about it.                 *)
LEMMA TellingIInv == ASSUME IInv, Telling PROVE IInv'
<1> USE DEF IInv
<1>1. UNCHANGED <<raw, jobs, found, hashByJob, sourcesByJob, lock, dynamicSources>>
  BY TellingFrame
<1>2. Same' /\ PublishedIsFound' /\ DisabledStaysOut'
  BY <1>1, PublishedFrame
<1>3. CASE EndBoot
  <2>1. /\ phase = "boot" /\ phase' = "loops" /\ changed' = FALSE
        /\ waiting' = IF changed THEN waiting + 1 ELSE waiting
        /\ UNCHANGED <<scan, updater, downloaded, served, failed>>
    BY <1>3 DEF EndBoot, onSourcesChanged, updates
  <2>2. Types'
    <3>1. changed' \in BOOLEAN
      BY <2>1, Zenon
    <3>2. waiting \in Nat
      BY DEF Types
    <3>3. waiting' \in Nat
      BY <2>1, <3>2
    <3> QED BY <1>1, <2>1, <3>1, <3>3, Zenon DEF Types
  <2>3. Phases'
    BY <1>1, <2>1 DEF Phases
  <2>4. Follows'
    BY <1>1, <2>1 DEF Follows, ToNotify, Types
  <2> QED BY <1>2, <2>2, <2>3, <2>4
<1>4. ASSUME NEW k \in Slots, Notify(k) PROVE IInv'
  <2>1. /\ scan' = [scan EXCEPT ![k] = IdleScan] /\ waiting' = waiting + 1
        /\ UNCHANGED <<phase, changed, updater>>
    BY <1>4 DEF Notify, onSourcesChanged, updates
  <2>2. IdleScan \in ScanType /\ IdleScan.pc = "idle"
    BY DEF IdleScan, ScanType
  <2>3. Types'
    BY <1>1, <2>1, <2>2 DEF Types
  <2>4. Phases'
    BY <1>1, <2>1, <2>2 DEF Types, Phases
  <2>5. Follows'
    BY <2>1 DEF Follows, Types
  <2> QED BY <1>2, <2>3, <2>4, <2>5
<1>5. CASE Request \/ Cancel
  <2>1. /\ waiting' = waiting \/ waiting' = waiting + 1
        /\ UNCHANGED <<scan, phase, changed, updater, downloaded, served, failed>>
    BY <1>5 DEF Request, Cancel, updates
  <2>2. Types' /\ Phases'
    BY <1>1, <2>1 DEF Types, Phases
  <2>3. Follows'
    BY <1>1, <2>1 DEF Follows, ToNotify, Types
  <2> QED BY <1>2, <2>2, <2>3
<1>6. CASE Run
  <2>1. UNCHANGED <<scan, phase, changed>>
    BY <1>6 DEF Run, UpdateSources, RunEnds, RunFails
  <2>2. ToNotify' <=> ToNotify
    BY <1>1, <2>1 DEF ToNotify
  <2>3. waiting' \in Nat /\ updater' \in {"idle", "run"}
    BY <1>6 DEF Run, UpdateSources, RunEnds, RunFails, Types
  <2>4. Types' /\ Phases'
    BY <1>1, <2>1, <2>3 DEF Types, Phases
  <2>5. Follows'
    <3>1. CASE UpdateSources
      <4>1. CASE cancelled
        <5>1. failed' = TRUE /\ updater' = "idle"
          BY <3>1, <4>1 DEF UpdateSources
        <5> QED BY <5>1 DEF Follows
      <4>2. CASE ~cancelled
        <5>1. updater' = "run" /\ downloaded' = DOMAIN dynamicSources
          BY <3>1, <4>2 DEF UpdateSources
        <5> QED BY <1>1, <5>1 DEF Follows
      <4> QED BY <4>1, <4>2
    <3>2. CASE RunEnds
      <4>1. /\ updater = "run" /\ updater' = "idle" /\ waiting' = waiting
            /\ served' = downloaded \intersect DOMAIN dynamicSources
        BY <3>2 DEF RunEnds
      <4> QED BY <1>1, <2>1, <2>2, <4>1 DEF Follows
    <3>3. CASE RunFails
      <4>1. updater' = "idle" /\ failed' = TRUE
        BY <3>3 DEF RunFails
      <4> QED BY <4>1 DEF Follows
    <3> QED BY <1>6, <3>1, <3>2, <3>3 DEF Run
  <2> QED BY <1>2, <2>4, <2>5
<1> QED BY <1>3, <1>4, <1>5, <1>6 DEF Telling

-----------------------------------------------------------------------------
(* Nothing is found and nothing published before the jobs are loaded.      *)
LEMMA InitIInv == Init => IInv
<1> SUFFICES ASSUME Init PROVE IInv
  OBVIOUS
<1> USE DEF Init
<1>1. IdleScan \in ScanType /\ IdleScan.pc = "idle"
  BY DEF IdleScan, ScanType
<1>2. Types
  <2>1. changed \in BOOLEAN
    BY Zenon
  <2>2. \A k \in DOMAIN jobs : jobs[k] \in JobType /\ jobs[k].id \in IDs
    OBVIOUS
  <2>3. scan \in [Slots -> ScanType] /\ found \in [IDs -> SUBSET URLs]
    BY <1>1
  <2>4. waiting \in Nat /\ updater \in {"idle", "run"}
    OBVIOUS
  <2> QED BY <2>1, <2>2, <2>3, <2>4, Zenon DEF Types
<1>3. DOMAIN dynamicSources = {}
  BY DEF Empty
<1>4. Phases
  BY <1>1, <1>3 DEF Phases
<1>5. Same /\ DisabledStaysOut
  BY <1>3 DEF Same, DisabledStaysOut
<1>6. PublishedIsFound
  BY <1>3 DEF PublishedIsFound
<1>7. Follows
  BY <1>3 DEF Follows
<1> QED BY <1>2, <1>4, <1>5, <1>6, <1>7 DEF IInv

(* No step breaks the invariant.                                           *)
LEMMA NextIInv == IInv /\ [Next]_vars => IInv'
<1> SUFFICES ASSUME IInv, [Next]_vars PROVE IInv'
  OBVIOUS
<1>1. CASE UNCHANGED vars
  <2>1. Types' /\ Phases' /\ Follows'
    BY <1>1 DEF IInv, vars, manager, updates, Types, Phases, Follows, ToNotify
  <2> QED BY <1>1, <2>1, PublishedFrame DEF IInv, vars, manager
<1> QED BY <1>1, Steps, InitializeIInv, ScanningIInv, RefreshIInv, PublishIInv, TellingIInv

(* The invariant holds of every state of the manager and the updater.      *)
THEOREM Invariance == Spec => []IInv
BY InitIInv, NextIInv, PTL DEF Spec

(* Whenever nobody holds m.mu, what is published is what the last complete *)
(* scans found, but the disabled sources (refreshJob,                      *)
(* publishDynamicSourcesLocked).                                           *)
THEOREM FoundIsPublished == Spec => []PublishedIsFound
<1>1. IInv => PublishedIsFound
  BY DEF IInv
<1> QED BY <1>1, Invariance, PTL

(* A disabled source is never published, unless the id of its job has an   *)
(* underscore (discoveredSourceIndexBelongsToActiveJobs).                  *)
THEOREM DisabledNotPublished == Spec => []DisabledStaysOut
<1>1. IInv => DisabledStaysOut
  BY DEF IInv
<1> QED BY <1>1, Invariance, PTL

(* With nothing left to be told or rebuilt, and no failed rebuild, the     *)
(* playlist has exactly the published sources, however scans, requests and *)
(* rebuilds interleave (onSourcesChanged, UpdateSources).                  *)
THEOREM ChangesNotLost == Spec => []PlaylistFollows
<1>1. IInv => PlaylistFollows
  BY DEF IInv, Follows, PlaylistFollows
<1> QED BY <1>1, Invariance, PTL
=============================================================================

# TLA+ models of windows-m3u-stream-merger-proxy

The proxy merges the channels of several M3U sources into one playlist and
serves each channel from whichever source can deliver it. All players of a
channel share one upstream connection through a ring buffer. These modules
model both halves: streaming (the ring, the session around it, the HLS writer,
streams without the ring, the registry, the load balancer and the connection
counters) and the playlist (merging streams, publishing files, discovering
sources). Paths are relative to the root of the repository.

## The system

| Part | State | Operations | Talks to |
| --- | --- | --- | --- |
| Ring buffer (`proxy/stream/buffer/coordinator.go`) | slots, write position, `writeSeq`, `state`, broadcast channel | `Write`, `ReadChunks`, `ClearBuffer`, `subscribe`, `notifySubscribers`, `writeError` | one writer goroutine, one reader per client |
| Session (`handlers/stream_http.go`, `proxy/stream/media_stream.go`, `coordinator.go`, `coordinator_media.go`) | `ClientCount`, `WriterActive`, setup slot, `LBResultOnWrite`, `WriterCtx`, header channel, per client: `lbResult`, `failedIndexes`, `lastPosition` | `handleStream`, `HandleStream`, `RegisterClient`, `UnregisterClient`, `TryStartWriterSetup`, `WaitForWriterSetup`, `FinishWriterSetup`, `StartMediaWriter` | load balancer, ring, counters |
| HLS writer (`coordinator_m3u8.go`) | last media sequence, playlist URL, error and empty counters | `StartHLSWriter`, `getNewSegments`, `processSegments` | ring |
| Registry (`registry.go`) | coordinators by stream | `GetOrCreateCoordinator`, `cleanup` | handlers |
| Direct streams, HLS passthrough (`stream_instance.go`, `media_stream.go`, `failovers/`) | concurrency slot, exit channel, `Invalid` set | `ProxyStream`, `HandleDirectStream`, `ProcessM3U8Stream` | counters, session |
| Load balancer (`proxy/loadbalancer`) | per call: URLs, tested URLs, lap | `Balance`, `tryAllStreams`, `tryStreamUrls` | counters, upstream |
| Concurrency manager (`store/concurrency.go`) | a counter per source | `CheckConcurrency`, `ConcurrencyPriorityValue`, `UpdateConcurrency` | all streams |
| Source processor, sorting, slugs (`sourceproc/`) | temporary and published playlist, slug files, spilled streams | `Run`, `addStream`, `compileM3U`, `applyNewRemoteFiles` | updater, load balancer (slugs) |
| Updater, playlist handler (`updater/`, `handlers/m3u_http.go`) | published path, update lock | `UpdateSources`, `SetProcessedPath` | source processor, discovery |
| Discovery (`discovery/manager.go`) | jobs, results and their hashes | scans, `UpdateSources` callback | updater |
| Windows application (`windows-app/`) | configuration | start and stop of the proxy | process environment |

What is hard: the handlers of a channel's clients, its writer goroutine and the
goroutines of dying writers run concurrently on a dozen fields guarded by four
mutexes, atomics or nothing; the last client's departure races with the next
one's arrival; upstreams fail at any moment; the counters are shared by all
channels; a playlist is replaced, file by file and without a transaction, while
it is served, and the process may end in between. What makes it correct: no
client gets a chunk twice, out of order or loses one the ring holds; one writer
per ring; a claimed setup slot is given back; everything is released when the
last client has left; a failed source is avoided when there is another; counters
are exact; a live playlist is relayed without gaps; one task writes to a
response; every channel of the served playlist can be resolved, also after a
crash; the result of a merge does not depend on the order of the workers; a
discovered change reaches the playlist.

`PROJECT.json` lists the components, hazards and the lines every definition
models.

## Modules

| Module | Models |
| --- | --- |
| `SharedBuffer` | the ring, its writer and its readers, one action per critical section of `Mu` |
| `ChunkLog` | what the ring promises its clients, abstractly |
| `SharedBufferProofs` | proofs about `SharedBuffer`, and the refinement of `ChunkLog` |
| `StreamSession` | clients and writer of one channel around the coordinator |
| `StreamSessionProofs` | proofs about `StreamSession`, and about `Registry`, which hands its clients the coordinator |
| `Concurrency` | the connection counters |
| `LoadBalancer` | `Balance`, on top of `Concurrency` |
| `Selection` | what `Balance` promises, abstractly |
| `LoadBalancerProofs` | proofs about `LoadBalancer` and `Concurrency`, and the refinement of `Selection` |
| `HLSWriter` | one run of `StartHLSWriter` against a live playlist and viewers who come and go |
| `HLSWriterProofs` | proofs about `HLSWriter` |
| `DirectStream` | requests without the shared buffer, on top of `Concurrency` |
| `DirectStreamProofs` | proofs about `DirectStream` and its use of `Concurrency` |
| `RegistryState` | the state of the registry for one stream and what it promises the sessions |
| `Registry` | its operations: lookup, registration, cleanup |
| `SourcePublish` | updater, processor, slug files, playlist handler, crashes |
| `SourcePublishProofs` | proofs about `SourcePublish` |
| `StreamMerge` | from M3U lines to playlist entries: rules, sorter, spill, restore |
| `StreamMergeProofs` | proofs about `StreamMerge` |
| `Discovery` | discovery jobs and the rebuilds they cause |
| `DiscoveryProofs` | proofs about `Discovery` |
| `MC*` | small instances for TLC |

Operators named "Faulty variant" in the modules are deliberate bugs. They are
not part of any specification; putting one in the place of the definition that
follows it must break the property it is paired with in `PROJECT.json`.

### SharedBuffer

`container/ring` pointers are counted backwards from `c.Buffer`: `ring[k]` is
the slot `k` steps behind it and `behind[r]` the position of reader `r`. A
`Write` therefore shifts the slots and every position by one; the chunk itself
is its sequence number and kind. `handed`, `cursor` and `since` are history
variables: what a reader has been given, and when it last took its chunks.

`ChunkLog` is the same buffer as its clients see it: chunks with numbers, a
client that joins, takes chunks and leaves, and `Discard` for what `ClearBuffer`
loses. It knows of no ring, position or broadcast. `UpTo` maps a reader to the
chunk it has come to: `Attach` begins one before `c.Buffer`, so that the newest
chunk is still to come.

`ReadChunks` is three actions, since the code releases `Mu` before it fetches
the broadcast channel: the first critical section (`ReadChunks`), `Subscribe`
and `Wake`. `UnregisterClient` and the cleanup after it are five. The goroutine
of the writer and the coordinator's `ClearBuffer` calls appear as
`Initialize`, `LastClears` and `Cleanup`, so the ring is cleared under readers
exactly when the code does that. `LastError` is left out: it always holds a
typed nil pointer, which is neither stored over nor returned.

### StreamSession

A client is a request handler with the `ProxyStream` goroutine it waits for.
Its `pc` follows `handleStream`: `start` (look for a running writer), `claim`,
`wait`/`waiting` (setup slot), `balance`, `peek`, `init`/`spawn`/`register` (inside
`InitializationMu`), `attach`, the read loop (`read`, `subscribe`, `parked`,
`deliver`, `headers`, `write`), the deferred cleanup (`leave`, `drain`,
`clear`, `notify`, `recount`, `cancel`, `clearAgain`), `exit`
(`handleExitCode`) and `pause`. The writer has one action per shared access of
`StartMediaWriter`, `readAndWriteStream` and `writeError`, its deferred
functions in the order Go runs them, including the panic on a nil context and
its recovery. `headersLost` marks a client that waits on a header channel which
was replaced while open.

`peek` is `IsProbablyM3U8` at the head of `ProxyStream` (`url.go:95`): it reads
the first bytes of the response without a context and without a deadline, and a
client that has claimed the setup slot holds it meanwhile. The writer goroutine
peeks again before it starts. Peeking has two more effects. The body is put into
an `io.NopCloser`, so that the writer's `Close` does nothing: a client that took
the result of a writer which is gone by now (`SpawnWriter`) starts a writer that
may still deliver. And a client that joins a running writer takes up to 4096
bytes out of the body it is reading; chunks here do not say which bytes they
carry, so the models do not show what the viewers then see.

The ring is the one of `SharedBuffer` without sequence numbers: by
`RingIsOrdered` a slot's number is its distance from `c.Buffer`, so the
staleness check is true only of empty slots after more than N chunks. The load
balancer is the action `Selected`/`SelectionFails`, which is what
`LoadBalancer` is proved to implement (`Selection`). `SelectionFails` may always
happen; so may the refusal of a slot in `WriterAcquires`, which stands for the
other streams of the source.

### Concurrency, LoadBalancer, Selection

`Concurrency` has the counters and, as `held`, what each caller remembers in
its deferred release. `LoadBalancer` adds any number of `Balance` calls, each
with its own instance as in `DefaultProxyInstance.LoadBalancer`, and streams
that only take and release slots. A lap reads the configured sources anew, which
discovery may have changed (`Configurations`). It picks the source with the most free
slots (`Preferred`), starts a probe per URL (`LaunchProbe`), waits for them
(`ProbeEnds`, `ProbesDone`) and opens the candidates again in the order of
their health, which is a free choice. The 45 s deadline is `Expire`; the code
looks at it where the actions do, and not in the probes, which have time limits
of their own. `lap` holds `MAX_RETRIES`, which `Init` chooses, and
counts only when laps are limited.

`Selection` says what the session relies on: the answer carries the channel, and
is one of the sources to avoid only if the configuration has no other. It says nothing about
laps, probes and slots.

### HLSWriter

The upstream's media playlist is a window `[first, len, ended]` that slides,
grows and ends. `resp` is the response at hand, so the window may move any
number of times between a poll and the segments fetched from it. `pc` follows
the loop of `StartHLSWriter`: `loop` (the test of `state`), `wait` (ticker and
context), `poll` and `follow` (a request under way), `response` (status, parsing, master playlists, empty playlists,
`getNewSegments`), `segments` (`processSegments`). Time is counted in polls:
`age` stands for `time.Since(lastChangeTime)`. `last`, `missed` and `repeated`
record what the present viewers were sent. The code does send a segment twice in
three circumstances, which `NoSegmentRepeated` names: a batch is started again
after a segment failed (`failures`), the playlist grew or shrank (`resized`), and
the upstream ended the playlist, whose last window is then played from its first
segment (`coordinator_m3u8.go:193`). A resized playlist may also skip segments. The coordinator's locking is `StreamSession`'s
business; here `Write` and `writeError` are single steps.

### DirectStream

The k-th attempt of a request is a task of its own, because it outlives the
handler's interest: `exitStatus` is unbuffered, the deferred release of the slot
comes after the send, and the handler waits for it only during a grace period
once its client is gone. A task first peeks at its response, then it is media
(`Admit`, the loop of `HandleDirectStream` with the goroutine that reads into the
one buffer) or a playlist (`processResponse` with nested masters and its lines).
`bodies` counts the responses that were neither closed nor read to their end;
`wrapped` says that the peek has put the body into an `io.NopCloser`, whose
`Close` does nothing. Four kinds of responses stay open, and `ResponsesClosed`
says that no others do: media refused by the limit, a response beyond
`maxMasterFollowDepth`, wrapped media whose client left before the end, and a
wrapped playlist whose scan stopped before the end. (A read that is under way
when the client leaves may still come to the end of the body.) An abandoned task
keeps its slot for ever; `SlotReturned` says that no other does.

### Registry

`GetOrCreateCoordinator` is a `Load` and a `LoadOrStore`, `cleanup` a test of
`ClientCount` and a removal. A request counts only after `RegisterClient`, up to
45 seconds after the lookup, while the cleanup runs every 30: two coordinators
for one stream are possible, and `SharedUnlessRemoved` says that only a removed
one is used beside another.

### SourcePublish

The disk (playlists by time stamp, the `.tmp` file, current and new slugs,
downloaded sources and their `.new` files) survives `Crash`; the path served and
the run in progress do not. `Wait` and `applyNewRemoteFiles` are one action per
file operation, so that clients (`DecodeRead`, first the current then the new
directory) and crashes come in between. A slug file that is being written is
`torn`; a crash or a failing write leaves it `broken`, and `DecodeSlug`, which
takes the first file it finds, then fails on it. Every file operation whose error
the code logs or ignores has a failing branch, `MaxFaults` of them in one
behaviour: removing the processed directory, adding to the sorter, a slug file,
the flush, the rename, a `.new` file, `MkdirAll` (which returns early), clearing,
copying and removing slugs, and old playlists. Clearing and copying stop at the
first failure, as in the code.

Names of playlists are local times in seconds. `Tick` sets the clock to any time:
two runs may have one name, and a later run a smaller name than an earlier one
(`main` sets the time zone after `updater.Initialize`). While older files with
larger names are there, `GetLatestProcessedM3UPath` does not return the playlist
published last; the properties are about the case in which it does (`InOrder`).
`published`, `partial`, `lost` and `stray` are history: the playlist renamed
last, whether its slugs have been copied to the end, whether slugs of it may be
gone (a slug, the rename or the copy failed, or a failed run removed what an
interrupted one had not copied), and whether the path served may be wrong (below).

- `LatestResolvable` holds through crashes, restarts and the next runs: no slug of
  the latest playlist is missing, and at most one is cut off for every crash and
  failing write. It is withdrawn by `lost` only.
- What the last case of `lost` means has a run of its own, `publish_interrupted`.
- `ServesLatest` is withdrawn by `stray`: a rebuild requested by discovery ends
  between the two steps of `updater.Initialize`, which then sets a path that
  `clearOldResults` has deleted; a boot with `CLEAR_ON_BOOT` removes what a run
  has just published, or fails to remove old files; a rename fails. The next run
  that ends makes it good, and the property speaks again.
- `DecodeFinds` is silent about a call that overlaps a publication: it may find
  the current slug not there any more and the new one not there any more.

`LockSources` is left out: the process has one flock object, whose `Lock`
returns at once when it is already held, so that it excludes nobody there. So is
`ctx` in `Wait`, which `main` does not cancel before the process ends, and a
`BASE_URL` that changes between runs. A `.tmp` file is there or not: that of an
interrupted run is not told from the present one's. A partial playlist file does
not occur, since the rename comes after the last flush.

### StreamMerge

A line is `[title, src, num, url, id, logo, group, auto]`. Lines of one source
are parsed in their order, those of different sources and the workers in any
order: every interleaving of the real channels is one of these. One shard stands
for all of them. A title has three forms, because the code uses three: as it is
spelled it names the stream files (`indexStreamURL`, `loadStreamURLs`); `Key` is
what `sanitizeField` makes of it, by which streams are merged; `MergeKey` is what
the channel merge rules compare. `Key` and `MergeKey` are arbitrary functions.
Include and exclude filters are sets of what they match, so that a filter that
matches nothing is not the same as none.

A stream is spilled without its URLs and without `AutoLogoURL`, as in its JSON.
`files` are the stream files by title, source and URL; those of earlier runs are
there too. Writing or reading one may fail, which is only logged (`lost`, at most
`MaxFailures`). The configured sources are read twice for every entry, when its
URLs are loaded and when it is pruned, and discovery may change them at any time
(`Configurations`; an entry records both as `loaded` and `conf`). `StringRank` is
the order of source indexes as strings ("10" before "2"), which
`mergeStreamInfoAttributes` uses, while the compile steps compare numbers.
`from` is the source `SourceURL` belongs to: a merge moves `SourceM3U` without
it, so that the fallback of an entry without URLs may be listed under another
source.

`UrlsRestored` is about the lines spelled like the entry. Lines that are merged
into it and spelled differently keep their attributes and lose their URLs, since
`filter.go:156` looks for files of the entry's own title. Which spelling the
entry has depends on the order of the workers. Left out: files with names of the
older format, and a partial file that can still be decoded.

### Discovery

Jobs come from the environment through `normalizeJob`. The first scans run one
after the other in `refreshAll`, then each job has a goroutine. A scan collects
candidates up to `MaxPages`, validates them, reads the overrides (without the
lock), compares hashes and publishes under the lock. `UpdateSources` of the
updater is `UpdateSources`, `RunEnds` and `RunFails`; `waiting` counts the calls
queued on its mutex. `MaxJobs` bounds the jobs in the environment. The phase
`crashed` is the Go runtime's reaction to a map that is read and written at once.

## Runs

| Run | Instance | Result |
| --- | --- | --- |
| `shared_buffer` | N = 3, 2 readers, 5 chunks | `TypeOK`, `NoReplay`, `NothingSkipped`, and `LogSpec`, the refinement of `ChunkLog`, hold (3.4 million states) |
| `session` | 2 clients, 1 source, N = 2 | `TypeOK`, `SingleWriter`, `CountMatches`, `PublishedWhileActive`, `SetupHasOwner`, `CleanWhenUnused` hold (2.2 million states) |
| `session_liveness` | the same, 2 attempts, 1 chunk | `WaitersReleased` (unless a peek hangs), `WriterWindsDown` hold |
| `load_balancer` | 3 sources (1 discovered) of which two, one or none are configured, 1 call, 2 other streams, 2 or unlimited laps | `TypeOK`, `SlotsAccounted`, `NoStaleVerdict`, `BalanceReturns` hold and `SelectionSpec` is implemented (102 thousand states) |
| `hls` | window 3, 7 segments, 1 failure, 4 masters | `NoSegmentSkipped`, `NoSegmentRepeated`, `EndIsVisible`, `StalledIsGivenUp` (unless a request hangs) hold |
| `direct` | 1 request, 2 attempts, 2 sources with one slot, another stream | `SlotsAccounted`, `OneSpeaker`, `ChunkNotOverwritten`, `ResponsesClosed`, `SlotReturned` hold |
| `registry` | 3 requests, 4 coordinators | `SharedUnlessRemoved`, `UnusedIsRemoved` hold |
| `publish` | 2 channels, 1 source, 2 names, 2 runs, 1 fault, 1 crash | `LatestResolvable`, `ServesLatest`, `DecodeFinds`, `FailureKeepsOldData` hold (6.2 million states) |
| `merge` | 6 lines of 3 sources, 4 combinations of ids and logos, 3 configurations, 1 failing file, buffer of 2 | `MergedOnce`, `FirstStreamLeads`, `EpgSourcesKept`, `UrlsRestored` hold (1.5 million states) |
| `discovery` | 5 configurations of up to 2 jobs, 4 URLs | `PublishedIsFound`, `DisabledStaysOut`, `PlaylistFollows`, `ChangesAreServed` (unless a rebuild hangs) hold (0.6 million states) |

Two runs show a violation.

- `session_headers`: `HandleStream` calls `WaitHeaders` to "ensure headers are set
  for reader" (`media_stream.go:240`), but `RegisterClient` may replace the header
  channel after the writer has closed it; the client then waits for ever.
- `publish_interrupted`: "Revalidation failed, keeping old data."
  (`processor.go:92`). A run publishes its playlist, and the process ends before
  all its slugs are copied. After the restart `DecodeSlug` finds the others in
  `new-slugs`. The next run fails: `cleanFailedRemoteFiles` removes `new-slugs`,
  and those channels can no longer be resolved until a run succeeds.

The models show more statements of comments and documents that the code does
not keep. They have no run of their own; the states are reachable in the runs
above, and where a property is named it says what does hold.

| Statement | What happens |
| --- | --- |
| "Start from previous to get first new chunk" (`media_stream.go:185`) | once more than N chunks were ever written, the cleared slot a new client starts from looks stale and the first chunks are skipped |
| "so waiting clients can be notified" (`coordinator.go:110`) | the client subscribes after the notification and sleeps beside its chunk until the next one |
| "Timeout in seconds before a stream is considered down." (`README.md:158`) | the writer ends silently on the previous session's state; its client waits without a writer and without a timeout |
| "client has been closed" (`proxy/constants.go:4`) | a client that joins while the last one leaves gets the cancelled writer's status and is dropped |
| "returns an error if the stream is no longer active" (`coordinator.go:216`) | it never does; a client is registered on a draining stream |
| "Max concurrent requests allowed for that source." (`README.md:133`) | probes run in parallel and are not counted |
| the same `README.md:158`, all streams | a peek, a request for a playlist or its body that hangs has no timeout |
| the same `README.md:158`, HLS | a playlist that keeps moving while all its segments fail is polled for ever (`coordinator_m3u8.go:203` renews the time of the last change) |
| "stores per-source EPG metadata retained through title merges" (`stream_info.go:5`) | `sorting.go:334` records an id under `base.SourceM3U` that base took over from another source; `EpgSourcesKept` |
| "fallback for publish race / Windows rename edge-cases" (`slug.go:59`) | current slugs are cleared before the new ones are copied and those are removed as soon as they are: a reader may look in each directory at the wrong moment; `DecodeFinds` |

Also visible: a client exactly N chunks behind misses the error chunk and polls a
closed stream for ever (`coordinator.go:327`, the branch that would tell it is
dead); a live HLS playlist that ends is partly played twice; a retry of a direct stream appends another source's bytes to a
response already begun (`media_stream.go:96`); the merge lowers `SourceM3U`
without `SourceURL`; streams that differ in spelling are merged and their URLs
are not; the file pattern of index 1 also finds the URLs of index 10
and of earlier runs (`UrlsRestored`); an override of a job whose id contains an
underscore is forgotten (`DisabledStaysOut`); a job that deletes overrides while
another reads them ends the process.

Two more comments do not hold in the models and have no run of their own. A
lapped client's slot has a new sequence number, so the check at
`coordinator.go:354` does not recognise it as "too far behind"; `NoReplay` shows
that it goes on in order. An exiting writer's
`FinishWriterSetup` frees the setup slot the next client has just claimed, so
two clients balance at once (`coordinator.go:158`); `SetupHasOwner` and
`SingleWriter` show that the slot is not lost and the ring keeps one writer.

**Bounds.** `MaxSeq` (chunks written on a coordinator) is larger than N, so that
readers are lapped and a cleared slot is older than N. Two readers or clients
are needed, and enough, for the races between one that leaves and one that
arrives. N = 2 is the smallest ring in which a position can differ from
`c.Buffer`. Counters that only grow are cut off where the code no longer tells
values apart (`written` at N + 1, `lap` at 0 if laps are unlimited). `MCStreamSessionLive`
bounds attempts and chunks: its state graph has to be finite and small, because
liveness is checked without symmetry. Clients, readers and sources are symmetric
in the safety runs. Where a request, a run of the processor or a bound is used
up the system stops, so deadlock is not checked in `session_liveness`, `direct`,
`registry`, `publish`, `merge` and `discovery`. `hls`: the window slides
past its own length, so that a whole window may be missed between two polls, and
one failed segment is enough to repeat a batch. `direct`: two attempts, since
the question is what the first still does during the second. `publish`: two
runs, the second of which replaces the first one's files, with a failing
operation and a crash anywhere, so that the second run may follow an interrupted
first one; both may have the same name, or names in the wrong order. One source
is enough, since sources differ in their files only. `merge`: a buffer of two and a title that appears four times, so that
streams of one title meet in memory, on disk and across; one of them is spelled
differently, one has the URL of another, one is excluded by its group; source 10
sorts before source 2 and begins with 1; configurations with and without the
first source of an entry. `discovery`: two jobs, also with the same id, with
ids that differ from the overrides', or without a usable URL.

**Fairness.** Weak fairness of a goroutine's own steps: Go runs a goroutine that
can run. Strong fairness of taking `InitializationMu`: `sync.Mutex` goes into
starvation mode and hands itself to the longest waiter. None for players (nobody
has to connect or leave), and none for whatever waits for an upstream: the
application's `HTTPClient` has neither `Timeout` nor `ResponseHeaderTimeout`,
and the peek, HLS requests and source downloads carry no context. A property
that an upstream can defeat by hanging therefore names the step that hangs.

- `StreamSession`: `Peek`, the writer's own peek and a read of a live body are
  not fair. `WaitersReleased` says that waiters are released unless one of the
  two peeks never ends. The writer's read ends once its context is cancelled,
  because `readAndWriteStream` selects on both; this is all `WriterWindsDown`
  needs.
- `LoadBalancer`: a probe and the reopening of a candidate end, since the balancer
  has a client of its own with a `ResponseHeaderTimeout` of 3 s (`instance.go:119`)
  and a probe is bounded by `streamProbeTimeout` as well; the deadline passes, and
  the pause between laps does not ignore it for ever: `select` picks among ready
  channels at random.
- `DirectStream`: strong fairness of `ContextDone` for the same reason, and weak
  fairness of handlers and of tasks except in the peek, in a read and in a
  playlist.
- `HLSWriter`: the ticker ticks and the goroutine runs, except where it waits for
  the upstream (`AwaitingUpstream`). `StalledIsGivenUp` says that the writer ends
  unless it stays in one of these for ever. `MaxFailures` bounds the failing
  segments, without which the writer may poll for ever (above).
- `Registry`: the cleanup's ticker.
- `Discovery`: the end of the initial scans, notifications, and the start of a
  rebuild whose mutex is free. No scan has to start and no rebuild to end;
  `ChangesAreServed` says that requests are served unless one never does.

## Proofs

TLAPS checks the theorems below for every value of the constants that satisfies
the assumptions. These say what the code guarantees of its inputs and no more:

| Assumption | What it asks for |
| --- | --- |
| `NAssumption`, `MaxSeqAssumption`, `ReadersAssumption` | a ring that is not empty, a bound on chunks, finitely many readers |
| `SessionAssumption` | at least two slots, at least one source, finitely many clients, and that the writer, "none" and clients have different names |
| `ConcurrencyAssumption` | limits between 1 and 2^31 - 1 (`UpdateConcurrency` compares with `int32(max)`) and finitely many streams |
| `BalancerAssumption` | calls are among those who take slots; the sources of a configuration, discovered sources and the URLs of a stream are of the sources there are |
| `DirectAssumption` | those who take slots are the tasks and the other streams, which are different |
| `HLSAssumption` | variants of a master are URLs that exist, a window is not empty |
| `RegistryAssumption` | finitely many requests, and a bound on coordinators |
| `MergeAssumption` | lines have the type of `StreamInfo` and stream files theirs, sources are numbers, two of them are never the same string, every title has its two keys, configurations are of the sources, a buffer holds at least one stream |
| `PublishAssumption` | a source has a set of channels, and a missing file is not one |
| `DiscoveryAssumption` | jobs have the type of `Job`, numbers are ids, redirects end at a URL |

The bounds on runs, faults, crashes, attempts, requests and scans are arbitrary
numbers there. Every proof has the same outline: `IInv` holds initially, every
action keeps it (a lemma per action or per group of actions with the same frame,
and under it a step per conjunct the action can disturb), and it implies the
invariants. All `IInv` were checked with TLC on the instances above before they
were proved.

- `SharedBufferProofs`: `TypeCorrect`, `RingIsOrdered`, `NeverReplays`,
  `NeverSkips`, `ImplementsLog`. `NoReplay` and `NothingSkipped` are not inductive. `IInv` adds
  `Positions` (a reader that was handed chunk s is at most `writeSeq` - s steps
  behind, which with `RingOrdered` gives `NoReplay`) and `Retained` (the distance
  from `cursor` to `writeSeq` is `behind`, and the slots in between are full, as
  long as it is below N; `Write` keeps it and `ClearBuffer` withdraws it). `Write`
  and `ClearBuffer`, the only steps that touch slots, have a lemma each;
  `NotStale` shows that the staleness check cannot hit a reader that is owed
  chunks. The refinement of `ChunkLog` needs two facts more (`LogInv`): chunks in
  front of a reader are later than the one it has come to (`Fresh`), and an error
  chunk is the newest and remains it (`ErrorLast`), since the writer that wrote it
  ends and the next one begins by clearing the ring. `Steps` sorts all actions
  into six kinds as the log sees them; `Taken` shows that `ReadChunks` hands a
  reader exactly the chunks it is due.
- `StreamSessionProofs`: `TypeCorrect`, `OneWriter`, `ClientsCounted`,
  `ResultOfActiveWriter`, `SlotOwned`, `NothingLeftBehind`. One invariant carries
  all of them. `Mutex` and `ActiveFlag` say who holds `InitializationMu` and that
  `WriterActive` is set exactly while a client is about to start the writer or
  the writer has not reset it; together they exclude a second writer.
  `Published` and `StatusSet` follow the published result through the deferred
  calls, a panic and its recovery included. `CleanWhenUnused` speaks of a state
  in which nobody is left, and is preserved only because somebody is always
  responsible until then: `ContextHeld` names the client that has yet to cancel a
  live context, `RingWatched` the one that has yet to clear the chunks, and both
  use `CountMatches`, since `UnregisterClient` decides by the count. The count is
  the cardinality of a set, hence the finite set of clients.
- `LoadBalancerProofs`: `TypeCorrect`, `SlotsAlwaysAccounted`,
  `VerdictsAreFresh`, `ImplementsSelection`. `IInv` says in addition that a call
  is streaming exactly when it holds a slot (`StreamsHold`), that the sources of
  a lap are the candidates of its URLs (`Scope`), and that verdicts are about
  sources of this lap and URLs already launched (`Verdicts`). With `Scope`,
  `CandidatesAllowed` turns the three filters of `tryAllStreams` into the one
  rule of `Selection`; every other step maps to a step of the caller or to none.
- `HLSWriterProofs`: `EndAnnounced` (an action property, from the steps alone),
  `NothingSkipped`, `NothingRepeated`. The writer keeps the media sequence of the
  last whole batch; `last`, the segment at hand and the first segment of the
  response are tied to it by `Batch` (within a batch), `CaughtUp` (after it:
  nothing is missing up to the end of the window) and, as long as nothing
  failed, `NotAhead` (nothing beyond it was written, and nothing twice but in
  `Final`, the window of a playlist that has ended, which then stays as it is). They hold only while the
  window keeps its length, as the properties say.
- `DirectStreamProofs`: `ResponseOfOneTask`, `BufferNotShared`,
  `NoOtherBodyLeaks`, `SlotsAlwaysAccounted`. `Turns` orders the attempts of a
  request: those before the current one have sent their result, those after it
  have not begun, and how far the current one is follows from the handler.
  `ReadsInTurn` says where a task may be while its read goes on, `Opened` that a
  task which has not yet asked for a slot holds none. `ResponsesClosed` is part of
  the invariant: every step that ends a task shows that the response is closed,
  read to its end, or one of the four. The counters have
  an invariant of their own (`Slots`), which uses `Opened`.
- `StreamSessionProofs` also proves `AlwaysShared`, that is
  `SharedUnlessRemoved` of `RegistryState` for the behaviours of `Registry`, whose
  coordinators the sessions share. It is not inductive: `RegistryInv` adds that a
  request past its lookup has a coordinator (`HasCoordinator`), without which the
  next `LoadOrStore` could leave an unknown one in use.
- `SourcePublishProofs`: `NothingUnresolvable`, `LatestServed`,
  `DecodeSucceeds`, `OldDataKept` (an action property). The argument follows the
  slugs of the playlist published last. `Compiled` says that they are complete in
  `new-slugs` when it is renamed, `Kept` that from then on each is in one of the
  two directories, complete in `new-slugs` until copied and in the current one
  afterwards, and that this survives a crash in between; it is withdrawn by
  `lost` and by nothing else. `Torn` and `Counted` bound the incomplete files:
  one is being written at a time, so that a crash or a failing write adds one.
  `Named` says that a run past its rename has published its name, `Served` where
  the handler's path and the path read by `updater.Initialize` point, also before
  and during the boot, `Reads` what a `DecodeSlug` call in progress relies on. A
  crash keeps the disk and forgets the run, so each of these is stated for the
  state without a run as well.
- `DiscoveryProofs`: `FoundIsPublished`, `DisabledNotPublished`,
  `ChangesNotLost`. `Same` says that the fingerprints and sources kept per id are
  what the last complete scan found; with it a publication computes exactly the
  sources that are due (`PublishedIndexes`, `PublishedDue`). `Follows` says that a
  change not in the playlist is in one of these places: `changed` of
  `refreshAll`, a job about to notify, the holder of `m.mu`, a waiting
  `UpdateSources`, or a run that downloaded it.

- `StreamMergeProofs`: `AlwaysMergedOnce`, `AlwaysFirstStreamLeads`,
  `AlwaysEpgSourcesKept`, `AlwaysUrlsRestored`. The properties speak of the
  published playlist, so that the invariant has to say what a half-merged stream
  owes. `Merged(e, all, added)` does: the attributes of e come from streams of
  `all`, none is missing that a stream of `added` has, e is not after any of them
  and knows every source that gave an id. `MergedOnto` shows that
  `mergeStreamInfoAttributes` adds one stream to `added`, whichever of the two
  comes first, `MergedSpilled` that losing `AutoLogoURL` changes nothing of it.
  `Sorted` says that as long as nothing failed a key that was seen is either
  buffered or spilled and `Merged` from all its streams that left the queue; a
  flush therefore only moves streams (`FlushedMoves`). `EntryOf` follows such a
  stream through `loadStreamURLs`, pruning, restoring and the inference of an id.
  `Filed` says that every stream read so far, accepted or not, has a whole file or
  is in `lost`; where all files of an entry are lost its only URL is the one kept
  in it. `EntryKept` is about the entry and the files lost so far, and stays true
  when more are (`KeptLonger`). The id that is picked is one of its streams
  (`PickedKnown`). A failure withdraws `Sorted`, and the run is not published.

Three proofs changed a model. The cases of `DecodeRead` in `SourcePublish`
overlapped, which leaves the value of a `CASE` open in TLA+ where TLC takes the
first; they are an `IF` now, in the order of `DecodeSlug`. `LoadJobsFromEnv` in
`Discovery` was a filter on sequences that the prover cannot see into; it now
says which job is the i-th one kept (`NthExists` shows that there is one).
`StreamMerge` did not say that two sources are different strings, without which
neither of two streams need come first; `MergeAssumption` does now.

Only model-checked is all liveness (`WaitersReleased`, `WriterWindsDown`,
`BalanceReturns`, `StalledIsGivenUp`, `SlotReturned`, `UnusedIsRemoved`,
`ChangesAreServed`), which is outside what the prover handles. Every invariant,
action property and refinement that a passing run checks is also a theorem.

## Not modelled

Parts of modelled components that are missing:

- `ProxyStream`: the `Invalid` set and the passthrough after
  `StatusIncompatible` with a shared buffer, and a response that is neither media
  nor playlist without one, which is `HandleStream` with a coordinator of its own.
- `handleSegmentStream`: one request, no shared state.
- Channel number groups (`expandStreamsForCompile`): a pure function on the
  entries, between `Restored` and the output.
- The EPG index: its download is I/O; `StreamMerge` takes the ids it has as a
  constant.
- `channel_icons.go`: string matching against file names; `StreamMerge` takes an
  automatic logo as an attribute of a line.
- `cleanupOrphanedSourceCaches`: deletes downloads of sources no longer
  configured; nothing else reads them.
- The order of the entries in the playlist (`SORTING_KEY`).
- Extraction of links from documents and normalisation of URLs in `Discovery`.

Left out for good: bytes, HTTP, M3U and XML text, regular expressions, logging,
measured throughput, the lengths of timeouts, authentication, the
request-forwarding handlers and the Windows application.

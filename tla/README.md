# A TLA+ model of hermit

hermit (`hmt`) is a media downloader that runs in Termux on an Android tablet: a
command line, a daemon with a persisted download queue, a metadata client, provider
adapters, a library on an SD card and a small media server.  This directory holds TLA+
modules of it, configurations that check them with TLC, and proofs checked with TLAPS.

## Inventory

| component | state it keeps | operations | interacts with | what makes it correct |
|---|---|---|---|---|
| queue (`internal/queue`) | `q.running`, battery reading; per goroutine a copy of a row | `Pump`/`tick`, `runJob`, `failJob`, `finishJob`, `SetBattery`, `CheckBattery` | job table (SQL), fetcher, library files, sidecar, registry | one goroutine per job; bounded concurrency; `done` only with a file; finite retries that wait; every queued row ends |
| job table (`internal/db`) | rows of `job`, `job_part`, `media`, `episode`, cache, history | `InsertJob` (upsert), `UpdateJob`, `ListJobs`, `SaveMedia`, ... | queue, CLI, metadata; several processes | a row never mixes two writers' fields; time order of `next_retry_at` |
| app, daemon (`internal/app`, `cmd/hmt`) | cancel function, `done` channel, socket | `StartDaemon`, `Stop`, `Add`, `daemonStart`, `daemonRun` | rpc, queue, server | at most one daemon; stop ends it; restart resumes |
| fetch (`internal/fetch`) | worker pool, channels, part files, token bucket | `Download` (direct, stream, HLS, file), `BoundedRate.Wait`, `ParsePlaylist`, `ChooseVariant` | HTTP servers, file system, vpn dialer | a finished file is complete and in order; no goroutine outlives the call; first error reported; rate bound |
| rpc (`internal/rpc`) | Unix socket | `Serve`, `Dial`, `Shutdown` | app | a socket on disk belongs to a living daemon |
| metadata (`internal/meta`) | cached shows and episodes with a TTL | `Search`, `Show` | TMDB, job table | a cached show is complete |
| providers (`internal/provider`) | enabled adapters, health scores | `Resolve`, `ResolveAll`, `Search`, scoring | queue, app | failing hosts sink, order follows health |
| library (`internal/lib`, `disk`, `scrub`, `label`) | media files, sidecars, secure marker | `List`, `Reclaim`, `Fits`, naming | queue, server | reclaim frees what was asked and no more; spare space is kept |
| mux (`internal/mux`) | none | `Remux`, box scan | queue | the moov box is recognised where it is |
| media server (`internal/srv`) | none | HTTP and DLNA handlers | library | out of scope: stateless I/O |
| vpn (`internal/vpn`) | state file, interface, rules | `Up`, `Down` | every dialer | a failed `Up` leaves nothing behind |
| tui, play, doctor, config, platform scripts | menu position / none | rendering, one command line, printing, parsing | app | mostly pure I/O |

What is hard here: a killed or stopped daemon between any two steps (Android kills it
often); rows written by two processes; a tick that works on a list it read earlier;
errors that are ignored on purpose (`_ = q.DB.UpdateJob`); deferred calls whose order
matters; retries that are visible as queued at once; several workers writing parts
that are resumed by size alone.  `PROJECT.json` lists each such hazard at its line with
the properties that cover it.

## Modules

| module | what it is |
|---|---|
| `Queue` | the queue, the job table as the queue uses it, `hmt add`, the daemon's life, and the files a job leaves |
| `JobLedger` | what the queue promises: leases, reports, published files |
| `MCQueue` | the constants of the small instances of `Queue` |
| `QueueProofs` | theorems about `Queue`: types, limits, files, the refinement of `JobLedger` |
| `QueueRerunProofs` | theorems about `Queue`: jobs that run more than once |
| `RangedDownload` | `Downloader.Download` of a direct source: the worker pool, parts that are resumed, and the plain stream |
| `MCRangedDownload` | the constants of the small instances of `RangedDownload` |
| `RangedDownloadProofs` | theorems about `RangedDownload` |
| `Hls` | `Downloader.Download` of an HLS playlist, of a `file://` source and of a stream |
| `BoundedRate` | the token bucket that all downloads share |
| `Daemon` | `hmt daemon run`, `start`, `stop`, and the socket they share |
| `MCDaemon` | the constants of its small instance |
| `DaemonProofs` | theorems about `Daemon` |
| `MetaCache` | `meta.Show` over the tables `media`, `season`, `episode` |
| `MetaCacheProofs` | theorems about `MetaCache` |
| `Registry` | the health of hosts, and `ResolveAll`, which ranks by it |
| `Vpn` | `Up` and `Down` of the tunnel, command by command |
| `Tui` | the menu: screens, cursor, refreshes that overlap |
| `Space` | the space on the file system: `Fits`, a job's files, `Remux`, `Reclaim` |
| `MCSpace` | the constants of its small instance |
| `Formats` | functions others rely on: texts of times, names of files, boxes of an MP4 file |
| `FormatsProofs` | theorems about `Formats` |
| `MCServices` | the components that share no state, in one run |
| `ServicesProofs` | theorems about `Tui`, `Registry`, `Space`, `Vpn`, `BoundedRate` and `Hls` |
| `NatLemmas` | least and greatest elements, and induction with their help |

### Queue

A step is one access to shared state: one SQL statement, one critical section of
`q.mu`, or one change of the file system.  Everything between two such accesses is
local to a goroutine and belongs to the step before it.

* `rows` is the job table, reduced to what the code decides on: the state, the source
  (or none: then `runJob` resolves one), the attempts, `next_retry_at` (empty, still to
  come, past: what `ListJobs` finds out about it), the hash, and whether `finished_at` is
  set.  A hash stands for the download it was taken of, the set of sources whose bytes are in it.
* A file is a download as it was fetched (`Plain`) or what ffmpeg made of one (`Muxed`): the
  code takes the hash while it downloads (`queue.go:181`), and not again of what ffmpeg writes
  and `RenameStaged` publishes.  With the remux on, row and sidecar therefore keep a hash that
  the library file does not have; with the remux deferred, the default, they are the same.
* `tmp`, `staged`, `lib`, `sidecar` are files: the job's tmp directory, the output
  of ffmpeg next to the target, the library file, and the `.hermit.json` of a show.
* `running`, `battery` are the fields of `Queue` under `q.mu`; `tick` and `listed` are the
  locals of the pump goroutine (`max`, `active`, the rest of the slice from `ListJobs`);
  `pc`, `job`, `copy` are the goroutines of `runJob`, each with its own copy of the row.
* `TickCheck`, `TickCount`, `TickList`, `TickSkip`, `TickLaunch` are the parts of `tick`.
  The rows of a tick are launched in the order of the query (`FirstListed`); the order of
  two rows with the same priority follows their ids, which are given in the order of adding.
* `Begin` ... `Finish` follow `runJob` from one access to the next.  Every error
  path is there: a failing statement (`UpdateJobFails`: the context is cancelled, or SQLite
  reports an error), no source, no room, a failing download, a failing rename, a
  failing sidecar.  `Cleanup` and `Release` are the two deferred calls in the order Go runs
  them, last registered first.
* `Add` is `App.Add`/`InsertJob` from any process: a new row, or, for a row with an
  `episode_id`, the `ON CONFLICT` update, which keeps `next_retry_at`, the hash and
  `finished_at`.  `RetryDue` is the clock passing `next_retry_at`.
* `Stop` cancels the context; `Exit` is the end of the process, after `Stop` or by a
  kill.  `daemonRun` does not wait for goroutines, so the two leave the same.

Abstractions.  The download is three steps: some parts written, failure, or
completion with any non-empty mix of the sources whose parts are in the tmp directory
(parts found there are resumed).  Names and paths are functions of the job (`TargetOf`,
`ShowOf`).  `os.RemoveAll` is assumed to succeed, its error is ignored by the code.  One
statement is atomic, and a cancelled statement has no effect.  Files are only changed by
the queue: neither the user nor `hmt lib reclaim` removes any.  One daemon runs at a time.
Job states that no code assigns (`resolving`, `probing`, `verifying`, `paused`,
`canceled`) are left out.

### JobLedger

The promise of the queue without goroutines or errors: a job is executed under a lease
that at most one executor holds, only its holder reports a state or publishes
a file, a file is never replaced under a row that says done, and done is reported only of
a download that the published file is made of (`MadeOf`).  Anyone may submit a job at any time, also while it
is being executed, and all leases may be lost.  `Queue!LedgerSpec` is the refinement:
the lease is `q.running`, the file is the library file at the job's path.

### RangedDownload

`RangedDownload` counts bytes in units, what one `Read` returns; a unit carries its source
and its offset, so that an order, a gap, a repetition or a mixture is visible.  The
caller (`main`), the producer (`next`, `closed`) and the workers (`pc`, `idx`, `at`, `err`) are the
goroutines of `downloadDirect`; `jobs` and `errCh` its channels; `ctxDone` and `poolDone` its
two contexts.  A probe that is not answered with 206 and a total makes a plain stream of any
source (`ProbeStream`).  A worker's handling of an error is two steps, `Report` (the non-blocking
send) and `Cancel`, in the order of the code.  `Faults` names what may go wrong: `refuse` (a
request fails or has the wrong status), `plain` (the probe is answered without a range),
`break` (a read fails), `short` (the body ends early without an error: a part is then fetched
further, a stream is taken for complete, which the history variable `cut` remembers), `long` (the server goes on behind the range), `disk` (any local error),
`cancel` (the caller's context) and `kill`.  The rate limiter only delays and is left out.
The size the probe reports is taken to be the true one.  The queue removes the job's tmp
directory, `hmt get` keeps the parts; the model is the second, and so covers the first
after a kill.  Its fairness: goroutines run, requests and reads end, and whoever wants the
file asks again (needed for `ResumeCompletes` only).  Two workers and a part shorter than
the others show every race between workers, for they share nothing but the channels,
the contexts and the counter; seven units with one worker fill the channel.
`CHECK_DEADLOCK FALSE`, because calls and faults are bounded.

### Hls

The sources that `RangedDownload` does not cover.  A playlist is a sequence of lines, and
`ParsePlaylist` is the recursive function that takes them one after another with
`ParseLine`: the line after `EXT-X-STREAM-INF` is its
URL whatever it is, `EXT-X-MEDIA` and `EXT-X-TARGETDURATION` are passed over, any other tag
in the place of a segment is none.  `ChooseVariant` takes the first of the variants with the
best score of the code; references are resolved against the playlist they stand in.  A
resource is read block by block and may break after any; a retry starts over in the
file.  `io.EOF` ends a segment or a stream wherever it comes, also in the middle of a body
without a length (`download.go:361`, `435`): the call goes on and succeeds, and `cut` remembers
it.  Where nothing was cut, `FileIsWhole` compares the file of a call that succeeds with what
the source consists of, which the property computes from the pages without the parser's state.

The comment on `ChooseVariant` says that 1080p is preferred; the code adds 100 for it and
a ten-thousandth of the bandwidth, so that 720p at more than a million bits per second beyond
the 1080p variant wins.  `CODECS` is cut at its first comma with the other attributes, so
that `codecs` in the model is what is left of it: AV1 behind a comma is not seen.

### BoundedRate

Time goes in ticks, tokens and sleeps are multiples of one.  `Turn` is the critical section
of `Wait`: a reader that is awake refills the bucket, and takes what its chunk asks for or
sleeps for what is missing, letting go of the lock, so that another may take the tokens
meanwhile.  `burst` is a second bucket, of history: it holds the excess of every stretch of
time that ends now, so that bounding it bounds them all.  `FairSpec` assumes that time passes
and that a reader that is awake gets the lock, which Go's mutex grants.

### Daemon

`path` is the socket file, as the process whose socket it is, `open` the listeners: the two
differ when a file was removed, or bound over, under a process that still listens.  A daemon
goes through `newApp`, the look at an old socket file, its removal, `Listen`,
`StartDaemon`, and the deferred calls; `Close` of a listener removes the file of that name,
whoever bound it.  A starter dials, spawns a child, and polls fifty times for a socket that
answers; a stopper dials, calls `Shutdown`, and waits for the answer.  A `Shutdown` that arrives before
`StartDaemon` has set the cancel function cancels nothing: the daemon ends through `done`.
`orderly` is history and turns false when a command begins while another one is
half-way (`Meddle`): the code has no lock file, two starts at once do give two
daemons, and the properties about one daemon say so by their premise.
Its fairness: a daemon process that is not killed goes on from step to step.  Nothing is
assumed of starters and stoppers, which may stop for good anywhere, nor of kills and failures.

### MetaCache

One TMDB number.  A step is one request or one statement.  `known` is history: all that
calls have fetched to the end.  A movie and a show may have the same number, and share the
row.  A call that fails after `SaveMedia` leaves a fresh row without its seasons, which
`Show` then returns from the cache until the TTL is over; `CompleteShow` is therefore about
rows whose call succeeded (`media.by`).

### Registry

The moving average is kept in units of `1/Scale`, rounded down; the run has a scale that is a
multiple of ten and of a power of five large enough that nothing is rounded.  `ResolveAll` asks the providers one after
another; each source is scored when its provider answers, by the health of its host at that
time, and a probe of any host may come between.  Nothing in `src/` calls
`Registry.Probe` but its test: the module models what the package offers to callers in one
process, not what today's commands do.  The plan lets a host sink for a week after three 404
answers (`PROJECT_PLAN (1).md:475`), the code bans it for 24 hours after five failures of any
kind; as no command counts failures at all, no property is stated about when a ban comes.  No adapter sets a latency, so `Offers` has none.

### Vpn

`have` is what there is: the interface, the rule, the route, the generated file, the state
file.  Each external command is a step that may fail, and the process may be killed or the
tablet rebooted between any two.  `Up` begins with a `Down` whose errors are ignored.
`disturbed` is history: some command failed for a reason of its own.

### Tui

`Update` handles one message at a time; a refresh reads the status and sends it in
another goroutine, so that `ReadStatus` and the handling of its message are apart, and
several may be out.  `Init`'s empty status is such a message too, out from the start, which may
come in after any other.  Messages overtake each other and the status shown does go back in
time; no document says it should not, and no property does.  A status is the number of its jobs,
from which the list of downloads is made when its key is pressed (`JobItems`) and not when a
status comes in.  Rendering is left out.

### Space

Bytes of one file system: a job reserves nothing, it compares its size with the free
space (`Fits`), writes its parts, a second copy while it is assembled, and another when it
is remuxed.  `OvercommitBounded` says how far below the reserve that can lead: twice the
largest size for each of the jobs that may run at once, of which the last one's own size was checked.
This is what the code keeps and less than the plan asks for (`PROJECT_PLAN (1).md:335-357`): a
margin that has room for the second copy, no new part once free space is below half the
reserve, a pause of everything below a quarter.  The code looks at the space once, before
a job starts, and leaves the check out when the source does not tell its size; in the run, free
space goes below both marks and the property holds.
`Reclaim` walks over the files that it listed, and may fail to remove any.

### Formats

One operation per step, on all arguments from small sets, with its result.  Texts
of times are compared as SQLite compares them, in base 3 instead of ten; names are cleaned,
padded and cut at 20 characters instead of 120; boxes have short, 64-bit, zero and too large sizes.
`LimitPathComponent` cuts a long name with its `.mp4`: such a file is not listed by `Scan`
(`Listed`) and so never found by `Play`, while the plan cuts the title only and keeps the extension
(`PROJECT_PLAN (1).md:254`).  `EpisodesApart` says of cut names that they stay apart and keep their code,
and of the others that they are listed as well.  `MatchEpisode` looks for `S01E10` anywhere in a name and not at which show: it finds
the right file, and may find another one, such as episode 100.  What the code does in a loop is
a recursive function here, of the number of turns.

### MCServices

`Hls`, `MetaCache`, `Registry`, `Vpn`, `Tui`, `Space`, `Formats` and `BoundedRate` share no
variable.  The run is their sum and not their product: the first step chooses
the component (`focus`), the others stay in their initial states.  All are extended, so that the
run and the theorems speak of the same definitions and constants.

## Runs

`CHECK_DEADLOCK FALSE` everywhere for `Queue`: with the bounds on adds and daemon
starts used up, and the daemon down, the system really has nothing left to do.

| run | question | bounds |
|---|---|---|
| `queue_crash` | does a row stay true of the library through kills, stops, restarts, a failing statement and adding it again; are its waits and attempts kept, its sources not mixed? | 1 job, 2 goroutines, limit 2, with ffmpeg, 2 sources, 2 adds, 2 daemon starts, 1 failing statement, 1 retry |
| `queue_requeue` | can a row that is requeued or added again get a second goroutine, lose parts, or finish without its sidecar; are there ever more goroutines than the limit? | 3 jobs with paths in 2 shows, 2 goroutines, limits 2 on battery and 1 on the charger, readings of both, remux deferred, 3 adds, 1 start |
| `queue_live` | is a queued row taken up in the end, and does it end as done or failed? | 2 jobs, 1 goroutine, 2 adds, 2 starts, 1 failing statement, readings 12 % and 13 % |
| `queue_no_reading` | is it taken up without battery readings? **violated** | 2 jobs, 1 add, 1 start |
| `queue_restart` | does it end as done or failed over a restart? **violated** | 2 jobs, 1 add, 2 starts |
| `queue_one_show` | does the sidecar know every finished episode of a show? **violated** | 2 jobs of one show |
| `ranged_faults` | is a finished file complete, is the first error reported, is no goroutine left behind? | 5 units in parts of 2, 2 workers, 3 calls, 2 faults of any kind, a probe without a range among them |
| `ranged_live` | does every call return, and do repeated calls succeed? | a ranged source of 7 units in parts of 2 and a stream of 2 units, 1 worker (channel of 2), 3 calls, 2 faults of any kind but `long` |
| `ranged_two_urls` | is the file that of the URL asked for, after another one broke? **violated** | 2 sources, 1 fault |
| `daemon` | who owns the socket, what may a start report, does a stop end its daemon, is a file left behind? | 2 processes, 2 starts, 2 stops, 1 run by hand, 1 kill, 1 `newApp` that fails |
| `services` | the properties of the eight components without shared state | see below |
| `remux_faststart` | does a remuxed file have faststart? **violated** | 2 jobs, one at a time |

Why the bounds are enough: rows interact only through the limit, the list of a tick, the
sidecar of a show and the names of goroutines.  Three rows of two shows under limits of two and one
(`queue_requeue`) show every interference of one row with another: a tick with room
for one more, a row that waits behind two that run, a limit that falls while both do.  One row with
two goroutines (`queue_crash`) shows every interference of a row with its own past.
Two starts give a first life with leftovers and a second that meets them.  Adds reach
a row in every state, because `Add` is enabled at any time.  A failing statement may be
any of those the daemon executes.  The number of goroutine names is never the reason why a
job is not started, except in `queue_live`, where one goroutine is the limit.  In `queue_requeue` there are
two names for a larger limit of two: a tick that is about to start a third, or a second one under the
limit of one that it read, violates `ConcurrencyBound` before it does.

The bounds of `services`, and why they are enough:

* `BoundedRate`: 2 readers, a bucket of 4 with 2 a tick, reads of up to 6: smaller, equal to
  and larger than the bucket.  The theorem has no bounds.
* `MetaCache`: 3 calls of either kind, 2 seasons of one episode: a call that saved the row,
  one that fails over it, and one that reads.  The theorems have no bounds.
* `Registry`: 2 hosts, 2 providers with 3 sources, 6 probes: a ban takes five, one is left for
  the other host, before or while the providers are asked.
* `Vpn`: 3 failures, kills or reboots over 4 commands, that is, a broken `Up`, a broken
  `Down` and two more.  The theorems have no bounds.
* `Tui`: lists and statuses of up to 2 lines, 3 commands at once: `Init`'s, an early refresh and a
  late one, each of which may fail.
* `Hls`: six playlists (a master, two media playlists, one with AV1, one whose variant is a
  comment, one of both kinds), one that is missing, a stream and a file; 2 blocks; 2 attempts.
* `Space`: 3 jobs of 1 or 2 bytes, 2 at once, 13 bytes with 7 in reserve: jobs that fit alone
  and not together, and a reclaim while they run.
* `Formats`: all pairs of times in 9 seconds of 9 ticks, names of 5 titles (empty, only dots,
  slashes, too long) with 4 numbers of one to three digits, all files of up to 3 boxes.

`daemon` has two of each command because a third meets the same leftovers: a file
without a process, a process without a file, or a process under another one's file.
`CHECK_DEADLOCK FALSE` in these runs, because commands, calls and faults are bounded.

Fairness (`Fairness` in `Queue`): the pump and every goroutine keep running while the
process lives, every download and remux ends (the HTTP client has a timeout of four
minutes, ffmpeg is assumed to end), and the clock advances.  Nothing is assumed of
`Add`, `StartDaemon`, `Stop`, `Exit` or battery readings: `QueuedIsTaken` and `QueuedIsSettled`
have as premises that the daemon stays up and the gate stays open from some point on;
`QueuedIsSettled` also that the daemon is started once and no statement fails, since a failing
`UpdateJob` in `failJob`, or a stop, leaves a row half-way.

`FinishedHasSidecar` is what the plan says, and a second episode of a show breaks it
(`queue_one_show`).  `SidecarKept` is what the code keeps: the entry of a finished row stays until another
episode of the show is written.  Both are about the remux deferred, the default, where the sidecar comes before
done.  With the remux on, a finished row that is added again keeps its `finished_at`, and so is
done and finished before its new sidecar is written.

`BackoffRespected` names the one way in which a wait is cut short with more than one job at a time, as by
the defaults of 4 and 8: another slot lets a tick begin between
the launch of a goroutine and its first `UpdateJob`; the tick lists the row as queued and due, and, once
the goroutine has failed, put the row off and let go of it, starts it from that older copy.
Nothing else may touch a row that waits, and with one slot nothing at all: the tick does not
get past its count while the goroutine exists.  `queue_crash` has two slots on battery, so that this happens in it.

Three violations in `Queue` are disagreements between the code and the project's own plan,
quoted in `PROJECT.json`: nothing in the program ever reads the battery, so `hmt add`
only ever adds rows (`queue_no_reading`); a row left `downloading` by a stopped daemon is
not listed again (`queue_restart`); and a show's sidecar is rewritten by each episode
(`queue_one_show`).

A fourth comes from `RangedDownload`: parts are continued by size alone, so a download of another
URL to the same destination is put together from both (`ranged_two_urls`).  `CompleteFile`
is checked for one ranged source.  A stream without a length that ends early is taken for the
file (`StreamEnd`), as the code does; the file is then what came before that end, and nothing of an earlier call.
`ResumeCompletes` is checked without `long`: a part that a server made too long stays invalid
for all later calls.

A fifth comes from `Space`: `Remux` asks ffmpeg for faststart only if the name of the output ends in
`.mp4`, and the queue, its only caller, gives it a name that ends in `.tmp`
(`remux_faststart`).

Where the code differs from the plan, and no run is about it: when a host sinks (see `Registry`), what
happens when space runs out (see `Space`), what is cut of a long name (see `Formats`), and, with the remux
on, of which file the hash is (see `Queue`; `PROJECT_PLAN (1).md:304` means it to recognise a file by).

## Proofs

Every invariant and every action property that a passing run checks is also proved, for all
values of the constants.  The assumption of the module on its constants (`QueueAssumption`, ...) is
always used; further ones are named in the theorem and discussed here.  TLC checks the same
properties on the small instances above, where a mistake is found cheaply.

### QueueProofs

* `TypeCorrect`, `MutualExclusion`: the inductive invariant `BaseInv` adds to `TypeOK` and
  `OneGoroutinePerJob` that a busy goroutine has a job that is in `q.running`
  (`JobsHeld`), which is what makes the check in `TickLaunch` enough, and that a
  goroutine beyond the resolving step has a source (`SourceKnown`).
* `BoundedConcurrency`: `CountInv` relates the local `active` of a tick to the real
  number of goroutines: goroutines may end after they were counted, and only the tick
  itself starts new ones, so the count is never too low.
* `DoneFiles`, under `OwnTargets` (no two jobs share a path): `FileInv` says what is true of
  the row, the copy, the staged file and the library file at each place of `runJob`; a
  row says done only when nothing will replace its file any more.  That the file is the row's
  download or ffmpeg's output of it is all that holds: the hash is not one of ffmpeg's output.
* `ImplementsLedger`, under `OwnTargets`: initial states map to initial states, and every step
  to a step of `JobLedger` or to a stutter, with the invariants above.

### QueueRerunProofs

It builds on `BaseInv` and `CountInv`.  `StepKinds` and `OwnStep` divide the steps once and for
all: a goroutine touches only its own job's row and tmp directory, on which no other one works.

* `AttemptsStayBounded`, `PartsAreKept`: from `BaseInv`; the bound on attempts also speaks of the
  copies that goroutines and the tick hold.
* `WaitIsKept`, for every limit: `RetryInv` says that no copy which a tick has listed, or whose goroutine
  has not failed, waits for a retry, and that between its first `UpdateJob` and `failJob` neither does the
  goroutine's row; where the limit is one, no row of such a copy waits at all, because `CountInv`
  leaves room for no goroutine while a tick launches (`AloneAtLaunch`).
* `SidecarsKept`, under `DeferRemuxToCharge` (the default): `SidecarInv` says that until its last
  `UpdateJob` neither the row nor the goroutine's copy says done, and that the sidecar knows the file
  by then, or another job of the show has written it since.
  Without the assumption the code does not have the property: see the note on the remux above.
* `FilesAreUnmixed`: in the first life of the daemon a job without a goroutine has no parts
  (`LifeInv`, `PartsInv`), and so a goroutine finds none when it begins.  A second life may find
  those that a killed one left, of a source that the row no longer has; `SingleSource` says
  nothing of it.

### RangedDownloadProofs

`Typed` is `TypeOK` with what each goroutine's locals are at its place; `GoroutinesEnd` follows from it.

* `CauseIsReported`: `Cause` says that when a worker is cancelled by another one, and not by
  the caller, an error is in `errCh` already, because `Report` comes before `Cancel`.
* `AllPartsCounted`: `Counted` says that the parts counted, in the channel and with a worker
  add up to those produced, so that none is lost or counted twice.
* `FileIsComplete`: `PartArithmetic` shows that the parts cover the source; `Assigned` that no two
  workers have the same part; `Contents` that a part file is a prefix of its part or
  longer than it, at all times and through kills; `Assembled` that the destination holds
  the parts so far.  It assumes `OneRanged` (there is one ranged source: two are mixed, see
  `ranged_two_urls`), and nothing of servers: probes may be answered in any way, and bodies end anywhere.

### DaemonProofs

`IInv` says what a process has at each of its steps (`Stages`) and, only while commands have not
met (`orderly`), that at most one command is under way and the socket is that of the process that
serves (`Apart`).  `OneDaemonPumps` and `StartIsTrue` follow; `SocketIsRemoved` needs
neither `orderly` nor `Apart`, only that nobody was killed.

### MetaCacheProofs

`CompleteShow` and the action property `NothingForgotten`, for any
set of calls and any number of episodes and seasons (`MetaAssumption`).  `Progress` says of a
call what it has saved at each place of its two loops, which other calls cannot undo because
the tables only grow (`Growth`); `Credit` that the row counts what the call that saved it
will have saved; `Saved` that nothing is returned, or remembered, that is not in the tables.

### ServicesProofs

* `Tui`: `TuiInv` adds what the lists are; every new list puts the cursor on its first line, and no
  message that comes in later changes the list.
* `Registry`: for `BannedHostsSink` (`RankInv`) a source of a host
  that is banned all along has the score of a ban, and any other one more.
* `Space`: `OvercommitIsBounded` assumes `EnoughDisk`: the disk is not below the bound (`Floor`)
  to begin with, when nothing has run.  `SpaceInv` says that what is free is above it by all that
  the jobs under way may still write (`Outstanding`, two copies of each less what is there).
* `Vpn`: no assumption.  The invariant says at each place of `Up` what has been built
  so far, that what is left can still be taken down (an interface never lacks the generated
  file that `wg-quick down` needs), and what an undisturbed `Down` has already removed.
* `BoundedRate`, from `RateAssumption` (the rate is positive): the history bucket and the tokens,
  with those that the time since the last refill is worth, add up to the capacity.
* `Hls`: `SegmentsAreReferences` shows by induction over the lines that the segments of a
  playlist without variants are its references; `HlsInv` that the file holds the resources
  read so far, also when a retry starts over in a file that is longer.

### FormatsProofs

The module has no state to speak of: the invariant `Answered` says that the result is the
one of the operation that was asked for, and the rest is about the functions.

* `RetryIsDue`: two texts compare by their first two numerals, the whole seconds, unless these are
  the same; so the order of the texts is that of the seconds, whatever the fractions do.
* `EpisodesStayApart`: a name is laid out as title, code and the rest (`Laid`), and ends in its
  extension (`WholeNameListed`); of one that is cut a part is left (`Part`).  The cut comes after
  the code or, for a longer code of the other episode, shows in the length; the
  numerals of different numbers differ.
* `LateIndexIsSeen`: induction over the boxes.  The walk of `boxPositions` goes on, stands at the end
  (behind a box that takes the rest of the file), or has found both (`GoesOn`,
  `StandsAtEnd`, `BothFound`); in each case its two positions compare as those of the boxes.

### NatLemmas

The library's induction theorems take an operator for a parameter, which the provers cannot
instantiate.  Here a statement about all numbers up to `N` is a *set* of numbers: if one were
missing there would be a least (`LeastElement`, from the library's theorem on well-founded
relations, `WFMin`).  `UpTo` and `UpToBy` are that induction, from the predecessor or from any
earlier place (as for `n \div 10`); `Recursion`, `RecursionBy` and `RunsTyped` give
recursive functions existence and type.

### Only model-checked

Liveness, which is out of the prover's reach: `QueuedIsTaken`, `QueuedIsSettled`, `CallReturns`,
`ResumeCompletes`, `StopEnds`, `BytesFlow`.

## Not modelled

* `meta.Search`, `Registry.Search`, `HostStats`: they only read.  The adapters and their HTTP
  calls: functions of what servers answer, taken as `Offers` and `Pages`.
* The allow-list of origins, and the headers of requests.
* Loading, validating and parsing the configuration: once, before anything runs.
* The media server and DLNA, `play`, `doctor`, the commands that parse and print: they keep no state.
* In `db`: `SaveJobParts`, the playback history, tables that no code writes, migrations, vacuum.
* In `lib`: `Secure`, `lib gc`, `PreviewRename`, `Verify`, which go over the files once, in one
  command; `label.Filename`, which no published file gets its name from.
* The platform scripts; what they start is the action `Run` of `Daemon`.

## Plan

Done: `Queue`, `JobLedger`, `RangedDownload`, `BoundedRate`, `Daemon`, `MetaCache`, `Registry`,
`Space`, `Vpn`, `Tui`, `Hls`, `Formats`, and a proof of each of their safety properties.

Left, in this order:

1. `SingleSource` over several starts, for rows whose source does not change.
2. Runs for the differences from the plan that no run is about.

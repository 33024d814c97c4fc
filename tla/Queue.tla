------------------------------- MODULE Queue -------------------------------
(***************************************************************************)
(* The persisted download queue of the hermit daemon: internal/queue on    *)
(* top of the job table of internal/db, with the files a job leaves in the *)
(* state directory and in the library.                                     *)
(*                                                                         *)
(* One pump goroutine (Pump/tick) lists queued rows and starts one         *)
(* goroutine per row (runJob).  `hmt add' writes rows from another process *)
(* at any time.  The daemon may be stopped or killed between any two       *)
(* steps; rows and files survive, everything else is lost.                 *)
(*                                                                         *)
(* A step is one access to shared state: one SQL statement, one critical   *)
(* section of q.mu, or one change of the file system.                      *)
(***************************************************************************)
EXTENDS Integers, FiniteSets

CONSTANTS
    Jobs,                 \* row ids of the job table, assigned in this order
    Keyed,                \* the rows whose episode_id is set: adding them again hits ON CONFLICT
    Priority,             \* Jobs -> Int, the priority column
    Workers,              \* names for the goroutines that run runJob
    Sources, NoSource,    \* downloadable sources, and the source whose URL is ""
    Targets, TargetOf,    \* library paths, and the one runJob computes for a job
    Shows, ShowOf,        \* show directories, and the one a path is in
    ConcurrencyBattery, ConcurrencyCharging, MinBatteryPct,
    MaxAttempts, DeferRemuxToCharge,     \* config.PowerConfig
    HaveFFmpeg,           \* mux.Available()
    BatteryReadings,      \* the arguments with which SetBattery is called
    MaxAdds, MaxStarts, MaxDBErrors      \* bounds: adds, daemon starts, failing SQL statements

ASSUME QueueAssumption ==
    /\ Jobs \subseteq Nat \ {0} /\ IsFiniteSet(Jobs)
    /\ Keyed \subseteq Jobs
    /\ Priority \in [Jobs -> Int]
    /\ NoSource \notin Sources
    /\ TargetOf \in [Jobs -> Targets]
    /\ ShowOf \in [Targets -> Shows]
    /\ ConcurrencyBattery \in Int /\ ConcurrencyCharging \in Int
    /\ MinBatteryPct \in Int /\ MaxAttempts \in Int
    /\ DeferRemuxToCharge \in BOOLEAN /\ HaveFFmpeg \in BOOLEAN
    /\ BatteryReadings \subseteq [pct : Int, charging : BOOLEAN]
    /\ MaxAdds \in Nat /\ MaxStarts \in Nat /\ MaxDBErrors \in Nat

VARIABLES
    rows,       \* the job table
    tmp,        \* job -> the sources whose parts are in its tmp directory
    staged,     \* target -> content of target.tmp, the output of a remux
    lib,        \* target -> content of the library file, NoFile when there is none
    sidecar,    \* show directory -> the entries of its .hermit.json
    phase,      \* "up", "stopping" (context cancelled), "down"
    battery,    \* q.batteryPct and q.charging
    running,    \* q.running
    tick,       \* the pump goroutine: where it is in tick, and its locals
    listed,     \* the rest of the slice tick got from ListJobs, by job
    pc,         \* goroutine -> where it is in runJob
    job,        \* goroutine -> the id it runs
    copy,       \* goroutine -> its own copy of the row
    adds, starts, dbErrors      \* how much of each bound is used

rowVars  == <<rows, dbErrors>>
fileVars == <<tmp, staged, lib, sidecar>>
pumpVars == <<tick, listed>>
procVars == <<phase, battery, running, tick, listed>>
goVars   == <<pc, job, copy>>
vars     == <<rows, tmp, staged, lib, sidecar, phase, battery, running, tick, listed,
              pc, job, copy, adds, starts, dbErrors>>

(***************************************************************************)
(* A row, without what nothing decides on.  A time is kept as what         *)
(* ListJobs finds out about it: next_retry_at is empty, still to come, or  *)
(* past.  state "absent" means that there is no such row.                  *)
(*                                                                         *)
(* A download stands for its bytes, and is the set of the sources they are *)
(* from; sha is the download whose hash the row keeps.  A file is a        *)
(* download as it was fetched, or what ffmpeg made of one, whose hash is   *)
(* another one.                                                            *)
(***************************************************************************)
File == [from : SUBSET Sources, muxed : BOOLEAN]

Plain(c) == [from |-> c, muxed |-> FALSE]
Muxed(c) == [from |-> c, muxed |-> TRUE]
NoFile == Plain({})

\* What may be published of a download: itself, and what ffmpeg makes of it.
Makings(c) == {Plain(c)} \cup IF HaveFFmpeg /\ ~DeferRemuxToCharge THEN {Muxed(c)} ELSE {}

JobStates == {"absent", "queued", "downloading", "remuxing", "done", "failed"}

Row == [state : JobStates, src : Sources \cup {NoSource}, attempts : Nat,
        retry : {"none", "future", "past"}, sha : SUBSET Sources, finished : BOOLEAN]

NoRow == [state |-> "absent", src |-> NoSource, attempts |-> 0, retry |-> "none",
          sha |-> {}, finished |-> FALSE]

NoJob == 0

Places == {"idle", "begin", "resolve", "prepare", "saveTmp", "fetch", "fetching",
           "markRemux", "remux", "renameStaged", "rename", "markDone", "sidecar",
           "flag", "finish", "fail", "cleanup", "release"}

TickIdle == [at |-> "idle", max |-> 0, active |-> 0]

NoReading == [pct |-> -1, charging |-> FALSE]

----------------------------------------------------------------------------
(* internal/queue: power gate and tick *)

CheckBattery == battery.charging \/ (battery.pct >= 0 /\ battery.pct > MinBatteryPct)

Effective(n) == IF n <= 0 THEN 2 ELSE n

MaxConcurrency ==
    Effective(IF battery.charging THEN ConcurrencyCharging ELSE ConcurrencyBattery)

ListLimit(n) == IF n <= 0 \/ n > 1000 THEN 200 ELSE n

\* Mutant of Pending: next_retry_at is not looked at.
PendingEager == {j \in Jobs : rows[j].state = "queued"}

Pending == {j \in Jobs : rows[j].state = "queued" /\ rows[j].retry # "future"}

Before(i, j) == Priority[i] < Priority[j] \/ (Priority[i] = Priority[j] /\ i < j)

FirstOf(S, n) ==    \* the sets that ORDER BY priority, created_at LIMIT n can select from S
    {L \in SUBSET S : /\ \A i \in L, j \in S \ L : Before(i, j)
                      /\ Cardinality(L) <= n
                      /\ Cardinality(L) < n => L = S}

Alive == phase \in {"up", "stopping"}

SetBattery ==
    /\ Alive
    /\ battery' \in BatteryReadings
    /\ UNCHANGED <<rowVars, fileVars, phase, running, pumpVars, goVars, adds, starts>>

\* tick returns at once when CheckBattery says no: nothing changes, and there is no step
TickCheck ==
    /\ Alive /\ tick.at = "idle" /\ CheckBattery
    /\ tick' = [tick EXCEPT !.at = "count"]
    /\ UNCHANGED <<rowVars, fileVars, phase, battery, running, listed, goVars, adds, starts>>

\* Mutant of TickCount: jobs that are running already are not counted.
TickCountFresh ==
    /\ tick.at = "count"
    /\ tick' = [at |-> "list", max |-> MaxConcurrency, active |-> 0]
    /\ UNCHANGED <<rowVars, fileVars, phase, battery, running, listed, goVars, adds, starts>>

TickCount ==
    /\ tick.at = "count"
    /\ tick' = LET active == Cardinality(running)
               IN  IF active >= MaxConcurrency
                   THEN TickIdle
                   ELSE [at |-> "list", max |-> MaxConcurrency, active |-> active]
    /\ UNCHANGED <<rowVars, fileVars, phase, battery, running, listed, goVars, adds, starts>>

Selected == FirstOf(Pending, ListLimit(tick.max - tick.active))

TickList ==
    /\ tick.at = "list"
    /\ \/ /\ phase = "up"
          /\ \E L \in Selected :
                /\ listed' = [j \in L |-> rows[j]]
                /\ tick' = IF L = {} THEN TickIdle ELSE [tick EXCEPT !.at = "launch"]
          /\ UNCHANGED dbErrors
       \/ /\ phase = "up" /\ dbErrors < MaxDBErrors
          /\ dbErrors' = dbErrors + 1
          /\ tick' = TickIdle /\ UNCHANGED listed
       \/ /\ phase = "stopping"
          /\ tick' = TickIdle /\ UNCHANGED <<listed, dbErrors>>
    /\ UNCHANGED <<rows, fileVars, phase, battery, running, goVars, adds, starts>>

FirstListed(j) ==
    j \in DOMAIN listed /\ \A i \in DOMAIN listed \ {j} : Before(j, i)

Without(j) == [i \in DOMAIN listed \ {j} |-> listed[i]]

AfterLaunch(j, active) ==
    IF DOMAIN listed = {j} \/ active >= tick.max
    THEN tick' = TickIdle /\ listed' = [i \in {} |-> NoRow]
    ELSE tick' = [tick EXCEPT !.active = active] /\ listed' = Without(j)

TickSkip(j) ==
    /\ tick.at = "launch" /\ FirstListed(j) /\ j \in running
    /\ AfterLaunch(j, tick.active)
    /\ UNCHANGED <<rowVars, fileVars, phase, battery, running, goVars, adds, starts>>

GoRunJob(j, w) ==       \* go q.runJob(ctx, j)
    /\ pc[w] = "idle"
    /\ pc' = [pc EXCEPT ![w] = "begin"]
    /\ job' = [job EXCEPT ![w] = j]
    /\ copy' = [copy EXCEPT ![w] = listed[j]]
    /\ AfterLaunch(j, tick.active + 1)
    /\ UNCHANGED <<rowVars, fileVars, phase, battery, adds, starts>>

\* Mutant of TickLaunch: q.running is not consulted.
TickLaunchUnchecked(j, w) ==
    /\ tick.at = "launch" /\ FirstListed(j)
    /\ running' = running \cup {j}
    /\ GoRunJob(j, w)

\* Mutant of TickLaunch: the job is not put into q.running.
TickLaunchUnmarked(j, w) ==
    /\ tick.at = "launch" /\ FirstListed(j) /\ j \notin running
    /\ UNCHANGED running
    /\ GoRunJob(j, w)

TickLaunch(j, w) ==
    /\ tick.at = "launch" /\ FirstListed(j) /\ j \notin running
    /\ running' = running \cup {j}
    /\ GoRunJob(j, w)

----------------------------------------------------------------------------
(* internal/queue: runJob, by goroutine *)

At(w, place) == pc[w] = place
Goto(w, place) == pc' = [pc EXCEPT ![w] = place]
Target(w) == TargetOf[job[w]]

UpdateJob(j, r) ==
    /\ phase = "up"
    /\ rows' = [rows EXCEPT ![j] = r]
    /\ UNCHANGED dbErrors

UpdateJobFails ==       \* the context is cancelled, or SQLite reports an error
    /\ \/ phase = "stopping" /\ UNCHANGED dbErrors
       \/ phase = "up" /\ dbErrors < MaxDBErrors /\ dbErrors' = dbErrors + 1
    /\ UNCHANGED rows

Save(w, r, then, else) ==
    /\ copy' = [copy EXCEPT ![w] = r]
    /\ \/ UpdateJob(job[w], r) /\ Goto(w, then)
       \/ UpdateJobFails /\ Goto(w, else)
    /\ UNCHANGED <<job, fileVars, procVars, adds, starts>>

Begin(w) ==
    /\ At(w, "begin")
    /\ LET r == [copy[w] EXCEPT !.state = "downloading"]
       IN  Save(w, r, IF r.src = NoSource THEN "resolve" ELSE "prepare", "fail")

Resolve(w) ==
    /\ At(w, "resolve")
    /\ \/ /\ \E s \in Sources : copy' = [copy EXCEPT ![w].src = s]
          /\ Goto(w, "prepare")
       \/ Goto(w, "fail") /\ UNCHANGED copy
    /\ UNCHANGED <<job, rowVars, fileVars, procVars, adds, starts>>

Prepare(w) ==       \* disk.Fits and MkdirAll; either may send the job to failJob
    /\ At(w, "prepare")
    /\ Goto(w, "saveTmp") \/ Goto(w, "fail")
    /\ UNCHANGED <<job, copy, rowVars, fileVars, procVars, adds, starts>>

SaveTmp(w) == At(w, "saveTmp") /\ Save(w, copy[w], "fetch", "fail")

FetchSome(w) ==
    /\ At(w, "fetch")
    /\ tmp' = [tmp EXCEPT ![job[w]] = @ \cup {copy[w].src}]
    /\ Goto(w, "fetching")
    /\ UNCHANGED <<job, copy, staged, lib, sidecar, rowVars, procVars, adds, starts>>

FetchFail(w) ==
    /\ At(w, "fetch") \/ At(w, "fetching")
    /\ Goto(w, "fail")
    /\ UNCHANGED <<job, copy, rowVars, fileVars, procVars, adds, starts>>

FetchDone(w) ==     \* parts found in the tmp directory are resumed, not fetched again
    /\ At(w, "fetching")
    /\ \E c \in (SUBSET tmp[job[w]]) \ {{}} : copy' = [copy EXCEPT ![w].sha = c]
    /\ tmp' = [tmp EXCEPT ![job[w]] = {}]
    /\ Goto(w, IF ~DeferRemuxToCharge /\ HaveFFmpeg THEN "markRemux" ELSE "rename")
    /\ UNCHANGED <<job, staged, lib, sidecar, rowVars, procVars, adds, starts>>

MarkRemux(w) ==
    /\ At(w, "markRemux")
    /\ Save(w, [copy[w] EXCEPT !.state = "remuxing"], "remux", "fail")

\* Mutant of Remux: the file is taken for published when ffmpeg failed.
RemuxNoFallback(w) ==
    /\ At(w, "remux")
    /\ \/ staged' = [staged EXCEPT ![Target(w)] = Muxed(copy[w].sha)] /\ Goto(w, "renameStaged")
       \/ staged' = [staged EXCEPT ![Target(w)] = NoFile] /\ Goto(w, "markDone")
    /\ UNCHANGED <<job, copy, tmp, lib, sidecar, rowVars, procVars, adds, starts>>

\* the hash of the download is in the copy by now, and is not taken again of what ffmpeg wrote
Remux(w) ==
    /\ At(w, "remux")
    /\ \/ staged' = [staged EXCEPT ![Target(w)] = Muxed(copy[w].sha)] /\ Goto(w, "renameStaged")
       \/ staged' = [staged EXCEPT ![Target(w)] = NoFile] /\ Goto(w, "rename")
    /\ UNCHANGED <<job, copy, tmp, lib, sidecar, rowVars, procVars, adds, starts>>

RenameStaged(w) ==
    /\ At(w, "renameStaged")
    /\ \/ /\ staged[Target(w)] # NoFile
          /\ lib' = [lib EXCEPT ![Target(w)] = staged[Target(w)]]
          /\ Goto(w, "markDone")
       \/ UNCHANGED lib /\ Goto(w, "fail")
    /\ staged' = [staged EXCEPT ![Target(w)] = NoFile]
    /\ UNCHANGED <<job, copy, tmp, sidecar, rowVars, procVars, adds, starts>>

Rename(w) ==
    /\ At(w, "rename")
    /\ \/ /\ lib' = [lib EXCEPT ![Target(w)] = Plain(copy[w].sha)]
          /\ Goto(w, IF DeferRemuxToCharge THEN "sidecar" ELSE "markDone")
       \/ UNCHANGED lib /\ Goto(w, "fail")
    /\ UNCHANGED <<job, copy, tmp, staged, sidecar, rowVars, procVars, adds, starts>>

MarkDone(w) ==
    /\ At(w, "markDone")
    /\ Save(w, [copy[w] EXCEPT !.state = "done"], "sidecar", "cleanup")

\* Mutant of WriteSidecar: its error is not looked at.
WriteSidecarUnchecked(w) ==
    /\ At(w, "sidecar")
    /\ sidecar' \in {sidecar, [sidecar EXCEPT ![ShowOf[Target(w)]] = {<<Target(w), copy[w].sha>>}]}
    /\ Goto(w, "finish")
    /\ UNCHANGED <<job, copy, tmp, staged, lib, rowVars, procVars, adds, starts>>

\* os.WriteFile truncates before it writes, so that a failure may leave an empty file
WriteSidecar(w) ==
    /\ At(w, "sidecar")
    /\ LET d == ShowOf[Target(w)]
       IN  \/ /\ sidecar' = [sidecar EXCEPT ![d] = {<<Target(w), copy[w].sha>>}]
              /\ Goto(w, "finish")
           \/ /\ sidecar' \in {sidecar, [sidecar EXCEPT ![d] = {}]}
              /\ Goto(w, IF DeferRemuxToCharge THEN "fail" ELSE "flag")
    /\ UNCHANGED <<job, copy, tmp, staged, lib, rowVars, procVars, adds, starts>>

Flag(w) == At(w, "flag") /\ Save(w, copy[w], "cleanup", "cleanup")

Finish(w) ==
    /\ At(w, "finish")
    /\ Save(w, [copy[w] EXCEPT !.state = "done", !.finished = TRUE], "cleanup", "cleanup")

\* Mutant of Failed: one attempt too many.
FailedOnceMore(r) ==
    IF MaxAttempts > 0 /\ r.attempts <= MaxAttempts
    THEN [r EXCEPT !.attempts = @ + 1, !.state = "queued", !.retry = "future", !.finished = FALSE]
    ELSE [r EXCEPT !.state = "failed", !.retry = "none", !.finished = TRUE]

\* Mutant of Failed: a state the job table does not have.
FailedRetrying(r) == [r EXCEPT !.state = "retrying", !.retry = "future"]

Failed(r) ==        \* what failJob makes of a row
    IF MaxAttempts > 0 /\ r.attempts < MaxAttempts
    THEN [r EXCEPT !.attempts = @ + 1, !.state = "queued", !.retry = "future", !.finished = FALSE]
    ELSE [r EXCEPT !.state = "failed", !.retry = "none", !.finished = TRUE]

\* Mutant of Fail: runJob returns without telling the row.
FailSilently(w) ==
    /\ At(w, "fail")
    /\ Goto(w, "cleanup")
    /\ UNCHANGED <<job, copy, rowVars, fileVars, procVars, adds, starts>>

Fail(w) == At(w, "fail") /\ Save(w, Failed(copy[w]), "cleanup", "cleanup")

\* Mutant of Cleanup: the tmp directory stays.
CleanupKeepingParts(w) ==
    /\ At(w, "cleanup")
    /\ Goto(w, "release")
    /\ UNCHANGED <<job, copy, rowVars, fileVars, procVars, adds, starts>>

\* Mutant of Cleanup: the deferred calls in the other order.
CleanupReleasingFirst(w) ==
    /\ At(w, "cleanup")
    /\ IF job[w] \in running
       THEN running' = running \ {job[w]} /\ UNCHANGED <<pc, tmp>>
       ELSE Goto(w, "release") /\ tmp' = [tmp EXCEPT ![job[w]] = {}] /\ UNCHANGED running
    /\ UNCHANGED <<job, copy, staged, lib, sidecar, rowVars, phase, battery, pumpVars, adds, starts>>

\* the deferred calls, last registered first: RemoveAll(tmpDir), then delete(q.running, id)
Cleanup(w) ==
    /\ At(w, "cleanup")
    /\ tmp' = [tmp EXCEPT ![job[w]] = {}]
    /\ Goto(w, "release")
    /\ UNCHANGED <<job, copy, staged, lib, sidecar, rowVars, procVars, adds, starts>>

\* Mutant of Release: the job stays in q.running.
ReleaseForgetting(w) ==
    /\ At(w, "release")
    /\ Goto(w, "idle")
    /\ job' = [job EXCEPT ![w] = NoJob]
    /\ copy' = [copy EXCEPT ![w] = NoRow]
    /\ UNCHANGED <<rowVars, fileVars, procVars, adds, starts>>

Release(w) ==
    /\ At(w, "release")
    /\ running' = running \ {job[w]}
    /\ Goto(w, "idle")
    /\ job' = [job EXCEPT ![w] = NoJob]
    /\ copy' = [copy EXCEPT ![w] = NoRow]
    /\ UNCHANGED <<rowVars, fileVars, phase, battery, pumpVars, adds, starts>>

----------------------------------------------------------------------------
(* internal/db and internal/app: adding a job, from any process *)

Inserted(j, s) ==
    IF rows[j].state = "absent"
    THEN [NoRow EXCEPT !.state = "queued", !.src = s]
    ELSE [rows[j] EXCEPT !.state = "queued", !.src = s, !.attempts = 0]

Add(j, s) ==
    /\ adds < MaxAdds
    /\ IF rows[j].state = "absent"
       THEN \A i \in Jobs : i < j => rows[i].state # "absent"
       ELSE j \in Keyed
    /\ rows' = [rows EXCEPT ![j] = Inserted(j, s)]
    /\ adds' = adds + 1
    /\ UNCHANGED <<fileVars, procVars, goVars, starts, dbErrors>>

RetryDue(j) ==      \* the clock passes next_retry_at
    /\ rows[j].retry = "future"
    /\ rows' = [rows EXCEPT ![j].retry = "past"]
    /\ UNCHANGED <<fileVars, procVars, goVars, adds, starts, dbErrors>>

----------------------------------------------------------------------------
(* internal/app and cmd/hmt: the daemon's life *)

StartDaemon ==
    /\ phase = "down" /\ starts < MaxStarts
    /\ phase' = "up" /\ starts' = starts + 1
    /\ UNCHANGED <<rowVars, fileVars, battery, running, pumpVars, goVars, adds>>

Stop ==
    /\ phase = "up"
    /\ phase' = "stopping"
    /\ UNCHANGED <<rowVars, fileVars, battery, running, pumpVars, goVars, adds, starts>>

\* daemonRun returns after Stop without waiting for any goroutine; a SIGKILL needs no Stop
Exit ==
    /\ Alive
    /\ phase' = "down"
    /\ battery' = NoReading
    /\ running' = {}
    /\ tick' = TickIdle
    /\ listed' = [i \in {} |-> NoRow]
    /\ pc' = [w \in Workers |-> "idle"]
    /\ job' = [w \in Workers |-> NoJob]
    /\ copy' = [w \in Workers |-> NoRow]
    /\ UNCHANGED <<rowVars, fileVars, adds, starts>>

----------------------------------------------------------------------------
Init ==
    /\ rows = [j \in Jobs |-> NoRow]
    /\ tmp = [j \in Jobs |-> {}]
    /\ staged = [t \in Targets |-> NoFile]
    /\ lib = [t \in Targets |-> NoFile]
    /\ sidecar = [d \in Shows |-> {}]
    /\ phase = "down"
    /\ battery = NoReading
    /\ running = {}
    /\ tick = TickIdle
    /\ listed = [i \in {} |-> NoRow]
    /\ pc = [w \in Workers |-> "idle"]
    /\ job = [w \in Workers |-> NoJob]
    /\ copy = [w \in Workers |-> NoRow]
    /\ adds = 0 /\ starts = 0 /\ dbErrors = 0

Tick == TickCheck \/ TickCount \/ TickList \/ \E j \in Jobs : TickSkip(j) \/ \E w \in Workers : TickLaunch(j, w)

runJob(w) ==
    \/ Begin(w) \/ Resolve(w) \/ Prepare(w) \/ SaveTmp(w)
    \/ FetchSome(w) \/ FetchFail(w) \/ FetchDone(w)
    \/ MarkRemux(w) \/ Remux(w) \/ RenameStaged(w) \/ Rename(w) \/ MarkDone(w)
    \/ WriteSidecar(w) \/ Flag(w) \/ Finish(w) \/ Fail(w)
    \/ Cleanup(w) \/ Release(w)

Next ==
    \/ SetBattery \/ Tick
    \/ \E w \in Workers : runJob(w)
    \/ \E j \in Jobs : RetryDue(j) \/ \E s \in Sources \cup {NoSource} : Add(j, s)
    \/ StartDaemon \/ Stop \/ Exit

Spec == Init /\ [][Next]_vars

(***************************************************************************)
(* Goroutines and the ticker keep running while the process lives, every   *)
(* download and remux ends (the HTTP client and ffmpeg are assumed to      *)
(* terminate), and the clock advances.                                     *)
(***************************************************************************)
Fairness ==
    /\ WF_vars(Tick)
    /\ \A w \in Workers : WF_vars(runJob(w))
    /\ \A j \in Jobs : WF_vars(RetryDue(j))

FairSpec == Spec /\ Fairness

----------------------------------------------------------------------------
(* Properties *)

\* Every variable keeps its type; a goroutine that is not idle has a job, and only
\* a living daemon has goroutines.
TypeOK ==
    /\ rows \in [Jobs -> Row]
    /\ tmp \in [Jobs -> SUBSET Sources]
    /\ staged \in [Targets -> File]
    /\ lib \in [Targets -> File]
    /\ sidecar \in [Shows -> SUBSET (Targets \X SUBSET Sources)]
    /\ phase \in {"up", "stopping", "down"}
    /\ battery \in [pct : Int, charging : BOOLEAN]
    /\ running \subseteq Jobs
    /\ tick \in [at : {"idle", "count", "list", "launch"}, max : Int, active : Nat]
    /\ DOMAIN listed \subseteq Jobs /\ \A j \in DOMAIN listed : listed[j] \in Row
    /\ pc \in [Workers -> Places]
    /\ job \in [Workers -> Jobs \cup {NoJob}]
    /\ copy \in [Workers -> Row]
    /\ adds \in Nat /\ starts \in Nat /\ dbErrors \in Nat

Busy == {w \in Workers : pc[w] # "idle"}

\* No two goroutines ever run the same job: the check of q.running in tick holds
\* although tick works on a slice it listed earlier, and although a row may be put
\* back to queued (failJob, InsertJob) while its goroutine still runs.
OneGoroutinePerJob == \A v, w \in Busy : v # w => job[v] # job[w]

ConcurrencyLimit ==
    LET b == Effective(ConcurrencyBattery)
        c == Effective(ConcurrencyCharging)
    IN  IF b > c THEN b ELSE c

\* Never more goroutines than the larger of the two configured limits, and a tick that was
\* let through still has room under the limit it read: although it counts q.running, lets go
\* of the lock, and starts goroutines against that old count and that old limit, while others
\* end, jobs are skipped, and the charger is plugged in or pulled out.
ConcurrencyBound ==
    /\ Cardinality(Busy) <= ConcurrencyLimit
    /\ tick.at \in {"list", "launch"} => Cardinality(Busy) < tick.max

\* The parts a goroutine is writing are not removed under it: the deferred RemoveAll of
\* an earlier run of the job is over before the job can be started again.
FetchKeepsParts == \A w \in Busy : At(w, "fetching") => copy[w].src \in tmp[job[w]]

\* A row that says done has its file in the library, and the file is the download whose hash
\* the row records, or, where downloads are remuxed at once, what ffmpeg made of that very
\* download: whatever failed, was retried, added again or killed before.  It needs every job
\* to have a path of its own.
DoneHasFile ==
    \A j \in Jobs : rows[j].state = "done" => /\ rows[j].sha # {}
                                              /\ lib[TargetOf[j]] \in Makings(rows[j].sha)

\* A done row with finished_at set has its file in the table of the sidecar of its show, also
\* when the show has other episodes.
FinishedHasSidecar ==
    \A j \in Jobs : rows[j].state = "done" /\ rows[j].finished
                        => <<TargetOf[j], rows[j].sha>> \in sidecar[ShowOf[TargetOf[j]]]

\* What a WriteSidecar for the path t can leave in the sidecar of its show.
WrittenFor(t) == {{}} \cup {{<<t, c>>} : c \in SUBSET Sources}

KeptFor(j, r) ==
    LET table == sidecar[ShowOf[TargetOf[j]]]
    IN  \/ <<TargetOf[j], r.sha>> \in table
        \/ \E i \in Jobs \ {j} : /\ rows[i].state # "absent"
                                 /\ ShowOf[TargetOf[i]] = ShowOf[TargetOf[j]]
                                 /\ table \in WrittenFor(TargetOf[i])

\* A done row with finished_at set has its file in the table of the sidecar of its show, unless
\* another job of the same show has written that sidecar since: no failing write, retry, new
\* add or end of the daemon loses the entry or says finished before it is there.
SidecarKept ==
    \A j \in Jobs : rows[j].state = "done" /\ rows[j].finished => KeptFor(j, rows[j])

\* A library file is made of the bytes of one source: what an earlier, failed run of the same
\* row downloaded from another source is gone before the next run looks for parts.  It holds
\* in one life of the daemon: parts that a killed run left are resumed.
SingleSource == starts <= 1 => \A t \in Targets : Cardinality(lib[t].from) <= 1

\* A row waiting for its next retry changes by the clock or a new add, and not by a goroutine
\* that is in the middle of an older run of it.  With a limit of one nothing else changes it.
\* With a higher one, a goroutine may start from a copy that a tick listed before the row was
\* put off (it never lists one that waits): it begins, which cuts the wait short, or it fails
\* to, which puts the row off anew.
BackoffRespected ==
    [][\A j \in Jobs :
          rows[j].state = "queued" /\ rows[j].retry = "future" /\ rows'[j] # rows[j]
              => \/ RetryDue(j) \/ \E s \in Sources \cup {NoSource} : Add(j, s)
                 \/ /\ ConcurrencyLimit > 1
                    /\ \E w \in Workers : /\ job[w] = j /\ copy[w].retry # "future"
                                          /\ Begin(w) \/ Fail(w)]_vars

\* The attempts failJob counts in the row never exceed MaxAttempts, through restarts, failing
\* statements and rows added again while a goroutine holds an older copy.
AttemptsBounded ==
    \A j \in Jobs : rows[j].attempts <= IF MaxAttempts > 0 THEN MaxAttempts ELSE 0

\* The queue implements the ledger: rows are only reported and files only published
\* while q.running holds the job, and done only of the download the published file is
\* made of.
Ledger == INSTANCE JobLedger WITH
    Downloads  <- SUBSET Sources,
    NoDownload <- {},
    Files      <- File,
    NoFile     <- NoFile,
    MadeOf     <- [c \in SUBSET Sources |-> Makings(c)],
    state      <- [j \in Jobs |-> rows[j].state],
    sum        <- [j \in Jobs |-> rows[j].sha],
    file       <- [j \in Jobs |-> lib[TargetOf[j]]],
    lease      <- running

LedgerSpec == Ledger!Spec

SteadyDaemon == <>[](phase = "up")
PowerStays   == <>[]CheckBattery

\* A queued row is taken up in the end, across restarts and failing statements, once
\* the daemon stays up and the battery allows downloads.
QueuedIsTaken ==
    SteadyDaemon /\ PowerStays =>
        \A j \in Jobs : (rows[j].state = "queued") ~> (rows[j].state # "queued")

OneLife == [](starts <= 1 /\ dbErrors = 0)

\* In one life of the daemon, and while no statement fails, a queued row ends as done or
\* failed: the retry ladder is finite and no error path leaves a row half-way.
QueuedIsSettled ==
    OneLife /\ SteadyDaemon /\ PowerStays =>
        \A j \in Jobs : (rows[j].state = "queued") ~> (rows[j].state \in {"done", "failed"})

\* As QueuedIsSettled, also over a restart.
QueuedIsSettledAnyway ==
    SteadyDaemon /\ PowerStays =>
        \A j \in Jobs : (rows[j].state = "queued") ~> (rows[j].state \in {"done", "failed"})

\* As QueuedIsTaken, without asking for a battery reading.
QueuedIsTakenAnyway ==
    SteadyDaemon => \A j \in Jobs : (rows[j].state = "queued") ~> (rows[j].state # "queued")
=============================================================================

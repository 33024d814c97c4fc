-------------------------- MODULE QueueRerunProofs --------------------------
(***************************************************************************)
(* What holds of a job that runs more than once: retried by failJob, added *)
(* again while its goroutine still works on an older copy of the row, or   *)
(* interrupted with the daemon.                                            *)
(***************************************************************************)
EXTENDS QueueProofs

----------------------------------------------------------------------------
(* Who a step concerns. *)

\* A step of a goroutine changes only its own locals, and of the rows and the tmp
\* directories only those of its own job, on which no other goroutine works.
LEMMA OwnStep ==
    ASSUME BaseInv, NEW w \in Workers, runJob(w)
    PROVE  /\ pc[w] # "idle" /\ job[w] \in Jobs /\ copy[w] \in Row
           /\ \A v \in Workers \ {w} : pc'[v] = pc[v] /\ job'[v] = job[v] /\ copy'[v] = copy[v]
           /\ \A v \in Workers \ {w} : pc[v] # "idle" => job[v] \in Jobs \ {job[w]}
           /\ \A j \in Jobs \ {job[w]} : rows'[j] = rows[j] /\ tmp'[j] = tmp[j]
           /\ UNCHANGED <<listed, tick, phase, starts>>
<1> USE DEF At
<1>1. pc[w] # "idle"
  BY DEF runJob, Begin, Resolve, Prepare, SaveTmp, FetchSome, FetchFail, FetchDone, MarkRemux, Remux,
         RenameStaged, Rename, MarkDone, WriteSidecar, Flag, Finish, Fail, Cleanup, Release
<1>2. job[w] \in Jobs /\ copy[w] \in Row
  BY <1>1 DEF BaseInv, TypeOK, JobsHeld
<1>3. \A v \in Workers \ {w} : pc[v] # "idle" => job[v] \in Jobs \ {job[w]}
  BY <1>1 DEF BaseInv, TypeOK, JobsHeld, OneGoroutinePerJob, Busy
<1>4. \A v \in Workers \ {w} : pc'[v] = pc[v] /\ job'[v] = job[v] /\ copy'[v] = copy[v]
  BY DEF BaseInv, TypeOK, runJob, Begin, Resolve, Prepare, SaveTmp, FetchSome, FetchFail, FetchDone,
         MarkRemux, Remux, RenameStaged, Rename, MarkDone, WriteSidecar, Flag, Finish, Fail, Cleanup,
         Release, Save, Goto
<1>5. \A j \in Jobs \ {job[w]} : rows'[j] = rows[j] /\ tmp'[j] = tmp[j]
  BY DEF BaseInv, TypeOK, runJob, Begin, Resolve, Prepare, SaveTmp, FetchSome, FetchFail, FetchDone,
         MarkRemux, Remux, RenameStaged, Rename, MarkDone, WriteSidecar, Flag, Finish, Fail, Cleanup,
         Release, Save, UpdateJob, UpdateJobFails, rowVars, fileVars
<1>6. UNCHANGED <<listed, tick, phase, starts>>
  BY DEF runJob, Begin, Resolve, Prepare, SaveTmp, FetchSome, FetchFail, FetchDone,
         MarkRemux, Remux, RenameStaged, Rename, MarkDone, WriteSidecar, Flag, Finish, Fail, Cleanup,
         Release, Save, procVars, pumpVars
<1> QED BY <1>1, <1>2, <1>3, <1>4, <1>5, <1>6

\* A goroutine that Save leaves at one of two places: it wrote its row, or it did not.
LEMMA OwnSave ==
    ASSUME BaseInv, NEW w \in Workers, NEW r, NEW p, NEW q, Save(w, r, p, q),
           job[w] \in Jobs
    PROVE  /\ copy'[w] = r /\ job' = job /\ UNCHANGED fileVars
           /\ \/ pc'[w] = p /\ rows'[job[w]] = r
              \/ pc'[w] = q /\ UNCHANGED rows
BY DEF BaseInv, TypeOK, Save, UpdateJob, UpdateJobFails, Goto, rowVars

Quiet == \/ SetBattery \/ TickCheck \/ TickCount \/ TickList \/ \E j \in Jobs : TickSkip(j)
         \/ StartDaemon \/ Stop \/ UNCHANGED vars

\* The pump before it launches, and the daemon until it exits, leave rows, files and
\* goroutines alone.
LEMMA QuietStep ==
    ASSUME Quiet
    PROVE  UNCHANGED <<rows, tmp, staged, lib, sidecar, pc, job, copy>>
BY DEF Quiet, SetBattery, TickCheck, TickCount, TickList, TickSkip, StartDaemon, Stop, vars, rowVars,
       fileVars, goVars

\* The row of another process's add, or of the clock.
LEMMA OtherStep ==
    ASSUME BaseInv, NEW j \in Jobs, RetryDue(j) \/ AddSome(j)
    PROVE  /\ UNCHANGED <<tmp, staged, lib, sidecar, phase, tick, listed, pc, job, copy, starts>>
           /\ \A i \in Jobs \ {j} : rows'[i] = rows[i]
           /\ rows'[j] \in Row
           /\ \/ rows'[j] = [rows[j] EXCEPT !.retry = "past"]
              \/ rows'[j].state = "queued" /\ rows'[j].attempts = 0
                 /\ rows'[j].retry \in {"none", rows[j].retry}
<1>1. rows[j] \in Row
  BY DEF BaseInv, TypeOK
<1>2. CASE RetryDue(j)
  BY <1>1, <1>2 DEF RetryDue, BaseInv, TypeOK, Row, fileVars, procVars, goVars
<1>3. ASSUME NEW s \in Sources \cup {NoSource}, Add(j, s)
      PROVE  /\ UNCHANGED <<tmp, staged, lib, sidecar, phase, tick, listed, pc, job, copy, starts>>
             /\ \A i \in Jobs \ {j} : rows'[i] = rows[i]
             /\ rows'[j] = Inserted(j, s)
  BY <1>3 DEF Add, BaseInv, TypeOK, fileVars, procVars, goVars
<1>4. ASSUME NEW s \in Sources \cup {NoSource}
      PROVE  /\ Inserted(j, s) \in Row
             /\ Inserted(j, s).state = "queued" /\ Inserted(j, s).attempts = 0
             /\ Inserted(j, s).retry \in {"none", rows[j].retry}
  BY <1>1, <1>4, InsertedType DEF Inserted, NoRow, Row, BaseInv, TypeOK
<1> QED BY <1>2, <1>3, <1>4 DEF AddSome

\* How the steps of Next fall into these kinds.
LEMMA StepKinds ==
    ASSUME [Next]_vars
    PROVE  \/ \E w \in Workers : runJob(w)
           \/ \E j \in Jobs, w \in Workers : TickLaunch(j, w)
           \/ \E j \in Jobs : RetryDue(j) \/ AddSome(j)
           \/ Quiet \/ Exit
BY DEF Next, Tick, Quiet, AddSome

----------------------------------------------------------------------------
(* Attempts.  Every row the daemon has anywhere, in the table, in the slice   *)
(* of a tick or in a goroutine, stays within the limit, and so does what      *)
(* failJob makes of it: which of the copies is written last does not matter.  *)

MostAttempts == IF MaxAttempts > 0 THEN MaxAttempts ELSE 0

AttemptsInv ==
    /\ \A j \in Jobs : rows[j].attempts <= MostAttempts
    /\ \A j \in DOMAIN listed : listed[j].attempts <= MostAttempts
    /\ \A w \in Workers : copy[w].attempts <= MostAttempts

LEMMA MostAttemptsType == MostAttempts \in Nat
BY QueueAssumption DEF MostAttempts

\* failJob counts one more, and requeues only below the limit.
LEMMA FailedAttempts ==
    ASSUME NEW r \in Row, r.attempts <= MostAttempts
    PROVE  Failed(r).attempts <= MostAttempts
BY QueueAssumption DEF Failed, Row, MostAttempts

\* No step counts past the limit, also when an older copy is written back.
LEMMA AttemptsStep == ASSUME BaseInv, AttemptsInv, [Next]_vars PROVE AttemptsInv'
<1> USE DEF AttemptsInv
<1>1. NoRow.attempts <= MostAttempts
  BY MostAttemptsType DEF NoRow
<1>2. ASSUME NEW w \in Workers, runJob(w)
      PROVE  AttemptsInv'
  <2>1. /\ copy[w] \in Row /\ job[w] \in Jobs
        /\ \A v \in Workers \ {w} : copy'[v] = copy[v]
        /\ \A j \in Jobs \ {job[w]} : rows'[j] = rows[j]
        /\ UNCHANGED listed
    BY <1>2, OwnStep
  <2>2. Failed(copy[w]).attempts <= MostAttempts
    BY <2>1, FailedAttempts
  <2>3. copy'[w].attempts <= MostAttempts /\ rows'[job[w]].attempts <= MostAttempts
    <3>1. ASSUME NEW r, NEW p, NEW q, Save(w, r, p, q), r.attempts <= MostAttempts
          PROVE  copy'[w].attempts <= MostAttempts /\ rows'[job[w]].attempts <= MostAttempts
      BY <2>1, <3>1, OwnSave
    <3>2. CASE Begin(w)
      BY <2>1, <3>1, <3>2 DEF Begin, Row
    <3>3. CASE SaveTmp(w) \/ Flag(w)
      BY <3>1, <3>3 DEF SaveTmp, Flag
    <3>4. CASE MarkRemux(w) \/ MarkDone(w) \/ Finish(w)
      <4>1. /\ [copy[w] EXCEPT !.state = "remuxing"].attempts = copy[w].attempts
            /\ [copy[w] EXCEPT !.state = "done"].attempts = copy[w].attempts
            /\ [copy[w] EXCEPT !.state = "done", !.finished = TRUE].attempts = copy[w].attempts
        BY <2>1 DEF Row
      <4>2. copy[w].attempts <= MostAttempts
        OBVIOUS
      <4>3. CASE MarkRemux(w)
        BY <3>1, <4>1, <4>2, <4>3 DEF MarkRemux
      <4>4. CASE MarkDone(w)
        BY <3>1, <4>1, <4>2, <4>4 DEF MarkDone
      <4>5. CASE Finish(w)
        BY <3>1, <4>1, <4>2, <4>5 DEF Finish
      <4> QED BY <3>4, <4>3, <4>4, <4>5
    <3>5. CASE Fail(w)
      BY <2>2, <3>1, <3>5 DEF Fail
    <3>6. CASE Resolve(w) \/ FetchDone(w)
      BY <2>1, <3>6 DEF Resolve, FetchDone, BaseInv, TypeOK, Row, rowVars
    <3>7. CASE Release(w)
      BY <1>1, <2>1, <3>7 DEF Release, BaseInv, TypeOK, rowVars
    <3>8. CASE \/ Prepare(w) \/ FetchSome(w) \/ FetchFail(w) \/ Remux(w) \/ RenameStaged(w)
               \/ Rename(w) \/ WriteSidecar(w) \/ Cleanup(w)
      BY <2>1, <3>8 DEF Prepare, FetchSome, FetchFail, Remux, RenameStaged, Rename, WriteSidecar, Cleanup,
                        rowVars
    <3> QED BY <1>2, <3>2, <3>3, <3>4, <3>5, <3>6, <3>7, <3>8 DEF runJob
  <2> QED BY <2>1, <2>3
<1>3. ASSUME NEW j \in Jobs, NEW w \in Workers, TickLaunch(j, w)
      PROVE  AttemptsInv'
  BY <1>1, <1>3 DEF TickLaunch, GoRunJob, FirstListed, AfterLaunch, Without, BaseInv, TypeOK, rowVars
<1>4. ASSUME NEW j \in Jobs, RetryDue(j) \/ AddSome(j)
      PROVE  AttemptsInv'
  <2>1. /\ UNCHANGED <<listed, copy>> /\ rows[j] \in Row
        /\ \A i \in Jobs \ {j} : rows'[i] = rows[i]
    BY <1>4, OtherStep DEF BaseInv, TypeOK
  <2>2. rows'[j].attempts \in {0, rows[j].attempts}
    BY <1>4, <2>1, OtherStep, ZenonT(30) DEF Row
  <2> QED BY <2>1, <2>2, MostAttemptsType
<1>5. CASE Quiet
  <2>1. UNCHANGED <<rows, copy>>
    BY <1>5, QuietStep
  <2>2. \A j \in DOMAIN listed' : listed'[j].attempts <= MostAttempts
    <3>1. CASE UNCHANGED listed
      BY <3>1
    <3>2. CASE TickList
      BY <3>2 DEF TickList, Selected, FirstOf, Pending
    <3>3. ASSUME NEW j \in Jobs, TickSkip(j)
          PROVE  \A i \in DOMAIN listed' : listed'[i].attempts <= MostAttempts
      BY <1>1, <3>3 DEF TickSkip, AfterLaunch, Without
    <3>4. CASE SetBattery \/ TickCheck \/ TickCount \/ StartDaemon \/ Stop \/ UNCHANGED vars
      BY <3>1, <3>4 DEF SetBattery, TickCheck, TickCount, StartDaemon, Stop, vars, pumpVars
    <3> QED BY <1>5, <3>2, <3>3, <3>4 DEF Quiet
  <2> QED BY <2>1, <2>2
<1>6. CASE Exit
  BY <1>1, <1>6 DEF Exit, rowVars
<1> QED BY <1>2, <1>3, <1>4, <1>5, <1>6, StepKinds

\* failJob never counts a row past MaxAttempts (queue.go, failJob), for every number of jobs
\* and goroutines, daemon starts, failing statements and rows added again.
THEOREM AttemptsStayBounded == Spec => []AttemptsBounded
<1>1. Init => AttemptsInv
  BY MostAttemptsType DEF Init, AttemptsInv, NoRow
<1>2. BaseInv /\ AttemptsInv /\ [Next]_vars => AttemptsInv'
  BY AttemptsStep
<1>3. AttemptsInv => AttemptsBounded
  BY DEF AttemptsInv, AttemptsBounded, MostAttempts
<1> QED BY <1>1, <1>2, <1>3, BaseAlways, PTL DEF Spec
----------------------------------------------------------------------------
(* The parts of a fetch.  Only the goroutine of a job removes its tmp         *)
(* directory, and it does so after its own fetch.                             *)

\* Parts are removed only by the goroutine they belong to, and a job has one.
LEMMA PartsStep == ASSUME BaseInv, FetchKeepsParts, [Next]_vars PROVE FetchKeepsParts'
<1> USE DEF FetchKeepsParts, Busy, At
<1>1. ASSUME NEW w \in Workers, runJob(w)
      PROVE  FetchKeepsParts'
  <2>1. /\ job[w] \in Jobs
        /\ \A v \in Workers \ {w} : pc'[v] = pc[v] /\ job'[v] = job[v] /\ copy'[v] = copy[v]
        /\ \A v \in Workers \ {w} : pc[v] # "idle" => job[v] \in Jobs \ {job[w]}
        /\ \A j \in Jobs \ {job[w]} : tmp'[j] = tmp[j]
    BY <1>1, OwnStep
  <2>2. pc'[w] = "fetching" => FetchSome(w)
    BY <1>1 DEF BaseInv, TypeOK, runJob, Begin, Resolve, Prepare, SaveTmp, FetchFail, FetchDone,
                MarkRemux, Remux, RenameStaged, Rename, MarkDone, WriteSidecar, Flag, Finish, Fail,
                Cleanup, Release, Save, Goto
  <2>3. FetchSome(w) => copy'[w].src \in tmp'[job'[w]]
    BY <2>1 DEF FetchSome, BaseInv, TypeOK
  <2> QED BY <2>1, <2>2, <2>3
<1>2. ASSUME NEW j \in Jobs, NEW w \in Workers, TickLaunch(j, w)
      PROVE  FetchKeepsParts'
  BY <1>2 DEF TickLaunch, GoRunJob, BaseInv, TypeOK, fileVars
<1>3. ASSUME NEW j \in Jobs, RetryDue(j) \/ AddSome(j)
      PROVE  FetchKeepsParts'
  BY <1>3, OtherStep
<1>4. CASE Quiet
  BY <1>4, QuietStep
<1>5. CASE Exit
  BY <1>5 DEF Exit
<1> QED BY <1>1, <1>2, <1>3, <1>4, <1>5, StepKinds

\* The parts a goroutine is writing are never removed under it (queue.go: the deferred
\* RemoveAll of a run is over before q.running lets the job go), in every instance.
THEOREM PartsAreKept == Spec => []FetchKeepsParts
<1>1. Init => FetchKeepsParts
  BY DEF Init, FetchKeepsParts, Busy
<1>2. BaseInv /\ FetchKeepsParts /\ [Next]_vars => FetchKeepsParts'
  BY PartsStep
<1> QED BY <1>1, <1>2, BaseAlways, PTL DEF Spec
----------------------------------------------------------------------------
(* The wait for the next retry.  A tick never lists a row that waits, and     *)
(* from its first successful statement on a goroutine works on a row that     *)
(* does not wait, until it fails itself.  What is in between, a row put off   *)
(* after it was listed, does not happen with one goroutine at a time: then    *)
(* CountInv leaves no room for one while tick works through its slice.        *)

Working == Places \ {"idle", "cleanup", "release"}

Settled(w) == pc[w] \notin {"begin", "fail"} \/ ConcurrencyLimit = 1

RetryInv ==
    /\ \A w \in Workers :
          pc[w] \in Working => /\ copy[w].retry # "future"
                               /\ Settled(w) => rows[job[w]].retry # "future"
    /\ \A j \in DOMAIN listed : /\ tick.at = "launch"
                                /\ listed[j].retry # "future"
                                /\ ConcurrencyLimit = 1 => rows[j].retry # "future"

LEMMA LimitPositive == ConcurrencyLimit # 1 => ConcurrencyLimit > 1
BY QueueAssumption DEF ConcurrencyLimit, Effective

\* A limit of one leaves the pump without a goroutine while it launches.
LEMMA AloneAtLaunch ==
    ASSUME BaseInv, CountInv, ConcurrencyLimit = 1, tick.at = "launch"
    PROVE  \A w \in Workers : pc[w] = "idle"
<1>1. Cardinality(running) <= tick.active /\ tick.active < tick.max /\ tick.max <= 1
  BY DEF CountInv
<1>2. tick.active \in Nat /\ tick.max \in Int /\ IsFiniteSet(running) /\ Cardinality(running) \in Nat
  BY FiniteRunning DEF BaseInv, TypeOK
<1>3. Cardinality(running) = 0
  BY <1>1, <1>2
<1>4. running = {}
  BY <1>2, <1>3, FS_EmptySet
<1> QED BY <1>4 DEF BaseInv, JobsHeld

\* A copy that is saved while its goroutine holds the job takes no row out of a wait, but for
\* the first statement.
LEMMA RetrySave ==
    ASSUME BaseInv, RetryInv, NEW w \in Workers, pc[w] \in Working, NEW r, NEW p, NEW q,
           Save(w, r, p, q), r.retry = copy[w].retry,
           pc[w] \in {"begin", "fail"} => q = "fail"
    PROVE  copy'[w].retry # "future" /\ (Settled(w)' => rows'[job'[w]].retry # "future")
<1>1. job[w] \in Jobs
  BY DEF Working, BaseInv, TypeOK, JobsHeld
<1> QED BY <1>1, OwnSave DEF RetryInv, Settled

LEMMA RetryRunJob ==
    ASSUME BaseInv, RetryInv, CountInv, NEW w \in Workers, runJob(w)
    PROVE  /\ RetryInv'
           /\ \A j \in Jobs : rows[j].retry = "future" =>
                 \/ rows'[j] = rows[j]
                 \/ /\ ConcurrencyLimit # 1 /\ j = job[w] /\ copy[w].retry # "future"
                    /\ Begin(w) \/ Fail(w)
<1> USE DEF At
<1>1. /\ pc[w] # "idle" /\ job[w] \in Jobs /\ copy[w] \in Row
      /\ \A v \in Workers \ {w} : pc'[v] = pc[v] /\ job'[v] = job[v] /\ copy'[v] = copy[v]
      /\ \A v \in Workers \ {w} : pc[v] # "idle" => job[v] \in Jobs \ {job[w]}
      /\ \A j \in Jobs \ {job[w]} : rows'[j] = rows[j]
      /\ UNCHANGED <<listed, tick>>
  BY OwnStep
<1>2. ConcurrencyLimit = 1 => DOMAIN listed = {}
  BY <1>1, AloneAtLaunch DEF RetryInv
<1>3. rows'[job[w]] # rows[job[w]] => pc[w] \in Working
  BY <1>1 DEF Working, Places, BaseInv, TypeOK, runJob, Resolve, Prepare, FetchSome, FetchFail,
         FetchDone, Remux, RenameStaged, Rename, WriteSidecar, Cleanup, Release, rowVars,
         Begin, SaveTmp, MarkRemux, MarkDone, Flag, Finish, Fail
<1>4. pc'[w] \in Working => /\ copy'[w].retry # "future"
                            /\ Settled(w)' => rows'[job'[w]].retry # "future"
  <2> SUFFICES ASSUME pc'[w] \in Working
               PROVE  /\ copy'[w].retry # "future"
                      /\ Settled(w)' => rows'[job'[w]].retry # "future"
    OBVIOUS
  <2>1. CASE Cleanup(w) \/ Release(w) \/ Flag(w) \/ Finish(w) \/ Fail(w)
    BY <2>1 DEF Working, Cleanup, Release, Flag, Finish, Fail, Save, Goto, BaseInv, TypeOK
  <2>2. ASSUME ~Cleanup(w), ~Release(w) PROVE pc[w] \in Working
    BY <1>1, <2>2 DEF Working, Places, runJob, Begin, Resolve, Prepare, SaveTmp, FetchSome, FetchFail,
         FetchDone, MarkRemux, Remux, RenameStaged, Rename, MarkDone, WriteSidecar, Flag, Finish, Fail
  <2>3. /\ [copy[w] EXCEPT !.state = "downloading"].retry = copy[w].retry
        /\ [copy[w] EXCEPT !.state = "remuxing"].retry = copy[w].retry
        /\ [copy[w] EXCEPT !.state = "done"].retry = copy[w].retry
    BY <1>1 DEF Row
  <2>4. CASE Begin(w)
    BY <2>2, <2>3, <2>4, RetrySave DEF Begin, Cleanup, Release
  <2>5. CASE SaveTmp(w)
    BY <2>2, <2>5, RetrySave DEF SaveTmp, Cleanup, Release
  <2>6. CASE MarkRemux(w)
    BY <2>2, <2>3, <2>6, RetrySave DEF MarkRemux, Cleanup, Release
  <2>7. CASE MarkDone(w)
    BY <2>2, <2>3, <2>7, RetrySave DEF MarkDone, Cleanup, Release
  <2>8. CASE \/ Resolve(w) \/ Prepare(w) \/ FetchSome(w) \/ FetchFail(w) \/ FetchDone(w) \/ Remux(w)
             \/ RenameStaged(w) \/ Rename(w) \/ WriteSidecar(w)
    <3>1. pc[w] \in Working \ {"begin", "fail"} /\ UNCHANGED <<rows, job>>
      BY <2>8 DEF Working, Places, Resolve, Prepare, FetchSome, FetchFail, FetchDone, Remux,
                  RenameStaged, Rename, WriteSidecar, rowVars
    <3>2. copy'[w].retry = copy[w].retry
      BY <1>1, <2>8 DEF Resolve, Prepare, FetchSome, FetchFail, FetchDone, Remux,
                  RenameStaged, Rename, WriteSidecar, BaseInv, TypeOK, Row
    <3> QED BY <3>1, <3>2 DEF RetryInv, Settled
  <2> QED BY <2>1, <2>4, <2>5, <2>6, <2>7, <2>8 DEF runJob
<1>5. RetryInv'
  <2>1. ASSUME NEW v \in Workers, v # w, pc'[v] \in Working
        PROVE  copy'[v].retry # "future" /\ (Settled(v)' => rows'[job'[v]].retry # "future")
    BY <1>1, <2>1 DEF RetryInv, Working, Settled
  <2>2. \A j \in DOMAIN listed' : /\ tick'.at = "launch" /\ listed'[j].retry # "future"
                                  /\ ConcurrencyLimit = 1 => rows'[j].retry # "future"
    BY <1>1, <1>2 DEF RetryInv
  <2> QED BY <1>4, <2>1, <2>2 DEF RetryInv, ConcurrencyLimit
<1>6. ASSUME rows[job[w]].retry = "future", rows'[job[w]] # rows[job[w]]
      PROVE  ConcurrencyLimit # 1 /\ copy[w].retry # "future" /\ (Begin(w) \/ Fail(w))
  <2>1. ~Settled(w) /\ copy[w].retry # "future"
    BY <1>3, <1>6 DEF RetryInv
  <2> QED
    BY <2>1 DEF Settled, runJob, Resolve, Prepare, SaveTmp, FetchSome, FetchFail, FetchDone, MarkRemux,
                Remux, RenameStaged, Rename, MarkDone, WriteSidecar, Flag, Finish, Cleanup, Release
<1> QED BY <1>1, <1>5, <1>6

\* What is listed does not wait when it is listed.
LEMMA RetryStep ==
    ASSUME BaseInv, RetryInv, CountInv, [Next]_vars
    PROVE  /\ RetryInv'
           /\ \A j \in Jobs : rows[j].retry = "future" /\ rows'[j] # rows[j] =>
                 \/ RetryDue(j) \/ AddSome(j)
                 \/ /\ ConcurrencyLimit # 1
                    /\ \E w \in Workers : /\ job[w] = j /\ copy[w].retry # "future"
                                          /\ Begin(w) \/ Fail(w)
<1>1. CASE \E w \in Workers : runJob(w)
  BY <1>1, RetryRunJob
<1>2. ASSUME NEW j \in Jobs, NEW w \in Workers, TickLaunch(j, w)
      PROVE  RetryInv' /\ UNCHANGED rows
  <2>1. /\ j \in DOMAIN listed /\ tick.at = "launch" /\ UNCHANGED rows
        /\ pc' = [pc EXCEPT ![w] = "begin"] /\ job' = [job EXCEPT ![w] = j]
        /\ copy' = [copy EXCEPT ![w] = listed[j]]
        /\ AfterLaunch(j, tick.active + 1)
    BY <1>2 DEF TickLaunch, GoRunJob, FirstListed, rowVars
  <2>2. \A i \in DOMAIN listed' : /\ tick'.at = "launch" /\ i \in DOMAIN listed
                                  /\ listed'[i] = listed[i]
    BY <2>1 DEF AfterLaunch, Without, BaseInv, TypeOK
  <2>3. ASSUME NEW v \in Workers, pc'[v] \in Working
        PROVE  copy'[v].retry # "future" /\ (Settled(v)' => rows'[job'[v]].retry # "future")
    BY <2>1, <2>3 DEF RetryInv, BaseInv, TypeOK, Working, Settled
  <2> QED BY <2>1, <2>2, <2>3 DEF RetryInv, ConcurrencyLimit
<1>3. ASSUME NEW j \in Jobs, RetryDue(j) \/ AddSome(j)
      PROVE  RetryInv' /\ \A i \in Jobs : rows'[i] # rows[i] => i = j
  <2>1. /\ UNCHANGED <<tick, listed, pc, job, copy>> /\ rows[j] \in Row
        /\ \A i \in Jobs \ {j} : rows'[i] = rows[i]
    BY <1>3, OtherStep DEF BaseInv, TypeOK
  <2>2. rows'[j].retry \in {"past", "none", rows[j].retry}
    BY <1>3, <2>1, OtherStep DEF Row
  <2>3. /\ \A w \in Workers : pc[w] \in Working => job[w] \in Jobs
        /\ DOMAIN listed \subseteq Jobs
    BY DEF BaseInv, TypeOK, JobsHeld, Working
  <2> QED BY <2>1, <2>2, <2>3 DEF RetryInv, Settled, ConcurrencyLimit
<1>4. CASE Quiet
  <2>1. UNCHANGED <<rows, pc, job, copy>>
    BY <1>4, QuietStep
  <2>2. \A j \in DOMAIN listed' : /\ tick'.at = "launch" /\ listed'[j].retry # "future"
                                  /\ ConcurrencyLimit = 1 => rows[j].retry # "future"
    <3>1. CASE UNCHANGED <<tick, listed>>
      BY <3>1 DEF RetryInv
    <3>2. CASE TickCheck
      BY <3>2 DEF TickCheck, RetryInv
    <3>3. CASE TickCount
      BY <3>3 DEF TickCount, RetryInv
    <3>4. CASE TickList
      BY <3>4 DEF TickList, Selected, FirstOf, Pending, RetryInv, BaseInv, TypeOK
    <3>5. ASSUME NEW j \in Jobs, TickSkip(j)
          PROVE  \A i \in DOMAIN listed' : /\ tick'.at = "launch" /\ listed'[i].retry # "future"
                                           /\ ConcurrencyLimit = 1 => rows[i].retry # "future"
      BY <3>5 DEF TickSkip, AfterLaunch, Without, RetryInv, BaseInv, TypeOK
    <3>6. CASE SetBattery \/ StartDaemon \/ Stop \/ UNCHANGED vars
      BY <3>1, <3>6 DEF SetBattery, StartDaemon, Stop, vars, pumpVars
    <3> QED BY <1>4, <3>2, <3>3, <3>4, <3>5, <3>6 DEF Quiet
  <2> QED BY <2>1, <2>2 DEF RetryInv, Settled, ConcurrencyLimit
<1>5. CASE Exit
  BY <1>5 DEF Exit, RetryInv, Working, rowVars
<1> QED BY <1>1, <1>2, <1>3, <1>4, <1>5, StepKinds DEF RetryInv

\* A row that waits for its next retry changes by the clock, by another add, or, where more than
\* one goroutine is allowed, by one that was listed before the row was put off and now makes its
\* first statement or its failJob (queue.go, failJob and tick; store.go, ListJobs).
THEOREM WaitIsKept == Spec => BackoffRespected
<1>1. Init => RetryInv /\ CountInv
  BY FS_EmptySet, LimitType DEF Init, RetryInv, CountInv, Working, TickIdle, ConcurrencyLimit
<1>2. BaseInv /\ RetryInv /\ CountInv /\ [Next]_vars => RetryInv' /\ CountInv'
  BY RetryStep, CountStep
<1>3. BaseInv /\ RetryInv /\ CountInv /\ [Next]_vars
        => [\A j \in Jobs :
              rows[j].state = "queued" /\ rows[j].retry = "future" /\ rows'[j] # rows[j]
                  => \/ RetryDue(j) \/ \E s \in Sources \cup {NoSource} : Add(j, s)
                     \/ /\ ConcurrencyLimit > 1
                        /\ \E w \in Workers : /\ job[w] = j /\ copy[w].retry # "future"
                                              /\ Begin(w) \/ Fail(w)]_vars
  BY RetryStep, LimitPositive DEF AddSome
<1> QED BY <1>1, <1>2, <1>3, BaseAlways, PTL DEF Spec, BackoffRespected
----------------------------------------------------------------------------
(* A row that is there stays there: InsertJob and UpdateJob write a state,    *)
(* and a goroutine has its copy from a row that was listed as queued.         *)

Present(r) == r.state # "absent"

PresentInv ==
    /\ \A j \in DOMAIN listed : Present(listed[j]) /\ Present(rows[j])
    /\ \A w \in Workers : pc[w] # "idle" => Present(copy[w]) /\ Present(rows[job[w]])

LEMMA PresentRunJob ==
    ASSUME BaseInv, PresentInv, NEW w \in Workers, runJob(w)
    PROVE  /\ Present(rows'[job[w]])
           /\ pc'[w] # "idle" => Present(copy'[w]) /\ job'[w] = job[w]
<1> USE DEF At
<1>1. pc[w] # "idle" /\ job[w] \in Jobs /\ copy[w] \in Row
  BY OwnStep
<1>2. Present(copy[w]) /\ Present(rows[job[w]])
  BY <1>1 DEF PresentInv
<1>3. ASSUME NEW r, NEW p, NEW q, Save(w, r, p, q), Present(r)
      PROVE  Present(rows'[job[w]]) /\ Present(copy'[w]) /\ job' = job
  BY <1>1, <1>2, <1>3, OwnSave
<1>4. /\ Present([copy[w] EXCEPT !.state = "downloading"])
      /\ Present([copy[w] EXCEPT !.state = "remuxing"])
      /\ Present([copy[w] EXCEPT !.state = "done"])
      /\ Present([copy[w] EXCEPT !.state = "done", !.finished = TRUE])
      /\ Present(Failed(copy[w]))
  BY <1>1 DEF Present, Failed, Row
<1>5. CASE Begin(w) \/ SaveTmp(w) \/ MarkRemux(w)
  BY <1>2, <1>3, <1>4, <1>5 DEF Begin, SaveTmp, MarkRemux
<1>6. CASE MarkDone(w) \/ Flag(w)
  BY <1>2, <1>3, <1>4, <1>6 DEF MarkDone, Flag
<1>7. CASE Finish(w) \/ Fail(w)
  BY <1>2, <1>3, <1>4, <1>7 DEF Finish, Fail
<1>8. CASE Resolve(w) \/ FetchDone(w)
  <2>1. UNCHANGED <<rows, job>> /\ copy'[w].state = copy[w].state
    BY <1>1, <1>8 DEF Resolve, FetchDone, BaseInv, TypeOK, Row, rowVars
  <2> QED BY <1>2, <2>1 DEF Present
<1>9. CASE Release(w)
  BY <1>2, <1>9 DEF Release, Goto, BaseInv, TypeOK, rowVars
<1>10. CASE \/ Prepare(w) \/ FetchSome(w) \/ FetchFail(w) \/ Remux(w) \/ RenameStaged(w) \/ Rename(w)
            \/ WriteSidecar(w) \/ Cleanup(w)
  BY <1>2, <1>10 DEF Prepare, FetchSome, FetchFail, Remux, RenameStaged, Rename, WriteSidecar, Cleanup,
                     rowVars
<1> QED BY <1>5, <1>6, <1>7, <1>8, <1>9, <1>10 DEF runJob

LEMMA PresentStep ==
    ASSUME BaseInv, PresentInv, [Next]_vars
    PROVE  PresentInv' /\ \A j \in Jobs : Present(rows[j]) => Present(rows'[j])
<1>1. ASSUME NEW w \in Workers, runJob(w)
      PROVE  PresentInv' /\ \A j \in Jobs : Present(rows[j]) => Present(rows'[j])
  <2>1. /\ job[w] \in Jobs
        /\ \A v \in Workers \ {w} : pc'[v] = pc[v] /\ job'[v] = job[v] /\ copy'[v] = copy[v]
        /\ \A v \in Workers \ {w} : pc[v] # "idle" => job[v] \in Jobs \ {job[w]}
        /\ \A j \in Jobs \ {job[w]} : rows'[j] = rows[j]
        /\ UNCHANGED listed
    BY <1>1, OwnStep
  <2>2. /\ Present(rows'[job[w]])
        /\ pc'[w] # "idle" => Present(copy'[w]) /\ job'[w] = job[w]
    BY <1>1, PresentRunJob
  <2>3. DOMAIN listed \subseteq Jobs
    BY DEF BaseInv, TypeOK
  <2> QED BY <2>1, <2>2, <2>3 DEF PresentInv
<1>2. ASSUME NEW j \in Jobs, NEW w \in Workers, TickLaunch(j, w)
      PROVE  PresentInv' /\ UNCHANGED rows
  <2>1. /\ j \in DOMAIN listed /\ UNCHANGED rows
        /\ pc' = [pc EXCEPT ![w] = "begin"] /\ job' = [job EXCEPT ![w] = j]
        /\ copy' = [copy EXCEPT ![w] = listed[j]]
    BY <1>2 DEF TickLaunch, GoRunJob, FirstListed, rowVars
  <2>2. \A i \in DOMAIN listed' : i \in DOMAIN listed /\ listed'[i] = listed[i]
    BY <1>2 DEF TickLaunch, GoRunJob, AfterLaunch, Without
  <2> QED BY <2>1, <2>2 DEF PresentInv, BaseInv, TypeOK
<1>3. ASSUME NEW j \in Jobs, RetryDue(j) \/ AddSome(j)
      PROVE  PresentInv' /\ \A i \in Jobs : Present(rows[i]) => Present(rows'[i])
  <2>1. /\ UNCHANGED <<listed, pc, job, copy>> /\ rows[j] \in Row
        /\ \A i \in Jobs \ {j} : rows'[i] = rows[i]
    BY <1>3, OtherStep DEF BaseInv, TypeOK
  <2>2. rows'[j].state \in {rows[j].state, "queued"}
    <3>1. [rows[j] EXCEPT !.retry = "past"].state = rows[j].state
      BY <2>1 DEF Row
    <3> QED BY <1>3, <3>1, OtherStep
  <2>3. /\ \A w \in Workers : pc[w] # "idle" => job[w] \in Jobs
        /\ DOMAIN listed \subseteq Jobs
    BY DEF BaseInv, TypeOK, JobsHeld
  <2> QED BY <2>1, <2>2, <2>3 DEF PresentInv, Present
<1>4. CASE Quiet
  <2>1. UNCHANGED <<rows, pc, job, copy>>
    BY <1>4, QuietStep
  <2>2. \A j \in DOMAIN listed' : Present(listed'[j]) /\ Present(rows[j])
    <3>1. CASE UNCHANGED listed
      BY <3>1 DEF PresentInv
    <3>2. CASE TickList
      BY <3>1, <3>2 DEF TickList, Selected, FirstOf, Pending, Present
    <3>3. ASSUME NEW j \in Jobs, TickSkip(j)
          PROVE  \A i \in DOMAIN listed' : Present(listed'[i]) /\ Present(rows[i])
      BY <3>3 DEF TickSkip, AfterLaunch, Without, PresentInv
    <3>4. CASE SetBattery \/ TickCheck \/ TickCount \/ StartDaemon \/ Stop \/ UNCHANGED vars
      BY <3>1, <3>4 DEF SetBattery, TickCheck, TickCount, StartDaemon, Stop, vars, pumpVars
    <3> QED BY <1>4, <3>2, <3>3, <3>4 DEF Quiet
  <2> QED BY <2>1, <2>2 DEF PresentInv
<1>5. CASE Exit
  BY <1>5 DEF Exit, PresentInv, rowVars
<1> QED BY <1>1, <1>2, <1>3, <1>4, <1>5, StepKinds

----------------------------------------------------------------------------
(* The sidecar of a done row, when the remux is deferred: then the row gets   *)
(* done only at the end of runJob, after the sidecar, and its own goroutine   *)
(* writes the sidecar only while the row is not done.                         *)

Show(w) == ShowOf[Target(w)]

Unfinished == {"resolve", "prepare", "saveTmp", "fetch", "fetching", "rename", "sidecar", "finish"}

SidecarAt(w) ==
    /\ pc[w] \notin {"markRemux", "remux", "renameStaged", "markDone", "flag"}
    /\ pc[w] \in Unfinished => rows[job[w]].state # "done" /\ copy[w].state # "done"
    /\ pc[w] = "finish" => KeptFor(job[w], copy[w])

SidecarInv == SidecarKept /\ \A w \in Workers : SidecarAt(w)

\* Where no sidecar changes, and no row goes away, what is kept is kept.
LEMMA KeptUnchanged ==
    ASSUME UNCHANGED sidecar, \A i \in Jobs : Present(rows[i]) => Present(rows'[i]),
           NEW j \in Jobs, NEW r \in Row, KeptFor(j, r)
    PROVE  KeptFor(j, r)'
BY DEF KeptFor, Present

\* A goroutine may take the entry of another job of its show, and leaves its own.
LEMMA KeptRunJob ==
    ASSUME BaseInv, PresentInv, NEW w \in Workers, runJob(w), [Next]_vars,
           NEW j \in Jobs \ {job[w]}, NEW r \in Row, KeptFor(j, r)
    PROVE  KeptFor(j, r)'
<1>1. job[w] \in Jobs /\ copy[w] \in Row /\ pc[w] # "idle"
  BY OwnStep
<1>2. \A i \in Jobs : Present(rows[i]) => Present(rows'[i])
  BY PresentStep
<1>3. CASE UNCHANGED sidecar
  BY <1>2, <1>3, KeptUnchanged
<1>4. CASE WriteSidecar(w)
  <2>1. Present(rows'[job[w]])
    BY <1>1, <1>2 DEF PresentInv
  <2>2. /\ \A d \in Shows \ {Show(w)} : sidecar'[d] = sidecar[d]
        /\ sidecar'[Show(w)] \in {sidecar[Show(w)], {}, {<<Target(w), copy[w].sha>>}}
    <3>1. Show(w) \in Shows
      BY <1>1, QueueAssumption DEF Show, Target
    <3> QED BY <1>4, <3>1 DEF WriteSidecar, Show, BaseInv, TypeOK
  <2>3. copy[w].sha \in SUBSET Sources
    BY <1>1 DEF Row
  <2>4. {} \in WrittenFor(Target(w)) /\ {<<Target(w), copy[w].sha>>} \in WrittenFor(Target(w))
    BY <2>3 DEF WrittenFor
  <2>5. ShowOf[TargetOf[j]] \in Shows
    BY QueueAssumption
  <2>6. CASE sidecar'[ShowOf[TargetOf[j]]] = sidecar[ShowOf[TargetOf[j]]]
    BY <1>2, <2>6 DEF KeptFor, Present
  <2>7. CASE /\ ShowOf[TargetOf[j]] = Show(w)
             /\ sidecar'[Show(w)] \in WrittenFor(Target(w))
    BY <1>1, <2>1, <2>7 DEF KeptFor, Present, Show, Target
  <2> QED BY <2>2, <2>4, <2>5, <2>6, <2>7
<1> QED
  BY <1>3, <1>4 DEF runJob, Begin, Resolve, Prepare, SaveTmp, FetchSome, FetchFail, FetchDone,
         MarkRemux, Remux, RenameStaged, Rename, MarkDone, Flag, Finish, Fail, Cleanup,
         Release, Save, fileVars

\* At each place of runJob the sidecar has what the row is about to say.
LEMMA SidecarRunJob ==
    ASSUME DeferRemuxToCharge, BaseInv, PresentInv, SidecarInv, [Next]_vars,
           NEW w \in Workers, runJob(w)
    PROVE  SidecarInv'
<1> USE DEF At
<1>1. /\ pc[w] # "idle" /\ job[w] \in Jobs /\ copy[w] \in Row
      /\ \A v \in Workers \ {w} : pc'[v] = pc[v] /\ job'[v] = job[v] /\ copy'[v] = copy[v]
      /\ \A v \in Workers \ {w} : pc[v] # "idle" => job[v] \in Jobs \ {job[w]}
      /\ \A j \in Jobs \ {job[w]} : rows'[j] = rows[j]
  BY OwnStep
<1>2. SidecarAt(w) /\ SidecarKept
  BY DEF SidecarInv
<1>3. \A j \in Jobs \ {job[w]}, r \in Row : KeptFor(j, r) => KeptFor(j, r)'
  BY KeptRunJob
<1>4. ASSUME NEW v \in Workers, v # w
      PROVE  SidecarAt(v)'
  <2>1. CASE pc[v] = "idle"
    BY <1>1, <1>4, <2>1 DEF SidecarAt, Unfinished
  <2>2. CASE pc[v] # "idle"
    <3>1. job[v] \in Jobs \ {job[w]} /\ pc'[v] = pc[v] /\ job'[v] = job[v] /\ copy'[v] = copy[v]
      BY <1>1, <1>4, <2>2
    <3>2. rows'[job[v]] = rows[job[v]]
      BY <1>1, <3>1
    <3>3. SidecarAt(v) /\ copy[v] \in Row
      BY DEF SidecarInv, BaseInv, TypeOK
    <3>4. pc[v] = "finish" => KeptFor(job[v], copy[v])'
      <4>1. pc[v] = "finish" => KeptFor(job[v], copy[v])
        BY <3>3 DEF SidecarAt
      <4> QED BY <1>3, <3>1, <3>3, <4>1 DEF KeptFor
    <3> QED BY <3>1, <3>2, <3>3, <3>4 DEF SidecarAt
  <2> QED BY <2>1, <2>2
<1>5. ASSUME NEW j \in Jobs \ {job[w]}, rows'[j].state = "done", rows'[j].finished
      PROVE  KeptFor(j, rows[j])'
  <2>1. rows'[j] = rows[j] /\ rows[j] \in Row
    BY <1>1 DEF BaseInv, TypeOK
  <2>2. KeptFor(j, rows[j])
    BY <1>2, <1>5, <2>1 DEF SidecarKept
  <2> QED BY <1>3, <2>1, <2>2 DEF KeptFor
<1>6. ASSUME rows'[job[w]].state # "done", SidecarAt(w)'
      PROVE  SidecarInv'
  BY <1>4, <1>5, <1>6 DEF SidecarInv, SidecarKept
<1>7. ASSUME rows'[job[w]].state = "done" /\ rows'[job[w]].finished => KeptFor(job[w], rows[job[w]])',
             SidecarAt(w)', UNCHANGED job
      PROVE  SidecarInv'
  <2>1. ASSUME NEW j \in Jobs, rows'[j].state = "done", rows'[j].finished
        PROVE  KeptFor(j, rows[j])'
    <3>1. CASE j = job[w]
      BY <1>7, <2>1, <3>1 DEF KeptFor
    <3>2. CASE j # job[w]
      BY <1>5, <2>1, <3>2
    <3> QED BY <3>1, <3>2
  <2>2. SidecarKept'
    BY <2>1 DEF SidecarKept
  <2> QED BY <1>4, <1>7, <2>2 DEF SidecarInv
<1>8. ASSUME NEW r, NEW p, NEW q \in {"fail", "cleanup"}, Save(w, r, p, q), r.state # "done",
             p \in {"resolve", "prepare", "fetch", "cleanup"}
      PROVE  SidecarInv'
  <2>1. /\ UNCHANGED <<sidecar, job>> /\ copy'[w] = r
        /\ \/ pc'[w] = p /\ rows'[job[w]] = r
           \/ pc'[w] \in {"fail", "cleanup"} /\ UNCHANGED rows
    BY <1>1, <1>8, OwnSave DEF fileVars
  <2>2. SidecarAt(w)'
    BY <1>8, <2>1 DEF SidecarAt, Unfinished
  <2>3. rows'[job[w]].state = "done" => UNCHANGED rows
    BY <1>8, <2>1
  <2>4. rows'[job[w]].state = "done" /\ rows'[job[w]].finished => KeptFor(job[w], rows[job[w]])'
    BY <1>1, <1>2, <2>1, <2>3 DEF SidecarKept, KeptFor
  <2> QED BY <1>7, <2>1, <2>2, <2>4
<1>9. CASE Begin(w)
  <2>1. [copy[w] EXCEPT !.state = "downloading"].state # "done"
    BY <1>1 DEF Row
  <2> QED BY <1>8, <1>9, <2>1 DEF Begin
<1>10. CASE SaveTmp(w)
  <2>1. copy[w].state # "done"
    BY <1>2, <1>10 DEF SaveTmp, SidecarAt, Unfinished
  <2> QED BY <1>8, <1>10, <2>1 DEF SaveTmp
<1>11. CASE Fail(w)
  <2>1. Failed(copy[w]).state # "done"
    BY <1>1 DEF Failed, Row
  <2> QED BY <1>8, <1>11, <2>1 DEF Fail
<1>12. CASE Finish(w)
  <2> DEFINE r == [copy[w] EXCEPT !.state = "done", !.finished = TRUE]
  <2>1. r.sha = copy[w].sha
    BY <1>1 DEF Row
  <2>2. /\ UNCHANGED <<sidecar, job>> /\ pc'[w] = "cleanup"
        /\ rows'[job[w]] = r \/ UNCHANGED rows
    BY <1>1, <1>12, OwnSave DEF Finish, fileVars
  <2>3. KeptFor(job[w], copy[w]) /\ rows[job[w]].state # "done"
    BY <1>2, <1>12 DEF SidecarAt, Finish, Unfinished
  <2>4. rows'[job[w]].state = "done" => KeptFor(job[w], rows[job[w]])'
    BY <1>1, <2>1, <2>2, <2>3 DEF KeptFor
  <2>5. SidecarAt(w)'
    BY <2>2 DEF SidecarAt, Unfinished
  <2> QED BY <1>7, <2>2, <2>4, <2>5
<1>13. CASE WriteSidecar(w)
  <2>1. /\ UNCHANGED <<rows, job, copy>> /\ pc'[w] \in {"finish", "fail"}
        /\ rows[job[w]].state # "done" /\ copy[w].state # "done"
        /\ pc'[w] = "finish" => sidecar' = [sidecar EXCEPT ![Show(w)] = {<<Target(w), copy[w].sha>>}]
    BY <1>2, <1>13 DEF WriteSidecar, SidecarAt, Unfinished, Show, Goto, BaseInv, TypeOK, rowVars
  <2>2. Show(w) \in Shows /\ Show(w) = ShowOf[TargetOf[job[w]]] /\ Target(w) = TargetOf[job[w]]
    BY <1>1, QueueAssumption DEF Show, Target
  <2>3. pc'[w] = "finish" => <<Target(w), copy[w].sha>> \in sidecar'[Show(w)]
    BY <2>1, <2>2 DEF BaseInv, TypeOK
  <2>4. SidecarAt(w)'
    BY <2>1, <2>2, <2>3 DEF SidecarAt, Unfinished, KeptFor
  <2> QED BY <1>6, <2>1, <2>4
<1>14. CASE MarkRemux(w) \/ Remux(w) \/ RenameStaged(w) \/ MarkDone(w) \/ Flag(w)
  BY <1>2, <1>14 DEF MarkRemux, Remux, RenameStaged, MarkDone, Flag, SidecarAt
<1>15. CASE \/ Resolve(w) \/ Prepare(w) \/ FetchSome(w) \/ FetchFail(w) \/ FetchDone(w) \/ Rename(w)
            \/ Cleanup(w) \/ Release(w)
  <2>1. pc'[w] # "idle" => copy'[w].state = copy[w].state /\ job' = job
    BY <1>1, <1>15 DEF Resolve, Prepare, FetchSome, FetchFail, FetchDone, Rename, Cleanup, Release, Goto,
                       BaseInv, TypeOK, Row
  <2>2. UNCHANGED <<rows, sidecar>>
    BY <1>15 DEF Resolve, Prepare, FetchSome, FetchFail, FetchDone, Rename, Cleanup, Release, rowVars,
                 fileVars
  <2>3. /\ pc'[w] \in {"idle", "prepare", "saveTmp", "fetching", "rename", "sidecar", "fail", "release"}
        /\ pc'[w] \in Unfinished => pc[w] \in Unfinished
    BY <1>15 DEF Resolve, Prepare, FetchSome, FetchFail, FetchDone, Rename, Cleanup, Release, Unfinished,
                 Goto, BaseInv, TypeOK
  <2>4. SidecarAt(w)'
    BY <1>2, <2>1, <2>2, <2>3 DEF SidecarAt, Unfinished
  <2>5. SidecarKept'
    BY <1>2, <2>2 DEF SidecarKept, KeptFor
  <2> QED BY <1>4, <2>4, <2>5 DEF SidecarInv
<1> QED
  BY <1>9, <1>10, <1>11, <1>12, <1>13, <1>14, <1>15 DEF runJob

\* No other step says done, or rewrites a sidecar.
LEMMA SidecarStep ==
    ASSUME DeferRemuxToCharge, BaseInv, PresentInv, SidecarInv, [Next]_vars
    PROVE  SidecarInv'
<1>1. \A j \in Jobs : Present(rows[j]) => Present(rows'[j])
  BY PresentStep
<1>2. CASE \E w \in Workers : runJob(w)
  BY <1>2, SidecarRunJob
<1>3. ASSUME NEW j \in Jobs, NEW w \in Workers, TickLaunch(j, w)
      PROVE  SidecarInv'
  <2>1. /\ UNCHANGED <<rows, sidecar>> /\ pc' = [pc EXCEPT ![w] = "begin"]
        /\ \A v \in Workers \ {w} : job'[v] = job[v] /\ copy'[v] = copy[v]
    BY <1>3 DEF TickLaunch, GoRunJob, BaseInv, TypeOK, rowVars, fileVars
  <2>2. ASSUME NEW v \in Workers
        PROVE  SidecarAt(v)'
    BY <2>1, SMTT(30) DEF SidecarInv, SidecarAt, Unfinished, KeptFor, BaseInv, TypeOK
  <2>3. SidecarKept'
    BY <2>1 DEF SidecarInv, SidecarKept, KeptFor
  <2> QED BY <2>2, <2>3 DEF SidecarInv
<1>4. ASSUME NEW j \in Jobs, RetryDue(j) \/ AddSome(j)
      PROVE  SidecarInv'
  <2>1. /\ UNCHANGED <<sidecar, pc, job, copy>> /\ rows[j] \in Row
        /\ \A i \in Jobs \ {j} : rows'[i] = rows[i]
        /\ \/ rows'[j] = [rows[j] EXCEPT !.retry = "past"]
           \/ rows'[j].state = "queued"
    BY <1>4, OtherStep DEF BaseInv, TypeOK
  <2>2. \/ /\ rows'[j].state = rows[j].state /\ rows'[j].sha = rows[j].sha
           /\ rows'[j].finished = rows[j].finished
        \/ rows'[j].state = "queued"
    BY <2>1 DEF Row
  <2>3. ASSUME NEW i \in Jobs, NEW r \in Row, KeptFor(i, r)
        PROVE  KeptFor(i, r)'
    BY <1>1, <2>1, <2>3, KeptUnchanged
  <2>4. SidecarKept'
    <3>1. ASSUME NEW i \in Jobs, rows'[i].state = "done", rows'[i].finished
          PROVE  KeptFor(i, rows[i])'
      <4>1. rows[i].state = "done" /\ rows[i].finished /\ rows[i].sha = rows'[i].sha /\ rows[i] \in Row
        BY <2>1, <2>2, <3>1 DEF BaseInv, TypeOK
      <4>2. KeptFor(i, rows[i])
        BY <4>1 DEF SidecarInv, SidecarKept
      <4> QED BY <1>1, <2>1, <4>1, <4>2 DEF KeptFor, Present
    <3> QED BY <3>1 DEF SidecarKept
  <2>5. ASSUME NEW v \in Workers
        PROVE  SidecarAt(v)'
    <3>1. copy[v] \in Row /\ (pc[v] # "idle" => job[v] \in Jobs)
      BY DEF BaseInv, TypeOK, JobsHeld
    <3>2. pc[v] # "idle" => rows'[job[v]].state \in {rows[job[v]].state, "queued"}
      BY <2>1, <2>2, <3>1
    <3>3. pc[v] = "finish" => KeptFor(job[v], copy[v])
      BY DEF SidecarInv, SidecarAt
    <3>4. pc[v] = "finish" => KeptFor(job[v], copy[v])'
      BY <1>1, <2>1, <3>1, <3>3 DEF KeptFor, Present
    <3> QED BY <2>1, <3>2, <3>4 DEF SidecarInv, SidecarAt, Unfinished
  <2> QED BY <2>4, <2>5 DEF SidecarInv
<1>5. CASE Quiet
  BY <1>5, QuietStep DEF SidecarInv, SidecarKept, SidecarAt, KeptFor
<1>6. CASE Exit
  <2>1. UNCHANGED <<rows, sidecar>> /\ \A w \in Workers : pc'[w] = "idle"
    BY <1>6 DEF Exit, rowVars, fileVars
  <2> QED BY <2>1 DEF SidecarInv, SidecarKept, KeptFor, SidecarAt, Unfinished
<1> QED BY <1>2, <1>3, <1>4, <1>5, <1>6, StepKinds

\* With the remux deferred, as it is by default, a row that says done with a finished_at has its
\* file in the sidecar of its show until another job of the show writes that sidecar (queue.go:
\* WriteSidecar precedes the last UpdateJob), for every number of episodes of a show.
THEOREM SidecarsKept == ASSUME DeferRemuxToCharge PROVE Spec => []SidecarKept
<1>1. Init => SidecarInv /\ PresentInv
  BY DEF Init, SidecarInv, SidecarKept, NoRow, SidecarAt, Unfinished, PresentInv
<1>2. BaseInv /\ PresentInv /\ SidecarInv /\ [Next]_vars => SidecarInv' /\ PresentInv'
  BY SidecarStep, PresentStep
<1>3. SidecarInv => SidecarKept
  BY DEF SidecarInv
<1> QED BY <1>1, <1>2, <1>3, BaseAlways, PTL DEF Spec
----------------------------------------------------------------------------
(* The bytes of one source, in the first life of the daemon.  Until it        *)
(* ends, a job without a goroutine has no parts, a goroutine finds none when  *)
(* its fetch begins, and a fetch adds those of the one source of its copy.    *)

AtMostOne(c) == \A s, t \in c : s = t

FirstLife == starts <= 1 /\ (Alive \/ starts = 0)

LifeInv ==
    /\ Alive => starts >= 1
    /\ ~Alive => tick.at = "idle" /\ \A w \in Workers : pc[w] = "idle"

PartsAt(w) ==
    /\ pc[w] \notin {"idle", "fetching", "fail", "cleanup"} => tmp[job[w]] = {}
    /\ pc[w] = "fetching" => tmp[job[w]] \subseteq {copy[w].src}

PartsInv ==
    FirstLife => /\ \A w \in Workers : PartsAt(w)
                 /\ \A j \in Jobs : (\A w \in Workers : pc[w] # "idle" => job[w] # j) => tmp[j] = {}

OneInv ==
    starts <= 1 =>
        /\ \A w \in Workers : pc[w] \in Loaded => AtMostOne(copy[w].sha)
        /\ \A t \in Targets : AtMostOne(staged[t].from) /\ AtMostOne(lib[t].from)

SingleInv == LifeInv /\ PartsInv /\ OneInv

LEMMA AtMostOneCard == ASSUME NEW c, AtMostOne(c) PROVE Cardinality(c) <= 1
<1>1. CASE c = {}
  BY <1>1, FS_EmptySet
<1>2. CASE c # {}
  <2>1. PICK s : c = {s}
    BY <1>2 DEF AtMostOne
  <2> QED BY <2>1, FS_Singleton, SMTT(30)
<1> QED BY <1>1, <1>2

\* A goroutine runs in the daemon's first life.
LEMMA GoroutineLife ==
    ASSUME LifeInv, NEW w \in Workers, runJob(w)
    PROVE  Alive /\ LifeInv'
<1>1. pc[w] # "idle" /\ UNCHANGED <<phase, starts>>
  BY DEF At, runJob, Begin, Resolve, Prepare, SaveTmp, FetchSome, FetchFail, FetchDone, MarkRemux, Remux,
         RenameStaged, Rename, MarkDone, WriteSidecar, Flag, Finish, Fail, Cleanup, Release, Save,
         procVars
<1> QED BY <1>1 DEF LifeInv, Alive

\* Parts in a directory are those of the source of the run that owns it.
LEMMA PartsRunJob ==
    ASSUME BaseInv, LifeInv, PartsInv, NEW w \in Workers, runJob(w)
    PROVE  PartsInv'
<1> USE DEF At
<1>0. SUFFICES ASSUME starts <= 1 PROVE PartsInv'
  BY OwnStep DEF PartsInv, FirstLife
<1>1. /\ pc[w] # "idle" /\ job[w] \in Jobs /\ copy[w] \in Row
      /\ \A v \in Workers \ {w} : pc'[v] = pc[v] /\ job'[v] = job[v] /\ copy'[v] = copy[v]
      /\ \A v \in Workers \ {w} : pc[v] # "idle" => job[v] \in Jobs \ {job[w]}
      /\ \A j \in Jobs \ {job[w]} : tmp'[j] = tmp[j]
  BY OwnStep
<1>2. FirstLife
  BY <1>0, GoroutineLife DEF FirstLife
<1>3. PartsAt(w)
  BY <1>2 DEF PartsInv
<1>4. /\ PartsAt(w)'
      /\ pc'[w] = "idle" \/ job'[w] = job[w]
      /\ pc'[w] = "idle" => tmp'[job[w]] = {}
  <2>1. CASE FetchSome(w)
    BY <1>1, <1>3, <2>1 DEF FetchSome, PartsAt, Goto, BaseInv, TypeOK
  <2>2. CASE FetchDone(w)
    BY <1>1, <1>3, <2>2 DEF FetchDone, PartsAt, Goto, BaseInv, TypeOK
  <2>3. CASE Cleanup(w)
    BY <1>1, <1>3, <2>3 DEF Cleanup, PartsAt, Goto, BaseInv, TypeOK
  <2>4. CASE Release(w)
    BY <1>1, <1>3, <2>4 DEF Release, PartsAt, Goto, BaseInv, TypeOK, fileVars
  <2>5. ASSUME UNCHANGED <<tmp, job>>, pc'[w] # "idle", pc'[w] # "fetching",
               \/ pc'[w] \in {"fail", "cleanup"}
               \/ pc[w] \notin {"idle", "fetching", "fail", "cleanup"}
        PROVE  /\ PartsAt(w)'
               /\ pc'[w] = "idle" \/ job'[w] = job[w]
               /\ pc'[w] = "idle" => tmp'[job[w]] = {}
    BY <1>1, <1>3, <2>5 DEF PartsAt
  <2>6. CASE \/ Resolve(w) \/ Prepare(w) \/ FetchFail(w) \/ Remux(w) \/ RenameStaged(w) \/ Rename(w)
             \/ WriteSidecar(w)
    <3>1. UNCHANGED <<tmp, job>>
      BY <2>6 DEF Resolve, Prepare, FetchFail, Remux, RenameStaged, Rename, WriteSidecar, fileVars
    <3>2. /\ pc'[w] # "idle" /\ pc'[w] # "fetching"
          /\ \/ pc'[w] \in {"fail", "cleanup"}
             \/ pc[w] \notin {"idle", "fetching", "fail", "cleanup"}
      BY <2>6 DEF Resolve, Prepare, FetchFail, Remux, RenameStaged, Rename, WriteSidecar, Goto, BaseInv,
                  TypeOK
    <3> QED BY <2>5, <3>1, <3>2
  <2>7. CASE \/ Begin(w) \/ SaveTmp(w) \/ MarkRemux(w) \/ MarkDone(w) \/ Flag(w) \/ Finish(w)
             \/ Fail(w)
    <3>1. UNCHANGED <<tmp, job>>
      BY <2>7 DEF Begin, SaveTmp, MarkRemux, MarkDone, Flag, Finish, Fail, Save, fileVars
    <3>2. /\ pc'[w] # "idle" /\ pc'[w] # "fetching"
          /\ \/ pc'[w] \in {"fail", "cleanup"}
             \/ pc[w] \notin {"idle", "fetching", "fail", "cleanup"}
      BY <2>7 DEF Begin, SaveTmp, MarkRemux, MarkDone, Flag, Finish, Fail, Save, Goto, BaseInv, TypeOK
    <3> QED BY <2>5, <3>1, <3>2
  <2> QED BY <2>1, <2>2, <2>3, <2>4, <2>6, <2>7 DEF runJob
<1>5. ASSUME NEW v \in Workers, v # w
      PROVE  PartsAt(v)'
  <2>1. PartsAt(v)
    BY <1>2 DEF PartsInv
  <2>2. pc[v] # "idle" => tmp'[job[v]] = tmp[job[v]]
    BY <1>1, <1>5
  <2> QED BY <1>1, <1>5, <2>1, <2>2 DEF PartsAt
<1>6. ASSUME NEW j \in Jobs, \A v \in Workers : pc'[v] # "idle" => job'[v] # j
      PROVE  tmp'[j] = {}
  <2>1. CASE j = job[w]
    BY <1>4, <1>6, <2>1
  <2>2. CASE j # job[w]
    <3>1. \A v \in Workers : pc[v] # "idle" => job[v] # j
      BY <1>1, <1>6, <2>2
    <3> QED BY <1>1, <1>2, <2>2, <3>1 DEF PartsInv
  <2> QED BY <2>1, <2>2
<1> QED BY <1>4, <1>5, <1>6 DEF PartsInv

\* What is assembled, staged and published is of one source.
LEMMA OneRunJob ==
    ASSUME BaseInv, LifeInv, PartsInv, OneInv, NEW w \in Workers, runJob(w)
    PROVE  OneInv'
<1> USE DEF At
<1>0. SUFFICES ASSUME starts <= 1 PROVE OneInv'
  BY OwnStep DEF OneInv
<1>1. /\ job[w] \in Jobs /\ copy[w] \in Row
      /\ \A v \in Workers \ {w} : pc'[v] = pc[v] /\ copy'[v] = copy[v]
  BY OwnStep
<1>2. ASSUME pc'[w] \in Loaded => AtMostOne(copy'[w].sha),
             \A t \in Targets : AtMostOne(staged'[t].from) /\ AtMostOne(lib'[t].from)
      PROVE  OneInv'
  BY <1>0, <1>1, <1>2 DEF OneInv
<1> DEFINE Old == /\ \A v \in Workers : pc[v] \in Loaded => AtMostOne(copy[v].sha)
                  /\ \A t \in Targets : AtMostOne(staged[t].from) /\ AtMostOne(lib[t].from)
<1>3. AtMostOne(NoFile.from) /\ Old
  BY <1>0 DEF AtMostOne, NoFile, Plain, OneInv
<1> HIDE DEF Old
<1>4. CASE FetchDone(w)
  <2>1. tmp[job[w]] \subseteq {copy[w].src}
    <3>1. FirstLife
      BY <1>0, GoroutineLife DEF FirstLife
    <3> QED BY <1>4, <3>1 DEF FetchDone, PartsInv, PartsAt
  <2>2. AtMostOne(copy'[w].sha)
    BY <1>1, <1>4, <2>1 DEF FetchDone, BaseInv, TypeOK, Row, AtMostOne
  <2> QED BY <1>2, <1>3, <1>4, <2>2 DEF FetchDone, Old
<1>5. CASE Remux(w)
  <2>1. AtMostOne(copy[w].sha) /\ UNCHANGED <<copy, lib>>
    BY <1>3, <1>5 DEF Remux, Old, Loaded
  <2>2. \A t \in Targets : staged'[t] \in {staged[t], Muxed(copy[w].sha), NoFile}
    BY <1>5 DEF Remux, BaseInv, TypeOK
  <2>3. Muxed(copy[w].sha).from = copy[w].sha
    BY DEF Muxed
  <2> QED BY <1>2, <1>3, <2>1, <2>2, <2>3 DEF Old
<1>6. CASE RenameStaged(w)
  <2>1. \A t \in Targets : staged'[t] \in {staged[t], NoFile} /\ \E u \in Targets : lib'[t] \in {lib[t], staged[u]}
    <3>1. Target(w) \in Targets
      BY <1>1, QueueAssumption DEF Target
    <3> QED BY <1>6, <3>1 DEF RenameStaged, BaseInv, TypeOK
  <2>2. pc'[w] \notin Loaded
    BY <1>6 DEF RenameStaged, Goto, BaseInv, TypeOK, Loaded
  <2> QED BY <1>2, <1>3, <2>1, <2>2 DEF Old
<1>7. CASE Rename(w)
  <2>1. AtMostOne(copy[w].sha) /\ UNCHANGED <<copy, staged>>
    BY <1>3, <1>7 DEF Rename, Old, Loaded
  <2>2. \A t \in Targets : lib'[t] \in {lib[t], Plain(copy[w].sha)}
    BY <1>7 DEF Rename, BaseInv, TypeOK
  <2>3. Plain(copy[w].sha).from = copy[w].sha
    BY DEF Plain
  <2> QED BY <1>2, <1>3, <2>1, <2>2, <2>3 DEF Old
<1>8. CASE MarkRemux(w)
  <2>1. AtMostOne(copy[w].sha)
    BY <1>3, <1>8 DEF MarkRemux, Old, Loaded
  <2>2. copy'[w].sha = copy[w].sha /\ UNCHANGED <<staged, lib>>
    BY <1>1, <1>8 DEF MarkRemux, Save, BaseInv, TypeOK, Row, fileVars
  <2> QED BY <1>2, <1>3, <2>1, <2>2 DEF Old
<1>9. CASE \/ Begin(w) \/ SaveTmp(w) \/ MarkDone(w) \/ Flag(w) \/ Finish(w) \/ Fail(w)
  <2>1. UNCHANGED <<staged, lib>>
    BY <1>9 DEF Begin, SaveTmp, MarkDone, Flag, Finish, Fail, Save, fileVars
  <2>2. pc'[w] \notin Loaded
    BY <1>9 DEF Begin, SaveTmp, MarkDone, Flag, Finish, Fail, Save, Goto, BaseInv, TypeOK, Loaded
  <2> QED BY <1>2, <1>3, <2>1, <2>2 DEF Old
<1>10. CASE \/ Resolve(w) \/ Prepare(w) \/ FetchSome(w) \/ FetchFail(w) \/ WriteSidecar(w) \/ Cleanup(w)
            \/ Release(w)
  <2>1. UNCHANGED <<staged, lib>>
    BY <1>10 DEF Resolve, Prepare, FetchSome, FetchFail, WriteSidecar, Cleanup, Release, fileVars
  <2>2. pc'[w] \notin Loaded
    BY <1>10 DEF Resolve, Prepare, FetchSome, FetchFail, WriteSidecar, Cleanup, Release, Goto, BaseInv,
                 TypeOK, Loaded
  <2> QED BY <1>2, <1>3, <2>1, <2>2 DEF Old
<1> QED BY <1>4, <1>5, <1>6, <1>7, <1>8, <1>9, <1>10 DEF runJob

LEMMA SingleStep ==
    ASSUME BaseInv, SingleInv, [Next]_vars
    PROVE  SingleInv'
<1> USE DEF SingleInv
<1>1. ASSUME NEW w \in Workers, runJob(w)
      PROVE  SingleInv'
  BY <1>1, GoroutineLife, PartsRunJob, OneRunJob
<1>2. ASSUME NEW j \in Jobs, NEW w \in Workers, TickLaunch(j, w)
      PROVE  SingleInv'
  <2>1. /\ UNCHANGED <<phase, starts, tmp, staged, lib>> /\ pc[w] = "idle" /\ j \notin running
        /\ pc' = [pc EXCEPT ![w] = "begin"] /\ job' = [job EXCEPT ![w] = j]
        /\ \A v \in Workers \ {w} : copy'[v] = copy[v]
        /\ tick.at = "launch"
    BY <1>2 DEF TickLaunch, GoRunJob, BaseInv, TypeOK, fileVars
  <2>2. Alive /\ (starts <= 1 => FirstLife)
    BY <2>1 DEF LifeInv, FirstLife
  <2>3. \A v \in Workers : pc[v] # "idle" => job[v] # j
    BY <2>1 DEF BaseInv, JobsHeld
  <2>4. starts <= 1 => tmp[j] = {} /\ \A v \in Workers : PartsAt(v)
    BY <2>2, <2>3 DEF PartsInv
  <2>5. LifeInv'
    BY <2>1, <2>2 DEF LifeInv, Alive
  <2>6. starts <= 1 => \A v \in Workers : PartsAt(v)'
    BY <2>1, <2>4 DEF PartsAt, BaseInv, TypeOK
  <2>7. ASSUME starts <= 1, NEW i \in Jobs, \A v \in Workers : pc'[v] # "idle" => job'[v] # i
        PROVE  tmp'[i] = {}
    <3>1. \A v \in Workers : pc[v] # "idle" => job[v] # i
      BY <2>1, <2>7 DEF BaseInv, TypeOK
    <3> QED BY <2>1, <2>2, <2>7, <3>1 DEF PartsInv
  <2>8. OneInv'
    BY <2>1 DEF OneInv, Loaded, BaseInv, TypeOK
  <2> QED BY <2>1, <2>5, <2>6, <2>7, <2>8 DEF PartsInv, FirstLife
<1>3. ASSUME UNCHANGED <<tmp, staged, lib, pc, job, copy>>, LifeInv', FirstLife' => FirstLife,
             starts' <= 1 => starts <= 1
      PROVE  SingleInv'
  BY <1>3 DEF PartsInv, PartsAt, OneInv
<1>4. ASSUME NEW j \in Jobs, RetryDue(j) \/ AddSome(j)
      PROVE  SingleInv'
  <2>1. UNCHANGED <<tmp, staged, lib, phase, tick, pc, job, copy, starts>>
    BY <1>4, OtherStep
  <2> QED BY <1>3, <2>1 DEF LifeInv, Alive, FirstLife
<1>5. CASE Quiet
  <2>1. UNCHANGED <<tmp, staged, lib, pc, job, copy>>
    BY <1>5, QuietStep
  <2>2. LifeInv' /\ (FirstLife' => FirstLife) /\ (starts' <= 1 => starts <= 1)
    <3>1. CASE StartDaemon
      BY <3>1 DEF StartDaemon, LifeInv, FirstLife, Alive, pumpVars, goVars, BaseInv, TypeOK
    <3>2. CASE Stop
      BY <3>2 DEF Stop, LifeInv, FirstLife, Alive, pumpVars, goVars
    <3>3. CASE SetBattery \/ TickCheck \/ TickCount \/ TickList \/ (\E j \in Jobs : TickSkip(j))
      BY <3>3 DEF SetBattery, TickCheck, TickCount, TickList, TickSkip, LifeInv, FirstLife, Alive, goVars
    <3>4. CASE UNCHANGED vars
      BY <3>4 DEF vars, LifeInv, FirstLife, Alive
    <3> QED BY <1>5, <3>1, <3>2, <3>3, <3>4 DEF Quiet
  <2> QED BY <1>3, <2>1, <2>2
<1>6. CASE Exit
  <2>1. /\ phase' = "down" /\ starts' = starts /\ starts >= 1 /\ starts \in Nat /\ tick'.at = "idle" /\ \A w \in Workers : pc'[w] = "idle"
        /\ UNCHANGED <<staged, lib>>
    BY <1>6 DEF Exit, LifeInv, TickIdle, fileVars, BaseInv, TypeOK
  <2> QED BY <2>1 DEF LifeInv, PartsInv, FirstLife, Alive, OneInv, Loaded
<1> QED BY <1>1, <1>2, <1>4, <1>5, <1>6, StepKinds

\* In the first life of the daemon, a library file is made of the bytes of one source: the parts
\* of a failed run are gone before the next run of its row looks for parts (queue.go, the
\* deferred RemoveAll of runJob).
THEOREM FilesAreUnmixed == Spec => []SingleSource
<1>1. Init => SingleInv
  BY DEF Init, SingleInv, LifeInv, PartsInv, PartsAt, OneInv, AtMostOne, Alive, TickIdle, Loaded, NoFile,
         Plain
<1>2. BaseInv /\ SingleInv /\ [Next]_vars => SingleInv'
  BY SingleStep
<1>3. SingleInv => SingleSource
  BY AtMostOneCard DEF SingleInv, OneInv, SingleSource
<1> QED BY <1>1, <1>2, <1>3, BaseAlways, PTL DEF Spec
=============================================================================

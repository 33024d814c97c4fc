---------------------------- MODULE QueueProofs ----------------------------
(***************************************************************************)
(* Invariants of Queue, for every number of jobs, goroutines, sources and  *)
(* failures.                                                               *)
(***************************************************************************)
EXTENDS Queue, FiniteSetTheorems, TLAPS

USE DEF NoJob

----------------------------------------------------------------------------
(* Rows *)

LEMMA NoRowType == NoRow \in Row
BY DEF NoRow, Row, JobStates

LEMMA RowStateType ==
    ASSUME NEW r \in Row, NEW s \in JobStates
    PROVE  [r EXCEPT !.state = s] \in Row
BY DEF Row

LEMMA RowSrcType ==
    ASSUME NEW r \in Row, NEW s \in Sources \cup {NoSource}
    PROVE  [r EXCEPT !.src = s] \in Row
BY DEF Row

LEMMA RowShaType ==
    ASSUME NEW r \in Row, NEW c \in SUBSET Sources
    PROVE  [r EXCEPT !.sha = c] \in Row
BY DEF Row

LEMMA FinishedType ==
    ASSUME NEW r \in Row
    PROVE  [r EXCEPT !.state = "done", !.finished = TRUE] \in Row
BY DEF Row, JobStates

LEMMA FailedType == ASSUME NEW r \in Row PROVE Failed(r) \in Row
<1>1. r.attempts \in Nat /\ r.attempts + 1 \in Nat
  BY DEF Row
<1>2. [r EXCEPT !.attempts = @ + 1, !.state = "queued", !.retry = "future", !.finished = FALSE] \in Row
  BY <1>1 DEF Row, JobStates
<1>3. [r EXCEPT !.state = "failed", !.retry = "none", !.finished = TRUE] \in Row
  BY DEF Row, JobStates
<1> QED BY <1>2, <1>3 DEF Failed

LEMMA InsertedType ==
    ASSUME NEW j \in Jobs, rows \in [Jobs -> Row], NEW s \in Sources \cup {NoSource}
    PROVE  Inserted(j, s) \in Row
BY DEF Inserted, NoRow, Row, JobStates

----------------------------------------------------------------------------
(* Files *)

LEMMA FileType ==
    /\ NoFile \in File
    /\ \A c \in SUBSET Sources : Plain(c) \in File /\ Muxed(c) \in File
BY DEF File, NoFile, Plain, Muxed

\* A download that is not empty has made no empty file.
LEMMA MakingsAreFiles ==
    ASSUME NEW c \in SUBSET Sources, c # {}
    PROVE  /\ Plain(c) \in Makings(c) /\ Plain(c) # NoFile /\ Muxed(c) # NoFile
           /\ Makings(c) \subseteq File
           /\ HaveFFmpeg /\ ~DeferRemuxToCharge => Muxed(c) \in Makings(c)
BY FileType DEF Makings, Plain, Muxed, NoFile

----------------------------------------------------------------------------
(* Types and mutual exclusion.  They need each other: a goroutine that is not *)
(* idle works on a job of q.running, no two on the same one, and from Prepare *)
(* on its copy has a source.                                                  *)

JobsHeld == \A w \in Workers : pc[w] # "idle" => job[w] \in running

Sourced == {"prepare", "saveTmp", "fetch", "fetching"}

SourceKnown == \A w \in Workers : pc[w] \in Sourced => copy[w].src \in Sources

BaseInv == TypeOK /\ JobsHeld /\ OneGoroutinePerJob /\ SourceKnown

LEMMA SaveType ==
    ASSUME TypeOK, NEW w \in Workers, NEW r \in Row, NEW p \in Places, NEW q \in Places,
           job[w] \in Jobs, Save(w, r, p, q)
    PROVE  TypeOK'
BY DEF TypeOK, Save, UpdateJob, UpdateJobFails, Goto, fileVars, procVars

LEMMA BaseInit == Init => BaseInv
BY QueueAssumption, NoRowType, FileType
   DEF Init, BaseInv, TypeOK, JobsHeld, OneGoroutinePerJob, Busy, SourceKnown, TickIdle, NoReading,
       Places, Sourced

LEMMA BaseTick == ASSUME BaseInv, Tick PROVE BaseInv'
<1> USE DEF BaseInv, JobsHeld, OneGoroutinePerJob, Busy, SourceKnown
<1>1. CASE TickCheck
  BY <1>1 DEF TypeOK, TickCheck, rowVars, fileVars, goVars
<1>2. CASE TickCount
  <2>1. Cardinality(running) \in Nat
    BY QueueAssumption, FS_Subset, FS_CardinalityType DEF TypeOK
  <2>2. MaxConcurrency \in Int
    BY QueueAssumption DEF MaxConcurrency, Effective
  <2> QED
    BY <1>2, <2>1, <2>2 DEF TypeOK, TickCount, TickIdle, rowVars, fileVars, goVars
<1>3. CASE TickList
  BY <1>3 DEF TypeOK, TickList, TickIdle, Selected, FirstOf, Pending, fileVars, goVars
<1>4. ASSUME NEW j \in Jobs, TickSkip(j)
      PROVE  BaseInv'
  BY <1>4, NoRowType DEF TypeOK, TickSkip, AfterLaunch, Without, TickIdle, rowVars, fileVars, goVars
<1>5. ASSUME NEW j \in Jobs, NEW w \in Workers, TickLaunch(j, w)
      PROVE  BaseInv'
  <2> USE <1>5 DEF TickLaunch, GoRunJob
  <2>1. listed[j] \in Row
    BY DEF TypeOK, FirstListed
  <2>2. tick' \in [at : {"idle", "count", "list", "launch"}, max : Int, active : Nat]
    BY DEF TypeOK, AfterLaunch, TickIdle
  <2>3. DOMAIN listed' \subseteq Jobs /\ \A i \in DOMAIN listed' : listed'[i] \in Row
    BY NoRowType DEF TypeOK, AfterLaunch, Without
  <2>4. TypeOK'
    BY <2>1, <2>2, <2>3 DEF TypeOK, Places, rowVars, fileVars
  <2>5. JobsHeld' /\ OneGoroutinePerJob'
    BY DEF TypeOK
  <2>6. SourceKnown'
    BY DEF TypeOK, Sourced
  <2> QED BY <2>4, <2>5, <2>6
<1> QED BY <1>1, <1>2, <1>3, <1>4, <1>5 DEF Tick

\* A goroutine that leaves the other goroutines alone, and keeps its job.
LEMMA SaveHeld ==
    ASSUME BaseInv, NEW w \in Workers, NEW r \in Row, NEW p \in Places, NEW q \in Places,
           Save(w, r, p, q), pc[w] # "idle",
           {p, q} \cap Sourced # {} => r.src \in Sources
    PROVE  BaseInv'
<1>1. job[w] \in Jobs
  BY DEF BaseInv, TypeOK, JobsHeld
<1>2. TypeOK'
  BY <1>1, SaveType DEF BaseInv
<1>3. JobsHeld' /\ OneGoroutinePerJob'
  BY DEF BaseInv, TypeOK, JobsHeld, OneGoroutinePerJob, Busy, Save, Goto, procVars
<1>4. SourceKnown'
  BY DEF BaseInv, TypeOK, SourceKnown, Save, Goto
<1> QED BY <1>2, <1>3, <1>4 DEF BaseInv

\* The same for a goroutine that only moves on.
LEMMA MoveHeld ==
    ASSUME BaseInv, NEW w \in Workers, pc[w] # "idle", TypeOK',
           NEW p \in Places, Goto(w, p), UNCHANGED <<running, job>>,
           \A v \in Workers \ {w} : copy'[v] = copy[v],
           p \in Sourced => copy'[w].src \in Sources
    PROVE  BaseInv'
<1>1. JobsHeld' /\ OneGoroutinePerJob'
  BY DEF BaseInv, TypeOK, JobsHeld, OneGoroutinePerJob, Busy, Goto
<1>2. SourceKnown'
  BY DEF BaseInv, TypeOK, SourceKnown, Goto
<1> QED BY <1>1, <1>2 DEF BaseInv

LEMMA BaseRunJob == ASSUME BaseInv, NEW w \in Workers, runJob(w) PROVE BaseInv'
<1> USE DEF At
<1>1. pc[w] # "idle" /\ job[w] \in Jobs /\ copy[w] \in Row
  BY DEF BaseInv, TypeOK, JobsHeld, runJob, Begin, Resolve, Prepare, SaveTmp, FetchSome, FetchFail,
         FetchDone, MarkRemux, Remux, RenameStaged, Rename, MarkDone, WriteSidecar, Flag, Finish,
         Fail, Cleanup, Release
<1>2. copy[w].src \in Sources \cup {NoSource} /\ copy[w].sha \in SUBSET Sources
  BY <1>1 DEF Row
<1>3. Target(w) \in Targets /\ ShowOf[Target(w)] \in Shows
  BY <1>1, QueueAssumption DEF Target
<1>4. CASE Begin(w)
  <2> DEFINE r == [copy[w] EXCEPT !.state = "downloading"]
  <2>1. r \in Row /\ r.src = copy[w].src
    BY <1>1, RowStateType DEF JobStates, Row
  <2> QED BY <1>1, <1>2, <1>4, <2>1, SaveHeld DEF Begin, Places, Sourced
<1>5. CASE Resolve(w)
  <2>1. ASSUME NEW s \in Sources, copy' = [copy EXCEPT ![w].src = s], Goto(w, "prepare")
        PROVE  BaseInv'
    <3>1. copy' = [copy EXCEPT ![w] = [copy[w] EXCEPT !.src = s]]
      BY <2>1
    <3>2. [copy[w] EXCEPT !.src = s] \in Row /\ [copy[w] EXCEPT !.src = s].src = s
      BY <1>1, RowSrcType DEF Row
    <3>3. TypeOK'
      BY <1>5, <2>1, <3>1, <3>2
         DEF Resolve, BaseInv, TypeOK, Goto, Places, rowVars, fileVars, procVars
    <3>4. copy'[w].src = s /\ \A v \in Workers \ {w} : copy'[v] = copy[v]
      BY <3>1, <3>2 DEF BaseInv, TypeOK
    <3> QED BY <1>1, <1>5, <2>1, <3>3, <3>4, MoveHeld DEF Resolve, Places, procVars
  <2>2. CASE Goto(w, "fail") /\ UNCHANGED copy
    <3>1. TypeOK'
      BY <1>5, <2>2 DEF Resolve, BaseInv, TypeOK, Goto, Places, rowVars, fileVars, procVars
    <3> QED BY <1>1, <1>5, <2>2, <3>1, MoveHeld DEF Resolve, Places, Sourced, procVars
  <2> QED BY <1>5, <2>1, <2>2 DEF Resolve
<1>6. CASE Prepare(w)
  <2>1. TypeOK'
    BY <1>6 DEF Prepare, BaseInv, TypeOK, Goto, Places, rowVars, fileVars, procVars
  <2>2. copy[w].src \in Sources
    BY <1>6 DEF Prepare, BaseInv, SourceKnown, Sourced
  <2> QED BY <1>1, <1>6, <2>1, <2>2, MoveHeld DEF Prepare, Places, procVars
<1>7. CASE SaveTmp(w)
  <2>1. copy[w].src \in Sources
    BY <1>7 DEF SaveTmp, BaseInv, SourceKnown, Sourced
  <2> QED BY <1>1, <1>7, <2>1, SaveHeld DEF SaveTmp, Places
<1>8. CASE FetchSome(w)
  <2>1. copy[w].src \in Sources
    BY <1>8 DEF FetchSome, BaseInv, SourceKnown, Sourced
  <2>2. TypeOK'
    BY <1>1, <1>8, <2>1 DEF FetchSome, BaseInv, TypeOK, Goto, Places, rowVars, procVars
  <2> QED BY <1>1, <1>8, <2>1, <2>2, MoveHeld DEF FetchSome, Places, procVars
<1>9. CASE FetchFail(w)
  <2>1. TypeOK'
    BY <1>9 DEF FetchFail, BaseInv, TypeOK, Goto, Places, rowVars, fileVars, procVars
  <2> QED BY <1>1, <1>9, <2>1, MoveHeld DEF FetchFail, Places, Sourced, procVars
<1>10. CASE FetchDone(w)
  <2>1. PICK c \in SUBSET tmp[job[w]] : copy' = [copy EXCEPT ![w] = [copy[w] EXCEPT !.sha = c]]
    BY <1>10 DEF FetchDone
  <2>2. [copy[w] EXCEPT !.sha = c] \in Row
    <3>1. c \in SUBSET Sources
      BY <1>1 DEF BaseInv, TypeOK
    <3> QED BY <1>1, <3>1, RowShaType
  <2>3. TypeOK'
    BY <1>1, <1>10, <2>1, <2>2 DEF FetchDone, BaseInv, TypeOK, Goto, Places, rowVars, procVars
  <2>4. \A v \in Workers \ {w} : copy'[v] = copy[v]
    BY <2>1 DEF BaseInv, TypeOK
  <2> QED BY <1>1, <1>10, <2>3, <2>4, MoveHeld DEF FetchDone, Places, Sourced, procVars
<1>11. CASE MarkRemux(w)
  BY <1>1, <1>11, RowStateType, SaveHeld DEF MarkRemux, JobStates, Places, Sourced
<1>12. CASE Remux(w)
  <2>1. staged' \in [Targets -> File]
    BY <1>2, <1>3, <1>12, FileType DEF Remux, BaseInv, TypeOK
  <2>2. TypeOK'
    BY <1>12, <2>1 DEF Remux, BaseInv, TypeOK, Goto, Places, rowVars, procVars
  <2> QED BY <1>1, <1>12, <2>2, MoveHeld DEF Remux, Places, Sourced, procVars
<1>13. CASE RenameStaged(w)
  <2>1. staged' \in [Targets -> File] /\ lib' \in [Targets -> File]
    BY <1>3, <1>13, FileType DEF RenameStaged, BaseInv, TypeOK
  <2>2. TypeOK'
    BY <1>13, <2>1 DEF RenameStaged, BaseInv, TypeOK, Goto, Places, rowVars, procVars
  <2> QED BY <1>1, <1>13, <2>2, MoveHeld DEF RenameStaged, Places, Sourced, procVars
<1>14. CASE Rename(w)
  <2>1. lib' \in [Targets -> File]
    BY <1>2, <1>3, <1>14, FileType DEF Rename, BaseInv, TypeOK
  <2>2. TypeOK'
    BY <1>14, <2>1 DEF Rename, BaseInv, TypeOK, Goto, Places, rowVars, procVars
  <2> QED BY <1>1, <1>14, <2>2, MoveHeld DEF Rename, Places, Sourced, procVars
<1>15. CASE MarkDone(w)
  BY <1>1, <1>15, RowStateType, SaveHeld DEF MarkDone, JobStates, Places, Sourced
<1>16. CASE WriteSidecar(w)
  <2>1. sidecar' \in [Shows -> SUBSET (Targets \X SUBSET Sources)]
    BY <1>2, <1>3, <1>16 DEF WriteSidecar, BaseInv, TypeOK
  <2>2. TypeOK'
    BY <1>16, <2>1 DEF WriteSidecar, BaseInv, TypeOK, Goto, Places, rowVars, procVars
  <2> QED BY <1>1, <1>16, <2>2, MoveHeld DEF WriteSidecar, Places, Sourced, procVars
<1>17. CASE Flag(w)
  BY <1>1, <1>17, SaveHeld DEF Flag, Places, Sourced
<1>18. CASE Finish(w)
  BY <1>1, <1>18, FinishedType, SaveHeld DEF Finish, Places, Sourced
<1>19. CASE Fail(w)
  BY <1>1, <1>19, FailedType, SaveHeld DEF Fail, Places, Sourced
<1>20. CASE Cleanup(w)
  <2>1. TypeOK'
    BY <1>20 DEF Cleanup, BaseInv, TypeOK, Goto, Places, rowVars, procVars
  <2> QED BY <1>1, <1>20, <2>1, MoveHeld DEF Cleanup, Places, Sourced, procVars
<1>21. CASE Release(w)
  <2>1. TypeOK'
    BY <1>21, NoRowType DEF Release, BaseInv, TypeOK, Goto, Places, rowVars, fileVars, pumpVars
  <2>2. JobsHeld' /\ OneGoroutinePerJob'
    BY <1>1, <1>21 DEF Release, BaseInv, TypeOK, JobsHeld, OneGoroutinePerJob, Busy, Goto
  <2>3. SourceKnown'
    BY <1>21 DEF Release, BaseInv, TypeOK, SourceKnown, Sourced, Goto
  <2> QED BY <2>1, <2>2, <2>3 DEF BaseInv
<1> QED
  BY <1>4, <1>5, <1>6, <1>7, <1>8, <1>9, <1>10, <1>11, <1>12, <1>13, <1>14, <1>15, <1>16,
     <1>17, <1>18, <1>19, <1>20, <1>21 DEF runJob

AddSome(j) == \E s \in Sources \cup {NoSource} : Add(j, s)

LEMMA BaseRest ==       \* the steps of other processes, and of the daemon's life
    ASSUME BaseInv,
           \/ SetBattery \/ StartDaemon \/ Stop \/ Exit \/ UNCHANGED vars
           \/ \E j \in Jobs : RetryDue(j) \/ AddSome(j)
    PROVE  BaseInv'
<1> USE DEF BaseInv, JobsHeld, OneGoroutinePerJob, Busy, SourceKnown
<1>1. CASE SetBattery
  BY <1>1, QueueAssumption DEF SetBattery, TypeOK, rowVars, fileVars, pumpVars, goVars
<1>2. CASE StartDaemon
  BY <1>2 DEF StartDaemon, TypeOK, rowVars, fileVars, pumpVars, goVars
<1>3. CASE Stop
  BY <1>3 DEF Stop, TypeOK, rowVars, fileVars, pumpVars, goVars
<1>4. CASE Exit
  BY <1>4, NoRowType DEF Exit, TypeOK, NoReading, TickIdle, Places, Sourced, rowVars, fileVars
<1>5. CASE UNCHANGED vars
  BY <1>5 DEF TypeOK, vars
<1>6. ASSUME NEW j \in Jobs, RetryDue(j)
      PROVE  BaseInv'
  <2>1. rows' = [rows EXCEPT ![j] = [rows[j] EXCEPT !.retry = "past"]]
    BY <1>6 DEF RetryDue
  <2>2. [rows[j] EXCEPT !.retry = "past"] \in Row
    <3>1. rows[j] \in Row
      BY DEF TypeOK
    <3> QED BY <3>1 DEF Row
  <2> QED BY <1>6, <2>1, <2>2 DEF RetryDue, TypeOK, fileVars, procVars, goVars
<1>7. ASSUME NEW j \in Jobs, NEW s \in Sources \cup {NoSource}, Add(j, s)
      PROVE  BaseInv'
  <2>1. Inserted(j, s) \in Row
    BY InsertedType DEF TypeOK
  <2> QED BY <1>7, <2>1 DEF Add, TypeOK, fileVars, procVars, goVars
<1> QED BY <1>1, <1>2, <1>3, <1>4, <1>5, <1>6, <1>7 DEF AddSome

\* BaseInv is inductive.
LEMMA BaseStep == ASSUME BaseInv, [Next]_vars PROVE BaseInv'
BY BaseTick, BaseRunJob, BaseRest DEF Next, AddSome

LEMMA BaseAlways == Spec => []BaseInv
<1>1. Init => BaseInv
  BY BaseInit
<1>2. BaseInv /\ [Next]_vars => BaseInv'
  BY BaseStep
<1> QED BY <1>1, <1>2, PTL DEF Spec

\* Every variable keeps its type, in every instance.
THEOREM TypeCorrect == Spec => []TypeOK
<1>1. BaseInv => TypeOK
  BY DEF BaseInv
<1> QED BY <1>1, BaseAlways, PTL

\* No two goroutines ever run the same job (queue.go, q.running).
THEOREM MutualExclusion == Spec => []OneGoroutinePerJob
<1>1. BaseInv => OneGoroutinePerJob
  BY DEF BaseInv
<1> QED BY <1>1, BaseAlways, PTL
----------------------------------------------------------------------------
(* The concurrency bound.  While tick is between its count and its last       *)
(* launch, the count it took is at least the size of q.running: only tick     *)
(* adds to q.running, and it counts what it adds.                             *)

CountInv ==
    /\ Cardinality(running) <= ConcurrencyLimit
    /\ tick.at \in {"list", "launch"} =>
          /\ Cardinality(running) <= tick.active
          /\ tick.active < tick.max
          /\ tick.max <= ConcurrencyLimit

LEMMA LimitType ==
    /\ ConcurrencyLimit \in Nat
    /\ TypeOK => MaxConcurrency \in Nat /\ MaxConcurrency <= ConcurrencyLimit
BY QueueAssumption DEF ConcurrencyLimit, MaxConcurrency, Effective

LEMMA FiniteRunning ==
    ASSUME TypeOK PROVE IsFiniteSet(running) /\ Cardinality(running) \in Nat
BY QueueAssumption, FS_Subset, FS_CardinalityType DEF TypeOK

LEMMA CountStep == ASSUME BaseInv, CountInv, [Next]_vars PROVE CountInv'
<1>0. /\ TypeOK /\ ConcurrencyLimit \in Nat
      /\ IsFiniteSet(running) /\ Cardinality(running) \in Nat
      /\ tick \in [at : {"idle", "count", "list", "launch"}, max : Int, active : Nat]
  BY LimitType, FiniteRunning DEF BaseInv, TypeOK
<1> USE <1>0 DEF CountInv, ConcurrencyLimit
<1>1. CASE UNCHANGED <<running, tick>>
  BY <1>1
<1>2. CASE TickCheck
  BY <1>2 DEF TickCheck
<1>3. CASE TickCount
  BY <1>3, LimitType DEF TickCount, TickIdle
<1>4. CASE TickList
  BY <1>4 DEF TickList, TickIdle
<1>5. ASSUME NEW j \in Jobs, TickSkip(j)
      PROVE  CountInv'
  BY <1>5 DEF TickSkip, AfterLaunch, TickIdle
<1>6. ASSUME NEW j \in Jobs, NEW w \in Workers, TickLaunch(j, w)
      PROVE  CountInv'
  <2>1. Cardinality(running') = Cardinality(running) + 1
    BY <1>6, FS_AddElement DEF TickLaunch
  <2>2. /\ tick.at = "launch" /\ AfterLaunch(j, tick.active + 1)
    BY <1>6 DEF TickLaunch, GoRunJob
  <2> QED BY <2>1, <2>2 DEF AfterLaunch, TickIdle
<1>7. ASSUME NEW w \in Workers, Release(w)
      PROVE  CountInv'
  <2>1. Cardinality(running') \in Nat /\ Cardinality(running') <= Cardinality(running)
    BY <1>7, FS_Subset, FS_CardinalityType DEF Release
  <2> QED BY <1>7, <2>1 DEF Release, pumpVars
<1>8. CASE Exit
  BY <1>8, FS_EmptySet DEF Exit, TickIdle
<1>9. ASSUME NEW w \in Workers, runJob(w), ~Release(w)
      PROVE  UNCHANGED <<running, tick>>
  BY <1>9 DEF runJob, Begin, Resolve, Prepare, SaveTmp, FetchSome, FetchFail, FetchDone, MarkRemux,
              Remux, RenameStaged, Rename, MarkDone, WriteSidecar, Flag, Finish, Fail, Cleanup, Save,
              procVars
<1>10. CASE SetBattery \/ StartDaemon \/ Stop \/ UNCHANGED vars
  BY <1>1, <1>10 DEF SetBattery, StartDaemon, Stop, vars, pumpVars
<1>11. ASSUME NEW j \in Jobs, RetryDue(j) \/ AddSome(j)
       PROVE  UNCHANGED <<running, tick>>
  BY <1>11 DEF RetryDue, AddSome, Add, procVars
<1> QED
  BY <1>1, <1>2, <1>3, <1>4, <1>5, <1>6, <1>7, <1>8, <1>9, <1>10, <1>11 DEF Next, Tick, AddSome

LEMMA BusyBound == ASSUME BaseInv, CountInv PROVE ConcurrencyBound
<1>1. [w \in Busy |-> job[w]] \in Injection(Busy, running)
  BY DEF BaseInv, JobsHeld, OneGoroutinePerJob, Busy, Injection, IsInjective
<1>2. Cardinality(Busy) <= Cardinality(running) /\ IsFiniteSet(Busy)
  BY <1>1, FS_Injection, FiniteRunning DEF BaseInv
<1>3. /\ Cardinality(Busy) \in Nat /\ Cardinality(running) \in Nat /\ ConcurrencyLimit \in Nat
      /\ tick.active \in Nat /\ tick.max \in Int
  BY <1>2, FS_CardinalityType, FiniteRunning, LimitType DEF BaseInv, TypeOK
<1> QED BY <1>2, <1>3 DEF CountInv, ConcurrencyBound, ConcurrencyLimit

\* Never more goroutines than the larger of the two limits, and room for one more wherever tick
\* was let through, for every configuration, every battery reading and every pool of goroutine
\* names (queue.go, tick).
THEOREM BoundedConcurrency == Spec => []ConcurrencyBound
<1>1. Init => CountInv
  BY FS_EmptySet, LimitType DEF Init, CountInv, TickIdle, ConcurrencyLimit
<1>2. BaseInv /\ CountInv /\ [Next]_vars => CountInv'
  BY CountStep
<1>3. BaseInv /\ CountInv => ConcurrencyBound
  BY BusyBound
<1> QED BY <1>1, <1>2, <1>3, BaseAlways, PTL DEF Spec
----------------------------------------------------------------------------
(* A done row has its file.  The file of a job is written only by its own     *)
(* goroutine, while the row is not done, and the row gets done only after     *)
(* that, from the goroutine's own copy.                                       *)

OwnTargets == \A i, j \in Jobs : TargetOf[i] = TargetOf[j] => i = j

Loading   == {"resolve", "prepare", "saveTmp", "fetch", "fetching", "markRemux", "remux",
              "renameStaged", "rename"}
Loaded    == {"markRemux", "remux", "renameStaged", "rename"}
Remuxing  == {"markRemux", "remux", "renameStaged"}
Published == {"markDone", "sidecar", "flag", "finish"}

FileAt(w) ==
    /\ pc[w] \in Loading => /\ rows[job[w]].state # "done"
                            /\ copy[w].state \in {"downloading", "remuxing"}
    /\ pc[w] \in Loaded => copy[w].sha # {}
    /\ pc[w] \in Remuxing => HaveFFmpeg /\ ~DeferRemuxToCharge
    /\ pc[w] = "renameStaged" => staged[Target(w)] = Muxed(copy[w].sha)
    /\ pc[w] \in Published => /\ copy[w].sha # {} /\ lib[Target(w)] \in Makings(copy[w].sha)
                              /\ copy[w].state # "absent"

FileInv == DoneHasFile /\ \A w \in Workers : FileAt(w)

\* Other goroutines work on other jobs, with other files.
LEMMA Apart ==
    ASSUME BaseInv, OwnTargets, NEW v \in Workers, NEW w \in Workers, v # w,
           pc[v] # "idle", pc[w] # "idle"
    PROVE  job[v] \in Jobs /\ job[v] # job[w] /\ Target(v) # Target(w)
BY DEF BaseInv, TypeOK, JobsHeld, OneGoroutinePerJob, Busy, OwnTargets, Target

LEMMA FileSave ==
    ASSUME BaseInv, FileInv, OwnTargets, NEW w \in Workers, pc[w] # "idle",
           NEW r \in Row, NEW p \in Places, NEW q \in {"fail", "cleanup"}, Save(w, r, p, q),
           r.state = "done" => r.sha # {} /\ lib[Target(w)] \in Makings(r.sha),
           p \in Loading => r.state \in {"downloading", "remuxing"},
           p \in Loaded => r.sha # {},
           p \in Remuxing => HaveFFmpeg /\ ~DeferRemuxToCharge,
           p \in Published => r.sha # {} /\ lib[Target(w)] \in Makings(r.sha) /\ r.state # "absent",
           p # "renameStaged"
    PROVE  FileInv'
<1>1. /\ job[w] \in Jobs
      /\ rows' \in {rows, [rows EXCEPT ![job[w]] = r]}
      /\ UNCHANGED <<job, lib, staged>>
      /\ copy' = [copy EXCEPT ![w] = r]
      /\ \/ pc' = [pc EXCEPT ![w] = p] /\ rows' = [rows EXCEPT ![job[w]] = r]
         \/ pc' = [pc EXCEPT ![w] = q]
  BY DEF BaseInv, TypeOK, JobsHeld, Save, UpdateJob, UpdateJobFails, Goto, fileVars
<1>2. DoneHasFile'
  BY <1>1 DEF FileInv, DoneHasFile, BaseInv, TypeOK, Target
<1>3. FileAt(w)'
  BY <1>1 DEF FileAt, Loading, Loaded, Remuxing, Published, BaseInv, TypeOK, Target
<1>4. ASSUME NEW v \in Workers, v # w
      PROVE  FileAt(v)'
  <2>1. pc'[v] = pc[v] /\ copy'[v] = copy[v] /\ Target(v)' = Target(v)
    BY <1>1, <1>4 DEF BaseInv, TypeOK, Target
  <2>2. pc[v] # "idle" => rows'[job'[v]] = rows[job[v]]
    BY <1>1, <1>4, Apart DEF BaseInv, TypeOK
  <2> QED BY <1>1, <2>1, <2>2 DEF FileInv, FileAt, Loading, Loaded, Remuxing, Published
<1> QED BY <1>2, <1>3, <1>4 DEF FileInv

\* Steps of goroutine w that touch no row, and in staged and lib at most its own target.
LEMMA FileMove ==
    ASSUME BaseInv, FileInv, OwnTargets, NEW w \in Workers, pc[w] # "idle",
           UNCHANGED <<rows, job>>,
           \A v \in Workers \ {w} : pc'[v] = pc[v] /\ copy'[v] = copy[v],
           \A t \in Targets \ {Target(w)} : staged'[t] = staged[t] /\ lib'[t] = lib[t],
           lib' = lib \/ rows[job[w]].state # "done",
           FileAt(w)'
    PROVE  FileInv'
<1>1. job[w] \in Jobs
  BY DEF BaseInv, TypeOK, JobsHeld
<1>2. DoneHasFile'
  BY <1>1, QueueAssumption, ZenonT(30) DEF FileInv, DoneHasFile, Target, OwnTargets
<1>3. ASSUME NEW v \in Workers, v # w
      PROVE  FileAt(v)'
  <2>1. pc'[v] = pc[v] /\ copy'[v] = copy[v] /\ Target(v)' = Target(v)
    BY <1>3 DEF Target
  <2>2. pc[v] # "idle" => /\ staged'[Target(v)] = staged[Target(v)]
                          /\ lib'[Target(v)] = lib[Target(v)]
    BY <1>3, Apart, QueueAssumption DEF Target
  <2> QED BY <2>1, <2>2 DEF FileInv, FileAt, Loading, Loaded, Remuxing, Published
<1> QED BY <1>2, <1>3 DEF FileInv

LEMMA FileRunJob ==
    ASSUME BaseInv, FileInv, OwnTargets, NEW w \in Workers, runJob(w)
    PROVE  FileInv'
<1> USE DEF At
<1> DEFINE Keeps == /\ UNCHANGED <<rows, job>>
                    /\ \A v \in Workers \ {w} : pc'[v] = pc[v] /\ copy'[v] = copy[v]
<1>1. /\ pc[w] # "idle" /\ job[w] \in Jobs /\ copy[w] \in Row /\ Target(w) \in Targets
      /\ FileAt(w)
  BY QueueAssumption
     DEF BaseInv, TypeOK, JobsHeld, FileInv, Target, runJob, Begin, Resolve, Prepare, SaveTmp, FetchSome,
         FetchFail, FetchDone, MarkRemux, Remux, RenameStaged, Rename, MarkDone, WriteSidecar, Flag,
         Finish, Fail, Cleanup, Release
<1>2. CASE Begin(w)
  <2> DEFINE r == [copy[w] EXCEPT !.state = "downloading"]
  <2>1. r \in Row /\ r.state = "downloading"
    BY <1>1, RowStateType DEF JobStates, Row
  <2> QED BY <1>1, <1>2, <2>1, FileSave DEF Begin, Places, Loading, Loaded, Remuxing, Published
<1>3. CASE SaveTmp(w)
  BY <1>1, <1>3, FileSave DEF SaveTmp, FileAt, Places, Loading, Loaded, Remuxing, Published
<1>4. CASE MarkRemux(w)
  <2> DEFINE r == [copy[w] EXCEPT !.state = "remuxing"]
  <2>1. r \in Row /\ r.state = "remuxing" /\ r.sha = copy[w].sha
    BY <1>1, RowStateType DEF JobStates, Row
  <2> QED BY <1>1, <1>4, <2>1, FileSave DEF MarkRemux, FileAt, Places, Loading, Loaded, Remuxing, Published
<1>5. CASE MarkDone(w)
  <2> DEFINE r == [copy[w] EXCEPT !.state = "done"]
  <2>1. r \in Row /\ r.sha = copy[w].sha /\ r.state = "done"
    BY <1>1, RowStateType, ZenonT(30) DEF JobStates, Row
  <2> QED BY <1>1, <1>5, <2>1, FileSave DEF MarkDone, FileAt, Places, Loading, Loaded, Remuxing, Published
<1>6. CASE Flag(w)
  BY <1>1, <1>6, FileSave DEF Flag, FileAt, Places, Loading, Loaded, Remuxing, Published
<1>7. CASE Finish(w)
  <2> DEFINE r == [copy[w] EXCEPT !.state = "done", !.finished = TRUE]
  <2>1. r \in Row /\ r.sha = copy[w].sha
    BY <1>1, FinishedType DEF Row
  <2> QED BY <1>1, <1>7, <2>1, FileSave DEF Finish, FileAt, Places, Loading, Loaded, Remuxing, Published
<1>8. CASE Fail(w)
  <2>1. Failed(copy[w]) \in Row /\ Failed(copy[w]).state # "done"
    BY <1>1, FailedType DEF Failed, Row
  <2> QED BY <1>1, <1>8, <2>1, FileSave DEF Fail, Places, Loading, Loaded, Remuxing, Published
<1>9. CASE Resolve(w)
  <2>1. ASSUME NEW s \in Sources, copy' = [copy EXCEPT ![w].src = s], Goto(w, "prepare")
        PROVE  FileInv'
    <3>1. copy'[w].state = copy[w].state /\ \A v \in Workers \ {w} : copy'[v] = copy[v]
      BY <1>1, <2>1 DEF BaseInv, TypeOK, Row
    <3>2. Keeps /\ UNCHANGED <<staged, lib>>
      BY <1>9, <2>1, <3>1 DEF Resolve, Goto, BaseInv, TypeOK, rowVars, fileVars
    <3>3. FileAt(w)'
      BY <1>1, <1>9, <2>1, <3>1, <3>2
         DEF Resolve, FileAt, Goto, BaseInv, TypeOK, Loading, Loaded, Remuxing, Published
    <3> QED BY <1>1, <3>2, <3>3, FileMove
  <2>2. CASE Goto(w, "fail") /\ UNCHANGED copy
    <3>1. Keeps /\ UNCHANGED <<staged, lib>> /\ FileAt(w)'
      BY <1>1, <1>9, <2>2 DEF Resolve, Goto, BaseInv, TypeOK, rowVars, fileVars, FileAt, Loading,
                              Loaded, Remuxing, Published
    <3> QED BY <1>1, <3>1, FileMove
  <2> QED BY <1>9, <2>1, <2>2 DEF Resolve
<1>10. CASE Prepare(w) \/ FetchFail(w)
  <2>1. Keeps /\ UNCHANGED <<staged, lib, copy>>
    BY <1>10 DEF Prepare, FetchFail, Goto, BaseInv, TypeOK, rowVars, fileVars
  <2>2. FileAt(w)'
    BY <1>1, <1>10, <2>1 DEF Prepare, FetchFail, Goto, FileAt, Target, BaseInv, TypeOK, Loading, Loaded,
                             Remuxing, Published
  <2> QED BY <1>1, <2>1, <2>2, FileMove
<1>11. CASE FetchSome(w)
  <2>1. Keeps /\ UNCHANGED <<staged, lib, copy>>
    BY <1>11 DEF FetchSome, Goto, BaseInv, TypeOK, rowVars
  <2>2. FileAt(w)'
    BY <1>1, <1>11, <2>1 DEF FetchSome, Goto, FileAt, BaseInv, TypeOK, Loading, Loaded, Remuxing, Published
  <2> QED BY <1>1, <2>1, <2>2, FileMove
<1>12. CASE FetchDone(w)
  <2>1. PICK c \in (SUBSET tmp[job[w]]) \ {{}} :
            copy' = [copy EXCEPT ![w] = [copy[w] EXCEPT !.sha = c]]
    BY <1>12 DEF FetchDone
  <2>2. /\ copy'[w].sha = c /\ copy'[w].state = copy[w].state
        /\ \A v \in Workers \ {w} : copy'[v] = copy[v]
    BY <1>1, <2>1 DEF BaseInv, TypeOK, Row
  <2>3. Keeps /\ UNCHANGED <<staged, lib>>
    BY <1>12, <2>2 DEF FetchDone, Goto, BaseInv, TypeOK, rowVars
  <2>4. /\ pc'[w] \in {"markRemux", "rename"} /\ pc[w] \in Loading
        /\ pc'[w] = "markRemux" => HaveFFmpeg /\ ~DeferRemuxToCharge
    BY <1>12 DEF FetchDone, Goto, BaseInv, TypeOK, Loading
  <2>5. c # {}
    BY <2>1
  <2>6. rows'[job'[w]].state # "done"
    BY <1>1, <2>3, <2>4 DEF FileAt
  <2>7. FileAt(w)'
    BY <1>1, <2>2, <2>4, <2>5, <2>6 DEF FileAt, Loading, Loaded, Remuxing, Published
  <2> QED BY <1>1, <2>3, <2>7, FileMove
<1>13. CASE Remux(w)
  <2>1. Keeps /\ UNCHANGED <<lib, copy>> /\ Target(w)' = Target(w)
    BY <1>13 DEF Remux, Goto, BaseInv, TypeOK, rowVars, Target
  <2>2. \A t \in Targets \ {Target(w)} : staged'[t] = staged[t]
    BY <1>13 DEF Remux, BaseInv, TypeOK
  <2>3. FileAt(w)'
    BY <1>1, <1>13, <2>1 DEF Remux, Goto, FileAt, BaseInv, TypeOK, Loading, Loaded, Remuxing, Published
  <2> QED BY <1>1, <2>1, <2>2, <2>3, FileMove
<1>14. CASE RenameStaged(w)
  <2>1. Keeps /\ UNCHANGED copy /\ Target(w)' = Target(w)
    BY <1>14 DEF RenameStaged, Goto, BaseInv, TypeOK, rowVars, Target
  <2>2. \A t \in Targets \ {Target(w)} : staged'[t] = staged[t] /\ lib'[t] = lib[t]
    BY <1>14 DEF RenameStaged, BaseInv, TypeOK
  <2>3. FileAt(w)'
    <3>1. /\ copy[w].sha \in SUBSET Sources /\ copy[w].sha # {}
          /\ staged[Target(w)] \in Makings(copy[w].sha) /\ copy[w].state # "absent"
      BY <1>1, <1>14, MakingsAreFiles DEF RenameStaged, FileAt, Loading, Loaded, Remuxing, Row
    <3>2. \/ pc'[w] = "markDone" /\ lib'[Target(w)] = staged[Target(w)]
          \/ pc'[w] = "fail"
      BY <1>1, <1>14 DEF RenameStaged, Goto, BaseInv, TypeOK
    <3> QED BY <2>1, <3>1, <3>2 DEF FileAt, Loading, Loaded, Remuxing, Published
  <2>4. rows[job[w]].state # "done"
    BY <1>1, <1>14 DEF RenameStaged, FileAt, Loading
  <2> QED BY <1>1, <2>1, <2>2, <2>3, <2>4, FileMove
<1>15. CASE Rename(w)
  <2>1. Keeps /\ UNCHANGED <<copy, staged>> /\ Target(w)' = Target(w)
    BY <1>15 DEF Rename, Goto, BaseInv, TypeOK, rowVars, Target
  <2>2. \A t \in Targets \ {Target(w)} : lib'[t] = lib[t]
    BY <1>15 DEF Rename, BaseInv, TypeOK
  <2>3. FileAt(w)'
    <3>1. /\ copy[w].sha # {} /\ Plain(copy[w].sha) \in Makings(copy[w].sha)
          /\ copy[w].state # "absent"
      BY <1>1, <1>15, MakingsAreFiles DEF Rename, FileAt, Loading, Loaded, Row
    <3>2. \/ pc'[w] \in {"sidecar", "markDone"} /\ lib'[Target(w)] = Plain(copy[w].sha)
          \/ pc'[w] = "fail"
      BY <1>1, <1>15 DEF Rename, Goto, BaseInv, TypeOK
    <3> QED BY <2>1, <3>1, <3>2 DEF FileAt, Loading, Loaded, Remuxing, Published
  <2>4. rows[job[w]].state # "done"
    BY <1>1, <1>15 DEF Rename, FileAt, Loading
  <2> QED BY <1>1, <2>1, <2>2, <2>3, <2>4, FileMove
<1>16. CASE WriteSidecar(w)
  <2>1. Keeps /\ UNCHANGED <<lib, copy, staged>>
    BY <1>16 DEF WriteSidecar, Goto, BaseInv, TypeOK, rowVars
  <2>2. FileAt(w)'
    BY <1>1, <1>16, <2>1 DEF WriteSidecar, Goto, FileAt, Target, BaseInv, TypeOK, Loading, Loaded, Remuxing, Published
  <2> QED BY <1>1, <2>1, <2>2, FileMove
<1>17. CASE Cleanup(w)
  <2>1. Keeps /\ UNCHANGED <<lib, copy, staged>>
    BY <1>17 DEF Cleanup, Goto, BaseInv, TypeOK, rowVars
  <2>2. FileAt(w)'
    BY <1>1, <1>17, <2>1 DEF Cleanup, Goto, FileAt, BaseInv, TypeOK, Loading, Loaded, Remuxing, Published
  <2> QED BY <1>1, <2>1, <2>2, FileMove
<1>18. CASE Release(w)
  <2>1. UNCHANGED <<rows, lib, staged>>
    BY <1>18 DEF Release, rowVars, fileVars
  <2>2. FileAt(w)'
    BY <1>18 DEF Release, Goto, FileAt, BaseInv, TypeOK, Loading, Loaded, Remuxing, Published
  <2>3. ASSUME NEW v \in Workers, v # w
        PROVE  FileAt(v)'
    BY <1>18, <2>1, <2>3 DEF Release, Goto, FileInv, FileAt, Target, BaseInv, TypeOK
  <2> QED BY <2>1, <2>2, <2>3 DEF FileInv, DoneHasFile
<1> QED
  BY <1>2, <1>3, <1>4, <1>5, <1>6, <1>7, <1>8, <1>9, <1>10, <1>11, <1>12, <1>13, <1>14, <1>15, <1>16,
     <1>17, <1>18 DEF runJob
LEMMA FileRest ==
    ASSUME BaseInv, FileInv, OwnTargets, [Next]_vars, \A w \in Workers : ~runJob(w)
    PROVE  FileInv'
<1> USE DEF FileInv, DoneHasFile
<1>1. CASE UNCHANGED <<rows, staged, lib, pc, job, copy>>
  BY <1>1 DEF FileAt, Target
<1>2. CASE SetBattery \/ TickCheck \/ TickCount \/ TickList \/ StartDaemon \/ Stop \/ UNCHANGED vars
  BY <1>1, <1>2 DEF SetBattery, TickCheck, TickCount, TickList, StartDaemon, Stop, vars, rowVars,
                    fileVars, goVars
<1>3. ASSUME NEW j \in Jobs, TickSkip(j)
      PROVE  FileInv'
  BY <1>1, <1>3 DEF TickSkip, rowVars, fileVars, goVars
<1>4. ASSUME NEW j \in Jobs, NEW w \in Workers, TickLaunch(j, w)
      PROVE  FileInv'
  <2>1. UNCHANGED <<rows, staged, lib>>
    BY <1>4 DEF TickLaunch, GoRunJob, rowVars, fileVars
  <2>2. ASSUME NEW v \in Workers
        PROVE  FileAt(v)'
    BY <1>4, <2>1 DEF TickLaunch, GoRunJob, FileAt, Target, BaseInv, TypeOK, Loading, Loaded, Remuxing, Published
  <2> QED BY <2>1, <2>2
<1>5. CASE Exit
  BY <1>5 DEF Exit, FileAt, Loading, Loaded, Remuxing, Published, rowVars, fileVars
<1>6. ASSUME NEW j \in Jobs, RetryDue(j)
      PROVE  FileInv'
  <2>1. rows' = [rows EXCEPT ![j] = [rows[j] EXCEPT !.retry = "past"]]
    BY <1>6 DEF RetryDue
  <2>2. \A i \in Jobs : rows'[i].state = rows[i].state /\ rows'[i].sha = rows[i].sha
    <3>1. rows[j] \in Row
      BY DEF BaseInv, TypeOK
    <3> QED BY <2>1, <3>1 DEF BaseInv, TypeOK, Row
  <2>3. \A w \in Workers : pc[w] # "idle" => job[w] \in Jobs
    BY DEF BaseInv, TypeOK, JobsHeld
  <2>4. UNCHANGED <<staged, lib, pc, job, copy>>
    BY <1>6 DEF RetryDue, fileVars, goVars
  <2> QED BY <2>2, <2>3, <2>4 DEF FileAt, Target, Loading
<1>7. ASSUME NEW j \in Jobs, NEW s \in Sources \cup {NoSource}, Add(j, s)
      PROVE  FileInv'
  <2>1. rows' = [rows EXCEPT ![j] = Inserted(j, s)] /\ Inserted(j, s).state = "queued"
    <3>1. rows[j] \in Row
      BY DEF BaseInv, TypeOK
    <3> QED BY <1>7, <3>1 DEF Add, Inserted, NoRow, Row
  <2>2. UNCHANGED <<staged, lib, pc, job, copy>>
    BY <1>7 DEF Add, fileVars, goVars
  <2>3. \A w \in Workers : pc[w] # "idle" => job[w] \in Jobs
    BY DEF BaseInv, TypeOK, JobsHeld
  <2>4. \A i \in Jobs : rows'[i].state = "done" => rows'[i] = rows[i]
    BY <2>1 DEF BaseInv, TypeOK
  <2> QED BY <2>2, <2>3, <2>4 DEF FileAt, Target, Loading
<1> QED BY <1>2, <1>3, <1>4, <1>5, <1>6, <1>7 DEF Next, Tick

LEMMA FileInit == Init => FileInv
BY DEF Init, FileInv, DoneHasFile, NoRow, FileAt, Loading, Loaded, Remuxing, Published

LEMMA FileStep == ASSUME OwnTargets, BaseInv, FileInv, [Next]_vars PROVE FileInv'
<1>1. CASE \E w \in Workers : runJob(w)
  BY <1>1, FileRunJob
<1>2. CASE \A w \in Workers : ~runJob(w)
  BY <1>2, FileRest
<1> QED BY <1>1, <1>2

\* When every job has a path of its own, a row that says done has its file, which is the
\* download it records or what ffmpeg made of that (queue.go: the rename precedes the state).
THEOREM DoneFiles == OwnTargets => (Spec => []DoneHasFile)
<1> SUFFICES ASSUME OwnTargets PROVE Spec => []DoneHasFile
  OBVIOUS
<1>1. Init => FileInv
  BY FileInit
<1>2. BaseInv /\ FileInv /\ [Next]_vars => FileInv'
  BY FileStep
<1>3. FileInv => DoneHasFile
  BY DEF FileInv
<1> QED BY <1>1, <1>2, <1>3, BaseAlways, PTL DEF Spec
----------------------------------------------------------------------------
(* Queue implements JobLedger. *)

RowInv ==
    /\ \A j \in Jobs : rows[j].state = "absent" => rows[j].sha = {}
    /\ \A j \in running \cup DOMAIN listed : rows[j].state # "absent"

\* What a successful or failing UpdateJob is to the ledger.
LEMMA LedgerSave ==
    ASSUME BaseInv, RowInv, NEW w \in Workers, pc[w] # "idle",
           NEW r \in Row, NEW p \in Places, NEW q \in Places, Save(w, r, p, q),
           r.state # "absent", r.state = "done" => r.sha # {} /\ lib[Target(w)] \in Makings(r.sha)
    PROVE  RowInv' /\ [Ledger!Next]_(Ledger!vars)
<1>1. job[w] \in running /\ job[w] \in Jobs /\ r.state \in Ledger!States /\ r.sha \in SUBSET Sources
  BY DEF BaseInv, TypeOK, JobsHeld, Row, JobStates, Ledger!States
<1>2. UNCHANGED <<lib, running, listed>>
  BY DEF Save, fileVars, procVars
<1>3. CASE UNCHANGED rows
  BY <1>2, <1>3 DEF RowInv, Ledger!vars
<1>4. CASE rows' = [rows EXCEPT ![job[w]] = r]
  <2>1. RowInv'
    BY <1>1, <1>2, <1>4 DEF RowInv, BaseInv, TypeOK
  <2>2. Ledger!Report(job[w], r.state, r.sha)
    BY <1>1, <1>2, <1>4 DEF Ledger!Report, RowInv, BaseInv, TypeOK, Target
  <2> QED BY <1>1, <2>1, <2>2 DEF Ledger!Next
<1> QED BY <1>3, <1>4 DEF Save, UpdateJob, UpdateJobFails

\* What a rename into the library is to the ledger.
LEMMA LedgerPublish ==
    ASSUME OwnTargets, BaseInv, RowInv, NEW w \in Workers, pc[w] # "idle",
           NEW f \in File, f # NoFile, rows[job[w]].state # "done",
           lib' = [lib EXCEPT ![Target(w)] = f], UNCHANGED <<rows, running, listed>>
    PROVE  RowInv' /\ [Ledger!Next]_(Ledger!vars)
<1>1. job[w] \in running /\ job[w] \in Jobs /\ Target(w) = TargetOf[job[w]]
  BY DEF BaseInv, TypeOK, JobsHeld, Target
<1>2. [j \in Jobs |-> lib'[TargetOf[j]]]
        = [[j \in Jobs |-> lib[TargetOf[j]]] EXCEPT ![job[w]] = f]
  BY <1>1, QueueAssumption DEF OwnTargets, BaseInv, TypeOK
<1>3. Ledger!Publish(job[w], f)
  BY <1>1, <1>2 DEF Ledger!Publish
<1> QED BY <1>1, <1>3 DEF Ledger!Next, RowInv

LEMMA LedgerRunJob ==
    ASSUME OwnTargets, BaseInv, FileInv, RowInv, NEW w \in Workers, runJob(w)
    PROVE  RowInv' /\ [Ledger!Next]_(Ledger!vars)
<1> USE DEF At
<1>1. /\ pc[w] # "idle" /\ job[w] \in Jobs /\ copy[w] \in Row /\ Target(w) \in Targets
      /\ FileAt(w)
  BY QueueAssumption
     DEF BaseInv, TypeOK, JobsHeld, FileInv, Target, runJob, Begin, Resolve, Prepare, SaveTmp, FetchSome,
         FetchFail, FetchDone, MarkRemux, Remux, RenameStaged, Rename, MarkDone, WriteSidecar, Flag,
         Finish, Fail, Cleanup, Release
<1>2. CASE Begin(w)
  <2> DEFINE r == [copy[w] EXCEPT !.state = "downloading"]
  <2>1. r \in Row /\ r.state = "downloading"
    BY <1>1, RowStateType DEF JobStates, Row
  <2> QED BY <1>1, <1>2, <2>1, LedgerSave DEF Begin, Places
<1>3. CASE SaveTmp(w)
  BY <1>1, <1>3, LedgerSave DEF SaveTmp, FileAt, Places, Loading
<1>4. CASE MarkRemux(w)
  <2> DEFINE r == [copy[w] EXCEPT !.state = "remuxing"]
  <2>1. r \in Row /\ r.state = "remuxing"
    BY <1>1, RowStateType DEF JobStates, Row
  <2> QED BY <1>1, <1>4, <2>1, LedgerSave DEF MarkRemux, Places
<1>5. CASE MarkDone(w)
  <2> DEFINE r == [copy[w] EXCEPT !.state = "done"]
  <2>1. r \in Row /\ r.sha = copy[w].sha /\ r.state = "done"
    BY <1>1, RowStateType DEF JobStates, Row
  <2> QED BY <1>1, <1>5, <2>1, LedgerSave DEF MarkDone, FileAt, Places, Published
<1>6. CASE Flag(w)
  BY <1>1, <1>6, LedgerSave DEF Flag, FileAt, Places, Published
<1>7. CASE Finish(w)
  <2> DEFINE r == [copy[w] EXCEPT !.state = "done", !.finished = TRUE]
  <2>1. r \in Row /\ r.sha = copy[w].sha /\ r.state = "done"
    BY <1>1, FinishedType DEF Row
  <2> QED BY <1>1, <1>7, <2>1, LedgerSave DEF Finish, FileAt, Places, Published
<1>8. CASE Fail(w)
  <2>1. Failed(copy[w]) \in Row /\ Failed(copy[w]).state \in {"queued", "failed"}
    BY <1>1, FailedType DEF Failed, Row
  <2> QED BY <1>1, <1>8, <2>1, LedgerSave DEF Fail, Places
<1>9. CASE UNCHANGED <<rows, lib, running, listed>>
  BY <1>9 DEF RowInv, Ledger!vars
<1>10. CASE Resolve(w) \/ Prepare(w) \/ FetchSome(w) \/ FetchFail(w) \/ FetchDone(w) \/ Remux(w)
            \/ WriteSidecar(w) \/ Cleanup(w)
  BY <1>9, <1>10 DEF Resolve, Prepare, FetchSome, FetchFail, FetchDone, Remux, WriteSidecar, Cleanup,
                     rowVars, fileVars, procVars
<1>11. CASE RenameStaged(w)
  <2>1. /\ rows[job[w]].state # "done" /\ staged[Target(w)] \in File
        /\ UNCHANGED <<rows, running, listed>>
    BY <1>1, <1>11 DEF RenameStaged, FileAt, Loading, BaseInv, TypeOK, rowVars, procVars
  <2> QED BY <1>1, <1>9, <1>11, <2>1, LedgerPublish DEF RenameStaged
<1>12. CASE Rename(w)
  <2>1. /\ rows[job[w]].state # "done" /\ Plain(copy[w].sha) \in File
        /\ Plain(copy[w].sha) # NoFile /\ UNCHANGED <<rows, running, listed>>
    BY <1>1, <1>12, MakingsAreFiles, FileType
       DEF Rename, FileAt, Loading, Loaded, Row, rowVars, procVars
  <2> QED BY <1>1, <1>9, <1>12, <2>1, LedgerPublish DEF Rename
<1>13. CASE Release(w)
  <2>1. Ledger!Return(job[w])
    BY <1>13 DEF Release, Ledger!Return, rowVars, fileVars
  <2>2. RowInv'
    BY <1>13 DEF Release, RowInv, rowVars, pumpVars
  <2> QED BY <1>1, <2>1, <2>2 DEF Ledger!Next
<1> QED
  BY <1>2, <1>3, <1>4, <1>5, <1>6, <1>7, <1>8, <1>10, <1>11, <1>12, <1>13 DEF runJob

LEMMA LedgerRest ==
    ASSUME BaseInv, RowInv, [Next]_vars, \A w \in Workers : ~runJob(w)
    PROVE  RowInv' /\ [Ledger!Next]_(Ledger!vars)
<1>1. CASE UNCHANGED <<rows, lib, running, listed>>
  BY <1>1 DEF RowInv, Ledger!vars
<1>2. CASE SetBattery \/ TickCheck \/ TickCount \/ StartDaemon \/ Stop \/ UNCHANGED vars
  BY <1>1, <1>2 DEF SetBattery, TickCheck, TickCount, StartDaemon, Stop, vars, rowVars, fileVars, pumpVars
<1>3. CASE TickList
  <2>1. UNCHANGED <<rows, lib, running>>
    BY <1>3 DEF TickList, fileVars
  <2>2. \A j \in DOMAIN listed' : rows[j].state # "absent"
    BY <1>3 DEF TickList, Selected, FirstOf, Pending, RowInv
  <2> QED BY <2>1, <2>2 DEF RowInv, Ledger!vars
<1>4. ASSUME NEW j \in Jobs, TickSkip(j)
      PROVE  RowInv' /\ [Ledger!Next]_(Ledger!vars)
  <2>1. UNCHANGED <<rows, lib, running>> /\ DOMAIN listed' \subseteq DOMAIN listed
    BY <1>4 DEF TickSkip, AfterLaunch, Without, rowVars, fileVars
  <2> QED BY <2>1 DEF RowInv, Ledger!vars
<1>5. ASSUME NEW j \in Jobs, NEW w \in Workers, TickLaunch(j, w)
      PROVE  RowInv' /\ [Ledger!Next]_(Ledger!vars)
  <2>1. /\ UNCHANGED <<rows, lib>> /\ DOMAIN listed' \subseteq DOMAIN listed
        /\ running' = running \cup {j} /\ j \in DOMAIN listed /\ j \notin running
    BY <1>5 DEF TickLaunch, GoRunJob, FirstListed, AfterLaunch, Without, rowVars, fileVars
  <2>2. Ledger!Take(j) /\ RowInv'
    BY <2>1 DEF Ledger!Take, RowInv
  <2> QED BY <2>2 DEF Ledger!Next
<1>6. CASE Exit
  <2>1. Ledger!LoseAll /\ RowInv'
    BY <1>6 DEF Exit, Ledger!LoseAll, RowInv, rowVars, fileVars
  <2> QED BY <2>1 DEF Ledger!Next
<1>7. ASSUME NEW j \in Jobs, RetryDue(j)
      PROVE  RowInv' /\ [Ledger!Next]_(Ledger!vars)
  <2>1. rows' = [rows EXCEPT ![j] = [rows[j] EXCEPT !.retry = "past"]] /\ rows[j] \in Row
    BY <1>7 DEF RetryDue, BaseInv, TypeOK
  <2>2. \A i \in Jobs : rows'[i].state = rows[i].state /\ rows'[i].sha = rows[i].sha
    BY <2>1 DEF BaseInv, TypeOK, Row
  <2>3. UNCHANGED <<lib, running, listed>>
    BY <1>7 DEF RetryDue, fileVars, procVars
  <2> QED BY <2>2, <2>3 DEF RowInv, Ledger!vars, BaseInv, TypeOK
<1>8. ASSUME NEW j \in Jobs, NEW s \in Sources \cup {NoSource}, Add(j, s)
      PROVE  RowInv' /\ [Ledger!Next]_(Ledger!vars)
  <2>1. rows' = [rows EXCEPT ![j] = Inserted(j, s)] /\ UNCHANGED <<lib, running, listed>>
    BY <1>8 DEF Add, fileVars, procVars
  <2>2. Inserted(j, s).state = "queued" /\ Inserted(j, s).sha = rows[j].sha
    <3>1. rows[j] \in Row
      BY DEF BaseInv, TypeOK
    <3> QED BY <3>1 DEF Inserted, NoRow, Row, RowInv
  <2>3. Ledger!Submit(j)
    BY <2>1, <2>2 DEF Ledger!Submit, BaseInv, TypeOK
  <2>4. RowInv'
    BY <2>1, <2>2 DEF RowInv, BaseInv, TypeOK
  <2> QED BY <2>3, <2>4 DEF Ledger!Next
<1> QED BY <1>2, <1>3, <1>4, <1>5, <1>6, <1>7, <1>8 DEF Next, Tick

\* When every job has a path of its own, the queue implements the ledger.
THEOREM ImplementsLedger == OwnTargets => (Spec => LedgerSpec)
<1> SUFFICES ASSUME OwnTargets PROVE Spec => Ledger!Spec
  BY DEF LedgerSpec
<1>1. Init => FileInv /\ RowInv /\ Ledger!Init
  BY FileInit, QueueAssumption DEF Init, RowInv, NoRow, Ledger!Init
<1>2. BaseInv /\ FileInv /\ RowInv /\ [Next]_vars
        => FileInv' /\ RowInv' /\ [Ledger!Next]_(Ledger!vars)
  <2> SUFFICES ASSUME BaseInv, FileInv, RowInv, [Next]_vars
               PROVE  FileInv' /\ RowInv' /\ [Ledger!Next]_(Ledger!vars)
    OBVIOUS
  <2>1. CASE \E w \in Workers : runJob(w)
    BY <2>1, FileStep, LedgerRunJob
  <2>2. CASE \A w \in Workers : ~runJob(w)
    BY <2>2, FileStep, LedgerRest
  <2> QED BY <2>1, <2>2
<1> QED BY <1>1, <1>2, BaseAlways, PTL DEF Spec, Ledger!Spec
=============================================================================

------------------------ MODULE RangedDownloadProofs ------------------------
(***************************************************************************)
(* What a download promises, for any number of workers, any lengths and    *)
(* part size, and any number of calls, faults and kills.                   *)
(***************************************************************************)
EXTENDS RangedDownload, FiniteSetTheorems, SequenceTheorems, TLAPS

----------------------------------------------------------------------------
(* Parts *)

(* The parts of a source cover it, and the last one has at least a unit.                      *)
LEMMA PartArithmetic ==
    ASSUME NEW s \in Sources
    PROVE  /\ Count(s) \in Nat
           /\ Length[s] \in Nat
           /\ Length[s] > 0 <=> Count(s) > 0
           /\ Length[s] <= Start(Count(s))
           /\ \A i \in Nat : i < Count(s) => Start(i) < Length[s]
BY DownloadAssumption DEF Count, Start

(* The offset of a part is a number, and the next part starts where it ends.                  *)
LEMMA StartArithmetic ==
    ASSUME NEW i \in Nat
    PROVE  /\ Start(i) \in Nat /\ Start(0) = 0 /\ Start(i + 1) = Start(i) + PartSize
           /\ PartSize \in Nat \ {0}
BY DownloadAssumption DEF Start

(* Part numbers are numbers, and those of a source are among them.                            *)
LEMMA PartNumbers ==
    /\ PartIds \subseteq Nat
    /\ \A s \in Sources : 0..(Count(s) - 1) \subseteq PartIds
BY DEF PartIds

(* A part of the source has a full length of at least one unit.                               *)
LEMMA RangeArithmetic ==
    ASSUME src \in Sources, NEW i \in 0..(Count(src) - 1)
    PROVE  /\ RangeLen(i) \in Nat \ {0}
           /\ End(i) \in Nat /\ End(i) = Start(i) + RangeLen(i) - 1
           /\ RangeLen(i) = IF Start(i + 1) <= Length[src] THEN PartSize ELSE Length[src] - Start(i)
<1>1. Length[src] \in Nat /\ Count(src) \in Nat /\ i \in Nat /\ i < Count(src)
    BY PartArithmetic
<1>2. Start(i) < Length[src] BY <1>1, PartArithmetic
<1>3. Start(i) \in Nat /\ Start(i + 1) = Start(i) + PartSize /\ PartSize \in Nat \ {0}
    BY <1>1, StartArithmetic
<1> QED BY <1>1, <1>2, <1>3 DEF End, RangeLen

----------------------------------------------------------------------------
(* Types, and the goroutines *)

FileTypes == parts \in [PartIds -> Seq(Unit)] /\ out \in Seq(Unit)

CallTypes ==
    /\ main \in {"idle", "probe", "pool", "create", "assemble", "clean", "streamOpen", "stream"}
    /\ src \in Sources /\ result \in Errors \cup {"ok"} /\ cut \in BOOLEAN /\ step \in Nat
    /\ ctxDone \in BOOLEAN /\ calls \in Nat /\ faults \in Nat

ChanTypes ==
    /\ next \in Nat /\ closed \in BOOLEAN
    /\ jobs \in Seq(PartIds) /\ Len(jobs) <= Capacity

PoolTypes ==
    /\ poolDone \in BOOLEAN
    /\ errCh \in Seq(Errors \ {"none"}) /\ Len(errCh) <= 1
    /\ partCount \in Nat

WorkTypes ==
    /\ pc \in [Workers -> Places] /\ idx \in [Workers -> PartIds]
    /\ at \in [Workers -> Nat] /\ err \in [Workers -> Errors]

\* Goroutines run only inside the pool; a worker that fails has an error to report; the
\* pool, and what follows it, is about a source with parts.
Running ==
    /\ NoGoroutineLeft
    /\ \A w \in Workers : pc[w] \in {"report", "cancel"} => err[w] # "none"
    /\ main \in {"pool", "create", "assemble", "clean"} => src \in Ranged /\ Length[src] > 0
    /\ result # "none" \/ cut => main = "idle"

Typed == FileTypes /\ CallTypes /\ ChanTypes /\ PoolTypes /\ WorkTypes /\ Running

\* Typed says more than TypeOK: where each goroutine may be.
LEMMA TypedIsTypeOK == Typed => TypeOK
BY DEF Typed, TypeOK, FileTypes, CallTypes, ChanTypes, PoolTypes, WorkTypes

(* The channel of jobs has room for two parts per worker. *)
LEMMA CapacityIsNat == Capacity \in Nat
BY DownloadAssumption, FS_CardinalityType DEF Capacity

(* Channels that hold nothing. *)
LEMMA EmptyChannels ==
    /\ <<>> \in Seq(PartIds) /\ Len(<<>>) = 0 /\ 0 <= Capacity
    /\ <<>> \in Seq(Errors \ {"none"})
<1> DEFINE E == Errors \ {"none"}
<1>1. <<>> \in Seq(E) BY EmptySeq
<1> QED BY <1>1, EmptySeq, CapacityIsNat

(* Nothing runs before the first call. *)
LEMMA InitTyped == Init => Typed
<1> SUFFICES ASSUME Init PROVE Typed OBVIOUS
<1> USE DEF Init
<1>1. FileTypes BY EmptySeq DEF FileTypes, NoParts
<1>2. CallTypes BY DEF CallTypes, Errors
<1>3. ChanTypes BY EmptyChannels DEF ChanTypes
<1>6. PoolTypes
    <2>1. poolDone \in BOOLEAN OBVIOUS
    <2>2. errCh \in Seq(Errors \ {"none"}) /\ Len(errCh) <= 1 /\ partCount \in Nat
        BY EmptyChannels
    <2> QED BY <2>1, <2>2 DEF PoolTypes
<1>4. WorkTypes BY DEF WorkTypes, PartIds, Errors, Places
<1>5. Running BY DEF Running, NoGoroutineLeft
<1> QED BY <1>1, <1>2, <1>3, <1>4, <1>5, <1>6 DEF Typed

(* Who writes what: the files, the state of the call, and the pool.                           *)
LEMMA Frames ==
    ASSUME [Next]_vars
    PROVE  /\ \/ UNCHANGED fileVars
              \/ Create \/ Assemble \/ Clean \/ StreamOpen \/ StreamRead
              \/ \E w \in Workers : Read(w)
           /\ UNCHANGED callVars \/ (\E s \in Sources : Call(s)) \/ Caller \/ Kill
           /\ \/ UNCHANGED <<chanVars, poolVars, workVars>>
              \/ StartPool \/ Kill \/ Producer \/ \E w \in Workers : Worker(w)
           /\ UNCHANGED ctxDone \/ (\E s \in Sources : Call(s)) \/ CancelCall \/ Kill
<1> USE DEF fileVars, callVars, chanVars, poolVars, workVars
<1>1. ASSUME NEW s \in Sources, Call(s)
      PROVE  UNCHANGED <<fileVars, chanVars, poolVars, workVars>>
    BY <1>1 DEF Call
<1>2. ASSUME Caller
      PROVE  /\ UNCHANGED ctxDone
             /\ UNCHANGED fileVars \/ Create \/ Assemble \/ Clean \/ StreamOpen \/ StreamRead
             /\ UNCHANGED <<chanVars, poolVars, workVars>> \/ StartPool
    BY <1>2 DEF Caller, ProbeFails, ProbeStream, StartPool, Join, Create, Assemble, Clean,
                StreamOpen, StreamRead, StreamEnd
<1>3. ASSUME Producer PROVE UNCHANGED <<fileVars, callVars, ctxDone>>
    BY <1>3 DEF Producer, Produce, Close
<1>4. ASSUME NEW w \in Workers, Worker(w)
      PROVE  UNCHANGED <<callVars, ctxDone>> /\ (UNCHANGED fileVars \/ Read(w))
    BY <1>4 DEF Worker, Take, Leave, Open, Request, Read, Stat, Report, Cancel
<1>5. CancelCall => UNCHANGED <<fileVars, callVars, chanVars, poolVars, workVars>>
    BY DEF CancelCall
<1>6. Kill => UNCHANGED fileVars BY DEF Kill
<1>7. CASE UNCHANGED vars BY <1>7 DEF vars
<1> QED BY <1>1, <1>2, <1>3, <1>4, <1>5, <1>6, <1>7 DEF Next

(* Files hold units. *)
LEMMA FilesTyped == Typed /\ [Next]_vars => FileTypes'
<1> SUFFICES ASSUME Typed, [Next]_vars PROVE FileTypes' OBVIOUS
<1> USE DEF Typed, FileTypes
<1>1. CASE UNCHANGED fileVars BY <1>1 DEF fileVars
<1>2. CASE Create BY <1>2, EmptySeq DEF Create
<1>3. CASE Assemble
    <2>1. step < Count(src) => parts[step] \in Seq(Unit)
        BY PartNumbers, PartArithmetic DEF CallTypes
    <2> QED BY <1>3, <2>1, ConcatProperties DEF Assemble
<1>4. CASE Clean BY <1>4, EmptySeq DEF Clean, NoParts
<1>5. CASE StreamOpen BY <1>5, EmptySeq DEF StreamOpen
<1>6. CASE StreamRead BY <1>6 DEF StreamRead, Unit, CallTypes
<1>7. ASSUME NEW w \in Workers, Read(w) PROVE FileTypes'
    <2>1. <<src, at[w]>> \in Unit /\ idx[w] \in PartIds BY DEF CallTypes, WorkTypes, Unit
    <2>2. Append(parts[idx[w]], <<src, at[w]>>) \in Seq(Unit) BY <2>1, AppendProperties
    <2>3. Write(w) => parts' \in [PartIds -> Seq(Unit)] BY <2>2 DEF Write
    <2> QED BY <1>7, <2>3 DEF Read
<1> QED BY <1>1, <1>2, <1>3, <1>4, <1>5, <1>6, <1>7, Frames

(* A call returns a result or an error. *)
LEMMA CallsTyped == Typed /\ [Next]_vars => CallTypes'
<1> SUFFICES ASSUME Typed, [Next]_vars PROVE CallTypes' OBVIOUS
<1>0. faults' \in Nat
    BY DEF Typed, CallTypes, Next, Caller, ProbeFails, ProbeStream, StartPool, Join, Create, Assemble,
           Clean, StreamOpen, StreamRead, StreamEnd, Producer, Produce, Close, Worker, Take,
           Leave, Open, Request, Read, Stat, Report, Cancel, CancelCall, Kill, Call, vars,
           Fault, NoFault
<1>1. ctxDone' \in BOOLEAN
    BY Frames DEF Typed, CallTypes, Call, CancelCall, Kill
<1> USE <1>0, <1>1 DEF Typed, CallTypes, Errors, Return, Continue, NoFault
<1>2. CASE UNCHANGED callVars BY <1>2 DEF callVars
<1>3. ASSUME NEW s \in Sources, Call(s) PROVE CallTypes'
    <2>1. cut' \in BOOLEAN BY <1>3 DEF Call
    <2> QED BY <1>3, <2>1 DEF Call
<1>4. CASE Kill BY <1>4 DEF Kill
<1>5. CASE ProbeFails \/ ProbeStream \/ StartPool
    BY <1>5 DEF ProbeFails, ProbeStream, StartPool
<1>6. CASE Join
    <2>1. errCh # <<>> => Head(errCh) \in Errors \ {"none"}
        BY HeadTailProperties DEF PoolTypes
    <2> QED BY <1>6, <2>1 DEF Join
<1>7. CASE Create \/ Assemble \/ Clean BY <1>7 DEF Create, Assemble, Clean
<1>8. CASE StreamOpen \/ StreamRead BY <1>8 DEF StreamOpen, StreamRead
<1>9. CASE StreamEnd
    <2>1. cut' \in BOOLEAN BY <1>9 DEF StreamEnd
    <2> QED BY <1>9, <2>1 DEF StreamEnd
<1> QED BY <1>2, <1>3, <1>4, <1>5, <1>6, <1>7, <1>8, <1>9, Frames DEF Caller

(* The channel of jobs keeps to its capacity, and holds part numbers. *)
LEMMA ChanTyped == Typed /\ [Next]_vars => ChanTypes'
<1> SUFFICES ASSUME Typed, [Next]_vars PROVE ChanTypes' OBVIOUS
<1> USE EmptyChannels, CapacityIsNat DEF Typed, ChanTypes, chanVars
<1>1. CASE UNCHANGED <<chanVars, poolVars, workVars>> BY <1>1
<1>2. CASE StartPool BY <1>2 DEF StartPool
<1>3. CASE Kill BY <1>3 DEF Kill, Idle
<1>4. CASE Produce
    <2>1. next \in PartIds BY <1>4, PartNumbers, PartArithmetic DEF Produce, CallTypes
    <2> QED BY <1>4, <2>1 DEF Produce
<1>5. CASE Close BY <1>5 DEF Close
<1>6. ASSUME NEW w \in Workers, Worker(w) PROVE ChanTypes'
    <2>1. CASE Take(w) BY <2>1, HeadTailProperties DEF Take
    <2>2. CASE ~Take(w)
        BY <1>6, <2>2 DEF Worker, Stat, Report, Cancel, Leave, Open, Request, Read
    <2> QED BY <2>1, <2>2
<1> QED BY <1>1, <1>2, <1>3, <1>4, <1>5, <1>6, Frames DEF Producer

(* At most one error waits for the caller. *)
LEMMA PoolTyped == Typed /\ [Next]_vars => PoolTypes'
<1> SUFFICES ASSUME Typed, [Next]_vars PROVE PoolTypes' OBVIOUS
<1> USE EmptyChannels DEF Typed, PoolTypes, poolVars
<1>1. CASE UNCHANGED <<chanVars, poolVars, workVars>> BY <1>1
<1>2. CASE StartPool
    <2>1. poolDone' \in BOOLEAN BY <1>2 DEF StartPool
    <2>2. errCh' \in Seq(Errors \ {"none"}) /\ Len(errCh') <= 1 /\ partCount' \in Nat
        BY <1>2 DEF StartPool
    <2> QED BY <2>1, <2>2
<1>3. CASE Kill
    <2>1. poolDone' \in BOOLEAN BY <1>3 DEF Kill, Idle
    <2>2. errCh' \in Seq(Errors \ {"none"}) /\ Len(errCh') <= 1 /\ partCount' \in Nat
        BY <1>3 DEF Kill, Idle
    <2> QED BY <2>1, <2>2
<1>4. CASE Producer BY <1>4 DEF Producer, Produce, Close
<1>5. ASSUME NEW w \in Workers, Worker(w) PROVE PoolTypes'
    <2>1. CASE Stat(w) BY <2>1 DEF Stat
    <2>2. CASE Report(w)
        <3>1. err[w] \in Errors \ {"none"} BY <2>2 DEF Report, At, Running, WorkTypes
        <3>2. <<err[w]>> \in Seq(Errors \ {"none"}) /\ Len(<<err[w]>>) = 1 BY <3>1
        <3> QED BY <2>2, <3>2, SMTT(30) DEF Report
    <2>3. CASE Cancel(w) BY <2>3 DEF Cancel
    <2>4. CASE Take(w) \/ Leave(w) \/ Open(w) \/ Request(w) \/ Read(w)
        BY <2>4 DEF Take, Leave, Open, Request, Read
    <2> QED BY <1>5, <2>1, <2>2, <2>3, <2>4 DEF Worker
<1> QED BY <1>1, <1>2, <1>3, <1>4, <1>5, Frames

(* A worker has a part and an offset that are numbers. *)
LEMMA WorkTyped == Typed /\ [Next]_vars => WorkTypes'
<1> SUFFICES ASSUME Typed, [Next]_vars PROVE WorkTypes' OBVIOUS
<1> USE DEF Typed, WorkTypes, Places, Errors, workVars
<1>1. CASE UNCHANGED <<chanVars, poolVars, workVars>> BY <1>1
<1>2. CASE StartPool BY <1>2 DEF StartPool, PartIds
<1>3. CASE Kill BY <1>3 DEF Kill, Idle, PartIds
<1>4. CASE Producer BY <1>4 DEF Producer, Produce, Close
<1>5. ASSUME NEW w \in Workers, Worker(w) PROVE WorkTypes'
    <2>1. CASE Take(w)
        <3>1. Head(jobs) \in PartIds BY <2>1, HeadTailProperties DEF Take, ChanTypes
        <3> QED BY <2>1, <3>1 DEF Take, Goto
    <2>2. CASE Open(w)
        <3>1. Start(idx[w]) \in Nat BY PartNumbers, StartArithmetic
        <3>2. Len(parts[idx[w]]) \in Nat BY LenProperties DEF FileTypes
        <3>3. Resume(idx[w]) \in Nat BY <3>1, <3>2 DEF Resume
        <3> QED BY <2>2, <3>3 DEF Open, Goto, Fail
    <2>3. CASE Leave(w) BY <2>3 DEF Leave, Goto
    <2>4. CASE Request(w) BY <2>4 DEF Request, Goto, Fail
    <2>5. CASE Read(w)
        <3>1. at' \in [Workers -> Nat] BY <2>5 DEF Read, Write
        <3>2. idx' = idx /\ pc' \in [Workers -> Places] BY <2>5 DEF Read, Goto, Fail
        <3>3. err' \in [Workers -> Errors] BY <2>5 DEF Read, Fail
        <3> QED BY <3>1, <3>2, <3>3
    <2>6. CASE Stat(w) BY <2>6 DEF Stat, Goto, Fail
    <2>7. CASE Report(w) BY <2>7 DEF Report, Goto
    <2>8. CASE Cancel(w) BY <2>8 DEF Cancel, Goto
    <2> QED BY <1>5, <2>1, <2>2, <2>3, <2>4, <2>5, <2>6, <2>7, <2>8 DEF Worker
<1> QED BY <1>1, <1>2, <1>3, <1>4, <1>5, Frames

(* Join waits for the goroutines, and a worker fails with an error. *)
LEMMA NextRunning == Typed /\ [Next]_vars => Running'
<1> SUFFICES ASSUME Typed, [Next]_vars PROVE Running' OBVIOUS
<1> USE DEF Typed, Running, NoGoroutineLeft, WorkTypes, callVars, chanVars, poolVars, workVars,
            Return, Continue
<1>1. ASSUME NEW s \in Sources, Call(s) PROVE Running' BY <1>1 DEF Call
<1>2. CASE ProbeFails \/ ProbeStream \/ StartPool
    BY <1>2 DEF ProbeFails, ProbeStream, StartPool
<1>3. CASE Join BY <1>3 DEF Join
<1>4. CASE Create \/ Assemble \/ Clean BY <1>4 DEF Create, Assemble, Clean
<1>5. CASE StreamOpen \/ StreamRead \/ StreamEnd BY <1>5 DEF StreamOpen, StreamRead, StreamEnd
<1>6. CASE Producer BY <1>6 DEF Producer, Produce, Close
<1>7. ASSUME NEW w \in Workers, Worker(w) PROVE Running'
    BY <1>7 DEF Worker, Take, Leave, Open, Request, Read, Stat, Report, Cancel, At, Goto, Fail
<1>8. CASE CancelCall BY <1>8 DEF CancelCall
<1>9. CASE Kill BY <1>9 DEF Kill, Idle
<1>10. CASE UNCHANGED vars BY <1>10 DEF vars
<1> QED BY <1>1, <1>2, <1>3, <1>4, <1>5, <1>6, <1>7, <1>8, <1>9, <1>10 DEF Next, Caller

\* Typed holds in every behaviour.
LEMMA AlwaysTyped == Spec => []Typed
<1>1. Typed /\ [Next]_vars => Typed'
    BY FilesTyped, CallsTyped, ChanTyped, PoolTyped, WorkTyped, NextRunning DEF Typed
<1> QED BY <1>1, InitTyped, PTL DEF Spec

(* Types always hold, and neither channel of the pool outgrows its capacity. *)
THEOREM TypeCorrect == Spec => []TypeOK
BY AlwaysTyped, TypedIsTypeOK, PTL

(* A call that has returned, and a caller that puts the parts together, has no goroutine of   *)
(* its own left, whatever failed.                                                             *)
THEOREM GoroutinesEnd == Spec => []NoGoroutineLeft
<1>1. Typed => NoGoroutineLeft BY DEF Typed, Running
<1> QED BY <1>1, AlwaysTyped, PTL

----------------------------------------------------------------------------
(* The cause *)

\* A pool is cancelled after an error was sent, and a worker finds its request cancelled
\* only then, or because the caller cancelled the call.
CauseOfPool ==
    /\ poolDone => errCh # <<>>
    /\ errCh = <<"canceled">> => ctxDone
    /\ \A w \in Workers :
        /\ pc[w] \in {"take", "open", "request", "read", "stat"} => err[w] = "none"
        /\ pc[w] = "cancel" => errCh # <<>>
        /\ pc[w] = "gone" /\ err[w] # "none" => errCh # <<>>
        /\ err[w] = "canceled" => ctxDone \/ errCh # <<>>

Cause == FirstCause /\ (main = "pool" => CauseOfPool)

(* A sequence of one element is its head. *)
LEMMA OneElement ==
    ASSUME NEW S, NEW s \in Seq(S), s # <<>>, Len(s) <= 1
    PROVE  s = <<Head(s)>>
<1>1. Len(s) \in Nat \ {0} BY EmptySeq
<1>2. Len(s) = 1 BY <1>1
<1> QED BY <1>2

(* The channel of errors holds one error, which is its head. *)
LEMMA OneError == PoolTypes /\ errCh # <<>> => errCh = <<Head(errCh)>>
BY OneElement DEF PoolTypes

(* A worker that fails leaves the cause in the channel, and never covers an earlier one.      *)
LEMMA WorkerCause ==
    ASSUME Typed, Cause, NEW w \in Workers, Worker(w)
    PROVE  Cause'
<1>1. main = "pool" /\ CauseOfPool
    BY DEF Typed, Running, NoGoroutineLeft, Cause, Worker, Take, Leave, Open, Request, Read, Stat,
           Report, Cancel, At
<1>2. UNCHANGED <<main, result, ctxDone>>
    BY DEF callVars, Worker, Take, Leave, Open, Request, Read, Stat, Report, Cancel
<1> SUFFICES CauseOfPool' BY <1>2 DEF Cause, FirstCause
<1> USE <1>1, <1>2 DEF CauseOfPool, At, Goto, Fail, poolVars, Typed, WorkTypes
<1>3. CASE Take(w) BY <1>3 DEF Take
<1>4. CASE Leave(w) BY <1>4 DEF Leave
<1>5. CASE Open(w) BY <1>5 DEF Open
<1>6. CASE Request(w) BY <1>6 DEF Request, PoolCtxDone
<1>7. CASE Read(w) BY <1>7 DEF Read, PoolCtxDone
<1>8. CASE Stat(w) BY <1>8 DEF Stat
<1>9. CASE Report(w)
    <2>1. CASE errCh = <<>>
        <3>1. errCh' = <<err[w]>> /\ errCh' # <<>> BY <1>9, <2>1 DEF Report
        <3>2. errCh' = <<"canceled">> => err[w] = "canceled" BY <3>1
        <3> QED BY <1>9, <2>1, <3>1, <3>2 DEF Report
    <2>2. CASE errCh # <<>> BY <1>9, <2>2 DEF Report
    <2> QED BY <2>1, <2>2
<1>10. CASE Cancel(w) BY <1>10 DEF Cancel
<1> QED BY <1>3, <1>4, <1>5, <1>6, <1>7, <1>8, <1>9, <1>10 DEF Worker

(* The caller reports the error of the channel. *)
LEMMA NextCause == Typed /\ Cause /\ [Next]_vars => Cause'
<1> SUFFICES ASSUME Typed, Cause, [Next]_vars PROVE Cause' OBVIOUS
<1> USE DEF Cause, CauseOfPool, FirstCause, Return, Continue, poolVars, workVars, callVars
<1>1. ASSUME NEW s \in Sources, Call(s) PROVE Cause' BY <1>1 DEF Call
<1>2. CASE ProbeFails \/ ProbeStream BY <1>2 DEF ProbeFails, ProbeStream
<1>3. CASE StartPool BY <1>3 DEF StartPool
<1>4. CASE Join
    <2>1. errCh # <<>> => errCh = <<Head(errCh)>> BY OneError DEF Typed
    <2> QED BY <1>4, <2>1 DEF Join
<1>5. CASE Create \/ Assemble \/ Clean BY <1>5 DEF Create, Assemble, Clean
<1>6. CASE StreamOpen \/ StreamRead \/ StreamEnd BY <1>6 DEF StreamOpen, StreamRead, StreamEnd
<1>7. CASE Producer BY <1>7 DEF Producer, Produce, Close
<1>8. CASE CancelCall BY <1>8 DEF CancelCall
<1>9. CASE Kill BY <1>9 DEF Kill, Idle
<1>10. CASE UNCHANGED vars BY <1>10 DEF vars
<1> QED BY <1>1, <1>2, <1>3, <1>4, <1>5, <1>6, <1>7, <1>8, <1>9, <1>10, WorkerCause
        DEF Next, Caller

\* The reported error is the first one.
LEMMA AlwaysCause == Spec => []Cause
<1>1. Init => Cause BY DEF Init, Cause, FirstCause
<1> QED BY <1>1, NextCause, AlwaysTyped, PTL DEF Spec

(* A call says "canceled" only when its own caller cancelled it: the error that stopped the   *)
(* other workers is the one that is reported.                                                 *)
THEOREM CauseIsReported == Spec => []FirstCause
<1>1. Cause => FirstCause BY DEF Cause
<1> QED BY <1>1, AlwaysCause, PTL

----------------------------------------------------------------------------
(* The parts between producer and workers *)

Holds(w) == pc[w] \in {"open", "request", "read", "stat"} \/ err[w] # "none"

\* the workers with a part they took and did not count
Holding == {w \in Workers : Holds(w)}

\* Every part the producer counted is in the channel, with a worker, or counted again.
CountInPool ==
    /\ next <= Count(src)
    /\ closed => next = Count(src) \/ ctxDone \/ poolDone
    /\ \A w \in Workers :
        /\ pc[w] = "gone" /\ err[w] = "none" => closed /\ jobs = <<>>
        /\ err[w] # "incomplete"
    /\ errCh # <<"incomplete">>
    /\ partCount + Len(jobs) + Cardinality(Holding) = next

Counted == NoPartLost /\ (main = "pool" => CountInPool)

(* The parts that workers have are finitely many. *)
LEMMA HoldingIsFinite == IsFiniteSet(Holding) /\ Cardinality(Holding) \in Nat
BY DownloadAssumption, FS_Subset, FS_CardinalityType DEF Holding

(* A worker takes up a part. *)
LEMMA OneMore ==
    ASSUME NEW w \in Workers, w \notin Holding, Holding' = Holding \cup {w}
    PROVE  Cardinality(Holding') = Cardinality(Holding) + 1
BY HoldingIsFinite, FS_AddElement

(* A worker is done with a part. *)
LEMMA OneLess ==
    ASSUME NEW w \in Holding, Holding' = Holding \ {w}
    PROVE  Cardinality(Holding') = Cardinality(Holding) - 1
BY HoldingIsFinite, FS_RemoveElement

(* A worker loses no part. *)
LEMMA WorkerCounted ==
    ASSUME Typed, Cause, Counted, NEW w \in Workers, Worker(w)
    PROVE  Counted'
<1>1. main = "pool" /\ CauseOfPool /\ CountInPool
    BY DEF Typed, Running, NoGoroutineLeft, Cause, Counted, Worker, Take, Leave, Open, Request, Read, Stat,
           Report, Cancel, At
<1>2. UNCHANGED <<main, src, result, ctxDone>>
    BY DEF callVars, Worker, Take, Leave, Open, Request, Read, Stat, Report, Cancel
<1> SUFFICES CountInPool' BY <1>2 DEF Counted, NoPartLost
<1>3. Len(jobs) \in Nat /\ Cardinality(Holding) \in Nat /\ partCount \in Nat
    BY HoldingIsFinite, LenProperties DEF Typed, ChanTypes, PoolTypes
<1>4. Count(src)' = Count(src) BY <1>2 DEF Count
<1> USE <1>1, <1>2, <1>4 DEF CauseOfPool, CountInPool, At, Goto, Fail, chanVars, poolVars, Typed, WorkTypes
<1>6. CASE Take(w)
    <2>1. Len(Tail(jobs)) = Len(jobs) - 1 BY <1>6, HeadTailProperties DEF Take, ChanTypes
    <2>2. w \notin Holding /\ Holding' = Holding \cup {w} BY <1>6 DEF Take, Holding, Holds
    <2>3. Cardinality(Holding') = Cardinality(Holding) + 1 BY <2>2, OneMore
    <2>4. (partCount + Len(jobs) + Cardinality(Holding) = next)'
        BY <1>3, <1>6, <2>1, <2>3 DEF Take
    <2> QED BY <1>6, <2>4 DEF Take
<1>7. CASE Stat(w)
    <2>1. CASE Len(parts[idx[w]]) = RangeLen(idx[w])
        <3>1. w \in Holding /\ Holding' = Holding \ {w} BY <1>7, <2>1 DEF Stat, Holding, Holds
        <3>2. Cardinality(Holding') = Cardinality(Holding) - 1 BY <3>1, OneLess
        <3>3. (partCount + Len(jobs) + Cardinality(Holding) = next)'
            BY <1>3, <1>7, <2>1, <3>2 DEF Stat
        <3> QED BY <1>7, <2>1, <3>3 DEF Stat
    <2>2. CASE Len(parts[idx[w]]) # RangeLen(idx[w])
        <3>1. Holding' = Holding BY <1>7, <2>2 DEF Stat, Holding, Holds
        <3> QED BY <1>7, <2>2, <3>1 DEF Stat
    <2> QED BY <2>1, <2>2
<1>8. CASE Leave(w)
    <2>1. Holding' = Holding BY <1>8 DEF Leave, Holding, Holds
    <2> QED BY <1>8, <2>1 DEF Leave
<1>9. CASE Open(w) \/ Request(w) \/ Read(w)
    <2>1. Holding' = Holding BY <1>9 DEF Open, Request, Read, Holding, Holds
    <2> QED BY <1>9, <2>1 DEF Open, Request, Read
<1>10. CASE Report(w) \/ Cancel(w)
    <2>1. Holding' = Holding BY <1>10 DEF Report, Cancel, Holding, Holds
    <2> QED BY <1>10, <2>1 DEF Report, Cancel, Running
<1> QED BY <1>6, <1>7, <1>8, <1>9, <1>10 DEF Worker

(* The producer counts what it sends, and the caller finds all parts counted. *)
LEMMA NextCounted == Typed /\ Cause /\ Counted /\ [Next]_vars => Counted'
<1> SUFFICES ASSUME Typed, Cause, Counted, [Next]_vars PROVE Counted' OBVIOUS
<1> USE DEF Counted, NoPartLost, Return, Continue, callVars
<1>1. ASSUME NEW s \in Sources, Call(s) PROVE Counted' BY <1>1 DEF Call
<1>2. CASE ProbeFails \/ ProbeStream BY <1>2 DEF ProbeFails, ProbeStream
<1>3. CASE StartPool
    <2>1. Holding' = {} BY <1>3 DEF StartPool, Holding, Holds
    <2>2. Cardinality(Holding') = 0 BY <2>1, FS_EmptySet
    <2>3. Count(src) \in Nat /\ Count(src)' = Count(src)
        BY <1>3, PartArithmetic DEF StartPool, Typed, CallTypes, Continue, Count
    <2>4. CountInPool' BY <1>3, <2>2, <2>3, EmptySeq DEF StartPool, CountInPool
    <2> QED BY <1>3, <2>4 DEF StartPool
<1>4. CASE Join
    <2>1. CASE errCh # <<>>
        <3>1. errCh = <<Head(errCh)>> BY <2>1, OneError DEF Typed
        <3>2. Head(errCh) # "incomplete" BY <1>4, <3>1 DEF Join, CountInPool
        <3> QED BY <1>4, <2>1, <3>2 DEF Join
    <2>2. CASE errCh = <<>> /\ ~ctxDone
        <3>1. Holding = {} BY <1>4, <2>2 DEF Join, Cause, CauseOfPool, Holding, Holds
        <3>2. PICK w \in Workers : TRUE BY DownloadAssumption
        <3>3. jobs = <<>> BY <1>4, <2>2, <3>2 DEF Join, Cause, CauseOfPool, CountInPool
        <3>4. next = Count(src) BY <1>4, <2>2 DEF Join, Cause, CauseOfPool, CountInPool
        <3>5. partCount = Count(src)
            BY <1>4, <3>1, <3>3, <3>4, FS_EmptySet, EmptySeq
            DEF Join, CountInPool, Typed, PoolTypes
        <3> QED BY <1>4, <2>2, <3>5 DEF Join
    <2>3. CASE errCh = <<>> /\ ctxDone BY <1>4, <2>3 DEF Join
    <2> QED BY <2>1, <2>2, <2>3
<1>5. CASE Create \/ Assemble \/ Clean BY <1>5 DEF Create, Assemble, Clean
<1>6. CASE StreamOpen \/ StreamRead \/ StreamEnd BY <1>6 DEF StreamOpen, StreamRead, StreamEnd
<1>7. CASE Produce
    <2>1. Holding' = Holding BY <1>7 DEF Produce, workVars, Holding, Holds
    <2>2. Len(jobs)' = Len(jobs) + 1 /\ Len(jobs) \in Nat /\ jobs' # <<>>
        BY <1>7 DEF Produce, Typed, ChanTypes
    <2>3. Count(src) \in Nat /\ Count(src)' = Count(src)
        BY <1>7, PartArithmetic DEF Produce, Typed, CallTypes, Count
    <2>4. CountInPool' BY <1>7, <2>1, <2>2, <2>3, HoldingIsFinite
        DEF Produce, CountInPool, Typed, ChanTypes, PoolTypes, workVars, poolVars
    <2> QED BY <1>7, <2>4 DEF Produce
<1>8. CASE Close
    <2>1. Holding' = Holding BY <1>8 DEF Close, workVars, Holding, Holds
    <2>2. Count(src)' = Count(src) BY <1>8 DEF Close, Count
    <2> QED BY <1>8, <2>1, <2>2 DEF Close, CountInPool, workVars, poolVars, PoolCtxDone
<1>9. CASE CancelCall
    <2>1. Holding' = Holding BY <1>9 DEF CancelCall, workVars, Holding, Holds
    <2>2. Count(src)' = Count(src) BY <1>9 DEF CancelCall, Count
    <2> QED BY <1>9, <2>1, <2>2 DEF CancelCall, CountInPool, workVars, poolVars, chanVars
<1>10. CASE Kill BY <1>10 DEF Kill, Idle
<1>11. CASE UNCHANGED vars
    <2>1. Holding' = Holding /\ Count(src)' = Count(src) BY <1>11 DEF vars, Holding, Holds, Count
    <2> QED BY <1>11, <2>1 DEF vars, CountInPool
<1> QED BY <1>1, <1>2, <1>3, <1>4, <1>5, <1>6, <1>7, <1>8, <1>9, <1>10, <1>11, WorkerCounted
        DEF Next, Caller, Producer

\* Every part is in one place: to produce, in a channel, with a worker, or counted.
LEMMA AlwaysCounted == Spec => []Counted
<1>1. Init => Counted BY DEF Init, Counted, NoPartLost
<1> QED BY <1>1, NextCounted, AlwaysTyped, AlwaysCause, PTL DEF Spec

(* A pool that ends without an error and without a cancellation has counted all parts: none   *)
(* is lost between producer and workers, however many there are and however they interleave.  *)
THEOREM AllPartsCounted == Spec => []NoPartLost
<1>1. Counted => NoPartLost BY DEF Counted
<1> QED BY <1>1, AlwaysCounted, PTL

----------------------------------------------------------------------------
(* The parts, each with at most one worker *)

Taken == next - Len(jobs)
IsFull(i) == Len(parts[i]) = RangeLen(i)

\* Parts are taken in order, no two workers have the same one, and one that no worker has
\* is full; a worker reads from the end of what its part file holds.
PartsInPool ==
    /\ \A k \in 1..Len(jobs) : jobs[k] = Taken + k - 1
    /\ \A w \in Holding : idx[w] < Taken
    /\ \A v, w \in Holding : idx[v] = idx[w] => v = w
    /\ \A i \in 0..(Taken - 1) : IsFull(i) \/ \E w \in Holding : idx[w] = i
    /\ \A w \in Workers : pc[w] \in {"request", "read"} => at[w] = Resume(idx[w])

Assigned == main = "pool" => PartsInPool

(* Parts are taken from 0 on, and belong to the source. *)
LEMMA TakenBounds ==
    ASSUME Typed, Counted, main = "pool"
    PROVE  /\ Taken \in Nat /\ Taken <= Count(src)
           /\ Len(jobs) \in Nat /\ next \in Nat /\ Count(src) \in Nat
           /\ \A w \in Workers : idx[w] \in Nat /\ idx[w] \in PartIds
<1>1. Len(jobs) \in Nat /\ next \in Nat /\ partCount \in Nat
    BY LenProperties DEF Typed, ChanTypes, PoolTypes
<1>2. Count(src) \in Nat BY PartArithmetic DEF Typed, CallTypes
<1>3. \A w \in Workers : idx[w] \in Nat /\ idx[w] \in PartIds
    BY PartNumbers DEF Typed, WorkTypes
<1> QED BY <1>1, <1>2, <1>3, HoldingIsFinite DEF Counted, CountInPool, Taken

(* A worker writes to no part but its own. *)
LEMMA WriteAssigned ==
    ASSUME Typed, PartsInPool, NEW w \in Workers, pc[w] = "read", Write(w), idx' = idx,
           UNCHANGED src, Holding' = Holding, UNCHANGED chanVars,
           \A v \in Workers : pc'[v] \in {"request", "read"} => pc[v] \in {"request", "read"}
    PROVE  PartsInPool'
<1> DEFINE i == idx[w]
           u == <<src, at[w]>>
<1>0. u \in Unit BY DEF u, Typed, CallTypes, WorkTypes, Unit
<1>1. i \in PartIds /\ parts[i] \in Seq(Unit) /\ at[w] \in Nat /\ at \in [Workers -> Nat]
    BY DEF Typed, FileTypes, WorkTypes
<1>2. parts' = [parts EXCEPT ![i] = Append(@, u)] BY DEF Write
<1>3. Len(parts'[i]) = Len(parts[i]) + 1 /\ Len(parts[i]) \in Nat
    BY <1>0, <1>1, <1>2, AppendProperties, LenProperties DEF Typed, FileTypes
<1>4. \A j \in PartIds : j # i => parts'[j] = parts[j] BY <1>2 DEF Typed, FileTypes
<1>5. w \in Holding BY DEF Holding, Holds
<1>6. Taken' = Taken /\ jobs' = jobs BY DEF Taken, chanVars
<1>7. \A j : RangeLen(j)' = RangeLen(j) BY DEF RangeLen, End
<1>8. ASSUME NEW j \in 0..(Taken' - 1)
      PROVE  IsFull(j)' \/ \E v \in Holding' : idx'[v] = j
    <2>1. CASE j = i BY <1>5, <2>1
    <2>2. CASE j # i
        <3>1. parts'[j] = parts[j]
            BY <1>2, <2>2 DEF Typed, FileTypes
        <3>2. IsFull(j)' <=> IsFull(j) BY <1>7, <3>1 DEF IsFull
        <3> QED BY <1>6, <3>2 DEF PartsInPool
    <2> QED BY <2>1, <2>2
<1>9. ASSUME NEW v \in Workers, pc'[v] \in {"request", "read"}
      PROVE  at'[v] = Resume(idx[v])'
    <2>1. at[v] = Start(idx[v]) + Len(parts[idx[v]]) BY <1>9 DEF PartsInPool, Resume
    <2>2. CASE v = w
        <3>1. at'[w] = at[w] + 1 BY <1>1 DEF Write
        <3>2. Start(i) \in Nat BY <1>1, PartNumbers, StartArithmetic
        <3> QED BY <1>3, <2>1, <2>2, <3>1, <3>2 DEF Resume
    <2>3. CASE v # w
        <3>1. v \in Holding BY <1>9 DEF Holding, Holds
        <3>2. idx[v] # i /\ idx[v] \in PartIds
            BY <1>5, <2>3, <3>1 DEF PartsInPool, Typed, WorkTypes
        <3>3. at'[v] = at[v] BY <1>1, <2>3 DEF Write
        <3> QED BY <1>4, <2>1, <3>2, <3>3 DEF Resume
    <2> QED BY <2>2, <2>3
<1> QED BY <1>6, <1>8, <1>9 DEF PartsInPool

(* A worker takes the first part nobody has, and leaves it when it is full. *)
LEMMA WorkerAssigned ==
    ASSUME Typed, Cause, Counted, Assigned, NEW w \in Workers, Worker(w)
    PROVE  Assigned'
<1>1. main = "pool" /\ CauseOfPool /\ PartsInPool
    BY DEF Typed, Running, NoGoroutineLeft, Cause, Assigned, Worker, Take, Leave, Open, Request,
           Read, Stat, Report, Cancel, At
<1>2. UNCHANGED <<main, src>>
    BY DEF callVars, Worker, Take, Leave, Open, Request, Read, Stat, Report, Cancel
<1> SUFFICES PartsInPool' BY <1>2 DEF Assigned
<1>3. /\ Taken \in Nat /\ Len(jobs) \in Nat /\ next \in Nat
      /\ \A v \in Workers : idx[v] \in Nat /\ idx[v] \in PartIds
    BY <1>1, TakenBounds
<1>4. \A j : RangeLen(j)' = RangeLen(j) BY <1>2 DEF RangeLen, End
<1>5. ASSUME UNCHANGED <<parts, chanVars, idx, at>>, Holding' = Holding,
             \A v \in Workers : pc'[v] \in {"request", "read"} => pc[v] \in {"request", "read"}
      PROVE  PartsInPool'
    BY <1>1, <1>4, <1>5 DEF PartsInPool, chanVars, Taken, IsFull, Resume
<1>6. CASE Take(w)
    <2>1. /\ Head(jobs) = jobs[1] /\ Len(Tail(jobs)) = Len(jobs) - 1 /\ Len(jobs) >= 1
          /\ \A k \in 1..Len(Tail(jobs)) : Tail(jobs)[k] = jobs[k + 1]
        BY <1>3, <1>6, HeadTailProperties DEF Take, Typed, ChanTypes
    <2>2. jobs' = Tail(jobs) /\ next' = next /\ parts' = parts /\ at' = at
        BY <1>6 DEF Take, fileVars
    <2>3. Taken' = Taken + 1
        <3>1. Len(jobs') = Len(jobs) - 1 BY <2>1, <2>2
        <3>2. Taken' = next - Len(jobs') BY <2>2 DEF Taken
        <3> QED BY <1>3, <3>1, <3>2 DEF Taken
    <2>4. Head(jobs) = Taken BY <1>1, <1>3, <2>1 DEF PartsInPool
    <2>5. idx' = [idx EXCEPT ![w] = Taken] BY <1>6, <2>4 DEF Take
    <2>6. w \notin Holding /\ Holding' = Holding \cup {w}
        BY <1>1, <1>6 DEF Take, Holding, Holds, CauseOfPool, At, Goto, Typed, WorkTypes
    <2>7. \A v \in Workers : idx'[v] = IF v = w THEN Taken ELSE idx[v]
        BY <2>5 DEF Typed, WorkTypes
    <2>8. \A k \in 1..Len(jobs') : jobs'[k] = Taken' + k - 1
        BY <1>1, <1>3, <2>1, <2>2, <2>3 DEF PartsInPool
    <2>9. \A v \in Holding' : idx'[v] < Taken'
        BY <1>1, <1>3, <2>3, <2>6, <2>7 DEF PartsInPool, Holding
    <2>10. \A u, v \in Holding' : idx'[u] = idx'[v] => u = v
        BY <1>1, <1>3, <2>6, <2>7 DEF PartsInPool, Holding
    <2>11. \A i \in 0..(Taken' - 1) : IsFull(i)' \/ \E v \in Holding' : idx'[v] = i
        <3> SUFFICES ASSUME NEW i \in 0..(Taken' - 1)
                     PROVE  IsFull(i)' \/ \E v \in Holding' : idx'[v] = i
            OBVIOUS
        <3>1. CASE i = Taken BY <2>6, <2>7, <3>1
        <3>2. CASE i # Taken
            <4>1. i \in 0..(Taken - 1) BY <1>3, <2>3, <3>2
            <4>2. IsFull(i)' <=> IsFull(i) BY <1>4, <2>2 DEF IsFull
            <4>3. \A v \in Holding : v # w /\ v \in Workers BY <2>6 DEF Holding
            <4> QED BY <1>1, <2>6, <2>7, <4>1, <4>2, <4>3 DEF PartsInPool
        <3> QED BY <3>1, <3>2
    <2>12. \A v \in Workers : pc'[v] \in {"request", "read"} => at'[v] = Resume(idx[v])'
        <3>1. \A v \in Workers : pc'[v] \in {"request", "read"} => v # w /\ pc[v] = pc'[v]
            BY <1>6 DEF Take, Goto, Typed, WorkTypes
        <3> QED BY <1>1, <2>2, <2>7, <3>1 DEF PartsInPool, Resume
    <2> QED BY <2>8, <2>9, <2>10, <2>11, <2>12 DEF PartsInPool
<1>7. CASE Leave(w) \/ Report(w) \/ Cancel(w)
    <2>1. Holding' = Holding
        BY <1>7 DEF Leave, Report, Cancel, Holding, Holds, At, Goto, Typed, WorkTypes, Running
    <2> QED BY <1>5, <1>7, <2>1 DEF Leave, Report, Cancel, Goto, fileVars, Typed, WorkTypes
<1>8. CASE Open(w)
    <2>1. Holding' = Holding
        BY <1>8 DEF Open, Holding, Holds, At, Goto, Fail, Typed, WorkTypes
    <2>2. UNCHANGED <<parts, chanVars, idx>> BY <1>8 DEF Open, fileVars
    <2>3. \A v \in Workers : pc'[v] \in {"request", "read"} => at'[v] = Resume(idx[v])
        BY <1>1, <1>8 DEF Open, At, Goto, Fail, Typed, WorkTypes, PartsInPool
    <2>4. \A v : Resume(idx[v])' = Resume(idx[v]) BY <2>2 DEF Resume
    <2> QED BY <1>1, <1>4, <2>1, <2>2, <2>3, <2>4 DEF PartsInPool, chanVars, Taken, IsFull
<1>9. CASE Request(w)
    <2>1. Holding' = Holding
        BY <1>9 DEF Request, Holding, Holds, At, Goto, Fail, Typed, WorkTypes
    <2> QED BY <1>5, <1>9, <2>1 DEF Request, At, Goto, Fail, fileVars, Typed, WorkTypes
<1>10. CASE Read(w)
    <2>1. Holding' = Holding
        BY <1>10 DEF Read, Holding, Holds, At, Goto, Fail, Typed, WorkTypes
    <2>2. UNCHANGED <<chanVars, idx>> /\ pc[w] = "read" BY <1>10 DEF Read, At
    <2>3. \A v \in Workers : pc'[v] \in {"request", "read"} => pc[v] \in {"request", "read"}
        BY <1>10 DEF Read, At, Goto, Fail, Typed, WorkTypes
    <2>4. Write(w) \/ UNCHANGED <<parts, at>> BY <1>10 DEF Read
    <2> QED BY <1>1, <1>2, <1>5, <2>1, <2>2, <2>3, <2>4, WriteAssigned
<1>11. CASE Stat(w)
    <2>1. CASE IsFull(idx[w])
        <3>1. w \in Holding /\ Holding' = Holding \ {w}
            BY <1>1, <1>11, <2>1
            DEF Stat, Holding, Holds, At, Goto, IsFull, CauseOfPool, Typed, WorkTypes
        <3>2. UNCHANGED <<parts, chanVars, idx, at>> BY <1>11, <2>1 DEF Stat, fileVars, IsFull
        <3>3. \A v \in Workers : pc'[v] \in {"request", "read"} => pc[v] \in {"request", "read"}
            BY <1>11, <2>1 DEF Stat, IsFull, Goto, Typed, WorkTypes
        <3>4. \A i : IsFull(i)' <=> IsFull(i) BY <1>4, <3>2 DEF IsFull
        <3>5. Taken' = Taken /\ jobs' = jobs BY <3>2 DEF Taken, chanVars
        <3>6. \A i \in 0..(Taken' - 1) : IsFull(i)' \/ \E v \in Holding' : idx'[v] = i
            BY <1>1, <2>1, <3>1, <3>2, <3>4, <3>5 DEF PartsInPool
        <3>7. \A v \in Workers : pc'[v] \in {"request", "read"} => at'[v] = Resume(idx[v])'
            BY <1>1, <3>2, <3>3 DEF PartsInPool, Resume
        <3> QED BY <1>1, <3>1, <3>2, <3>5, <3>6, <3>7 DEF PartsInPool
    <2>2. CASE ~IsFull(idx[w])
        <3>1. Holding' = Holding
            BY <1>11, <2>2 DEF Stat, Holding, Holds, At, Goto, Fail, IsFull, Typed, WorkTypes
        <3> QED BY <1>5, <1>11, <2>2, <3>1
                DEF Stat, IsFull, Goto, Fail, fileVars, chanVars, Typed, WorkTypes
    <2> QED BY <2>1, <2>2
<1> QED BY <1>6, <1>7, <1>8, <1>9, <1>10, <1>11 DEF Worker

(* The producer appends the part that follows, and a new pool has taken none. *)
LEMMA NextAssigned == Typed /\ Cause /\ Counted /\ Assigned /\ [Next]_vars => Assigned'
<1> SUFFICES ASSUME Typed, Cause, Counted, Assigned, [Next]_vars, main' = "pool"
             PROVE  PartsInPool'
    BY DEF Assigned
<1> USE DEF Return, Continue, callVars
<1>1. CASE StartPool
    <2>1. next' = 0 /\ Len(jobs') = 0 BY <1>1, EmptyChannels DEF StartPool
    <2>2. Holding' = {} BY <1>1 DEF StartPool, Holding, Holds
    <2>3. Taken' = 0 BY <2>1 DEF Taken
    <2> QED BY <1>1, <2>1, <2>2, <2>3 DEF StartPool, PartsInPool
<1>2. CASE Produce
    <2>1. Taken \in Nat /\ Len(jobs) \in Nat /\ next \in Nat /\ PartsInPool
        BY <1>2, TakenBounds DEF Produce, Assigned
    <2>2. Len(jobs') = Len(jobs) + 1 /\ jobs'[Len(jobs) + 1] = next
          /\ \A k \in 1..Len(jobs) : jobs'[k] = jobs[k]
        BY <1>2 DEF Produce, Typed, ChanTypes
    <2>3. Taken' = Taken BY <1>2, <2>1, <2>2 DEF Produce, Taken
    <2>4. \A k \in 1..Len(jobs') : jobs'[k] = Taken' + k - 1
        <3> SUFFICES ASSUME NEW k \in 1..Len(jobs') PROVE jobs'[k] = Taken' + k - 1 OBVIOUS
        <3>1. CASE k = Len(jobs) + 1 BY <2>1, <2>2, <2>3, <3>1 DEF Taken
        <3>2. CASE k # Len(jobs) + 1
            <4>1. k \in 1..Len(jobs) BY <2>1, <2>2, <3>2
            <4> QED BY <2>1, <2>2, <2>3, <4>1 DEF PartsInPool
        <3> QED BY <3>1, <3>2
    <2>5. UNCHANGED <<parts, src, idx, at, pc, err>> BY <1>2 DEF Produce, fileVars, workVars
    <2>6. Holding' = Holding /\ (\A i : IsFull(i)' <=> IsFull(i))
          /\ (\A w : Resume(idx[w])' = Resume(idx[w]))
        BY <2>5 DEF Holding, Holds, IsFull, RangeLen, End, Resume
    <2> QED BY <2>1, <2>3, <2>4, <2>5, <2>6 DEF PartsInPool
<1>3. ASSUME UNCHANGED <<main, src, parts, next, jobs, idx, at, pc, err>>
      PROVE  PartsInPool'
    <2>1. Holding' = Holding /\ (\A i : IsFull(i)' <=> IsFull(i)) /\ Taken' = Taken
          /\ (\A w : Resume(idx[w])' = Resume(idx[w]))
        BY <1>3 DEF Holding, Holds, IsFull, RangeLen, End, Resume, Taken
    <2>2. PartsInPool BY <1>3 DEF Assigned
    <2> QED BY <1>3, <2>1, <2>2 DEF PartsInPool
<1>4. CASE Close \/ CancelCall \/ UNCHANGED vars
    BY <1>3, <1>4 DEF Close, CancelCall, vars, fileVars, chanVars, workVars
<1>5. ASSUME NEW w \in Workers, Worker(w) PROVE PartsInPool'
    BY <1>5, WorkerAssigned DEF Assigned
<1>6. ~Kill /\ (\A s \in Sources : ~Call(s)) BY DEF Kill, Call
<1>7. ~ProbeFails /\ ~ProbeStream /\ ~Join /\ ~Create /\ ~Assemble /\ ~Clean
      /\ ~StreamOpen /\ ~StreamRead /\ ~StreamEnd
    BY DEF ProbeFails, ProbeStream, Join, Create, Assemble, Clean, StreamOpen, StreamRead, StreamEnd
<1> QED BY <1>1, <1>2, <1>4, <1>5, <1>6, <1>7 DEF Next, Caller, Producer

\* No two workers write one part.
LEMMA AlwaysAssigned == Spec => []Assigned
<1>1. Init => Assigned BY DEF Init, Assigned
<1> QED BY <1>1, NextAssigned, AlwaysTyped, AlwaysCause, AlwaysCounted, PTL DEF Spec

----------------------------------------------------------------------------
(* What is in the files *)

\* The destination is asked for from one place that honours Range.
OneRanged == \A s, t \in Ranged : s = t

\* A part file holds units of the source, in order, from where the part starts.
Contents ==
    \A i \in PartIds : \A k \in 1..Len(parts[i]) : \A s \in Ranged :
        parts[i][k] = <<s, Start(i) + k - 1>>

(* What a call appends to a part file follows what any call before it left there. *)
LEMMA NextContents ==
    ASSUME OneRanged, Typed, Assigned, Contents, [Next]_vars
    PROVE  Contents'
<1>1. CASE UNCHANGED parts BY <1>1 DEF Contents
<1>2. CASE Clean
    <2>1. \A i \in PartIds : parts'[i] = <<>> \/ parts'[i] = parts[i]
        BY <1>2 DEF Clean, NoParts
    <2> QED BY <2>1, EmptyChannels DEF Contents
<1>3. ASSUME NEW w \in Workers, Read(w) PROVE Contents'
    <2>1. CASE UNCHANGED parts BY <2>1, <1>1
    <2>2. CASE Write(w)
        <3> DEFINE j == idx[w]
                   u == <<src, at[w]>>
        <3>1. main = "pool" /\ src \in Ranged /\ pc[w] = "read"
            BY <1>3 DEF Read, At, Typed, Running, NoGoroutineLeft
        <3>2. at[w] = Start(j) + Len(parts[j]) BY <3>1 DEF Assigned, PartsInPool, Resume
        <3>3. u \in Unit /\ j \in PartIds /\ parts[j] \in Seq(Unit) /\ Start(j) \in Nat
            BY PartNumbers, StartArithmetic DEF Typed, FileTypes, CallTypes, WorkTypes, Unit
        <3>4. parts' = [parts EXCEPT ![j] = Append(@, u)] BY <2>2 DEF Write
        <3> HIDE DEF u
        <3>5. parts'[j] = Append(parts[j], u) BY <3>3, <3>4 DEF Typed, FileTypes
        <3>6. /\ Len(parts[j]) \in Nat /\ Len(parts'[j]) = Len(parts[j]) + 1
              /\ parts'[j][Len(parts[j]) + 1] = u
              /\ \A k \in 1..Len(parts[j]) : parts'[j][k] = parts[j][k]
            BY <3>3, <3>5
        <3>7. ASSUME NEW i \in PartIds, NEW k \in 1..Len(parts'[i]), NEW s \in Ranged
              PROVE  parts'[i][k] = <<s, Start(i) + k - 1>>
            <4>1. CASE i # j BY <3>4, <4>1 DEF Typed, FileTypes, Contents
            <4>2. CASE i = j /\ k # Len(parts[j]) + 1
                <5>1. k \in 1..Len(parts[j]) BY <3>6, <4>2
                <5> QED BY <3>3, <3>6, <4>2, <5>1 DEF Contents
            <4>3. CASE i = j /\ k = Len(parts[j]) + 1
                <5>1. s = src BY <3>1 DEF OneRanged
                <5>2. Start(i) + k - 1 = at[w] BY <3>2, <3>3, <3>6, <4>3
                <5> QED BY <3>6, <4>3, <5>1, <5>2 DEF u
            <4> QED BY <4>1, <4>2, <4>3
        <3> QED BY <3>7 DEF Contents
    <2> QED BY <1>3, <2>1, <2>2 DEF Read
<1>4. CASE Create \/ Assemble \/ StreamOpen \/ StreamRead
    BY <1>1, <1>4 DEF Create, Assemble, StreamOpen, StreamRead
<1> QED BY <1>1, <1>2, <1>3, <1>4, Frames DEF fileVars

\* What a part file holds is the beginning of its part.
LEMMA AlwaysContents == ASSUME OneRanged PROVE Spec => []Contents
<1>1. Init => Contents BY EmptyChannels DEF Init, Contents, NoParts
<1>2. Typed /\ Assigned /\ Contents /\ [Next]_vars => Contents' BY NextContents
<1> QED BY <1>1, <1>2, AlwaysTyped, AlwaysAssigned, PTL DEF Spec

IsPrefix == \A k \in 1..Len(out) : out[k] = <<src, k - 1>>

\* The caller comes to the parts when all of them are full, and has the beginning of the
\* source in the destination while it appends.
Assembled ==
    /\ main \in {"create", "assemble", "clean"} => \A i \in 0..(Count(src) - 1) : IsFull(i)
    /\ main = "assemble" =>
        /\ step <= Count(src) /\ IsPrefix
        /\ Len(out) = IF Start(step) < Length[src] THEN Start(step) ELSE Length[src]
    /\ main = "clean" => out = FileOf(src)
    /\ main = "stream" => step <= Length[src] /\ Len(out) = step /\ IsPrefix
    /\ CompleteFile

(* A destination in the order of the source is the beginning of it that is as long. *)
LEMMA WholePrefix ==
    ASSUME Typed, IsPrefix
    PROVE  out = Beginning(src, Len(out))
<1>1. out \in Seq(Unit) BY DEF Typed, FileTypes
<1>2. out = [k \in 1..Len(out) |-> out[k]] BY <1>1, LenProperties
<1> QED BY <1>2 DEF Beginning, IsPrefix

(* The last worker that leaves an untroubled pool leaves all parts full. *)
LEMMA JoinFull ==
    ASSUME Typed, Cause, Counted, Assigned, Join, main' = "create"
    PROVE  \A i \in 0..(Count(src) - 1) : IsFull(i)
<1>1. main = "pool" /\ errCh = <<>> /\ ~ctxDone
    BY DEF Join, Return, Continue
<1>2. Holding = {} BY <1>1 DEF Join, Cause, CauseOfPool, Holding, Holds
<1>3. PICK w \in Workers : TRUE BY DownloadAssumption
<1>4. jobs = <<>> /\ next = Count(src)
    BY <1>1, <1>3 DEF Join, Cause, CauseOfPool, Counted, CountInPool
<1>5. Len(jobs) = 0 BY <1>4, EmptyChannels
<1>6. Taken = Count(src) BY <1>1, <1>4, <1>5, TakenBounds DEF Taken
<1> QED BY <1>1, <1>2, <1>6 DEF Assigned, PartsInPool

(* The caller appends the parts of the source, or its stream, in order. *)
LEMMA NextAssembled ==
    ASSUME OneRanged, Typed, Cause, Counted, Assigned, Contents, Assembled, [Next]_vars
    PROVE  Assembled'
<1>0. src \in Sources /\ Length[src] \in Nat /\ step \in Nat /\ Count(src) \in Nat
      /\ out \in Seq(Unit) /\ Len(out) \in Nat
    BY PartArithmetic, LenProperties DEF Typed, CallTypes, FileTypes
<1>1. UNCHANGED src => Count(src)' = Count(src) /\ \A i : RangeLen(i)' = RangeLen(i)
    BY DEF Count, RangeLen, End
<1> USE DEF Assembled, CompleteFile, IsPrefix, callVars, Return, Continue
<1>c. /\ result # "none" \/ cut => main = "idle"
      /\ (result # "none" \/ cut => main = "idle")'
    BY NextRunning DEF Typed, Running
<1>2. ASSUME NEW s \in Sources, Call(s) PROVE Assembled' BY <1>2 DEF Call
<1>3. CASE ProbeFails BY <1>3 DEF ProbeFails
<1>4. CASE ProbeStream BY <1>4 DEF ProbeStream, fileVars
<1>5. CASE StartPool BY <1>5 DEF StartPool, fileVars
<1>6. CASE Join
    <2>1. main' = "create" => \A i \in 0..(Count(src) - 1) : IsFull(i) BY <1>6, JoinFull
    <2>2. UNCHANGED <<src, parts>> /\ main' \in {"create", "idle"} /\ (result' = "ok" => result = "ok")
        BY <1>6 DEF Join, fileVars, Typed, PoolTypes, Errors
    <2> QED BY <1>1, <1>6, <2>1, <2>2 DEF Join, IsFull, fileVars
<1>7. CASE Create
    <2>1. UNCHANGED <<src, parts>> BY <1>7 DEF Create
    <2>2. CASE main' = "assemble"
        <3>1. step' = 0 /\ out' = <<>> /\ result' = result /\ main = "create" BY <1>7, <2>2 DEF Create
        <3>2. Len(out') = 0 /\ Start(step') = 0 BY <3>1, EmptyChannels, StartArithmetic
        <3> QED BY <1>0, <1>1, <2>1, <2>2, <3>1, <3>2 DEF IsFull, Typed, Running
    <2>3. CASE main' # "assemble" BY <1>7, <2>3 DEF Create
    <2> QED BY <2>2, <2>3
<1>8. CASE Assemble
    <2>1. UNCHANGED <<src, parts>> /\ main = "assemble" /\ result # "ok"
        BY <1>8 DEF Assemble, Typed, Running
    <2>2. \A i \in 0..(Count(src) - 1) : IsFull(i)' BY <1>1, <2>1 DEF IsFull
    <2>3. CASE step < Count(src) /\ out' = out \o parts[step] /\ step' = step + 1
               /\ UNCHANGED <<main, result>>
        <3> DEFINE p == parts[step]
        <3>1. step \in PartIds /\ step \in 0..(Count(src) - 1) BY <1>0, <2>3, PartNumbers
        <3>2. p \in Seq(Unit) /\ Len(p) = RangeLen(step)
            BY <2>1, <3>1 DEF IsFull, Typed, FileTypes
        <3>3. /\ RangeLen(step) \in Nat /\ Start(step) \in Nat /\ PartSize \in Nat
              /\ RangeLen(step) = IF Start(step + 1) <= Length[src] THEN PartSize
                                  ELSE Length[src] - Start(step)
              /\ Start(step + 1) = Start(step) + PartSize
            BY <1>0, <3>1, RangeArithmetic, StartArithmetic
        <3>4. Start(step) < Length[src] BY <1>0, <2>3, PartArithmetic
        <3>5. Len(out) = Start(step) BY <2>1, <3>4
        <3>6. /\ Len(out') = Len(out) + Len(p)
              /\ \A k \in 1..(Len(out) + Len(p)) :
                    out'[k] = IF k <= Len(out) THEN out[k] ELSE p[k - Len(out)]
            BY <1>0, <2>3, <3>2, ConcatProperties
        <3>7. Len(out') = IF Start(step + 1) < Length[src] THEN Start(step + 1) ELSE Length[src]
            BY <1>0, <3>2, <3>3, <3>4, <3>5, <3>6
        <3>8. src \in Ranged BY <2>1 DEF Typed, Running
        <3>9. ASSUME NEW k \in 1..Len(out') PROVE out'[k] = <<src, k - 1>>
            <4>1. CASE k <= Len(out)
                <5>1. k \in 1..Len(out) BY <1>0, <4>1
                <5>2. k \in 1..(Len(out) + Len(p)) BY <1>0, <3>2, <3>3, <5>1
                <5> QED BY <2>1, <3>6, <4>1, <5>1, <5>2
            <4>2. CASE k > Len(out)
                <5> DEFINE m == k - Len(out)
                <5>1. m \in 1..Len(p) BY <1>0, <3>2, <3>3, <3>6, <4>2, SMTT(30)
                <5>2. p[m] = <<src, Start(step) + m - 1>> BY <3>1, <3>8, <5>1 DEF Contents
                <5>3. Start(step) + m - 1 = k - 1 BY <1>0, <3>3, <3>5, <4>2
                <5>4. out'[k] = p[m] BY <1>0, <3>2, <3>3, <3>6, <4>2
                <5> QED BY <5>2, <5>3, <5>4
            <4> QED BY <1>0, <4>1, <4>2
        <3>10. step' <= Count(src) /\ Count(src)' = Count(src) BY <1>0, <1>1, <2>1, <2>3
        <3> QED BY <2>1, <2>2, <2>3, <3>7, <3>9, <3>10
    <2>4. CASE main' = "idle" /\ result' # "ok" BY <2>4
    <2>5. CASE step = Count(src) /\ UNCHANGED <<out, result>> /\ Len(out) = Length[src] /\ main' = "clean"
        <3>1. out = FileOf(src) BY <2>1, <2>5, WholePrefix DEF FileOf
        <3>2. FileOf(src)' = FileOf(src) BY <2>1 DEF FileOf
        <3> QED BY <1>1, <2>1, <2>2, <2>5, <3>1, <3>2
    <2> QED BY <1>8, <2>3, <2>4, <2>5 DEF Assemble
<1>9. CASE Clean
    <2>1. main = "clean" /\ main' = "idle" /\ UNCHANGED <<out, src, cut>> BY <1>9 DEF Clean
    <2>2. ~cut BY <1>c, <2>1
    <2>3. out = Beginning(src, Length[src]) BY <2>1 DEF FileOf
    <2> QED BY <2>1, <2>2, <2>3
<1>10. CASE StreamOpen
    <2>1. UNCHANGED src /\ main = "streamOpen" /\ result # "ok"
        BY <1>10 DEF StreamOpen, Typed, Running
    <2>2. CASE main' = "stream"
        <3>1. step' = 0 /\ out' = <<>> /\ result' = result BY <1>10, <2>2 DEF StreamOpen
        <3>2. Len(out') = 0 BY <3>1, EmptyChannels
        <3> QED BY <1>0, <2>1, <2>2, <3>1, <3>2
    <2>3. CASE main' # "stream" BY <1>10, <2>1, <2>3 DEF StreamOpen
    <2> QED BY <2>2, <2>3
<1>11. CASE StreamRead
    <2>1. main = "stream" /\ step < Length[src] /\ step' = step + 1
          /\ UNCHANGED <<main, src, result>> /\ result # "ok"
        BY <1>11 DEF StreamRead, Typed, Running
    <2> DEFINE u == <<src, step>>
    <2>2. u \in Unit /\ out' = Append(out, u) BY <1>0, <1>11 DEF StreamRead, Unit
    <2> HIDE DEF u
    <2>3. /\ Len(out') = Len(out) + 1 /\ out'[Len(out) + 1] = u
          /\ \A k \in 1..Len(out) : out'[k] = out[k]
        BY <1>0, <2>2
    <2>4. ASSUME NEW k \in 1..Len(out') PROVE out'[k] = <<src, k - 1>>
        <3>1. CASE k = Len(out) + 1
            <4>1. k - 1 = step BY <1>0, <2>1, <3>1
            <4> QED BY <2>3, <3>1, <4>1 DEF u
        <3>2. CASE k # Len(out) + 1
            <4>1. k \in 1..Len(out) BY <1>0, <2>3, <3>2
            <4> QED BY <2>1, <2>3, <4>1
        <3> QED BY <3>1, <3>2
    <2> QED BY <1>0, <2>1, <2>3, <2>4
<1>12. CASE StreamEnd
    <2>1. main = "stream" /\ main' = "idle" /\ UNCHANGED <<out, src>> BY <1>12 DEF StreamEnd, fileVars
    <2>2. CASE result' = "ok"
        <3>1. out = Beginning(src, step) BY <2>1, WholePrefix
        <3>2. UNCHANGED step /\ (~cut' => step = Length[src])
            BY <1>12, <1>c, <2>1, <2>2 DEF StreamEnd
        <3> QED BY <2>1, <3>1, <3>2
    <2>3. CASE result' # "ok" BY <2>1, <2>3
    <2> QED BY <2>2, <2>3
<1>13. CASE Producer \/ CancelCall \/ UNCHANGED vars
    <2>1. UNCHANGED <<parts, out, main, src, result, cut, step>>
        BY <1>13 DEF Producer, Produce, Close, CancelCall, vars, fileVars
    <2>2. FileOf(src)' = FileOf(src) BY <2>1 DEF FileOf
    <2> QED BY <1>1, <2>1, <2>2 DEF IsFull
<1>14. ASSUME NEW w \in Workers, Worker(w) PROVE Assembled'
    <2>1. main = "pool"
        BY <1>14 DEF Typed, Running, NoGoroutineLeft, Worker, Take, Leave, Open, Request, Read, Stat,
                     Report, Cancel, At
    <2>2. UNCHANGED <<main, src, result, cut>>
        BY <1>14 DEF Worker, Take, Leave, Open, Request, Read, Stat, Report, Cancel
    <2> QED BY <2>1, <2>2 DEF Typed, Running
<1>15. CASE Kill BY <1>15 DEF Kill
<1> QED BY <1>2, <1>3, <1>4, <1>5, <1>6, <1>7, <1>8, <1>9, <1>10, <1>11, <1>12, <1>13, <1>14, <1>15
        DEF Next, Caller

(* A call that succeeds leaves the whole source in the destination, in order, whatever part   *)
(* files earlier calls left there and wherever they failed or were killed, as a pool or as    *)
(* the stream a probe fell back to; and what came before it, when a stream ended early.       *)
THEOREM FileIsComplete == ASSUME OneRanged PROVE Spec => []CompleteFile
<1>1. Init => Assembled BY DEF Init, Assembled, CompleteFile
<1>2. Typed /\ Cause /\ Counted /\ Assigned /\ Contents /\ Assembled /\ [Next]_vars => Assembled'
    BY NextAssembled
<1>3. Assembled => CompleteFile BY DEF Assembled
<1> QED BY <1>1, <1>2, <1>3, AlwaysTyped, AlwaysCause, AlwaysCounted, AlwaysAssigned, AlwaysContents,
           PTL DEF Spec
=============================================================================

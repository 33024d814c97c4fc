--------------------------- MODULE RangedDownload ---------------------------
(***************************************************************************)
(* internal/fetch: Downloader.Download of a direct source, into one        *)
(* destination file, by one call after another.                            *)
(*                                                                         *)
(* A server that honours Range is read by a pool: a producer sends part    *)
(* numbers into a channel, workers fetch each part into a file of its own, *)
(* continuing a file that is there already, and the caller puts the parts  *)
(* together.  Part files outlive a call that fails or is killed.  Any      *)
(* other server is read as one stream.                                     *)
(*                                                                         *)
(* Bytes come in units, what one Read returns; a unit is its source and    *)
(* its offset.                                                             *)
(***************************************************************************)
EXTENDS Integers, Sequences, FiniteSets

CONSTANTS
    Sources,        \* what may be downloaded to the destination
    Length,         \* Sources -> Nat, in units
    Ranged,         \* the sources whose server honours Range
    PartSize,       \* d.PartSize, in units
    Workers,        \* the goroutines of the pool, d.Concurrency of them
    Faults,         \* what may go wrong: "refuse", "plain" (a server that honours Range answers the
                    \* probe without a 206 or a total), "break", "short" (the end of the body comes
                    \* early, no length tells), "long", "disk", "cancel", "kill"
    MaxCalls, MaxFaults         \* bounds: calls, and faults in all of them

ASSUME DownloadAssumption ==
    /\ Length \in [Sources -> Nat]
    /\ Ranged \subseteq Sources
    /\ PartSize \in Nat \ {0}
    /\ IsFiniteSet(Workers) /\ Workers # {}
    /\ MaxCalls \in Nat /\ MaxFaults \in Nat

VARIABLES
    parts,          \* part number -> content of the part file, <<>> when there is none
    out,            \* content of the destination
    main, src, result,      \* the caller: where it is, what it fetches, how the last call ended
    cut,            \* history, no step reads it: the last call ended at an early end of a stream
    step,           \* the caller's loop counter
    ctxDone,        \* the caller's context is cancelled
    poolDone,       \* the pool's own context is cancelled
    next, closed,   \* the producer: the next part number, and whether it closed the channel
    jobs, errCh,    \* the two channels
    partCount,      \* parts counted as complete
    pc, idx, at, err,       \* a worker: where it is, its part, the offset it reads next, its error
    calls, faults

fileVars == <<parts, out>>
callVars == <<main, src, result, cut, step, calls>>
chanVars == <<next, closed, jobs>>
poolVars == <<poolDone, errCh, partCount>>
workVars == <<pc, idx, at, err>>
vars == <<parts, out, main, src, result, cut, step, ctxDone, poolDone, next, closed, jobs, errCh,
          partCount, pc, idx, at, err, calls, faults>>

Unit == Sources \X Nat
Beginning(s, n) == [k \in 1..n |-> <<s, k - 1>>]
FileOf(s) == Beginning(s, Length[s])

Count(s) == (Length[s] + PartSize - 1) \div PartSize

PartIds == {0} \cup UNION {0..(Count(s) - 1) : s \in Sources}
NoParts == [i \in PartIds |-> <<>>]

Capacity == 2 * Cardinality(Workers)

Start(i) == i * PartSize
End(i) ==
    IF Start(i) + PartSize - 1 >= Length[src] THEN Length[src] - 1 ELSE Start(i) + PartSize - 1
RangeLen(i) == End(i) - Start(i) + 1

Errors == {"none", "canceled", "server", "size", "disk", "incomplete"}
Places == {"gone", "take", "open", "request", "read", "stat", "report", "cancel"}

PoolCtxDone == ctxDone \/ poolDone

Fault(f) == f \in Faults /\ faults < MaxFaults /\ faults' = faults + 1
NoFault == UNCHANGED faults

----------------------------------------------------------------------------
(* The call *)

Call(s) ==
    /\ main = "idle" /\ calls < MaxCalls
    /\ calls' = calls + 1
    /\ main' = "probe" /\ src' = s /\ result' = "none" /\ cut' = FALSE /\ ctxDone' = FALSE
    /\ UNCHANGED <<fileVars, step, chanVars, poolVars, workVars, faults>>

Return(r) == main' = "idle" /\ result' = r /\ UNCHANGED <<src, cut, step, calls>>
Continue(place) == main' = place /\ UNCHANGED <<src, result, cut, step, calls>>

ProbeFails ==
    /\ main = "probe"
    /\ \/ ctxDone /\ Return("canceled") /\ NoFault
       \/ Fault("refuse") /\ Return("server")
       \/ Fault("disk") /\ src \in Ranged /\ Return("disk")
    /\ UNCHANGED <<fileVars, ctxDone, chanVars, poolVars, workVars>>

ProbeStream ==      \* no 206, or no total in it: a plain stream
    /\ main = "probe" /\ ~ctxDone
    /\ IF src \in Ranged /\ Length[src] > 0 THEN Fault("plain") ELSE NoFault
    /\ Continue("streamOpen")
    /\ UNCHANGED <<fileVars, ctxDone, chanVars, poolVars, workVars>>

StartPool ==
    /\ main = "probe" /\ ~ctxDone
    /\ src \in Ranged /\ Length[src] > 0
    /\ Continue("pool")
    /\ next' = 0 /\ closed' = FALSE /\ jobs' = <<>>
    /\ poolDone' = FALSE /\ errCh' = <<>> /\ partCount' = 0
    /\ pc' = [w \in Workers |-> "take"] /\ idx' = [w \in Workers |-> 0]
    /\ at' = [w \in Workers |-> 0] /\ err' = [w \in Workers |-> "none"]
    /\ UNCHANGED <<fileVars, ctxDone, faults>>

\* Mutant of Join: the workers are not waited for.
JoinHasty ==
    /\ main = "pool" /\ closed
    /\ IF errCh # <<>> THEN Return(Head(errCh))
       ELSE IF ctxDone THEN Return("canceled")
       ELSE IF partCount # Count(src) THEN Return("incomplete")
       ELSE Continue("create")
    /\ UNCHANGED <<fileVars, ctxDone, chanVars, poolVars, workVars, faults>>

Join ==     \* <-producerDone, wg.Wait, and the three checks; cancel is deferred
    /\ main = "pool" /\ closed /\ \A w \in Workers : pc[w] = "gone"
    /\ IF errCh # <<>> THEN Return(Head(errCh))
       ELSE IF ctxDone THEN Return("canceled")
       ELSE IF partCount # Count(src) THEN Return("incomplete")
       ELSE Continue("create")
    /\ UNCHANGED <<fileVars, ctxDone, chanVars, poolVars, workVars, faults>>

Create ==
    /\ main = "create"
    /\ \/ /\ out' = <<>> /\ step' = 0 /\ main' = "assemble"
          /\ UNCHANGED <<src, result, cut, calls>> /\ NoFault
       \/ Fault("disk") /\ Return("disk") /\ UNCHANGED out
    /\ UNCHANGED <<parts, ctxDone, chanVars, poolVars, workVars>>

Assemble ==
    /\ main = "assemble"
    /\ \/ /\ step < Count(src)
          /\ out' = out \o parts[step]
          /\ step' = step + 1
          /\ UNCHANGED <<main, src, result, cut, calls>> /\ NoFault
       \/ Fault("disk") /\ Return("disk") /\ UNCHANGED out
       \/ /\ step = Count(src)
          /\ IF Len(out) # Length[src] THEN Return("size") ELSE Continue("clean")
          /\ UNCHANGED out /\ NoFault
    /\ UNCHANGED <<parts, ctxDone, chanVars, poolVars, workVars>>

Clean ==    \* a RemoveAll that fails may have removed some of the parts
    /\ main = "clean"
    /\ \/ parts' = NoParts /\ Return("ok") /\ NoFault
       \/ /\ Fault("disk") /\ Return("disk")
          /\ \E gone \in SUBSET PartIds :
                parts' = [i \in PartIds |-> IF i \in gone THEN <<>> ELSE parts[i]]
    /\ UNCHANGED <<out, ctxDone, chanVars, poolVars, workVars>>

----------------------------------------------------------------------------
(* The stream; step counts the units read *)

\* Mutant of StreamOpen: what is in the destination is not truncated.
StreamOpenAppending ==
    /\ main = "streamOpen"
    /\ step' = 0 /\ main' = "stream"
    /\ UNCHANGED <<fileVars, src, result, cut, calls, ctxDone, chanVars, poolVars, workVars, faults>>

StreamOpen ==
    /\ main = "streamOpen"
    /\ \/ /\ ~ctxDone
          /\ out' = <<>> /\ step' = 0 /\ main' = "stream"
          /\ UNCHANGED <<src, result, cut, calls>> /\ NoFault
       \/ ctxDone /\ Return("canceled") /\ UNCHANGED out /\ NoFault
       \/ Fault("refuse") /\ Return("server") /\ UNCHANGED out
       \/ Fault("disk") /\ Return("disk") /\ UNCHANGED out
    /\ UNCHANGED <<parts, ctxDone, chanVars, poolVars, workVars>>

StreamRead ==
    /\ main = "stream" /\ step < Length[src]
    /\ out' = Append(out, <<src, step>>)
    /\ step' = step + 1
    /\ UNCHANGED <<parts, main, src, result, cut, calls, ctxDone, chanVars, poolVars, workVars, faults>>

StreamEnd ==        \* an early EOF of a response without a length looks like the end
    /\ main = "stream"
    /\ \/ step = Length[src] /\ Return("ok") /\ NoFault
       \/ /\ step < Length[src] /\ Fault("short")
          /\ main' = "idle" /\ result' = "ok" /\ cut' = TRUE /\ UNCHANGED <<src, step, calls>>
       \/ Fault("break") /\ Return("server")
       \/ Fault("disk") /\ Return("disk")
       \/ ctxDone /\ Return("canceled") /\ NoFault
    /\ UNCHANGED <<fileVars, ctxDone, chanVars, poolVars, workVars>>

----------------------------------------------------------------------------
(* The producer *)

Produce ==
    /\ main = "pool" /\ ~closed /\ next < Count(src)
    /\ Len(jobs) < Capacity
    /\ jobs' = Append(jobs, next)
    /\ next' = next + 1
    /\ UNCHANGED <<fileVars, callVars, ctxDone, closed, poolVars, workVars, faults>>

Close ==
    /\ main = "pool" /\ ~closed
    /\ next = Count(src) \/ PoolCtxDone
    /\ closed' = TRUE
    /\ UNCHANGED <<fileVars, callVars, ctxDone, next, jobs, poolVars, workVars, faults>>

----------------------------------------------------------------------------
(* A worker *)

At(w, place) == pc[w] = place
Goto(w, place) == pc' = [pc EXCEPT ![w] = place]
Fail(w, e) == Goto(w, "report") /\ err' = [err EXCEPT ![w] = e]

Take(w) ==
    /\ At(w, "take") /\ jobs # <<>>
    /\ idx' = [idx EXCEPT ![w] = Head(jobs)]
    /\ jobs' = Tail(jobs)
    /\ Goto(w, "open")
    /\ UNCHANGED <<fileVars, callVars, ctxDone, next, closed, poolVars, at, err, faults>>

\* Mutant of Leave: an empty channel is taken for a closed one.
LeaveEarly(w) ==
    /\ At(w, "take") /\ jobs = <<>>
    /\ Goto(w, "gone")
    /\ UNCHANGED <<fileVars, callVars, ctxDone, chanVars, poolVars, idx, at, err, faults>>

Leave(w) ==
    /\ At(w, "take") /\ jobs = <<>> /\ closed
    /\ Goto(w, "gone")
    /\ UNCHANGED <<fileVars, callVars, ctxDone, chanVars, poolVars, idx, at, err, faults>>

\* Mutant of Resume: the range starts at the part, not at the end of what is there.
ResumeFromStart(i) == Start(i)

Resume(i) == Start(i) + Len(parts[i])

Open(w) ==      \* the size of the part file decides what is asked for
    /\ At(w, "open")
    /\ LET size == Len(parts[idx[w]])
           full == RangeLen(idx[w])
       IN  \/ size > full /\ Fail(w, "size") /\ UNCHANGED at /\ NoFault
           \/ size = full /\ Goto(w, "stat") /\ UNCHANGED <<at, err>> /\ NoFault
           \/ /\ size < full /\ Goto(w, "request") /\ NoFault
              /\ at' = [at EXCEPT ![w] = Resume(idx[w])]
              /\ UNCHANGED err
           \/ size < full /\ Fault("disk") /\ Fail(w, "disk") /\ UNCHANGED at
    /\ UNCHANGED <<fileVars, callVars, ctxDone, chanVars, poolVars, idx>>

Request(w) ==
    /\ At(w, "request")
    /\ \/ ~PoolCtxDone /\ Goto(w, "read") /\ UNCHANGED err /\ NoFault
       \/ PoolCtxDone /\ Fail(w, "canceled") /\ NoFault
       \/ Fault("refuse") /\ Fail(w, "server")
    /\ UNCHANGED <<fileVars, callVars, ctxDone, chanVars, poolVars, idx, at>>

Write(w) ==
    /\ parts' = [parts EXCEPT ![idx[w]] = Append(@, <<src, at[w]>>)]
    /\ at' = [at EXCEPT ![w] = @ + 1]

Read(w) ==
    /\ At(w, "read")
    /\ \/ at[w] <= End(idx[w]) /\ Write(w) /\ UNCHANGED <<pc, err>> /\ NoFault
       \/ at[w] = End(idx[w]) + 1 /\ at[w] < Length[src] /\ Write(w) /\ Fault("long") /\ Fail(w, "server")
       \/ at[w] = End(idx[w]) + 1 /\ Goto(w, "stat") /\ UNCHANGED <<parts, at, err>> /\ NoFault
       \/ Fault("short") /\ Goto(w, "stat") /\ UNCHANGED <<parts, at, err>>
       \/ Fault("break") /\ Fail(w, "server") /\ UNCHANGED <<parts, at>>
       \/ Fault("disk") /\ Fail(w, "disk") /\ UNCHANGED <<parts, at>>
       \/ PoolCtxDone /\ Fail(w, "canceled") /\ UNCHANGED <<parts, at>> /\ NoFault
    /\ UNCHANGED <<out, callVars, ctxDone, chanVars, poolVars, idx>>

\* Mutant of Stat: the size is wrong, but err is not assigned before it is sent.
StatNil(w) ==
    /\ At(w, "stat")
    /\ IF Len(parts[idx[w]]) = RangeLen(idx[w])
       THEN Goto(w, "take") /\ partCount' = partCount + 1
       ELSE Goto(w, "report") /\ UNCHANGED partCount
    /\ UNCHANGED <<fileVars, callVars, ctxDone, chanVars, poolDone, errCh, idx, at, err, faults>>

Stat(w) ==
    /\ At(w, "stat")
    /\ IF Len(parts[idx[w]]) = RangeLen(idx[w])
       THEN Goto(w, "take") /\ partCount' = partCount + 1 /\ UNCHANGED err
       ELSE Fail(w, "server") /\ UNCHANGED partCount
    /\ UNCHANGED <<fileVars, callVars, ctxDone, chanVars, poolDone, errCh, idx, at, faults>>

\* Mutant of Report: cancel comes before the error is sent.
ReportCancelled(w) ==
    /\ At(w, "report")
    /\ IF ~poolDone
       THEN poolDone' = TRUE /\ UNCHANGED <<errCh, pc>>
       ELSE /\ errCh' = IF errCh = <<>> THEN <<err[w]>> ELSE errCh
            /\ Goto(w, "cancel") /\ UNCHANGED poolDone
    /\ UNCHANGED <<fileVars, callVars, ctxDone, chanVars, partCount, idx, at, err, faults>>

Report(w) ==
    /\ At(w, "report")
    /\ errCh' = IF errCh = <<>> THEN <<err[w]>> ELSE errCh
    /\ Goto(w, "cancel")
    /\ UNCHANGED <<fileVars, callVars, ctxDone, chanVars, poolDone, partCount, idx, at, err, faults>>

\* Mutant of Cancel: the worker just returns.
CancelNothing(w) ==
    /\ At(w, "cancel")
    /\ Goto(w, "gone")
    /\ UNCHANGED <<fileVars, callVars, ctxDone, chanVars, poolVars, idx, at, err, faults>>

Cancel(w) ==
    /\ At(w, "cancel")
    /\ poolDone' = TRUE
    /\ Goto(w, "gone")
    /\ UNCHANGED <<fileVars, callVars, ctxDone, chanVars, errCh, partCount, idx, at, err, faults>>

----------------------------------------------------------------------------
(* The surroundings *)

CancelCall ==
    /\ main # "idle" /\ ~ctxDone /\ Fault("cancel")
    /\ ctxDone' = TRUE
    /\ UNCHANGED <<fileVars, callVars, chanVars, poolVars, workVars>>

Idle ==
    /\ next' = 0 /\ closed' = TRUE /\ jobs' = <<>>
    /\ poolDone' = FALSE /\ errCh' = <<>> /\ partCount' = 0
    /\ pc' = [w \in Workers |-> "gone"] /\ idx' = [w \in Workers |-> 0]
    /\ at' = [w \in Workers |-> 0] /\ err' = [w \in Workers |-> "none"]

Kill ==     \* the files stay
    /\ main # "idle" /\ Fault("kill")
    /\ main' = "idle" /\ result' = "none" /\ ctxDone' = FALSE
    /\ Idle
    /\ UNCHANGED <<fileVars, src, cut, step, calls>>

----------------------------------------------------------------------------
Init ==
    /\ parts = NoParts /\ out = <<>>
    /\ main = "idle" /\ src \in Sources /\ result = "none" /\ cut = FALSE /\ step = 0
    /\ ctxDone = FALSE /\ poolDone = FALSE
    /\ next = 0 /\ closed = TRUE /\ jobs = <<>> /\ errCh = <<>> /\ partCount = 0
    /\ pc = [w \in Workers |-> "gone"] /\ idx = [w \in Workers |-> 0]
    /\ at = [w \in Workers |-> 0] /\ err = [w \in Workers |-> "none"]
    /\ calls = 0 /\ faults = 0

Caller ==
    \/ ProbeFails \/ ProbeStream \/ StartPool \/ Join \/ Create \/ Assemble \/ Clean
    \/ StreamOpen \/ StreamRead \/ StreamEnd

Producer == Produce \/ Close

Worker(w) ==
    \/ Take(w) \/ Leave(w) \/ Open(w) \/ Request(w) \/ Read(w) \/ Stat(w)
    \/ Report(w) \/ Cancel(w)

Next ==
    \/ \E s \in Sources : Call(s)
    \/ Caller \/ Producer
    \/ \E w \in Workers : Worker(w)
    \/ CancelCall \/ Kill

Spec == Init /\ [][Next]_vars

(***************************************************************************)
(* Goroutines keep running, and every request and read ends: the client    *)
(* has a timeout.  Whoever asked for the file asks again.                  *)
(***************************************************************************)
Fairness ==
    /\ WF_vars(Caller) /\ WF_vars(Producer)
    /\ \A w \in Workers : WF_vars(Worker(w))
    /\ WF_vars(\E s \in Sources : Call(s))

FairSpec == Spec /\ Fairness

----------------------------------------------------------------------------
(* Properties *)

\* Every variable keeps its type; the channels keep to their capacities.
TypeOK ==
    /\ parts \in [PartIds -> Seq(Unit)] /\ out \in Seq(Unit)
    /\ main \in {"idle", "probe", "pool", "create", "assemble", "clean", "streamOpen", "stream"}
    /\ src \in Sources /\ result \in Errors \cup {"ok"} /\ cut \in BOOLEAN /\ step \in Nat
    /\ ctxDone \in BOOLEAN /\ poolDone \in BOOLEAN
    /\ next \in Nat /\ closed \in BOOLEAN
    /\ jobs \in Seq(PartIds) /\ Len(jobs) <= Capacity
    /\ errCh \in Seq(Errors \ {"none"}) /\ Len(errCh) <= 1
    /\ partCount \in Nat
    /\ pc \in [Workers -> Places] /\ idx \in [Workers -> PartIds]
    /\ at \in [Workers -> Nat] /\ err \in [Workers -> Errors]
    /\ calls \in Nat /\ faults \in Nat

\* A call that succeeds leaves the source in the destination, in order, and nothing else:
\* whatever part files earlier calls left, whatever the servers did to them, and whichever
\* of the two ways the probe chose.  All of it, unless a stream without a length ended
\* early (download.go:361): then what came before the end, and the call still says ok.
CompleteFile == result = "ok" => out = Beginning(src, IF cut THEN step ELSE Length[src])

\* The error that is reported is the one that stopped the pool: a call says "canceled"
\* only when its caller cancelled it, not because one worker stopped the others.
FirstCause == result = "canceled" => ctxDone

\* No goroutine of a call is left when the call has returned or reads the parts.
NoGoroutineLeft == main # "pool" => closed /\ \A w \in Workers : pc[w] = "gone"

\* No part number is lost between producer and workers: a pool that ends without an error
\* and without a cancellation has counted all parts.
NoPartLost == result # "incomplete"

\* Every call returns: neither the producer nor a worker waits for good.
CallReturns == main # "idle" ~> main = "idle"

\* A download that is asked for again often enough succeeds: no part file that an earlier
\* call left stands in the way of all later ones.
ResumeCompletes == <>(result = "ok")
=============================================================================

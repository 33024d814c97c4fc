---------------------------- MODULE DaemonProofs ----------------------------
(***************************************************************************)
(* What start, run and stop promise, for any number of daemons and         *)
(* commands, kills and failing starts.                                     *)
(***************************************************************************)
EXTENDS Daemon, TLAPS

Rising == {"boot", "stat", "remove", "listen"}
Serving == {"serve", "run"}
Leaving == {"close", "exit"}
Clearing == {"stat", "again", "remove", "spawn"}
Busy == {"probe", "poll"} \cup Clearing

Types ==
    /\ path \in Daemons \cup {None} /\ open \subseteq Daemons
    /\ pc \in [Daemons -> {"new", "gone"} \cup Rising \cup Serving \cup Leaving]
    /\ st \in [Starters -> {"idle", "failed", "ok"} \cup Busy]
    /\ child \in [Starters -> Daemons \cup {None}]
    /\ kills \in Nat

\* What a process has at each of its steps: a listener from binding to closing it, a queue
\* while it runs, and it leaves only when it was told to.  The file is no longer its own
\* when it closes its listener.
Stages ==
    /\ \A d \in Daemons : d \in open <=> pc[d] \in Serving \cup {"close"}
    /\ \A d \in pump : d \in Daemons /\ pc[d] \in {"run"} \cup Leaving
    /\ \A d \in Daemons : pc[d] \in Leaving => d \in done
    /\ \A d \in Daemons : path = d => pc[d] \in Serving \cup {"gone"}

\* without a kill, a socket file has its process
FileServed == kills = 0 => \A d \in Daemons : path = d => pc[d] \in Serving

\* A starter that waits, or has succeeded, has a child that was begun.
Begun == \A s \in Starters : st[s] \in {"poll", "ok"} => child[s] \in Daemons /\ pc[child[s]] # "new"

\* Commands that do not meet: the socket is that of the process that serves, at most one
\* command is under way, and no process is on its way up while another one serves or a
\* starter clears the file; a starter that waits has begun that process.
Apart ==
    /\ \A d \in Daemons : pc[d] \in Serving => path = d
    /\ \A s, t \in Starters : st[s] \in Busy /\ st[t] \in Busy => s = t
    /\ \A d, e \in Daemons : pc[d] \in Rising /\ pc[e] \in Rising => d = e
    /\ \A d, e \in Daemons : pc[d] \in Rising => pc[e] \notin Serving
    /\ \A s \in Starters, d \in Daemons :
        /\ st[s] \in Clearing => pc[d] \notin Serving
        /\ st[s] \in Busy /\ pc[d] \in Rising => st[s] = "poll" /\ child[s] = d
    /\ \A s \in Starters : st[s] = "ok" => pc[child[s]] \notin Rising

IInv == Types /\ Stages /\ FileServed /\ Begun /\ (orderly => Apart)

(* Before the first command there is nothing. *)
LEMMA InitIInv == Init => IInv
BY DaemonAssumption DEF Init, IInv, Types, Stages, FileServed, Begun, Apart, Rising, Serving, Leaving,
                        Clearing, Busy

(* What a process does on its way up and down. *)
LEMMA ProcessIInv ==
    ASSUME IInv, NEW d \in Daemons, Process(d)
    PROVE  IInv'
<1> USE DaemonAssumption
    DEF IInv, Types, Stages, FileServed, Begun, Apart, Rising, Serving, Leaving, Clearing, Busy,
        Goto, startVars, stopVars, bounds
<1>1. CASE Boot(d) BY <1>1 DEF Boot
<1>2. CASE StatSocket(d) BY <1>2 DEF StatSocket
<1>3. CASE RemoveSocket(d) BY <1>3 DEF RemoveSocket
<1>4. CASE Listen(d) BY <1>4 DEF Listen
<1>5. CASE StartDaemon(d) BY <1>5 DEF StartDaemon
<1>6. CASE Leave(d) BY <1>6 DEF Leave
<1>7. CASE CloseListener(d) BY <1>7 DEF CloseListener
<1>8. CASE Exit(d) BY <1>8 DEF Exit
<1> QED BY <1>1, <1>2, <1>3, <1>4, <1>5, <1>6, <1>7, <1>8 DEF Process

(* A kill leaves the file, and a process begun by hand keeps apart from all others. *)
LEMMA HandIInv ==
    ASSUME IInv, NEW d \in Daemons, Kill(d) \/ Run(d)
    PROVE  IInv'
<1> USE DaemonAssumption
    DEF IInv, Types, Stages, FileServed, Begun, Apart, Rising, Serving, Leaving, Clearing, Busy,
        Goto, startVars, stopVars, bounds
<1>1. CASE Kill(d) BY <1>1 DEF Kill, Alive
<1>2. CASE Run(d)
    <2>1. /\ pc[d] = "new" /\ pc' = [pc EXCEPT ![d] = "boot"]
          /\ UNCHANGED <<path, open, pump, done, st, child, kills>>
        BY <1>2 DEF Run, New
    <2>2. orderly' => Apart /\ ~Meddle(TRUE) BY <1>2 DEF Run
    <2>3. Types' BY <2>1
    <2>4. Stages' /\ FileServed' /\ Begun' BY <2>1
    <2>5. ASSUME orderly' PROVE Apart' BY <2>1, <2>2, <2>5 DEF Meddle, Alive
    <2> QED BY <2>3, <2>4, <2>5
<1> QED BY <1>1, <1>2

(* A starter clears a file only when nobody serves it, and waits for its own child. *)
LEMMA StarterIInv ==
    ASSUME IInv, NEW s \in Starters, Start(s) \/ Starter(s)
    PROVE  IInv'
<1> USE DaemonAssumption
    DEF IInv, Types, Stages, FileServed, Begun, Apart, Rising, Serving, Leaving, Clearing, Busy,
        Goto, StartAt, ISRunning, procVars, startVars, stopVars, bounds
<1>1. CASE Start(s)
    <2>1. /\ st[s] = "idle" /\ st' = [st EXCEPT ![s] = "probe"]
          /\ UNCHANGED <<path, pc, open, pump, done, child, kills>>
        BY <1>1 DEF Start
    <2>2. orderly' => Apart /\ ~Meddle(FALSE) BY <1>1 DEF Start
    <2>3. Types' /\ Stages' /\ FileServed' /\ Begun' BY <2>1
    <2>4. ASSUME orderly' PROVE Apart' BY <2>1, <2>2, <2>4 DEF Meddle
    <2> QED BY <2>3, <2>4
<1>2. CASE ProbeFirst(s) BY <1>2 DEF ProbeFirst
<1>3. CASE ClearStat(s) BY <1>3 DEF ClearStat
<1>4. CASE ClearProbe(s) BY <1>4 DEF ClearProbe
<1>5. CASE ClearRemove(s) BY <1>5 DEF ClearRemove
<1>6. ASSUME NEW d \in Daemons, Spawn(s, d) PROVE IInv'
    <2>1. /\ st[s] = "spawn" /\ st' = [st EXCEPT ![s] = "poll"]
          /\ pc[d] = "new" /\ pc' = [pc EXCEPT ![d] = "boot"] /\ child' = [child EXCEPT ![s] = d]
          /\ UNCHANGED <<path, open, pump, done, orderly, kills>>
        BY <1>6 DEF Spawn, New
    <2>2. Types' BY <2>1
    <2>3. Stages' /\ FileServed' /\ Begun' BY <2>1
    <2>4. ASSUME orderly' PROVE Apart' BY <2>1, <2>4
    <2> QED BY <2>2, <2>3, <2>4
<1>7. CASE Poll(s)
    <2>1. /\ st[s] = "poll" /\ UNCHANGED <<path, pc, open, pump, done, orderly, kills>>
          /\ \/ path \in open /\ st' = [st EXCEPT ![s] = "ok"] /\ child' = child
             \/ /\ st' = [st EXCEPT ![s] = "failed"]
                /\ child' = [child EXCEPT ![s] = None]
        BY <1>7 DEF Poll
    <2>2. Types' BY <2>1
    <2>3. Stages' /\ FileServed' /\ Begun' BY <2>1
    <2>4. ASSUME orderly' PROVE Apart'
        <3>1. CASE path \in open
            <4>1. path \in Daemons /\ pc[path] \in Serving BY <3>1
            <4>2. \A e \in Daemons : pc[e] \notin Rising BY <2>1, <2>4, <4>1
            <4> QED BY <2>1, <2>4, <3>1, <4>2
        <3>2. CASE path \notin open BY <2>1, <2>4, <3>2
        <3> QED BY <3>1, <3>2
    <2> QED BY <2>2, <2>3, <2>4
<1> QED BY <1>1, <1>2, <1>3, <1>4, <1>5, <1>6, <1>7 DEF Starter

(* A stopper tells a process to leave, and takes its queue. *)
LEMMA StopperIInv ==
    ASSUME IInv, NEW c \in Stoppers, Dial(c) \/ Shutdown(c) \/ HangUp(c)
    PROVE  IInv'
BY DEF IInv, Types, Stages, FileServed, Begun, Apart, procVars, startVars, bounds, Dial, Shutdown, HangUp

\* The invariant holds in every behaviour.
LEMMA AlwaysIInv == Spec => []IInv
<1>1. IInv /\ UNCHANGED vars => IInv'
    BY DEF vars, IInv, Types, Stages, FileServed, Begun, Apart
<1>2. IInv /\ [Next]_vars => IInv'
    BY <1>1, ProcessIInv, HandIInv, StarterIInv, StopperIInv DEF Next
<1> QED BY <1>2, InitIInv, PTL DEF Spec

(* Stops at any time, kills and failing starts leave at most one daemon that pumps the queue  *)
(* and was not told to stop, and it can be reached, as long as no two commands meet.          *)
THEOREM OneDaemonPumps == Spec => []OneDaemon
<1>1. IInv => OneDaemon
    BY DaemonAssumption DEF IInv, Types, Stages, Apart, OneDaemon, Serving, Leaving
<1> QED BY <1>1, AlwaysIInv, PTL

(* Daemons that were not killed leave no socket file, even if they bound over one another.    *)
THEOREM SocketIsRemoved == Spec => []NoSocketLeft
<1>1. IInv => NoSocketLeft
    BY DEF IInv, Types, FileServed, NoSocketLeft, Serving, Alive
<1> QED BY <1>1, AlwaysIInv, PTL

(* `hmt daemon start' reports success only when its own child has bound the socket, as long   *)
(* as no two commands meet.                                                                   *)
THEOREM StartIsTrue == Spec => []StartedIsMine
<1>1. IInv => StartedIsMine
    BY DEF IInv, Types, Begun, Apart, StartedIsMine, Rising
<1> QED BY <1>1, AlwaysIInv, PTL
=============================================================================

------------------------------- MODULE Daemon -------------------------------
(***************************************************************************)
(* The life of the daemon: `hmt daemon run', `start' and `stop', the Unix  *)
(* socket of internal/rpc, and what internal/app starts and stops.         *)
(*                                                                         *)
(* The socket is a file that a process binds.  The file outlives a killed  *)
(* process, may be removed by anyone, and may be bound again while the     *)
(* process whose socket was there still listens, unheard.                  *)
(***************************************************************************)
EXTENDS Integers, FiniteSets

CONSTANTS
    Daemons,                    \* processes of `hmt daemon run', each runs once
    Starters, Stoppers,         \* commands `hmt daemon start' and `hmt daemon stop'
    None,
    MaxRuns, MaxKills, MaxFails \* bounds: runs by hand, kills, failures of newApp

ASSUME DaemonAssumption ==
    /\ None \notin Daemons
    /\ MaxRuns \in Nat /\ MaxKills \in Nat /\ MaxFails \in Nat

VARIABLES
    path,           \* the process whose socket the file at cfg.Server.Socket is, or None
    pc,             \* of a daemon process
    open,           \* processes whose listener is open
    pump,           \* processes whose queue is pumped: a.Queue.Pump runs and is not cancelled
    done,           \* processes whose a.done is closed
    st, child,      \* of a starter: where it is, the process it spawned
    cl, peer,       \* of a stopper: where it is, the process it is connected to
    orderly,        \* no command met another one half-way, see Meddle
    runs, kills, fails

procVars == <<path, pc, open, pump, done>>
startVars == <<st, child>>
stopVars == <<cl, peer>>
bounds == <<runs, kills, fails>>
vars == <<path, pc, open, pump, done, st, child, cl, peer, orderly, runs, kills, fails>>

Alive(d) == pc[d] \notin {"new", "gone"}

\* a dial reaches a process that listens behind the file
ISRunning == path \in open

Init ==
    /\ path = None /\ open = {} /\ pump = {} /\ done = {}
    /\ pc = [d \in Daemons |-> "new"]
    /\ st = [s \in Starters |-> "idle"]
    /\ child = [s \in Starters |-> None]
    /\ cl = [c \in Stoppers |-> "idle"] /\ peer = [c \in Stoppers |-> None]
    /\ orderly = TRUE
    /\ runs = 0 /\ kills = 0 /\ fails = 0

-----------------------------------------------------------------------------
(* A daemon process. *)

Goto(d, l) == pc' = [pc EXCEPT ![d] = l]

\* newApp: storage, database, adapters
Boot(d) ==
    /\ pc[d] = "boot"
    /\ \/ Goto(d, "stat") /\ UNCHANGED fails
       \/ fails < MaxFails /\ fails' = fails + 1 /\ Goto(d, "gone")
    /\ UNCHANGED <<path, open, pump, done, startVars, stopVars, orderly, runs, kills>>

\* rpc.Serve looks for a socket file, and does not ask whether anyone listens
StatSocket(d) ==
    /\ pc[d] = "stat"
    /\ Goto(d, IF path = None THEN "listen" ELSE "remove")
    /\ UNCHANGED <<path, open, pump, done, startVars, stopVars, orderly, bounds>>

\* a file that is gone by now is an error
RemoveSocket(d) ==
    /\ pc[d] = "remove"
    /\ Goto(d, IF path = None THEN "gone" ELSE "listen")
    /\ path' = None
    /\ UNCHANGED <<open, pump, done, startVars, stopVars, orderly, bounds>>

\* binding fails where a file is
Listen(d) ==
    /\ pc[d] = "listen"
    /\ IF path = None
       THEN path' = d /\ open' = open \cup {d} /\ Goto(d, "serve")
       ELSE UNCHANGED <<path, open>> /\ Goto(d, "gone")
    /\ UNCHANGED <<pump, done, startVars, stopVars, orderly, bounds>>

\* from here on Stop finds the cancel function
StartDaemon(d) ==
    /\ pc[d] = "serve"
    /\ pump' = pump \cup {d}
    /\ Goto(d, "run")
    /\ UNCHANGED <<path, open, done, startVars, stopVars, orderly, bounds>>

\* Mutant: the file is not removed, as with SetUnlinkOnClose(false)
LeaveKeepingFile(d) ==
    /\ pc[d] = "run" /\ d \in done
    /\ Goto(d, "close")
    /\ UNCHANGED <<path, open, pump, done, startVars, stopVars, orderly, bounds>>

\* daemonRun returns: ln.Close removes the file at its path, whosever it is, ...
Leave(d) ==
    /\ pc[d] = "run" /\ d \in done
    /\ path' = None
    /\ Goto(d, "close")
    /\ UNCHANGED <<open, pump, done, startVars, stopVars, orderly, bounds>>

\* ... and then closes the listener
CloseListener(d) ==
    /\ pc[d] = "close"
    /\ open' = open \ {d}
    /\ Goto(d, "exit")
    /\ UNCHANGED <<path, pump, done, startVars, stopVars, orderly, bounds>>

\* Mutant: main removes the socket at its end
ExitRemoving(d) ==
    /\ pc[d] = "exit"
    /\ pump' = pump \ {d} /\ path' = None
    /\ Goto(d, "gone")
    /\ UNCHANGED <<open, done, startVars, stopVars, orderly, bounds>>

\* a.Close and the end of main, which waits for no goroutine
Exit(d) ==
    /\ pc[d] = "exit"
    /\ pump' = pump \ {d}
    /\ Goto(d, "gone")
    /\ UNCHANGED <<path, open, done, startVars, stopVars, orderly, bounds>>

Kill(d) ==
    /\ Alive(d) /\ kills < MaxKills
    /\ kills' = kills + 1
    /\ open' = open \ {d} /\ pump' = pump \ {d}
    /\ Goto(d, "gone")
    /\ UNCHANGED <<path, done, startVars, stopVars, orderly, runs, fails>>

-----------------------------------------------------------------------------
(* Commands. *)

\* A command is begun while a start has not ended or a daemon is on its way up, or a daemon is
\* run by hand while another one is there.
Meddle(byHand) ==
    \/ \E s \in Starters : st[s] \in {"probe", "stat", "again", "remove", "spawn", "poll"}
    \/ \E d \in Daemons : pc[d] \in {"boot", "stat", "remove", "listen"}
    \/ byHand /\ \E d \in Daemons : Alive(d)

\* a new process: which of the unused names it gets does not matter, nor, below, which name a
\* new command gets
New(d) == pc[d] = "new" /\ d = CHOOSE e \in Daemons : pc[e] = "new"

\* `hmt daemon run' by hand, by the boot script or by `hmt vpn start'
Run(d) ==
    /\ New(d) /\ runs < MaxRuns
    /\ runs' = runs + 1
    /\ orderly' = (orderly /\ ~Meddle(TRUE))
    /\ Goto(d, "boot")
    /\ UNCHANGED <<path, open, pump, done, startVars, stopVars, kills, fails>>

StartAt(s, l) == st' = [st EXCEPT ![s] = l]

Start(s) ==
    /\ st[s] = "idle" /\ s = CHOOSE t \in Starters : st[t] = "idle"
    /\ orderly' = (orderly /\ ~Meddle(FALSE))
    /\ StartAt(s, "probe")
    /\ UNCHANGED <<procVars, child, stopVars, bounds>>

ProbeFirst(s) ==
    /\ st[s] = "probe"
    /\ StartAt(s, IF ISRunning THEN "failed" ELSE "stat")
    /\ UNCHANGED <<procVars, child, stopVars, orderly, bounds>>

\* ClearStaleSocket: stat, dial and remove are three steps
ClearStat(s) ==
    /\ st[s] = "stat"
    /\ StartAt(s, IF path = None THEN "spawn" ELSE "again")
    /\ UNCHANGED <<procVars, child, stopVars, orderly, bounds>>

ClearProbe(s) ==
    /\ st[s] = "again"
    /\ StartAt(s, IF ISRunning THEN "failed" ELSE "remove")
    /\ UNCHANGED <<procVars, child, stopVars, orderly, bounds>>

ClearRemove(s) ==
    /\ st[s] = "remove"
    /\ StartAt(s, IF path = None THEN "failed" ELSE "spawn")
    /\ path' = None
    /\ UNCHANGED <<pc, open, pump, done, child, stopVars, orderly, bounds>>

Spawn(s, d) ==
    /\ st[s] = "spawn" /\ New(d)
    /\ Goto(d, "boot")
    /\ child' = [child EXCEPT ![s] = d]
    /\ StartAt(s, "poll")
    /\ UNCHANGED <<path, open, pump, done, stopVars, orderly, bounds>>

\* Mutant: success is reported as soon as the child is spawned
PollHasty(s) ==
    /\ st[s] = "poll"
    /\ StartAt(s, "ok")
    /\ UNCHANGED <<child, procVars, stopVars, orderly, bounds>>

\* The loop: any socket that answers will do, then the child's end is looked for.  After five
\* seconds the starter gives up, however far the child is, and leaves it on its way.
Poll(s) ==
    /\ st[s] = "poll"
    /\ IF ISRunning THEN StartAt(s, "ok") /\ UNCHANGED child
       ELSE StartAt(s, "failed") /\ child' = [child EXCEPT ![s] = None]
    /\ UNCHANGED <<procVars, stopVars, orderly, bounds>>

StopAt(c, l) == cl' = [cl EXCEPT ![c] = l]

\* rpc.Dial; a dial that is refused changes nothing
Dial(c) ==
    /\ cl[c] = "idle" /\ c = CHOOSE e \in Stoppers : cl[e] = "idle"
    /\ ISRunning
    /\ StopAt(c, "call") /\ peer' = [peer EXCEPT ![c] = path]
    /\ UNCHANGED <<procVars, startVars, orderly, bounds>>

\* Mutant: a.done is closed only if there is something to cancel
ShutdownStarted(c) ==
    /\ cl[c] = "call" /\ Alive(peer[c])
    /\ pump' = pump \ {peer[c]}
    /\ done' = done \cup ({peer[c]} \cap pump)
    /\ StopAt(c, "reply")
    /\ UNCHANGED <<path, pc, open, startVars, peer, orderly, bounds>>

\* Service.Shutdown and App.Stop: cancel what StartDaemon has started, and close a.done
Shutdown(c) ==
    /\ cl[c] = "call" /\ Alive(peer[c])
    /\ pump' = pump \ {peer[c]}
    /\ done' = done \cup {peer[c]}
    /\ StopAt(c, "reply")
    /\ UNCHANGED <<path, pc, open, startVars, peer, orderly, bounds>>

\* the reply, or the end of the connection: the process may end under the call, before or
\* after it did what was asked
HangUp(c) ==
    /\ \/ cl[c] = "reply"
       \/ cl[c] = "call" /\ ~Alive(peer[c])
    /\ StopAt(c, "ended") /\ peer' = [peer EXCEPT ![c] = None]
    /\ UNCHANGED <<procVars, startVars, orderly, bounds>>

-----------------------------------------------------------------------------
Process(d) ==
    \/ Boot(d) \/ StatSocket(d) \/ RemoveSocket(d) \/ Listen(d) \/ StartDaemon(d)
    \/ Leave(d) \/ CloseListener(d) \/ Exit(d)

Starter(s) ==
    \/ ProbeFirst(s) \/ ClearStat(s) \/ ClearProbe(s) \/ ClearRemove(s)
    \/ (\E d \in Daemons : Spawn(s, d)) \/ Poll(s)

Next ==
    \/ \E d \in Daemons : Process(d) \/ Kill(d) \/ Run(d)
    \/ \E s \in Starters : Start(s) \/ Starter(s)
    \/ \E c \in Stoppers : Dial(c) \/ Shutdown(c) \/ HangUp(c)

\* a process that is not killed goes on; a command may stop for good anywhere
Fairness == \A d \in Daemons : WF_vars(Process(d))

Spec == Init /\ [][Next]_vars /\ Fairness
-----------------------------------------------------------------------------
(* As long as no command meets another one half-way, at most one daemon that was not told to  *)
(* stop pumps the queue, and the socket file is its own, so that `hmt daemon stop' reaches it. *)
(* Kills, stops at any time and failing starts do not change that.                            *)
OneDaemon ==
    orderly => \A d \in pump \ done : pump \ done = {d} /\ path = d /\ d \in open

(* Whatever the order of commands, and even if daemons bind over one another: once every      *)
(* process is gone, and none was killed, no socket file is left behind.                       *)
NoSocketLeft ==
    (kills = 0 /\ \A d \in Daemons : ~Alive(d)) => path = None

(* daemonStart: "Do not report success until the child has created its RPC socket", which is  *)
(* so for commands that do not meet: the child has bound its socket.                          *)
StartedIsMine ==
    \A s \in Starters : (orderly /\ st[s] = "ok") =>
        pc[child[s]] \notin {"new", "boot", "stat", "remove", "listen"}

(* A daemon that has executed a Shutdown call ends, also when the call came before it had     *)
(* started its queue.                                                                         *)
StopEnds ==
    \A d \in Daemons :
        (\E c \in Stoppers : cl[c] = "reply" /\ peer[c] = d) ~> (pc[d] = "gone")
=============================================================================

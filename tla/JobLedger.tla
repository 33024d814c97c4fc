----------------------------- MODULE JobLedger -----------------------------
(***************************************************************************)
(* What the queue promises, without goroutines, ticks, retries or errors:  *)
(* a job is executed under a lease that at most one executor holds; only   *)
(* its holder reports a state or publishes the file; a file is never       *)
(* replaced under a row that says done; and done is only reported of a     *)
(* download that the published file is made of.  Anyone may submit a job   *)
(* at any time, and all leases may be lost at any time.                    *)
(***************************************************************************)
CONSTANTS
    Jobs,
    Downloads, NoDownload,
    Files, NoFile,
    MadeOf      \* download -> the files that may be published of it

VARIABLES
    state,      \* job -> its persisted state
    sum,        \* job -> the download whose hash its row records
    file,       \* job -> the file at its place in the library
    lease       \* the jobs that are being executed

vars == <<state, sum, file, lease>>

States == {"absent", "queued", "downloading", "remuxing", "done", "failed"}

Init ==
    /\ state = [j \in Jobs |-> "absent"]
    /\ sum = [j \in Jobs |-> NoDownload]
    /\ file = [j \in Jobs |-> NoFile]
    /\ lease = {}

Submit(j) ==
    /\ state' = [state EXCEPT ![j] = "queued"]
    /\ UNCHANGED <<sum, file, lease>>

Take(j) ==
    /\ state[j] # "absent" /\ j \notin lease
    /\ lease' = lease \cup {j}
    /\ UNCHANGED <<state, sum, file>>

Report(j, s, c) ==
    /\ j \in lease /\ state[j] # "absent" /\ s # "absent"
    /\ s = "done" => c # NoDownload /\ file[j] \in MadeOf[c]
    /\ state' = [state EXCEPT ![j] = s]
    /\ sum' = [sum EXCEPT ![j] = c]
    /\ UNCHANGED <<file, lease>>

Publish(j, f) ==
    /\ j \in lease /\ state[j] # "done" /\ f # NoFile
    /\ file' = [file EXCEPT ![j] = f]
    /\ UNCHANGED <<state, sum, lease>>

Return(j) ==
    /\ lease' = lease \ {j}
    /\ UNCHANGED <<state, sum, file>>

LoseAll ==
    /\ lease' = {}
    /\ UNCHANGED <<state, sum, file>>

Next ==
    \/ \E j \in Jobs : \/ Submit(j) \/ Take(j) \/ Return(j)
                       \/ \E f \in Files : Publish(j, f)
                       \/ \E c \in Downloads, s \in States : Report(j, s, c)
    \/ LoseAll

Spec == Init /\ [][Next]_vars
=============================================================================

------------------------------- MODULE Space --------------------------------
(***************************************************************************)
(* The space on the one file system that holds the library and the jobs'   *)
(* directories (a rename between two would fail): the check of             *)
(* internal/disk before a job, what fetching, assembling and remuxing it   *)
(* take, publishing it, and Library.Reclaim, a command of its own.         *)
(* Nothing else writes to the file system.  Module Queue has the jobs.     *)
(***************************************************************************)
EXTENDS Integers, FiniteSets, FiniteSetsExt

CONSTANTS
    Jobs, Size,     \* Jobs -> Nat \ {0}: how large the file is
    MaxConcurrency,
    Disk, Reserve, Margin,      \* bytes free at first, [disk] reserve and margin
    KeepBytes       \* what Reclaim is to make room for

ASSUME SpaceAssumption ==
    /\ IsFiniteSet(Jobs) /\ Jobs # {} /\ Size \in [Jobs -> Nat \ {0}]
    /\ MaxConcurrency \in Nat \ {0}
    /\ Disk \in Nat /\ Reserve \in Nat /\ Margin \in Nat /\ KeepBytes \in Nat

VARIABLES
    free,
    stage,          \* of a job: where runJob is
    parts, scratch, \* bytes of its parts or download, and of the copy that is being made
    library,        \* bytes of its published file, 0 without one
    remuxed,        \* jobs whose published file ffmpeg wrote, and of these those with faststart
    faststart,
    blind,          \* history: a job has started whose source does not tell its size
    victims         \* of a running Reclaim: the files of its list that it has still to look at

spaceVars == <<free, stage, parts, scratch, library, remuxed, faststart, blind, victims>>

Running == {j \in Jobs : stage[j] # "out"}
Spare == IF free < Reserve THEN 0 ELSE free - Reserve
MaxSize == Max({Size[j] : j \in Jobs})

SpaceInit ==
    /\ free = Disk
    /\ stage = [j \in Jobs |-> "out"]
    /\ parts = [j \in Jobs |-> 0] /\ scratch = [j \in Jobs |-> 0] /\ library = [j \in Jobs |-> 0]
    /\ remuxed = {} /\ faststart = {}
    /\ blind = FALSE
    /\ victims = {}

published == <<library, remuxed, faststart>>
steady == <<blind, victims>>
GotoStage(j, l) == stage' = [stage EXCEPT ![j] = l]

\* Mutant: the free bytes are taken for the spare ones.
FitsFree(bytes) == free >= bytes + Margin

Fits(bytes) == free - Reserve >= bytes + Margin

\* the check is left out for a source that does not tell its size, and nothing is set aside
Check(j, told) ==
    /\ stage[j] = "out" /\ Cardinality(Running) < MaxConcurrency
    /\ told => Fits(Size[j])
    /\ GotoStage(j, "fetch") /\ blind' = (blind \/ ~told)
    /\ UNCHANGED <<free, parts, scratch, published, victims>>

Fetch(j) ==
    /\ stage[j] = "fetch" /\ free > 0
    /\ parts' = [parts EXCEPT ![j] = @ + 1] /\ free' = free - 1
    /\ IF parts'[j] < Size[j] THEN UNCHANGED stage
       ELSE \E next \in {"assemble", "publish"} : GotoStage(j, next)     \* in ranges, or as a stream
    /\ UNCHANGED <<scratch, published, steady>>

\* parts are copied into download.part and removed after the last
Assemble(j) ==
    /\ stage[j] = "assemble" /\ free > 0
    /\ IF scratch[j] + 1 < Size[j]
       THEN /\ scratch' = [scratch EXCEPT ![j] = @ + 1] /\ free' = free - 1
            /\ UNCHANGED stage
       ELSE /\ scratch' = [scratch EXCEPT ![j] = 0] /\ free' = free - 1 + parts[j]
            /\ GotoStage(j, "publish")
    /\ UNCHANGED <<parts, published, steady>>

\* unless remuxing is deferred, ffmpeg writes target.tmp beside what is there
Remux(j) ==
    /\ stage[j] \in {"publish", "remux"} /\ free > 0 /\ scratch[j] < Size[j]
    /\ scratch' = [scratch EXCEPT ![j] = @ + 1] /\ free' = free - 1
    /\ GotoStage(j, "remux")
    /\ UNCHANGED <<parts, published, steady>>

\* -movflags +faststart is for names that end in .mp4; the queue's ends in .tmp
TmpSuffix == ".tmp"

RenameRemuxed(j) ==
    /\ stage[j] = "remux" /\ scratch[j] = Size[j]
    /\ library' = [library EXCEPT ![j] = Size[j]]
    /\ remuxed' = remuxed \cup {j}
    /\ faststart' = IF TmpSuffix = ".mp4" THEN faststart \cup {j} ELSE faststart \ {j}
    /\ parts' = [parts EXCEPT ![j] = 0] /\ scratch' = [scratch EXCEPT ![j] = 0]
    /\ free' = free + parts[j] + library[j]
    /\ GotoStage(j, "out") /\ UNCHANGED steady

\* as it is: remuxing is deferred, there is no ffmpeg, or it failed
Rename(j) ==
    /\ stage[j] \in {"publish", "remux"}
    /\ library' = [library EXCEPT ![j] = parts[j]]
    /\ remuxed' = remuxed \ {j} /\ faststart' = faststart \ {j}
    /\ parts' = [parts EXCEPT ![j] = 0] /\ scratch' = [scratch EXCEPT ![j] = 0]
    /\ free' = free + scratch[j] + library[j]
    /\ GotoStage(j, "out") /\ UNCHANGED steady

\* any error, and a full disk: the job's directory and target.tmp are removed
FailJob(j) ==
    /\ stage[j] # "out"
    /\ GotoStage(j, "out")
    /\ parts' = [parts EXCEPT ![j] = 0] /\ scratch' = [scratch EXCEPT ![j] = 0]
    /\ free' = free + parts[j] + scratch[j]
    /\ UNCHANGED <<published, steady>>

Scan ==
    /\ victims = {}
    /\ victims' = {j \in Jobs : library[j] > 0}
    /\ UNCHANGED <<free, stage, parts, scratch, published, blind>>

\* in the order of their paths; the command line says of every file that it was watched, and a
\* file that cannot be removed is passed over
Reclaim ==
    /\ victims # {}
    /\ IF Spare >= KeepBytes
       THEN victims' = {} /\ UNCHANGED <<free, published>>
       ELSE \E j \in victims :
            /\ victims' = victims \ {j}
            /\ \/ UNCHANGED <<free, published>>
               \/ /\ library' = [library EXCEPT ![j] = 0] /\ free' = free + library[j]
                  /\ remuxed' = remuxed \ {j} /\ faststart' = faststart \ {j}
    /\ UNCHANGED <<stage, parts, scratch, blind>>

SpaceNext ==
    \/ \E j \in Jobs :
        \/ \E told \in BOOLEAN : Check(j, told)
        \/ Fetch(j) \/ Assemble(j) \/ Remux(j) \/ RenameRemuxed(j) \/ Rename(j) \/ FailJob(j)
    \/ Scan \/ Reclaim

SpaceSpec == SpaceInit /\ [][SpaceNext]_spaceVars
-----------------------------------------------------------------------------
(* How far the jobs can go below the reserve when every source tells its size: a job is       *)
(* checked for its size, takes twice as much while it is assembled or remuxed, and so may     *)
(* each of the others that were checked before it.  This is what the code keeps; the plan     *)
(* (6.5) asks for more: room for the second copy in the margin, no new part once free is      *)
(* below half the reserve, and a pause of everything below a quarter.  The code looks at the  *)
(* space before a job and never again, so free does go below both.                            *)
OvercommitBounded ==
    ~blind => free >= Reserve + Margin - (2 * MaxConcurrency - 1) * MaxSize

(* "Remux copies the input into the output, adds faststart" (mux.go): a file that the queue   *)
(* publishes out of ffmpeg has its index in front.                                            *)
RemuxedIsFast == remuxed \subseteq faststart
=============================================================================

----------------------------- MODULE BoundedRate ----------------------------
(***************************************************************************)
(* internal/fetch: BoundedRate, the limiter that all downloads of the      *)
(* process share.  Time goes in ticks, of which a second has TicksPerSecond *)
(* and in each of which PerTick bytes may pass.                             *)
(***************************************************************************)
EXTENDS Integers

CONSTANTS
    Readers,        \* goroutines that call Wait
    PerTick, TicksPerSecond,
    MaxRead         \* bound: bytes of one call of Wait, also more than a second's worth

ASSUME RateAssumption ==
    PerTick \in Nat \ {0} /\ TicksPerSecond \in Nat \ {0} /\ MaxRead \in Nat

VARIABLES
    tokens, idle,   \* b.tokens, and the ticks since b.last, as long as they matter
    left, nap,      \* of a call: the bytes still to wait for, the ticks still to sleep
    burst           \* history: bytes let through, less PerTick for every tick, never below 0

vars == <<tokens, idle, left, nap, burst>>

MaxBytes == PerTick * TicksPerSecond        \* b.maxBytes
AtMost(a, b) == IF a < b THEN a ELSE b

Init ==
    /\ tokens = MaxBytes /\ idle = 0
    /\ left = [r \in Readers |-> 0] /\ nap = [r \in Readers |-> 0]
    /\ burst = 0

Wait(r, n) ==
    /\ left[r] = 0
    /\ left' = [left EXCEPT ![r] = n] /\ nap' = [nap EXCEPT ![r] = 0]
    /\ UNCHANGED <<tokens, idle, burst>>

Waiting(r) == left[r] > 0 /\ nap[r] = 0

\* Mutant: what the bucket holds is not bounded.
RefilledFreely == tokens + PerTick * idle

Refilled == AtMost(tokens + PerTick * idle, MaxBytes)

\* Mutant: a read larger than the bucket is not split.
ChunkWhole(r) == left[r]

Chunk(r) == AtMost(left[r], MaxBytes)

\* the part of the loop under the lock, when there are tokens for the chunk
Grant(r) ==
    /\ Waiting(r) /\ Refilled >= Chunk(r)
    /\ tokens' = Refilled - Chunk(r) /\ idle' = 0
    /\ left' = [left EXCEPT ![r] = @ - Chunk(r)]
    /\ burst' = burst + Chunk(r)
    /\ UNCHANGED nap

\* and when there are not: the sleep is for what is missing now, reserves nothing, and is cut to
\* whole ticks, as a Duration is to nanoseconds
Sleep(r) ==
    /\ Waiting(r) /\ Refilled < Chunk(r)
    /\ tokens' = Refilled /\ idle' = 0
    /\ nap' = [nap EXCEPT ![r] = (Chunk(r) - Refilled) \div PerTick]
    /\ UNCHANGED <<left, burst>>

Tick ==
    /\ idle' = AtMost(idle + 1, TicksPerSecond)
    /\ nap' = [r \in Readers |-> IF nap[r] = 0 THEN 0 ELSE nap[r] - 1]
    /\ burst' = IF burst < PerTick THEN 0 ELSE burst - PerTick
    /\ UNCHANGED <<tokens, left>>

Turn(r) == Grant(r) \/ Sleep(r)
Next == Tick \/ \E r \in Readers : Turn(r) \/ \E n \in 1..MaxRead : Wait(r, n)

Spec == Init /\ [][Next]_vars

\* time passes, and a reader that is awake gets the lock
FairSpec == Spec /\ WF_vars(Tick) /\ \A r \in Readers : WF_vars(Turn(r))
-----------------------------------------------------------------------------
(* In every stretch of t ticks, however the readers sleep, wake and compete, at most a second *)
(* of bytes and PerTick * t pass: a bucket that has the history of all stretches at once      *)
(* never overflows.                                                                           *)
BurstBounded == burst <= MaxBytes

(* As long as some reader waits, bytes go through again and again: a read of any size is split so  *)
(* that the bucket can hold each chunk.  (Which reader gets them is open: one that asks for   *)
(* little can keep the bucket too low for one that asks for much.)                            *)
BytesFlow ==
    <>[](\E r \in Readers : left[r] > 0) => []<><<\E r \in Readers : Grant(r)>>_vars
=============================================================================

------------------------------ MODULE Registry ------------------------------
(***************************************************************************)
(* internal/provider: the health records of hosts, and ResolveAll, which   *)
(* asks every enabled provider for sources and ranks them by that health.  *)
(*                                                                         *)
(* The moving average is kept in units of 1/Scale, rounded down: a probe   *)
(* makes it (4 * e + outcome) / 5.  It is exact if Scale is a multiple of  *)
(* 10 * 5^MaxProbes.                                                       *)
(***************************************************************************)
EXTENDS Integers, Sequences, FiniteSets, FiniteSetsExt

CONSTANTS
    Hosts, Providers,   \* origins, and the adapters enabled in the configuration
    Offers,         \* Providers -> sequence of sources: what an adapter resolves to when it succeeds;
                    \* a source has a host, quality, codec, sized; its latency is never set
    Scale,          \* the unit of the moving average
    MaxProbes       \* bound: probes of all hosts together

ASSUME RegistryAssumption ==
    /\ Offers \in [Providers -> Seq([host : Hosts, quality : STRING, codec : STRING, sized : BOOLEAN])]
    /\ Scale \in Nat /\ Scale >= 100 /\ Scale % 10 = 0 /\ MaxProbes \in Nat

VARIABLES
    health,         \* r.hosts: average, samples, and whether banned_until is in the future
    asking,         \* providers that a running ResolveAll has still to ask
    found,          \* its list: sources and their scores
    chosen,         \* the first source of the sorted list, when a call has ended
    shunned, clean  \* history: hosts banned at all times since the call began, and at none

resolveVars == <<asking, found, chosen>>
registryVars == <<health, asking, found, chosen, shunned, clean>>

Unknown == [average |-> 7 * (Scale \div 10), samples |-> 0, banned |-> FALSE]
Probes == FoldSet(LAMBDA h, n : n + health[h].samples, 0, Hosts)

RegistryInit ==
    /\ health = [h \in Hosts |-> Unknown]
    /\ asking = {} /\ found = <<>> /\ chosen = {}
    /\ shunned = {} /\ clean = {}

Average(e, ok) == (4 * e + (IF ok THEN Scale ELSE 0)) \div 5

\* a failure bans a host, for 24 hours, when three samples are there and the average is below
\* 0.25; a success does not end a ban
Recorded(r, ok) ==
    LET e == Average(r.average, ok)
    IN [average |-> e, samples |-> r.samples + 1,
        banned |-> r.banned \/ (~ok /\ r.samples + 1 >= 3 /\ 4 * e < Scale)]

\* Probe, by any caller: the request needs no lock, the record is changed under it.  A request
\* fails also because its caller gives up.  Nothing in src/ calls Probe but its test.
RecordHost(h, ok) ==
    /\ Probes < MaxProbes
    /\ health' = [health EXCEPT ![h] = Recorded(@, ok)]
    /\ clean' = IF health'[h].banned THEN clean \ {h} ELSE clean
    /\ UNCHANGED <<resolveVars, shunned>>

\* the 24 hours are over
Unban(h) ==
    /\ health[h].banned
    /\ health' = [health EXCEPT ![h].banned = FALSE]
    /\ shunned' = shunned \ {h}
    /\ UNCHANGED <<resolveVars, clean>>

Quality(s) == CASE s.quality = "1080" -> 450 [] s.quality = "720" -> 315 [] OTHER -> 225
Codec(s) == CASE s.codec = "hevc" -> 200 [] s.codec = "avc" -> 180
              [] s.codec = "av1" -> -30 [] OTHER -> 100

\* Mutant: a ban is not looked at.
ScoreBlind(s) ==
    Scale * (Quality(s) + Codec(s) + 50 + (IF s.sized THEN 50 ELSE 0)) + 150 * health[s.host].average

\* scoreSource, in units of 1 / (1000 * Scale)
Score(s) ==
    IF health[s.host].banned THEN -1000 * Scale
    ELSE Scale * (Quality(s) + Codec(s) + 50 + (IF s.sized THEN 50 ELSE 0))
         + 150 * health[s.host].average

\* ResolveAll, with the providers in the order of a map, which is any order
ResolveAll ==
    /\ asking = {} /\ (found = <<>> \/ chosen # {})
    /\ asking' = Providers /\ found' = <<>>
    /\ chosen' = {}
    /\ shunned' = {h \in Hosts : health[h].banned} /\ clean' = Hosts \ shunned'
    /\ UNCHANGED health

\* the sources of one provider are scored when it has answered; one that fails is left out
Ask(p) ==
    /\ p \in asking
    /\ asking' = asking \ {p}
    /\ \E srcs \in {Offers[p], <<>>} :
        found' = found \o [i \in 1..Len(srcs) |-> [src |-> srcs[i], score |-> Score(srcs[i])]]
    /\ UNCHANGED <<health, chosen, shunned, clean>>

\* the first of a stable sort, best first
Best(list) ==
    CHOOSE i \in 1..Len(list) : \A j \in 1..Len(list) :
        list[i].score > list[j].score \/ (list[i].score = list[j].score /\ i <= j)

Ranked ==
    /\ asking = {} /\ found # <<>> /\ chosen = {}
    /\ chosen' = {found[Best(found)].src}
    /\ UNCHANGED <<health, asking, found, shunned, clean>>

RegistryNext ==
    \/ \E h \in Hosts : Unban(h) \/ \E ok \in BOOLEAN : RecordHost(h, ok)
    \/ ResolveAll \/ (\E p \in Providers : Ask(p)) \/ Ranked

RegistrySpec == RegistryInit /\ [][RegistryNext]_registryVars
-----------------------------------------------------------------------------
(* The source that the queue takes, the first, is on a host that was banned all through the  *)
(* call only if no source was found on a host that was not banned at all: probes recorded     *)
(* while providers are asked, and a ban that ends, do not change that.                        *)
BannedSinks ==
    \A s \in chosen : s.host \in shunned => \A i \in 1..Len(found) : found[i].src.host \notin clean
=============================================================================

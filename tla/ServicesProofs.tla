--------------------------- MODULE ServicesProofs ---------------------------
(***************************************************************************)
(* Invariants of components that share no state with the queue or with     *)
(* each other: the screen (Tui), the health records of hosts (Registry),   *)
(* the space on the disk (Space), the tunnel (Vpn), the download rate      *)
(* (BoundedRate) and a download of segments (Hls), for every value of      *)
(* their constants.                                                        *)
(***************************************************************************)
EXTENDS Tui, Registry, Space, Vpn, BoundedRate, Hls, NatLemmas

----------------------------------------------------------------------------
(* The screen.  Every handler that makes a list puts the cursor on its first  *)
(* line, and no message of a command touches either.                          *)

TuiInv ==
    /\ cursor \in Int /\ lines \in Nat /\ status \in Nat /\ active \in Nat
    /\ got \in [Ids -> Nat]
    /\ CursorInside

LEMMA TuiBegins == TuiInit => TuiInv
BY TuiAssumption DEF TuiInit, TuiInv, CursorInside

\* A new list has a line, and the cursor is on the first.
LEMMA NewList ==
    ASSUME NEW n \in 1..MaxLines
    PROVE  n \in Nat /\ n > 0 /\ 0 \in 0..(n - 1)
<1>1. MaxLines \in Nat
  BY TuiAssumption
<1> QED BY <1>1

\* Keys move the cursor round and round the list.
LEMMA Around ==
    ASSUME NEW n \in Nat, n > 0, NEW c \in 0..(n - 1), NEW by \in {-1, 1}
    PROVE  (c + by + n) % n \in 0..(n - 1)
BY Z3

\* A new list comes with a cursor on its first line.
LEMMA NewListInv ==
    ASSUME TuiInv, cursor' = 0, lines' \in Nat, lines' > 0, UNCHANGED <<active, status, got>>
    PROVE  TuiInv'
<1>1. \A n \in Nat : n > 0 => 0 \in 0..(n - 1)
  OBVIOUS
<1>2. 0 \in 0..(lines' - 1)
  BY <1>1, Zenon
<1>3. cursor' \in 0..(lines' - 1)
  BY <1>2, Zenon
<1>4. cursor' \in Int
  OBVIOUS
<1> QED BY <1>3, <1>4 DEF TuiInv, CursorInside

\* One step, by the kind of message.
LEMMA TuiStep == ASSUME TuiInv, [TuiNext]_tuiVars PROVE TuiInv'
<1>1. ASSUME NEW s \in Screens, Show(s)
      PROVE  TuiInv'
  <2>1. cursor' = 0 /\ UNCHANGED <<active, status, got>> /\ (lines' = JobItems \/ lines' \in 1..MaxLines)
    BY <1>1 DEF Show
  <2>2. JobItems \in Nat /\ JobItems > 0
    BY DEF JobItems, TuiInv
  <2> QED BY <2>1, <2>2, NewList, NewListInv
<1>2. CASE Search \/ Escape \/ Type
  BY <1>2 DEF Search, Escape, Type, async, TuiInv, CursorInside
<1>3. CASE RunSearch
  <2>1. cursor' = 0 /\ lines' \in 1..MaxLines /\ UNCHANGED <<active, status, got>>
    BY <1>3 DEF RunSearch, async
  <2> QED BY <2>1, NewList, NewListInv
<1>4. ASSUME NEW by \in {-1, 1}, Move(by)
      PROVE  TuiInv'
  <2>1. cursor' \in 0..(lines - 1) /\ UNCHANGED <<async, lines>>
    BY <1>4, Around DEF Move, TuiInv, CursorInside
  <2> QED BY <2>1 DEF async, TuiInv, CursorInside
<1>5. ASSUME NEW i \in Ids, ReadStatus(i) \/ Update(i)
      PROVE  TuiInv'
  <2>1. UNCHANGED <<cursor, lines, active>>
    BY <1>5 DEF ReadStatus, Update, view
  <2>2. status' \in Nat /\ got' \in [Ids -> Nat]
    BY <1>5 DEF ReadStatus, Update, TuiInv
  <2> QED BY <2>1, <2>2 DEF TuiInv, CursorInside
<1>6. CASE Change
  <2>1. active' \in Nat /\ UNCHANGED <<cursor, lines, status, got>>
    BY <1>6, TuiAssumption DEF Change, view
  <2> QED BY <2>1 DEF TuiInv, CursorInside
<1>7. CASE UNCHANGED tuiVars
  BY <1>7 DEF tuiVars, TuiInv, CursorInside
<1> QED BY <1>1, <1>2, <1>3, <1>4, <1>5, <1>6, <1>7 DEF TuiNext

\* The cursor stays on a line of the list (tui.go: every new list comes with a cursor of 0,
\* keys move it modulo the list, and a status that comes in leaves the list alone), for lists
\* of any length and any number of refreshes.
THEOREM CursorStaysInside == TuiSpec => []CursorInside
<1>1. TuiInit => TuiInv
  BY TuiBegins
<1>2. TuiInv /\ [TuiNext]_tuiVars => TuiInv'
  BY TuiStep
<1>3. TuiInv => CursorInside
  BY DEF TuiInv
<1> QED BY <1>1, <1>2, <1>3, PTL DEF TuiSpec
----------------------------------------------------------------------------
(* Health records. *)

HealthTypes == health \in [Hosts -> [average : 0..Scale, samples : Nat, banned : BOOLEAN]]

LEMMA ScaleType == Scale \in Nat /\ Scale >= 100 /\ 10 * (Scale \div 10) = Scale
BY RegistryAssumption

\* An outcome keeps the average between none and all.
LEMMA RecordedType ==
    ASSUME NEW r \in [average : 0..Scale, samples : Nat, banned : BOOLEAN], NEW ok \in BOOLEAN
    PROVE  Recorded(r, ok) \in [average : 0..Scale, samples : Nat, banned : BOOLEAN]
<1> DEFINE e == Average(r.average, ok)
<1>1. e \in 0..Scale
  BY ScaleType DEF Average
<1> HIDE DEF e
<1>2. Recorded(r, ok) = [average |-> e, samples |-> r.samples + 1,
                         banned |-> r.banned \/ (~ok /\ r.samples + 1 >= 3 /\ 4 * e < Scale)]
  BY DEF Recorded, e
<1> QED BY <1>1, <1>2

LEMMA HealthBegins == RegistryInit => HealthTypes
BY ScaleType DEF RegistryInit, HealthTypes, Unknown

LEMMA HealthStep == ASSUME HealthTypes, [RegistryNext]_registryVars PROVE HealthTypes'
<1> USE DEF HealthTypes
<1>1. ASSUME NEW h \in Hosts, NEW ok \in BOOLEAN, RecordHost(h, ok)
      PROVE  HealthTypes'
  BY <1>1, RecordedType DEF RecordHost
<1>2. ASSUME NEW h \in Hosts, Unban(h)
      PROVE  HealthTypes'
  <2>1. health' = [health EXCEPT ![h] = [health[h] EXCEPT !.banned = FALSE]]
    BY <1>2 DEF Unban
  <2>2. [health[h] EXCEPT !.banned = FALSE] \in [average : 0..Scale, samples : Nat, banned : BOOLEAN]
    OBVIOUS
  <2> QED BY <2>1, <2>2
<1>3. CASE UNCHANGED health
  BY <1>3
<1>4. CASE ResolveAll \/ Ranked \/ (\E p \in Providers : Ask(p)) \/ UNCHANGED registryVars
  BY <1>3, <1>4 DEF ResolveAll, Ranked, Ask, registryVars
<1> QED BY <1>1, <1>2, <1>4 DEF RegistryNext

----------------------------------------------------------------------------
(* The ranking.  A source is scored with what is known of its host at that    *)
(* moment, and the list is sorted later: whatever happens in between, a host  *)
(* that has been banned all the time gave the lowest score there is, and one  *)
(* that never was gave a better one.                                          *)

Offered == [host : Hosts, quality : STRING, codec : STRING, sized : BOOLEAN]
Scored == [src : Offered, score : Int]

RankTypes == HealthTypes /\ found \in Seq(Scored)

ScoredAt(i) ==
    /\ found[i].src.host \in shunned => found[i].score = -1000 * Scale
    /\ found[i].src.host \in clean => found[i].score > -1000 * Scale

RankInv ==
    /\ RankTypes
    /\ \A h \in shunned : h \in Hosts /\ health[h].banned
    /\ \A h \in clean : h \in Hosts /\ ~health[h].banned
    /\ \A i \in 1..Len(found) : ScoredAt(i)
    /\ chosen # {} => asking = {}
    /\ BannedSinks

\* The lowest score is that of a banned host, and only of one.
LEMMA ScoreOf ==
    ASSUME HealthTypes, NEW s \in Offered
    PROVE  /\ Score(s) \in Int
           /\ health[s.host].banned => Score(s) = -1000 * Scale
           /\ ~health[s.host].banned => Score(s) > -1000 * Scale
<1> DEFINE good == Quality(s) + Codec(s) + 50 + (IF s.sized THEN 50 ELSE 0)
           e == health[s.host].average
<1>1. Quality(s) \in Int /\ Quality(s) >= 225
  BY DEF Quality
<1>2. Codec(s) \in Int /\ Codec(s) >= -30
  BY DEF Codec
<1>3. good \in Int /\ good > 0
  BY <1>1, <1>2
<1>4. e \in Int /\ e >= 0 /\ Scale \in Int /\ Scale > 0
  BY ScaleType DEF HealthTypes, Offered
<1>5. Score(s) = IF health[s.host].banned THEN -1000 * Scale ELSE Scale * good + 150 * e
  BY DEF Score
<1> HIDE DEF good, e
<1>6. Scale * good \in Int /\ Scale * good > 0
  BY <1>3, <1>4
<1> QED BY <1>4, <1>5, <1>6

\* A list that is not empty has a best entry, and Best is it.
LEMMA BestIsBest ==
    ASSUME NEW list \in Seq(Scored), list # <<>>
    PROVE  /\ Best(list) \in 1..Len(list)
           /\ \A j \in 1..Len(list) : list[j].score <= list[Best(list)].score
<1> DEFINE T == {list[i].score : i \in 1..Len(list)}
<1>1. Len(list) \in Nat /\ 1 \in 1..Len(list) /\ \A i \in 1..Len(list) : list[i].score \in Int
  <2>1. Len(list) \in Nat /\ Len(list) # 0
    OBVIOUS
  <2>2. \A i \in 1..Len(list) : list[i] \in Scored
    OBVIOUS
  <2> QED BY <2>1, <2>2 DEF Scored
<1>2. T \subseteq Int /\ T # {}
  BY <1>1
<1>3. IsFiniteSet(T)
  <2>1. IsFiniteSet(1..Len(list))
    <3>1. 1 \in Int /\ Len(list) \in Int
      BY <1>1
    <3> QED BY <3>1, FS_Interval, Zenon
  <2>2. [i \in 1..Len(list) |-> list[i].score] \in Surjection(1..Len(list), T)
    BY DEF Surjection
  <2> QED BY <2>1, <2>2, FS_Surjection
<1>4. PICK top \in T : \A t \in T : t <= top
  <2> HIDE DEF T
  <2> QED BY <1>2, <1>3, GreatestElement
<1> DEFINE I == {i \in 1..Len(list) : list[i].score = top}
<1>5. I \subseteq Nat /\ I # {}
  BY <1>1, <1>4
<1>6. PICK i \in I : \A j \in I : i <= j
  <2> HIDE DEF I
  <2> QED BY <1>5, LeastElement
<1>7. \A j \in 1..Len(list) :
        list[i].score > list[j].score \/ (list[i].score = list[j].score /\ i <= j)
  <2> SUFFICES ASSUME NEW j \in 1..Len(list)
               PROVE  list[i].score > list[j].score \/ (list[i].score = list[j].score /\ i <= j)
    OBVIOUS
  <2>1. i \in 1..Len(list) /\ list[i].score = top /\ list[j].score \in T
    BY <1>6
  <2>2. list[j].score <= top /\ list[j].score \in Int /\ top \in Int
    BY <1>1, <1>2, <1>4, <2>1
  <2>3. list[j].score = top => i <= j
    BY <1>6
  <2> QED BY <2>1, <2>2, <2>3
<1>8. \E k \in 1..Len(list) : \A j \in 1..Len(list) :
        list[k].score > list[j].score \/ (list[k].score = list[j].score /\ k <= j)
  BY <1>6, <1>7
<1>9. /\ Best(list) \in 1..Len(list)
      /\ \A j \in 1..Len(list) :
            \/ list[Best(list)].score > list[j].score
            \/ list[Best(list)].score = list[j].score /\ Best(list) <= j
  BY <1>8, Zenon DEF Best
<1> QED BY <1>1, <1>9, SMTT(30)

LEMMA RankBegins == RegistryInit => RankInv
<1>1. RegistryInit => HealthTypes
  BY HealthBegins
<1> QED BY <1>1 DEF RegistryInit, RankInv, RankTypes, BannedSinks, ScoredAt

\* A source is scored with the health of its host at that moment.
LEMMA RankAsk ==
    ASSUME RankInv, NEW p \in Providers, Ask(p)
    PROVE  RankInv'
<1>1. PICK srcs \in {Offers[p], <<>>} :
        found' = found \o [i \in 1..Len(srcs) |-> [src |-> srcs[i], score |-> Score(srcs[i])]]
  BY DEF Ask
<1> DEFINE new == [i \in 1..Len(srcs) |-> [src |-> srcs[i], score |-> Score(srcs[i])]]
<1>2. srcs \in Seq(Offered)
  <2>1. Offers[p] \in Seq(Offered)
    BY RegistryAssumption DEF Offered
  <2>2. <<>> \in Seq(Offered)
    OBVIOUS
  <2> QED BY <2>1, <2>2
<1>3. /\ new \in Seq(Scored) /\ Len(new) = Len(srcs)
      /\ \A i \in 1..Len(new) : new[i].src \in Offered /\ new[i].score = Score(new[i].src)
  <2>1. \A i \in 1..Len(srcs) : srcs[i] \in Offered /\ Score(srcs[i]) \in Int
    BY <1>2, ScoreOf DEF RankInv, RankTypes
  <2>2. Len(srcs) \in Nat
    BY <1>2
  <2>3. new \in [1..Len(srcs) -> Scored]
    BY <2>1 DEF Scored
  <2> QED BY <2>1, <2>2, <2>3
<1> HIDE DEF new
<1>4. /\ UNCHANGED <<health, shunned, clean, chosen>> /\ asking # {} /\ found' = found \o new
  BY <1>1 DEF Ask, new
<1>5. found \in Seq(Scored) /\ found' \in Seq(Scored) /\ HealthTypes /\ HealthTypes'
  <2>1. found \in Seq(Scored) /\ HealthTypes
    BY DEF RankInv, RankTypes
  <2>2. found \o new \in Seq(Scored)
    BY <1>3, <2>1
  <2>3. HealthTypes'
    BY <1>4, <2>1 DEF HealthTypes
  <2> QED BY <1>4, <2>1, <2>2, <2>3
<1>6. ASSUME NEW i \in 1..Len(found')
      PROVE  ScoredAt(i)'
  <2>1. CASE i \in 1..Len(found)
    <3>1. found'[i] = found[i]
      BY <1>3, <1>4, <1>5, <2>1
    <3> QED BY <1>4, <2>1, <3>1 DEF RankInv, ScoredAt
  <2>2. CASE i \notin 1..Len(found)
    <3>1. i - Len(found) \in 1..Len(new) /\ found'[i] = new[i - Len(found)]
      BY <1>3, <1>4, <1>5, <1>6, <2>2
    <3>2. found'[i].src \in Offered /\ found'[i].score = Score(found'[i].src)
      BY <1>3, <3>1
    <3>3. /\ health[found'[i].src.host].banned => found'[i].score = -1000 * Scale
          /\ ~health[found'[i].src.host].banned => found'[i].score > -1000 * Scale
      BY <1>5, <3>2, ScoreOf
    <3>4. /\ found'[i].src.host \in shunned => health[found'[i].src.host].banned
          /\ found'[i].src.host \in clean => ~health[found'[i].src.host].banned
      BY DEF RankInv
    <3> QED BY <1>4, <3>3, <3>4 DEF ScoredAt
  <2> QED BY <2>1, <2>2
<1>7. chosen' = {}
  BY <1>4 DEF RankInv
<1> QED BY <1>4, <1>5, <1>6, <1>7 DEF RankInv, RankTypes, BannedSinks

\* The best entry is not on a host of the lowest score if there is another.
LEMMA RankRanked == ASSUME RankInv, Ranked PROVE RankInv'
<1>1. /\ found \in Seq(Scored) /\ found # <<>> /\ chosen' = {found[Best(found)].src} /\ asking' = {}
      /\ UNCHANGED <<health, found, shunned, clean>>
  BY DEF Ranked, RankInv, RankTypes
<1>2. BannedSinks'
  <2> SUFFICES ASSUME found[Best(found)].src.host \in shunned,
                      NEW i \in 1..Len(found), found[i].src.host \in clean
               PROVE  FALSE
    BY <1>1 DEF BannedSinks
  <2>1. /\ Best(found) \in 1..Len(found) /\ found[i].score <= found[Best(found)].score
    BY <1>1, BestIsBest
  <2>2. found[Best(found)].score = -1000 * Scale /\ found[i].score > -1000 * Scale
    BY <2>1 DEF RankInv, ScoredAt
  <2>3. found[i].score \in Int /\ Scale \in Int
    <3>1. found[i] \in Scored
      BY <1>1
    <3> QED BY <3>1, ScaleType DEF Scored
  <2> QED BY <2>1, <2>2, <2>3
<1> QED BY <1>1, <1>2 DEF RankInv, RankTypes, HealthTypes, ScoredAt

LEMMA RankHealth ==     \* a host's record changes while the list is made
    ASSUME RankInv, HealthTypes', NEW h \in Hosts, UNCHANGED <<found, chosen, asking>>,
           \A g \in Hosts \ {h} : health'[g] = health[g],
           shunned' \subseteq shunned, clean' \subseteq clean,
           h \in shunned' => health'[h].banned, h \in clean' => ~health'[h].banned
    PROVE  RankInv'
<1>1. \A g \in shunned' : g \in Hosts /\ health'[g].banned
  BY DEF RankInv
<1>2. \A g \in clean' : g \in Hosts /\ ~health'[g].banned
  BY DEF RankInv
<1>3. \A i \in 1..Len(found') : ScoredAt(i)'
  BY DEF RankInv, ScoredAt
<1>4. BannedSinks'
  BY DEF RankInv, BannedSinks
<1> QED BY <1>1, <1>2, <1>3, <1>4 DEF RankInv, RankTypes

LEMMA RankStep == ASSUME RankInv, HealthTypes', [RegistryNext]_registryVars PROVE RankInv'
<1>1. ASSUME NEW h \in Hosts, NEW ok \in BOOLEAN, RecordHost(h, ok)
      PROVE  RankInv'
  <2>1. /\ UNCHANGED <<found, chosen, asking, shunned>> /\ clean' \subseteq clean
        /\ health' = [health EXCEPT ![h] = Recorded(health[h], ok)]
        /\ h \in clean' => ~health'[h].banned
    BY <1>1 DEF RecordHost, resolveVars
  <2>2. health'[h].banned <=> Recorded(health[h], ok).banned
    BY <2>1 DEF RankInv, RankTypes, HealthTypes
  <2>3. h \in shunned => health'[h].banned
    BY <2>2 DEF RankInv, Recorded
  <2>4. \A g \in Hosts \ {h} : health'[g] = health[g]
    BY <2>1 DEF RankInv, RankTypes, HealthTypes
  <2> QED BY <2>1, <2>3, <2>4, RankHealth
<1>2. ASSUME NEW h \in Hosts, Unban(h)
      PROVE  RankInv'
  <2>1. /\ UNCHANGED <<found, chosen, asking, clean>> /\ shunned' = shunned \ {h} /\ health[h].banned
        /\ \A g \in Hosts \ {h} : health'[g] = health[g]
    BY <1>2 DEF Unban, resolveVars, RankInv, RankTypes, HealthTypes
  <2>2. h \notin clean
    BY <2>1 DEF RankInv
  <2> QED BY <2>1, <2>2, RankHealth
<1>3. CASE ResolveAll
  <2>1. /\ found' = <<>> /\ chosen' = {} /\ UNCHANGED health
        /\ shunned' = {h \in Hosts : health[h].banned} /\ clean' = Hosts \ shunned'
    BY <1>3 DEF ResolveAll
  <2> QED BY <2>1 DEF RankInv, RankTypes, BannedSinks, ScoredAt
<1>4. CASE UNCHANGED registryVars
  BY <1>4 DEF registryVars, resolveVars, RankInv, RankTypes, BannedSinks, ScoredAt
<1> QED BY <1>1, <1>2, <1>3, <1>4, RankAsk, RankRanked DEF RegistryNext

\* A source on a host that was banned all through ResolveAll is not the first one when there is
\* one on a host that was not banned at all (registry.go, ResolveAll; scoring.go, scoreSource),
\* for any number of hosts, adapters and sources, whatever is probed meanwhile.
THEOREM BannedHostsSink == RegistrySpec => []BannedSinks
<1>1. RegistryInit => HealthTypes /\ RankInv
  BY HealthBegins, RankBegins
<1>2. HealthTypes /\ RankInv /\ [RegistryNext]_registryVars => HealthTypes' /\ RankInv'
  BY HealthStep, RankStep
<1>3. RankInv => BannedSinks
  BY DEF RankInv
<1> QED BY <1>1, <1>2, <1>3, PTL DEF RegistrySpec
----------------------------------------------------------------------------
(* The space.  A running job may still take what it owes: the bytes of its    *)
(* parts and of their copy that are not there yet.  A sum over the jobs is an *)
(* induction over data, so each of these bytes is an element of a set.        *)

Stages == {"out", "fetch", "assemble", "publish", "remux"}

SpaceTypes ==
    /\ free \in Int /\ victims \subseteq Jobs
    /\ stage \in [Jobs -> Stages]
    /\ parts \in [Jobs -> Nat] /\ scratch \in [Jobs -> Nat] /\ library \in [Jobs -> Nat]

BytesFit(l, p, c, n) ==
    /\ l = "out" => p = 0 /\ c = 0
    /\ l = "fetch" => p < n /\ c = 0
    /\ l = "assemble" => p = n /\ c < n
    /\ l = "publish" => p = n /\ c = 0
    /\ l = "remux" => p = n /\ c <= n

StageBytes(j) == BytesFit(stage[j], parts[j], scratch[j], Size[j])

Owed(j) == 2 * Size[j] - parts[j] - scratch[j]
Outstanding ==
    {q \in Jobs \X (1..(2 * MaxSize)) : q[1] \in Running /\ q[2] <= Owed(q[1])}

Floor == Reserve + Margin - (2 * MaxConcurrency - 1) * MaxSize

\* the disk is not below the floor before the first job starts
EnoughDisk == Disk >= Floor

SpaceInv ==
    /\ SpaceTypes
    /\ \A j \in Jobs : StageBytes(j)
    /\ Cardinality(Running) <= MaxConcurrency
    /\ ~blind => free >= Floor + Cardinality(Outstanding)

\* Max is a CHOOSE: it is the greatest size because there is one.
LEMMA MaxSizeIsMax == MaxSize \in Nat \ {0} /\ \A j \in Jobs : Size[j] <= MaxSize
<1> DEFINE Sizes == {Size[j] : j \in Jobs}
<1>1. Sizes \subseteq Nat \ {0} /\ Sizes # {}
  BY SpaceAssumption
<1>2. IsFiniteSet(Sizes)
  <2>1. Size \in Surjection(Jobs, Sizes)
    BY SpaceAssumption DEF Surjection
  <2> QED BY <2>1, SpaceAssumption, FS_Surjection
<1> HIDE DEF Sizes
<1>3. \E x \in Sizes : \A y \in Sizes : x >= y
  <2>1. PICK x \in Sizes : \A y \in Sizes : y <= x
    <3>1. Sizes \subseteq Int /\ Sizes # {}
      BY <1>1
    <3> QED BY <1>2, <3>1, GreatestElement
  <2> QED BY <1>1, <2>1
<1>4. Max(Sizes) \in Sizes /\ \A y \in Sizes : Max(Sizes) >= y
  BY <1>3, Zenon DEF Max
<1>5. MaxSize = Max(Sizes) /\ \A j \in Jobs : Size[j] \in Sizes
  BY DEF MaxSize, Sizes
<1> QED BY <1>1, <1>4, <1>5

LEMMA FloorType == Floor \in Int
<1>1. (2 * MaxConcurrency - 1) * MaxSize \in Int
  BY MaxSizeIsMax, SpaceAssumption
<1> QED BY <1>1, SpaceAssumption DEF Floor

\* What is owed is finite, and no more than twice the largest size for every running job.
LEMMA OutstandingIsFinite ==
    /\ IsFiniteSet(Running) /\ Cardinality(Running) \in Nat
    /\ IsFiniteSet(Outstanding) /\ Cardinality(Outstanding) \in Nat
    /\ Cardinality(Outstanding) <= Cardinality(Running) * (2 * MaxSize)
<1> DEFINE All == Running \X (1..(2 * MaxSize))
<1>1. IsFiniteSet(Running)
  BY SpaceAssumption, FS_Subset DEF Running
<1>2. IsFiniteSet(1..(2 * MaxSize)) /\ Cardinality(1..(2 * MaxSize)) = 2 * MaxSize
  BY MaxSizeIsMax, FS_Interval
<1>3. IsFiniteSet(All) /\ Cardinality(All) = Cardinality(Running) * (2 * MaxSize)
  BY <1>1, <1>2, FS_Product
<1>4. Outstanding \in SUBSET All
  BY DEF Outstanding
<1>5. IsFiniteSet(Outstanding) /\ Cardinality(Outstanding) <= Cardinality(All)
  BY <1>3, <1>4, FS_Subset
<1> QED BY <1>1, <1>3, <1>5, FS_CardinalityType

LEMMA SpaceBegins == EnoughDisk /\ SpaceInit => SpaceInv
<1> SUFFICES ASSUME EnoughDisk, SpaceInit PROVE SpaceInv
  OBVIOUS
<1>1. Running = {} /\ Outstanding = {}
  BY DEF SpaceInit, Running, Outstanding
<1>2. Cardinality(Running) = 0 /\ Cardinality(Outstanding) = 0
  BY <1>1, FS_EmptySet
<1>3. SpaceTypes /\ \A j \in Jobs : StageBytes(j)
  BY SpaceAssumption DEF SpaceInit, SpaceTypes, StageBytes, BytesFit, Stages
<1> QED BY <1>2, <1>3, FloorType, SpaceAssumption DEF EnoughDisk, SpaceInit, SpaceInv

\* A step after which no more jobs run, that owes the byte it writes or nothing, keeps the floor.
LEMMA FloorKept ==
    ASSUME SpaceInv, SpaceTypes', \A j \in Jobs : StageBytes(j)', UNCHANGED blind,
           Running' \subseteq Running, Outstanding' \subseteq Outstanding,
           \/ free' >= free
           \/ free' = free - 1 /\ \E q \in Outstanding : q \notin Outstanding'
    PROVE  SpaceInv'
<1>1. Cardinality(Running') <= Cardinality(Running) /\ Cardinality(Running') \in Nat
  BY OutstandingIsFinite, FS_Subset, FS_CardinalityType
<1>2. Cardinality(Running') <= MaxConcurrency
  BY <1>1, OutstandingIsFinite, SpaceAssumption DEF SpaceInv
<1>3. Cardinality(Outstanding') <= Cardinality(Outstanding) /\ Cardinality(Outstanding') \in Nat
  BY OutstandingIsFinite, FS_Subset, FS_CardinalityType
<1>4. free \in Int /\ free' \in Int
  BY DEF SpaceInv, SpaceTypes
<1>5. CASE free' >= free
  <2>1. ~blind => free' >= Floor + Cardinality(Outstanding')
    BY <1>3, <1>4, <1>5, OutstandingIsFinite, FloorType DEF SpaceInv
  <2> QED BY <1>2, <2>1 DEF SpaceInv, Floor
<1>6. CASE free' = free - 1 /\ \E q \in Outstanding : q \notin Outstanding'
  <2>1. PICK q \in Outstanding : q \notin Outstanding'
    BY <1>6
  <2>2. /\ Cardinality(Outstanding \ {q}) = Cardinality(Outstanding) - 1
        /\ IsFiniteSet(Outstanding \ {q})
    BY OutstandingIsFinite, FS_RemoveElement
  <2>3. Outstanding' \subseteq Outstanding \ {q}
    BY <2>1
  <2>4. Cardinality(Outstanding') <= Cardinality(Outstanding) - 1
    BY <2>2, <2>3, FS_Subset
  <2>5. ~blind => free' >= Floor + Cardinality(Outstanding')
    BY <1>3, <1>4, <1>6, <2>4, OutstandingIsFinite, FloorType DEF SpaceInv
  <2> QED BY <1>2, <2>5 DEF SpaceInv, Floor
<1> QED BY <1>5, <1>6

\* A job that moves on takes the byte on top of what it owes.
LEMMA OwesLess ==
    ASSUME SpaceInv, NEW j \in Jobs, j \in Running, Owed(j) \in Nat \ {0}, Owed(j) <= 2 * MaxSize,
           Owed(j)' = Owed(j) - 1, \A i \in Jobs \ {j} : Owed(i)' = Owed(i), Running' = Running
    PROVE  Outstanding' \subseteq Outstanding /\ \E q \in Outstanding : q \notin Outstanding'
<1>1. Outstanding' = {q \in Jobs \X (1..(2 * MaxSize)) : q[1] \in Running' /\ q[2] <= Owed(q[1])'}
  BY DEF Outstanding, MaxSize
<1>2. ASSUME NEW q \in Outstanding' PROVE q \in Outstanding
  <2>1. q \in Jobs \X (1..(2 * MaxSize)) /\ q[1] \in Running /\ q[2] <= Owed(q[1])'
    BY <1>1
  <2>2. q[2] \in Int /\ q[1] \in Jobs
    BY <2>1, MaxSizeIsMax
  <2>3. q[2] <= Owed(q[1])
    BY <2>1, <2>2
  <2> QED BY <2>1, <2>3 DEF Outstanding
<1>3. <<j, Owed(j)>> \in Outstanding
  BY MaxSizeIsMax DEF Outstanding
<1>4. <<j, Owed(j)>> \notin Outstanding'
  BY <1>1
<1> QED BY <1>2, <1>3, <1>4

\* A job that ends owes nothing any more.
LEMMA OwesNothing ==
    ASSUME NEW j \in Jobs, Running' = Running \ {j}, \A i \in Jobs \ {j} : Owed(i)' = Owed(i)
    PROVE  Outstanding' \subseteq Outstanding
<1>1. Outstanding' = {q \in Jobs \X (1..(2 * MaxSize)) : q[1] \in Running' /\ q[2] <= Owed(q[1])'}
  BY DEF Outstanding, MaxSize
<1> QED BY <1>1 DEF Outstanding

\* No more elements than in both together.
LEMMA UnionBound ==
    ASSUME NEW S, IsFiniteSet(S), NEW T, IsFiniteSet(T), NEW U, U \subseteq S \cup T
    PROVE  Cardinality(U) \in Nat /\ Cardinality(U) <= Cardinality(S) + Cardinality(T)
<1>1. IsFiniteSet(S \cup T) /\ IsFiniteSet(S \cap T) /\ IsFiniteSet(U)
  BY FS_Union, FS_Subset
<1>2. Cardinality(S \cup T) = Cardinality(S) + Cardinality(T) - Cardinality(S \cap T)
  BY FS_Union
<1>3. Cardinality(U) <= Cardinality(S \cup T)
  BY <1>1, FS_Subset
<1> QED BY <1>1, <1>2, <1>3, FS_CardinalityType

\* What one job owes, as far as a range goes.
LEMMA OwedRange ==
    ASSUME NEW j \in Jobs, NEW a \in Nat, NEW b \in Nat, a <= b + 1
    PROVE  IsFiniteSet({j} \X (a..b)) /\ Cardinality({j} \X (a..b)) = b - a + 1
<1>1. IsFiniteSet({j}) /\ Cardinality({j}) = 1
  BY FS_Singleton
<1>2. IsFiniteSet(a..b) /\ Cardinality(a..b) = b - a + 1
  BY FS_Interval
<1> QED BY <1>1, <1>2, FS_Product

Moves(j, l, p, c) ==
    /\ stage' = [stage EXCEPT ![j] = l] /\ l \in Stages
    /\ parts' = [parts EXCEPT ![j] = p] /\ p \in Nat
    /\ scratch' = [scratch EXCEPT ![j] = c] /\ c \in Nat
    /\ library' \in [Jobs -> Nat] /\ free' \in Int /\ UNCHANGED victims
    /\ BytesFit(l, p, c, Size[j])

\* One job goes on to another stage, with other bytes.
LEMMA JobMoves ==
    ASSUME SpaceInv, NEW j \in Jobs, NEW l, NEW p, NEW c, Moves(j, l, p, c)
    PROVE  /\ SpaceTypes' /\ \A i \in Jobs : StageBytes(i)'
           /\ Running' = IF l = "out" THEN Running \ {j} ELSE Running \cup {j}
           /\ Owed(j)' = 2 * Size[j] - p - c
           /\ \A i \in Jobs \ {j} : Owed(i)' = Owed(i)
<1>1. /\ stage \in [Jobs -> Stages] /\ parts \in [Jobs -> Nat] /\ scratch \in [Jobs -> Nat]
      /\ victims \subseteq Jobs /\ \A i \in Jobs : StageBytes(i)
  BY DEF SpaceInv, SpaceTypes
<1>2. SpaceTypes'
  BY <1>1 DEF SpaceTypes, Moves
<1>3. stage'[j] = l /\ parts'[j] = p /\ scratch'[j] = c
  BY <1>1 DEF Moves
<1>4. \A i \in Jobs \ {j} : stage'[i] = stage[i] /\ parts'[i] = parts[i] /\ scratch'[i] = scratch[i]
  BY <1>1 DEF Moves
<1>5. \A i \in Jobs : StageBytes(i)'
  BY <1>1, <1>3, <1>4 DEF StageBytes, Moves
<1>6. Running' = IF l = "out" THEN Running \ {j} ELSE Running \cup {j}
  BY <1>3, <1>4 DEF Running
<1>7. Owed(j)' = 2 * Size[j] - p - c /\ \A i \in Jobs \ {j} : Owed(i)' = Owed(i)
  BY <1>3, <1>4 DEF Owed
<1> QED BY <1>2, <1>5, <1>6, <1>7

\* A job that fits leaves room for what the others owe and for itself, down to the floor.
LEMMA SpaceCheck ==
    ASSUME SpaceInv, NEW j \in Jobs, NEW told \in BOOLEAN, Check(j, told)
    PROVE  SpaceInv'
<1>1. /\ stage[j] = "out" /\ Cardinality(Running) < MaxConcurrency
      /\ stage' = [stage EXCEPT ![j] = "fetch"] /\ blind' = (blind \/ ~told)
      /\ UNCHANGED <<free, parts, scratch, library, victims>>
      /\ told => free >= Reserve + Margin + Size[j]
  <2>1. told => free - Reserve >= Size[j] + Margin
    BY DEF Check, Fits
  <2>2. free \in Int /\ Size[j] \in Int /\ Reserve \in Int /\ Margin \in Int
    BY SpaceAssumption DEF SpaceInv, SpaceTypes
  <2>3. told => free >= Reserve + Margin + Size[j]
    BY <2>1, <2>2
  <2> QED BY <2>3 DEF Check, GotoStage, published
<1>2. /\ SpaceTypes' /\ \A i \in Jobs : StageBytes(i)'
      /\ Running' = Running \cup {j} /\ \A i \in Jobs : Owed(i)' = Owed(i)
  <2>1. BytesFit(stage[j], parts[j], scratch[j], Size[j]) /\ parts[j] \in Nat /\ scratch[j] \in Nat
    BY DEF SpaceInv, SpaceTypes, StageBytes
  <2>2. parts[j] = 0 /\ scratch[j] = 0
    BY <1>1, <2>1 DEF BytesFit
  <2>3. BytesFit("fetch", parts[j], scratch[j], Size[j])
    BY <2>2, SpaceAssumption DEF BytesFit
  <2>4. parts' = [parts EXCEPT ![j] = parts[j]] /\ scratch' = [scratch EXCEPT ![j] = scratch[j]]
    BY <1>1 DEF SpaceInv, SpaceTypes
  <2>5. library' \in [Jobs -> Nat] /\ free' \in Int /\ "fetch" \in Stages
    BY <1>1 DEF SpaceInv, SpaceTypes, Stages
  <2>6. \A i \in Jobs : Owed(i)' = Owed(i)
    BY <1>1 DEF Owed
  <2>7. Moves(j, "fetch", parts[j], scratch[j])
    BY <1>1, <2>1, <2>3, <2>4, <2>5 DEF Moves
  <2> QED BY <2>6, <2>7, JobMoves
<1>4. j \notin Running
  BY <1>1 DEF Running
<1>5. Cardinality(Running') <= MaxConcurrency
  <2>1. Cardinality(Running \cup {j}) = Cardinality(Running) + 1
    BY <1>4, OutstandingIsFinite, FS_AddElement
  <2> QED BY <1>1, <1>2, <2>1, OutstandingIsFinite, SpaceAssumption
<1> DEFINE Own == {j} \X (1..(2 * Size[j]))
<1>6. IsFiniteSet(Own) /\ Cardinality(Own) = 2 * Size[j]
  <2> DEFINE b == 2 * Size[j]
  <2>1. b \in Nat /\ 1 \in Nat /\ 1 <= b + 1 /\ b - 1 + 1 = b
    BY SpaceAssumption
  <2> HIDE DEF b
  <2>2. IsFiniteSet({j} \X (1..b)) /\ Cardinality({j} \X (1..b)) = b
    BY <2>1, OwedRange
  <2> QED BY <2>2 DEF b
<1>7. Outstanding' \subseteq Outstanding \cup Own
  <2>2. Owed(j) = 2 * Size[j]
    BY <1>1, SpaceAssumption DEF SpaceInv, StageBytes, BytesFit, Owed
  <2>3. Outstanding' = {q \in Jobs \X (1..(2 * MaxSize)) : q[1] \in Running' /\ q[2] <= Owed(q[1])'}
    BY DEF Outstanding, MaxSize
  <2>4. ASSUME NEW q \in Outstanding', q \notin Outstanding PROVE q \in Own
    <3>1. q \in Jobs \X (1..(2 * MaxSize)) /\ q[1] \in Running' /\ q[2] <= Owed(q[1])
      BY <1>2, <2>3
    <3>2. q[1] = j
      BY <1>2, <2>4, <3>1 DEF Outstanding
    <3> QED BY <2>2, <3>1, <3>2, MaxSizeIsMax, SpaceAssumption
  <2> QED BY <2>4
<1>8. /\ Cardinality(Outstanding') \in Nat
      /\ Cardinality(Outstanding') <= Cardinality(Outstanding) + 2 * Size[j]
  <2> HIDE DEF Own
  <2> QED BY <1>6, <1>7, OutstandingIsFinite, UnionBound
<1>9. Cardinality(Outstanding) <= (MaxConcurrency - 1) * (2 * MaxSize)
  <2>1. Cardinality(Running) * (2 * MaxSize) <= (MaxConcurrency - 1) * (2 * MaxSize)
    <3>1. ASSUME NEW c \in Nat, NEW m \in Nat, NEW n \in Nat, c <= n PROVE c * m <= n * m
      BY <3>1
    <3> QED BY <1>1, <3>1, OutstandingIsFinite, MaxSizeIsMax, SpaceAssumption
  <2>2. /\ Cardinality(Running) * (2 * MaxSize) \in Int
        /\ (MaxConcurrency - 1) * (2 * MaxSize) \in Int
    BY OutstandingIsFinite, MaxSizeIsMax, SpaceAssumption
  <2> QED BY <2>1, <2>2, OutstandingIsFinite
<1>10. Floor + (MaxConcurrency - 1) * (2 * MaxSize) = Reserve + Margin - MaxSize
  BY MaxSizeIsMax, SpaceAssumption DEF Floor
<1>11. told => free >= Floor + Cardinality(Outstanding')
  <2>1. Size[j] <= MaxSize /\ Size[j] \in Nat /\ MaxSize \in Nat
    BY MaxSizeIsMax, SpaceAssumption
  <2>2. (MaxConcurrency - 1) * (2 * MaxSize) \in Int /\ free \in Int
    BY MaxSizeIsMax, SpaceAssumption DEF SpaceInv, SpaceTypes
  <2> QED BY <1>1, <1>8, <1>9, <1>10, <2>1, <2>2, FloorType, OutstandingIsFinite, SpaceAssumption
<1>12. ~blind' => free' >= Floor + Cardinality(Outstanding')
  BY <1>1, <1>11
<1> QED BY <1>2, <1>5, <1>12 DEF SpaceInv, Floor, MaxSize

\* A job that writes a byte, of its parts or of a copy of them.
LEMMA ByteWritten ==
    ASSUME SpaceInv, NEW j \in Jobs, NEW l, NEW p, NEW c, Moves(j, l, p, c),
           j \in Running, l # "out", UNCHANGED blind, free' = free - 1,
           p + c = parts[j] + scratch[j] + 1
    PROVE  SpaceInv'
<1>1. parts[j] \in Nat /\ scratch[j] \in Nat /\ p \in Nat /\ c \in Nat
  BY DEF SpaceInv, SpaceTypes, Moves
<1>2. /\ SpaceTypes' /\ \A i \in Jobs : StageBytes(i)'
      /\ Running' = Running
      /\ Owed(j)' = 2 * Size[j] - p - c
      /\ \A i \in Jobs \ {j} : Owed(i)' = Owed(i)
  BY JobMoves
<1>3. Size[j] \in Nat \ {0} /\ Size[j] <= MaxSize /\ MaxSize \in Nat
  BY MaxSizeIsMax, SpaceAssumption
<1>4. p <= Size[j] /\ c <= Size[j] /\ ~(c = Size[j] /\ p = 0)
  BY <1>3 DEF BytesFit, Stages, Moves
<1>5. Owed(j) \in Nat \ {0} /\ Owed(j) <= 2 * MaxSize /\ Owed(j)' = Owed(j) - 1
  BY <1>1, <1>2, <1>3, <1>4 DEF Owed
<1> QED BY <1>2, <1>5, OwesLess, FloorKept

LEMMA SpaceFetch == ASSUME SpaceInv, NEW j \in Jobs, Fetch(j) PROVE SpaceInv'
<1>1. PICK next \in {"fetch", "assemble", "publish"} :
        /\ stage' = [stage EXCEPT ![j] = next]
        /\ next = "fetch" <=> parts[j] + 1 < Size[j]
  <2>1. stage = [stage EXCEPT ![j] = "fetch"] /\ parts'[j] = parts[j] + 1
    BY DEF Fetch, SpaceInv, SpaceTypes
  <2>2. CASE parts'[j] < Size[j]
    BY <2>1, <2>2 DEF Fetch
  <2>3. CASE ~(parts'[j] < Size[j])
    BY <2>1, <2>3 DEF Fetch, GotoStage
  <2> QED BY <2>2, <2>3
<1>2. /\ stage[j] = "fetch" /\ parts' = [parts EXCEPT ![j] = parts[j] + 1] /\ free' = free - 1
      /\ UNCHANGED <<scratch, library, blind, victims>>
  BY DEF Fetch, published, steady
<1>3. /\ scratch[j] = 0 /\ parts[j] < Size[j] /\ Size[j] \in Nat /\ parts[j] \in Nat
      /\ scratch' = [scratch EXCEPT ![j] = 0]
  BY <1>2, SpaceAssumption DEF SpaceInv, SpaceTypes, StageBytes, BytesFit
<1>4. BytesFit(next, parts[j] + 1, 0, Size[j])
  BY <1>1, <1>3 DEF BytesFit
<1>5. j \in Running /\ next \in Stages /\ next # "out"
  BY <1>2 DEF Running, Stages
<1>6. library \in [Jobs -> Nat] /\ free - 1 \in Int /\ parts[j] + 1 \in Nat
  BY <1>3 DEF SpaceInv, SpaceTypes
<1>7. Moves(j, next, parts[j] + 1, 0)
  BY <1>1, <1>2, <1>3, <1>4, <1>5, <1>6 DEF Moves
<1>8. parts[j] + 1 + 0 = parts[j] + scratch[j] + 1
  BY <1>3
<1> QED BY <1>2, <1>5, <1>7, <1>8, ByteWritten

LEMMA SpaceRemux == ASSUME SpaceInv, NEW j \in Jobs, Remux(j) PROVE SpaceInv'
<1>1. /\ stage[j] \in {"publish", "remux"} /\ scratch[j] < Size[j]
      /\ scratch' = [scratch EXCEPT ![j] = scratch[j] + 1] /\ free' = free - 1
      /\ stage' = [stage EXCEPT ![j] = "remux"] /\ UNCHANGED <<parts, library, blind, victims>>
  BY DEF Remux, GotoStage, published, steady
<1>2. /\ parts[j] = Size[j] /\ parts[j] \in Nat /\ scratch[j] \in Nat
      /\ parts' = [parts EXCEPT ![j] = parts[j]]
  BY <1>1 DEF SpaceInv, SpaceTypes, StageBytes, BytesFit
<1>3. BytesFit("remux", parts[j], scratch[j] + 1, Size[j])
  BY <1>1, <1>2 DEF BytesFit
<1>4. j \in Running /\ "remux" \in Stages
  BY <1>1 DEF Running, Stages
<1>5. library \in [Jobs -> Nat] /\ free - 1 \in Int /\ scratch[j] + 1 \in Nat
  BY <1>2 DEF SpaceInv, SpaceTypes
<1>6. Moves(j, "remux", parts[j], scratch[j] + 1)
  BY <1>1, <1>2, <1>3, <1>4, <1>5 DEF Moves
<1>7. parts[j] + (scratch[j] + 1) = parts[j] + scratch[j] + 1
  BY <1>2
<1> QED BY <1>1, <1>4, <1>6, <1>7, ByteWritten

\* A job ends, whatever it leaves in the library: its bytes are free again.
LEMMA JobEnds ==
    ASSUME SpaceInv, NEW j \in Jobs, Moves(j, "out", 0, 0), UNCHANGED blind, free' >= free
    PROVE  SpaceInv'
<1>1. /\ SpaceTypes' /\ \A i \in Jobs : StageBytes(i)'
      /\ Running' = Running \ {j} /\ \A i \in Jobs \ {j} : Owed(i)' = Owed(i)
  BY JobMoves
<1>2. Outstanding' \subseteq Outstanding
  BY <1>1, OwesNothing
<1> QED BY <1>1, <1>2, FloorKept

LEMMA SpaceEnds ==
    ASSUME SpaceInv, NEW j \in Jobs, RenameRemuxed(j) \/ Rename(j) \/ FailJob(j)
    PROVE  SpaceInv'
<1>1. /\ free \in Int /\ parts[j] \in Nat /\ scratch[j] \in Nat /\ library[j] \in Nat
      /\ Size[j] \in Nat /\ library \in [Jobs -> Nat]
  BY SpaceAssumption DEF SpaceInv, SpaceTypes
<1>2. BytesFit("out", 0, 0, Size[j]) /\ "out" \in Stages
  BY DEF BytesFit, Stages
<1>3. /\ stage' = [stage EXCEPT ![j] = "out"] /\ UNCHANGED <<blind, victims>>
      /\ parts' = [parts EXCEPT ![j] = 0] /\ scratch' = [scratch EXCEPT ![j] = 0]
  BY DEF RenameRemuxed, Rename, FailJob, GotoStage, steady
<1>4. library' \in [Jobs -> Nat] /\ free' \in Int /\ free' >= free
  <2>1. CASE RenameRemuxed(j)
    BY <1>1, <2>1 DEF RenameRemuxed
  <2>2. CASE Rename(j)
    BY <1>1, <2>2 DEF Rename
  <2>3. CASE FailJob(j)
    BY <1>1, <2>3 DEF FailJob, published
  <2> QED BY <2>1, <2>2, <2>3
<1>5. Moves(j, "out", 0, 0)
  BY <1>2, <1>3, <1>4 DEF Moves
<1> QED BY <1>3, <1>4, <1>5, JobEnds

\* The last byte of the copy frees the parts, and the job owes a remuxed copy again.
LEMMA SpaceAssemble == ASSUME SpaceInv, NEW j \in Jobs, Assemble(j) PROVE SpaceInv'
<1>1. /\ stage[j] = "assemble" /\ parts[j] = Size[j] /\ Size[j] \in Nat \ {0} /\ Size[j] <= MaxSize
      /\ scratch[j] < Size[j] /\ scratch[j] \in Nat /\ free \in Int
      /\ parts' = [parts EXCEPT ![j] = parts[j]] /\ stage = [stage EXCEPT ![j] = "assemble"]
      /\ j \in Running /\ UNCHANGED <<library, blind, victims>> /\ library \in [Jobs -> Nat]
  BY SpaceAssumption, MaxSizeIsMax
     DEF Assemble, SpaceInv, SpaceTypes, StageBytes, BytesFit, Running, published, steady
<1>2. CASE scratch[j] + 1 < Size[j]
  <2>1. /\ scratch' = [scratch EXCEPT ![j] = scratch[j] + 1] /\ free' = free - 1
        /\ stage' = [stage EXCEPT ![j] = "assemble"]
    BY <1>1, <1>2 DEF Assemble
  <2>2. BytesFit("assemble", parts[j], scratch[j] + 1, Size[j]) /\ "assemble" \in Stages
    BY <1>1, <1>2 DEF BytesFit, Stages
  <2>3. Moves(j, "assemble", parts[j], scratch[j] + 1)
    BY <1>1, <2>1, <2>2 DEF Moves
  <2> QED BY <1>1, <2>1, <2>3, ByteWritten
<1>3. CASE ~(scratch[j] + 1 < Size[j])
  <2>1. /\ scratch' = [scratch EXCEPT ![j] = 0] /\ free' = free - 1 + parts[j]
        /\ stage' = [stage EXCEPT ![j] = "publish"] /\ scratch[j] = Size[j] - 1
    BY <1>1, <1>3 DEF Assemble, GotoStage
  <2>2. BytesFit("publish", parts[j], 0, Size[j]) /\ "publish" \in Stages
    BY <1>1 DEF BytesFit, Stages
  <2>3. Moves(j, "publish", parts[j], 0)
    BY <1>1, <2>1, <2>2 DEF Moves
  <2>4. /\ SpaceTypes' /\ \A i \in Jobs : StageBytes(i)'
        /\ Running' = Running /\ Owed(j)' = Size[j] /\ Owed(j) = 1
        /\ \A i \in Jobs \ {j} : Owed(i)' = Owed(i)
    <3>1. /\ SpaceTypes' /\ \A i \in Jobs : StageBytes(i)'
          /\ Running' = Running \cup {j} /\ Owed(j)' = 2 * Size[j] - parts[j] - 0
          /\ \A i \in Jobs \ {j} : Owed(i)' = Owed(i)
      BY <2>3, JobMoves
    <3>2. Owed(j) = 1
      BY <1>1, <2>1 DEF Owed
    <3> QED BY <1>1, <3>1, <3>2
  <2> DEFINE Copied == {j} \X (2..Size[j])
  <2>5. IsFiniteSet(Copied) /\ Cardinality(Copied) = Size[j] - 1
    <3>1. 2 \in Nat /\ Size[j] \in Nat /\ 2 <= Size[j] + 1 /\ Size[j] - 2 + 1 = Size[j] - 1
      BY <1>1
    <3> QED BY <3>1, OwedRange
  <2>6. Outstanding' \subseteq Outstanding \cup Copied
    <3>1. Outstanding' = {q \in Jobs \X (1..(2 * MaxSize)) : q[1] \in Running' /\ q[2] <= Owed(q[1])'}
      BY DEF Outstanding, MaxSize
    <3>2. ASSUME NEW q \in Outstanding', q \notin Outstanding PROVE q \in Copied
      <4>1. q \in Jobs \X (1..(2 * MaxSize)) /\ q[1] \in Running /\ q[2] <= Owed(q[1])'
        BY <2>4, <3>1
      <4>2. ~(q[2] <= Owed(q[1]))
        BY <3>2, <4>1 DEF Outstanding
      <4>3. q[1] = j
        BY <2>4, <4>1, <4>2
      <4>4. q[2] <= Size[j] /\ ~(q[2] <= 1)
        BY <2>4, <4>1, <4>2, <4>3
      <4>5. q[2] \in Nat
        BY <4>1, MaxSizeIsMax
      <4> QED BY <1>1, <4>1, <4>3, <4>4, <4>5
    <3> QED BY <3>2
  <2> HIDE DEF Copied
  <2>7. /\ Cardinality(Outstanding') \in Nat
        /\ Cardinality(Outstanding') <= Cardinality(Outstanding) + Size[j] - 1
    BY <1>1, <2>5, <2>6, OutstandingIsFinite, UnionBound
  <2>8. ~blind' => free' >= Floor + Cardinality(Outstanding')
    BY <1>1, <2>1, <2>7, OutstandingIsFinite, FloorType DEF SpaceInv
  <2> QED BY <2>4, <2>8 DEF SpaceInv, Floor, MaxSize
<1> QED BY <1>2, <1>3

LEMMA SpaceStep == SpaceInv /\ [SpaceNext]_spaceVars => SpaceInv'
<1> SUFFICES ASSUME SpaceInv, [SpaceNext]_spaceVars PROVE SpaceInv'
  OBVIOUS
<1>1. ASSUME NEW j \in Jobs, NEW told \in BOOLEAN, Check(j, told) PROVE SpaceInv'
  BY <1>1, SpaceCheck
<1>2. ASSUME NEW j \in Jobs,
             Fetch(j) \/ Assemble(j) \/ Remux(j) \/ RenameRemuxed(j) \/ Rename(j) \/ FailJob(j)
      PROVE  SpaceInv'
  BY <1>2, SpaceFetch, SpaceAssemble, SpaceRemux, SpaceEnds
<1>3. CASE Scan \/ Reclaim \/ UNCHANGED spaceVars
  <2>1. UNCHANGED <<stage, parts, scratch, blind>> /\ library' \in [Jobs -> Nat] /\ free' >= free
        /\ free' \in Int /\ victims' \subseteq Jobs
    <3>1. library \in [Jobs -> Nat] /\ free \in Int /\ victims \subseteq Jobs
      BY DEF SpaceInv, SpaceTypes
    <3>2. CASE Scan \/ UNCHANGED spaceVars
      BY <3>1, <3>2 DEF Scan, published, spaceVars
    <3>3. CASE Reclaim
      <4>1. \A j \in Jobs : [library EXCEPT ![j] = 0] \in [Jobs -> Nat] /\ free + library[j] >= free
                              /\ free + library[j] \in Int
        BY <3>1
      <4> QED BY <3>1, <3>3, <4>1 DEF Reclaim, published
    <3> QED BY <1>3, <3>2, <3>3
  <2>2. SpaceTypes' /\ \A j \in Jobs : StageBytes(j)'
    BY <2>1 DEF SpaceInv, SpaceTypes, StageBytes
  <2>3. Running' = Running /\ Outstanding' = Outstanding
    BY <2>1 DEF Running, Outstanding, Owed, MaxSize
  <2> QED BY <2>1, <2>2, <2>3, FloorKept
<1> QED BY <1>1, <1>2, <1>3 DEF SpaceNext

\* However the steps of up to MaxConcurrency jobs mix, with a published file replaced, a job that
\* fails and files reclaimed meanwhile, they go below the reserve by less than twice the largest
\* file for each, if every source told its size (disk.go, the check of queue.go's runJob).
THEOREM OvercommitIsBounded ==
    ASSUME EnoughDisk
    PROVE  SpaceSpec => []OvercommitBounded
<1>1. SpaceInit => SpaceInv
  BY SpaceBegins
<1>2. SpaceInv /\ [SpaceNext]_spaceVars => SpaceInv'
  BY SpaceStep
<1>3. SpaceInv => OvercommitBounded
  BY OutstandingIsFinite, FloorType DEF SpaceInv, SpaceTypes, OvercommitBounded, Floor
<1> QED BY <1>1, <1>2, <1>3, PTL DEF SpaceSpec
----------------------------------------------------------------------------
(* The tunnel: any number of commands, failures, kills and reboots.          *)

Steps == {"idle", "writeConf", "routeDel", "ruleDel", "wgDown", "clearState", "wgUp",
          "ruleAdd", "routeReplace", "undoRule", "undoWg", "writeState"}
UpSteps == {"wgUp", "ruleAdd", "routeReplace", "undoRule", "undoWg", "writeState"}

\* what Up has put in place when it comes to a step
Built ==
    /\ said # "none" => step = "idle"
    /\ step \in {"ruleAdd", "routeReplace", "writeState"} => "iface" \in have
    /\ step \in {"routeReplace", "writeState"} => "rule" \in have
    /\ step = "writeState" => "route" \in have

\* an interface has its generated file, by which wg-quick takes it down
Removable ==
    /\ "iface" \in have => "conf" \in have
    /\ inside \in {"up", "undo"} /\ step # "writeConf" => "conf" \in have
    /\ step \in UpSteps => inside = "up"

\* what Down has removed when it comes to a step, and what Up relies on
Removed ==
    ~disturbed =>
        /\ step \in {"ruleDel", "wgDown", "clearState"} => "route" \notin have
        /\ step \in {"wgDown", "clearState", "wgUp", "ruleAdd"} => "rule" \notin have
        /\ step \in {"clearState", "wgUp"} => "iface" \notin have
        /\ step \notin {"undoRule", "undoWg"} /\ inside # "undo"

VpnInv ==
    /\ have \subseteq Things
    /\ Built /\ Removable /\ Removed
    /\ OnIsOn /\ UpRepairs /\ DownClears

(* The invariant holds before the first command. *)
LEMMA VpnBegins == VpnInit => VpnInv
BY DEF VpnInit, VpnInv, Built, Removable, Removed, OnIsOn, UpRepairs, DownClears, UpSteps

(* No step of Up or Down, no failure, kill or reboot breaks it. *)
LEMMA VpnKept == VpnInv /\ [VpnNext]_vpnVars => VpnInv'
<1> SUFFICES ASSUME VpnInv, [VpnNext]_vpnVars PROVE VpnInv' OBVIOUS
<1> USE DEF VpnInv, Built, Removable, Removed, OnIsOn, UpRepairs, DownClears, UpSteps,
            DialContext, Things, Kernel
<1>1. CASE Up BY <1>1 DEF Up, Begin
<1>2. CASE Down BY <1>2 DEF Down, Begin
<1>3. CASE WriteConf BY <1>3 DEF WriteConf, Then, Say, Fault, NoFault
<1>4. CASE RouteDel BY <1>4 DEF RouteDel, TakeDown, Then, Fault, NoFault
<1>5. CASE RuleDel BY <1>5 DEF RuleDel, TakeDown, Then, Fault, NoFault
<1>6. CASE WgDown BY <1>6 DEF WgDown, TakeDown, Then, Fault, NoFault
<1>7. CASE ClearState
    <2>1. step = "clearState" /\ have' \in {have, have \ {"mark"}}
        BY <1>7 DEF ClearState
    <2>2. disturbed' = disturbed \/ disturbed' = TRUE
        BY <1>7 DEF ClearState, Fault, NoFault
    <2>3. CASE inside = "up" /\ Then("wgUp")
        BY <2>1, <2>2, <2>3 DEF Then
    <2>4. CASE inside = "undo" /\ Say("upError")
        BY <2>1, <2>2, <2>4 DEF Say
    <2>5. CASE inside = "down" /\ Say(IF "mark" \in have' THEN "downError" ELSE "downOk")
        BY <2>1, <2>2, <2>5 DEF Say
    <2> QED BY <1>7, <2>3, <2>4, <2>5 DEF ClearState
<1>8. CASE WgUp BY <1>8 DEF WgUp, Then, Say, Fault, NoFault
<1>9. CASE RuleAdd BY <1>9 DEF RuleAdd, Then, Fault, NoFault
<1>10. CASE RouteReplace BY <1>10 DEF RouteReplace, Then, Fault, NoFault
<1>11. CASE UndoRule BY <1>11 DEF UndoRule, TakeDown, Then, Fault, NoFault
<1>12. CASE UndoWg BY <1>12 DEF UndoWg, Say, Fault, NoFault
<1>13. CASE WriteState BY <1>13 DEF WriteState, Say, Fault, NoFault
<1>14. ASSUME NEW lost \in {{}, Kernel}, Crash(lost) PROVE VpnInv' BY <1>14 DEF Crash, Say
<1>15. CASE UNCHANGED vpnVars BY <1>15 DEF vpnVars
<1> QED BY <1>1, <1>2, <1>3, <1>4, <1>5, <1>6, <1>7, <1>8, <1>9, <1>10, <1>11, <1>12, <1>13, <1>14,
           <1>15 DEF VpnNext

LEMMA AlwaysVpnInv == VpnSpec => []VpnInv
BY VpnBegins, VpnKept, PTL DEF VpnSpec

(* After "VPN on", and until the next command or a reboot, dials go through the tunnel.       *)
THEOREM TunnelIsUsed == VpnSpec => []OnIsOn
<1>1. VpnInv => OnIsOn BY DEF VpnInv
<1> QED BY AlwaysVpnInv, <1>1, PTL

(* An Up in which no command fails for a reason of its own succeeds, whatever it finds.       *)
THEOREM UpAlwaysRepairs == VpnSpec => []UpRepairs
<1>1. VpnInv => UpRepairs BY DEF VpnInv
<1> QED BY AlwaysVpnInv, <1>1, PTL

(* A Down in which no command fails leaves nothing of the tunnel.                             *)
THEOREM DownAlwaysClears == VpnSpec => []DownClears
<1>1. VpnInv => DownClears BY DEF VpnInv
<1> QED BY AlwaysVpnInv, <1>1, PTL
-----------------------------------------------------------------------------
\* the parts of TypeOK, in the groups that the provers deal with
Names ==
    /\ step \in Steps
    /\ inside \in {"none", "up", "down", "undo"}
    /\ said \in {"none", "upOk", "upError", "downOk", "downError", "killed"}
Counters == faults \in Nat /\ commands \in Nat

(* Every variable keeps its type, through any sequence of commands and faults.               *)
THEOREM VpnTypeCorrect == VpnSpec => []TypeOK
<1> USE DEF VpnNext, Up, Down, Begin, WriteConf, RouteDel, RuleDel, WgDown, TakeDown, ClearState, WgUp,
            RuleAdd, RouteReplace, UndoRule, UndoWg, WriteState, Crash, Then, Say, Fault, NoFault,
            vpnVars
<1>1. VpnInit => Names /\ Counters /\ disturbed \in BOOLEAN
    <2>1. VpnInit => Names BY DEF VpnInit, Names, Steps
    <2>2. VpnInit => Counters BY DEF VpnInit, Counters
    <2>3. VpnInit => disturbed \in BOOLEAN BY DEF VpnInit
    <2> QED BY <2>1, <2>2, <2>3
<1>2. Names /\ [VpnNext]_vpnVars => Names' BY DEF Names, Steps
<1>3. Counters /\ [VpnNext]_vpnVars => Counters' BY DEF Counters
<1>4. disturbed \in BOOLEAN /\ [VpnNext]_vpnVars => (disturbed \in BOOLEAN)' BY Zenon
<1>5. VpnInv /\ Names /\ Counters /\ disturbed \in BOOLEAN => TypeOK
    BY DEF VpnInv, Names, Steps, Counters, TypeOK
<1> HIDE DEF VpnNext, vpnVars
<1> QED BY AlwaysVpnInv, <1>1, <1>2, <1>3, <1>4, <1>5, PTL DEF VpnSpec
----------------------------------------------------------------------------
(* The download rate: any number of readers, any rate, reads of any size.     *)

\* What has passed beyond the rate and what the bucket would hold now make up a second.
RateInv ==
    /\ tokens \in 0..MaxBytes /\ idle \in 0..TicksPerSecond /\ burst \in Nat
    /\ left \in [Readers -> Nat]
    /\ burst + Refilled = MaxBytes

(* A second has at least one byte; products of ticks and rate are numbers, one rate apart.    *)
LEMMA Products ==
    /\ MaxBytes \in Nat \ {0}
    /\ \A i \in Nat : PerTick * i \in Nat /\ PerTick * (i + 1) = PerTick * i + PerTick
    /\ PerTick * 0 = 0
BY RateAssumption DEF MaxBytes

(* A full bucket, and nothing let through. *)
LEMMA RateBegins == Init => RateInv
BY Products, RateAssumption DEF Init, RateInv, Refilled, AtMost

(* No step of a reader, and no tick, changes the sum. *)
LEMMA RateStep == RateInv /\ [Next]_vars => RateInv'
<1> SUFFICES ASSUME RateInv, [Next]_vars PROVE RateInv' OBVIOUS
<1> USE Products, RateAssumption
<1> DEFINE fill(i) == PerTick * i
<1>0. Refilled \in 0..MaxBytes /\ fill(idle) \in Nat
    BY DEF RateInv, Refilled, AtMost
<1>1. ASSUME NEW r \in Readers, Waiting(r) PROVE Chunk(r) \in 1..MaxBytes /\ Chunk(r) <= left[r]
    BY <1>1 DEF RateInv, Waiting, Chunk, AtMost
<1>2. CASE Tick
    <2>1. CASE idle = TicksPerSecond
        <3>1. fill(idle) = MaxBytes BY <2>1 DEF MaxBytes
        <3>2. Refilled = MaxBytes /\ idle' = idle /\ tokens' = tokens
            BY <1>2, <2>1, <3>1 DEF RateInv, Tick, Refilled, AtMost
        <3>3. Refilled' = Refilled BY <3>2 DEF Refilled
        <3> QED BY <1>2, <3>2, <3>3 DEF RateInv, Tick
    <2>2. CASE idle # TicksPerSecond
        <3>1. idle' = idle + 1 /\ tokens' = tokens /\ left' = left
            BY <1>2, <2>2 DEF RateInv, Tick, AtMost
        <3>2. fill(idle + 1) = fill(idle) + PerTick BY DEF RateInv
        <3>3. Refilled' = AtMost(tokens + (fill(idle) + PerTick), MaxBytes)
            BY <3>1, <3>2 DEF Refilled
        <3>4. Refilled = AtMost(tokens + fill(idle), MaxBytes) BY DEF Refilled
        <3>5. burst' = IF burst < PerTick THEN 0 ELSE burst - PerTick BY <1>2 DEF Tick
        <3> HIDE DEF fill
        <3> QED BY <1>0, <2>2, <3>1, <3>3, <3>4, <3>5 DEF RateInv, AtMost
    <2> QED BY <2>1, <2>2
<1>3. ASSUME NEW r \in Readers, Grant(r) PROVE RateInv'
    <2>1. Chunk(r) \in 1..MaxBytes /\ Chunk(r) <= left[r] BY <1>1, <1>3 DEF Grant
    <2>2. Refilled' = Refilled - Chunk(r)
        BY <1>0, <1>3, <2>1 DEF Grant, Refilled, AtMost
    <2>3. left' \in [Readers -> Nat] BY <1>3, <2>1 DEF RateInv, Grant
    <2> QED BY <1>0, <1>3, <2>1, <2>2, <2>3 DEF RateInv, Grant
<1>4. ASSUME NEW r \in Readers, Sleep(r) PROVE RateInv'
    <2>1. Refilled' = Refilled BY <1>0, <1>4 DEF Sleep, Refilled, AtMost
    <2> QED BY <1>0, <1>4, <2>1 DEF RateInv, Sleep
<1>5. ASSUME NEW r \in Readers, NEW n \in 1..MaxRead, Wait(r, n) PROVE RateInv'
    <2>1. Refilled' = Refilled BY <1>5 DEF Wait, Refilled
    <2> QED BY <1>5, <2>1 DEF RateInv, Wait
<1>6. CASE UNCHANGED vars
    <2>1. Refilled' = Refilled BY <1>6 DEF vars, Refilled
    <2> QED BY <1>6, <2>1 DEF RateInv, vars
<1> QED BY <1>2, <1>3, <1>4, <1>5, <1>6 DEF Next, Turn

(* In every stretch of t ticks at most a second of bytes and PerTick * t pass, for any number *)
(* of readers that compete in any order.                                                      *)
THEOREM RateHolds == Spec => []BurstBounded
<1>1. RateInv => BurstBounded
    BY Products, RateAssumption DEF RateInv, BurstBounded, Refilled, AtMost
<1> QED BY RateBegins, RateStep, <1>1, PTL DEF Spec

-----------------------------------------------------------------------------
(* The parser: an induction over the lines of a playlist. *)

Infs(S) == {line.inf : line \in S}
Variants(S) == [url : S, inf : Infs(S)]
Playlist(S) == [segments : Seq(S), variants : Seq(Variants(S)), pending : Seq(Infs(S))]

\* One line: a variant stays, and as long as there is none, the segments are the references.
Continues(S, p, line, q) ==
    /\ q \in Playlist(S)
    /\ q.variants = <<>> =>
        /\ p.variants = <<>>
        /\ q.segments = IF IsReference(line) THEN Append(p.segments, line) ELSE p.segments

\* By the kind of the line, and whether an EXT-X-STREAM-INF waits for its URL.
LEMMA LineParsed ==
    ASSUME NEW S, NEW p \in Playlist(S), NEW line \in S
    PROVE  Continues(S, p, line, ParseLine(p, line))
<1> DEFINE q == ParseLine(p, line)
           noted == <<line.inf>>
           added == Append(p.variants, [url |-> line, inf |-> Head(p.pending)])
           longer == Append(p.segments, line)
<1> SUFFICES Continues(S, p, line, q)
  OBVIOUS
<1>1. /\ p.segments \in Seq(S) /\ p.variants \in Seq(Variants(S))
      /\ p.pending \in Seq(Infs(S)) /\ <<>> \in Seq(Infs(S))
  BY DEF Playlist
<1>2. noted \in Seq(Infs(S))
  <2>1. line.inf \in Infs(S)
    BY DEF Infs
  <2> QED BY <2>1
<1>3. p.pending # <<>> => added \in Seq(Variants(S)) /\ added # <<>>
  <2> SUFFICES ASSUME p.pending # <<>> PROVE added \in Seq(Variants(S)) /\ added # <<>>
    OBVIOUS
  <2>1. Head(p.pending) \in Infs(S)
    BY <1>1
  <2>2. [url |-> line, inf |-> Head(p.pending)] \in Variants(S)
    BY <2>1 DEF Variants
  <2> QED BY <1>1, <2>2
<1>4. longer \in Seq(S)
  BY <1>1
<1>5. /\ IsPassed(line) => q = p /\ ~IsReference(line)
      /\ IsInf(line) => q = [p EXCEPT !.pending = noted] /\ ~IsReference(line)
      /\ ~IsPassed(line) /\ ~IsInf(line) /\ p.pending # <<>> =>
            q = [p EXCEPT !.variants = added, !.pending = <<>>]
      /\ ~IsPassed(line) /\ ~IsInf(line) /\ p.pending = <<>> /\ ~IsTag(line) =>
            q = [p EXCEPT !.segments = longer] /\ IsReference(line)
      /\ ~IsPassed(line) /\ ~IsInf(line) /\ p.pending = <<>> /\ IsTag(line) =>
            q = p /\ ~IsReference(line)
  <2>1. IsInf(line) => ~IsPassed(line)
    BY DEF IsPassed
  <2> QED BY <2>1 DEF ParseLine, IsReference
<1>6. Append(p.segments, line) = longer
  OBVIOUS
<1> HIDE DEF q, noted, added, longer
<1>7. CASE IsPassed(line)
  BY <1>5, <1>7 DEF Continues
<1>8. CASE IsInf(line)
  BY <1>2, <1>5, <1>8 DEF Continues, Playlist
<1>9. CASE ~IsPassed(line) /\ ~IsInf(line) /\ p.pending # <<>>
  BY <1>1, <1>3, <1>5, <1>9 DEF Continues, Playlist
<1>10. CASE ~IsPassed(line) /\ ~IsInf(line) /\ p.pending = <<>> /\ ~IsTag(line)
  BY <1>4, <1>5, <1>6, <1>10 DEF Continues, Playlist
<1>11. CASE ~IsPassed(line) /\ ~IsInf(line) /\ p.pending = <<>> /\ IsTag(line)
  BY <1>5, <1>11 DEF Continues
<1> QED BY <1>7, <1>8, <1>9, <1>10, <1>11

\* A recursive function that keeps to a set is one of the functions of its step.
LEMMA ReferencesUpTo ==
    ASSUME NEW S, NEW page \in Seq(S)
    PROVE  \E r \in [0..Len(page) -> Seq(S)] :
              /\ r[0] = <<>>
              /\ \A n \in 1..Len(page) :
                    r[n] = IF IsReference(page[n]) THEN Append(r[n - 1], page[n]) ELSE r[n - 1]
              /\ References(page) = r[Len(page)]
<1> DEFINE N == Len(page)
           Next1(s, line) == IF IsReference(line) THEN Append(s, line) ELSE s
           Body(f) == [n \in 0..N |-> IF n = 0 THEN <<>> ELSE Next1(f[n - 1], page[n])]
           R == CHOOSE f : f = Body(f)
           go == [z \in (1..N) \X Seq(S) |-> Next1(z[2], page[z[1]])]
<1>1. N \in Nat /\ \A n \in 1..N : page[n] \in S
  OBVIOUS
<1>2. References(page) = R[N]
  BY DEF References
<1>3. <<>> \in Seq(S)
  OBVIOUS
<1>4. \A s \in Seq(S), line \in S : Next1(s, line) \in Seq(S)
  OBVIOUS
<1> HIDE DEF Next1
<1>5. go \in StepsOf(N, Seq(S))
  BY <1>1, <1>4 DEF StepsOf
<1>6. PICK f \in [0..N -> Seq(S)] :
        f[0] = <<>> /\ \A n \in 1..N : f[n] = go[<<n, f[n - 1]>>]
  <2>1. PICK f : f \in RunsOf(N, Seq(S), <<>>, go)
    <3> HIDE DEF N, go
    <3> QED BY <1>1, <1>3, <1>5, Recursion, Zenon
  <2> HIDE DEF N, go
  <2> QED BY <2>1 DEF RunsOf
<1>7. ASSUME NEW n \in 1..N PROVE f[n] = Next1(f[n - 1], page[n])
  <2>1. n - 1 \in 0..N
    BY <1>1
  <2>2. <<n, f[n - 1]>> \in (1..N) \X Seq(S)
    BY <1>6, <2>1
  <2>3. go[<<n, f[n - 1]>>] = Next1(f[n - 1], page[n])
    BY <2>2
  <2> QED BY <1>6, <2>3
<1>8. f = Body(f)
  BY <1>6, <1>7
<1>9. R = Body(R)
  <2> HIDE DEF Body
  <2> QED BY <1>8, Zenon
<1>10. R[0] = <<>> /\ \A n \in 1..N : R[n] = Next1(R[n - 1], page[n])
  <2>1. \A n \in 0..N : Body(R)[n] = IF n = 0 THEN <<>> ELSE Next1(R[n - 1], page[n])
    OBVIOUS
  <2> HIDE DEF Body, R
  <2>2. R[0] = <<>>
    BY <1>1, <1>9, <2>1
  <2>3. ASSUME NEW n \in 1..N PROVE R[n] = Next1(R[n - 1], page[n])
    <3>1. n \in 0..N /\ n # 0
      BY <1>1
    <3> QED BY <1>9, <2>1, <3>1
  <2> QED BY <2>2, <2>3
<1>11. R \in [0..N -> Seq(S)]
  <2> DEFINE T == {n \in 0..N : R[n] \in Seq(S)}
  <2>1. 0 \in T
    <3>1. R[0] \in Seq(S)
      BY <1>3, <1>10, Zenon
    <3>2. 0 \in 0..N
      BY <1>1
    <3> QED BY <3>1, <3>2
  <2>2. ASSUME NEW n \in 1..N, n - 1 \in T PROVE n \in T
    <3>1. n \in 0..N /\ R[n - 1] \in Seq(S) /\ page[n] \in S /\ R[n] = Next1(R[n - 1], page[n])
      BY <1>1, <1>10, <2>2
    <3>2. R[n] \in Seq(S)
      BY <1>4, <3>1, Zenon
    <3> QED BY <3>1, <3>2
  <2>3. 0..N \subseteq T
    <3> HIDE DEF T, N
    <3> QED BY <1>1, <2>1, <2>2, UpTo
  <2>4. R = [n \in 0..N |-> R[n]]
    <3>1. R = [n \in 0..N |-> IF n = 0 THEN <<>> ELSE Next1(R[n - 1], page[n])]
      BY <1>9
    <3> HIDE DEF R
    <3> QED BY <3>1
  <2> HIDE DEF R
  <2> QED BY <2>3, <2>4
<1> HIDE DEF R
<1> QED BY <1>2, <1>10, <1>11 DEF Next1

\* The same for the parser.
LEMMA ParsedUpTo ==
    ASSUME NEW S, NEW page \in Seq(S)
    PROVE  \E f \in [0..Len(page) -> Playlist(S)] :
              /\ f[0] = NoPlaylist
              /\ \A n \in 1..Len(page) : f[n] = ParseLine(f[n - 1], page[n])
              /\ ParsePlaylist(page) = f[Len(page)]
<1> DEFINE N == Len(page)
           Body(f) == [n \in 0..N |-> IF n = 0 THEN NoPlaylist ELSE ParseLine(f[n - 1], page[n])]
           P == CHOOSE f : f = Body(f)
           go == [z \in (1..N) \X Playlist(S) |-> ParseLine(z[2], page[z[1]])]
<1>1. N \in Nat /\ \A n \in 1..N : page[n] \in S
  OBVIOUS
<1>2. ParsePlaylist(page) = P[N]
  BY DEF ParsePlaylist
<1>3. NoPlaylist \in Playlist(S)
  BY DEF Playlist, NoPlaylist
<1>4. \A p \in Playlist(S), line \in S : ParseLine(p, line) \in Playlist(S)
  BY LineParsed DEF Continues
<1>5. go \in StepsOf(N, Playlist(S))
  BY <1>1, <1>4 DEF StepsOf
<1>6. PICK f \in [0..N -> Playlist(S)] :
        f[0] = NoPlaylist /\ \A n \in 1..N : f[n] = go[<<n, f[n - 1]>>]
  <2>1. PICK f : f \in RunsOf(N, Playlist(S), NoPlaylist, go)
    <3> HIDE DEF N, go
    <3> QED BY <1>1, <1>3, <1>5, Recursion, Zenon
  <2> HIDE DEF N, go
  <2> QED BY <2>1 DEF RunsOf
<1>7. ASSUME NEW n \in 1..N PROVE f[n] = ParseLine(f[n - 1], page[n])
  <2>1. n - 1 \in 0..N
    BY <1>1
  <2>2. <<n, f[n - 1]>> \in (1..N) \X Playlist(S)
    BY <1>6, <2>1
  <2>3. go[<<n, f[n - 1]>>] = ParseLine(f[n - 1], page[n])
    BY <2>2
  <2> QED BY <1>6, <2>3
<1>8. f = Body(f)
  BY <1>6, <1>7
<1>9. P = Body(P)
  <2> HIDE DEF Body
  <2> QED BY <1>8, Zenon
<1>10. P[0] = NoPlaylist /\ \A n \in 1..N : P[n] = ParseLine(P[n - 1], page[n])
  <2>1. \A n \in 0..N : Body(P)[n] = IF n = 0 THEN NoPlaylist ELSE ParseLine(P[n - 1], page[n])
    OBVIOUS
  <2> HIDE DEF Body, P
  <2> QED BY <1>1, <1>9, <2>1
<1>11. P \in [0..N -> Playlist(S)]
  <2> DEFINE T == {n \in 0..N : P[n] \in Playlist(S)}
  <2>1. 0 \in T
    BY <1>1, <1>3, <1>10
  <2>2. \A n \in 1..N : n - 1 \in T => n \in T
    BY <1>1, <1>4, <1>10
  <2>3. 0..N \subseteq T
    <3> HIDE DEF T, N
    <3> QED BY <1>1, <2>1, <2>2, UpTo
  <2>4. P = [n \in 0..N |-> P[n]]
    <3>1. P = [n \in 0..N |-> IF n = 0 THEN NoPlaylist ELSE ParseLine(P[n - 1], page[n])]
      BY <1>9
    <3> HIDE DEF P
    <3> QED BY <3>1
  <2> HIDE DEF P
  <2> QED BY <2>3, <2>4
<1> HIDE DEF P
<1> QED BY <1>2, <1>10, <1>11

\* A playlist without variants has the references of its page for segments (m3u8.go,
\* ParsePlaylist), whatever tags are between them.
LEMMA SegmentsAreReferences ==
    ASSUME NEW S, NEW page \in Seq(S)
    PROVE  /\ ParsePlaylist(page) \in Playlist(S)
           /\ ParsePlaylist(page).variants = <<>> =>
                ParsePlaylist(page).segments = References(page)
<1>1. Len(page) \in Nat /\ \A n \in 1..Len(page) : page[n] \in S
  OBVIOUS
<1>2. PICK f \in [0..Len(page) -> Playlist(S)] :
        /\ f[0] = NoPlaylist
        /\ \A n \in 1..Len(page) : f[n] = ParseLine(f[n - 1], page[n])
        /\ ParsePlaylist(page) = f[Len(page)]
  BY ParsedUpTo
<1>3. PICK r \in [0..Len(page) -> Seq(S)] :
        /\ r[0] = <<>>
        /\ \A n \in 1..Len(page) :
              r[n] = IF IsReference(page[n]) THEN Append(r[n - 1], page[n]) ELSE r[n - 1]
        /\ References(page) = r[Len(page)]
  BY ReferencesUpTo
<1> DEFINE T == {n \in 0..Len(page) : f[n].variants = <<>> => f[n].segments = r[n]}
<1>4. 0 \in T
  BY <1>1, <1>2, <1>3 DEF NoPlaylist
<1>5. ASSUME NEW n \in 1..Len(page), n - 1 \in T PROVE n \in T
  <2>1. f[n - 1] \in Playlist(S) /\ f[n] = ParseLine(f[n - 1], page[n]) /\ page[n] \in S
    <3>1. n - 1 \in 0..Len(page)
      BY <1>1
    <3> QED BY <1>1, <1>2, <3>1, Zenon
  <2>2. Continues(S, f[n - 1], page[n], f[n])
    BY <2>1, LineParsed
  <2> QED BY <1>3, <1>5, <2>2 DEF Continues
<1>6. 0..Len(page) \subseteq T
  <2> HIDE DEF T
  <2> QED BY <1>1, <1>4, <1>5, UpTo
<1> QED BY <1>1, <1>2, <1>3, <1>6
----------------------------------------------------------------------------
(* The file: it holds the resources before the current one whole, and of that  *)
(* one the blocks before the current block.                                    *)

Urls ==
    {s[2] : s \in Sources}
    \cup UNION {{ResolveURL(u, line) : line \in LinesOf(Pages[u])} : u \in DOMAIN Pages}

\* the last playlist that was read is that of base, and has segments
Chosen ==
    src[1] = "hls" =>
        /\ base \in DOMAIN Pages /\ play = ParsePlaylist(Pages[base])
        /\ Parses(play) /\ play.segments # <<>>

Place(i, k) == (i - 1) * Blocks + k

Filled(c, b) ==
    /\ Len(file) = Place(c, b)
    /\ \A i \in 1..c, k \in 1..Blocks :
          i < c \/ k <= b => file[Place(i, k)] = <<Resources[i], k>>

HlsInv ==
    /\ file \in Seq(Urls \X Nat) /\ calls \in Nat
    /\ phase \in {"idle", "failed", "playlist", "create", "request", "read", "ok"}
    /\ phase # "idle" => calls # 0
    /\ calls # 0 => src \in Sources
    /\ phase = "playlist" => src[1] = "hls"
    /\ phase \in {"create", "request", "read", "ok"} => Chosen
    /\ phase = "request" => current \in 1..Len(Resources) /\ (cut \/ Filled(current, 0))
    /\ phase = "read" =>
        /\ current \in 1..Len(Resources) /\ block \in 1..(Blocks + 1)
        /\ cut \/ Filled(current, block - 1)
    /\ phase = "ok" => cut \/ Filled(Len(Resources), Blocks)

\* The places of blocks do not overlap.
LEMMA Places ==
    ASSUME NEW c \in Nat \ {0}, NEW i \in Nat \ {0}, NEW k \in 1..Blocks
    PROVE  /\ Place(i, k) \in Nat \ {0} /\ Place(c, 0) \in Nat
           /\ i < c => Place(i, k) <= Place(c, 0)
           /\ Place(c + 1, 0) = Place(c, Blocks)
           /\ \A b \in Int : Place(c, b) = Place(c, 0) + b
<1>1. Blocks \in Nat
  BY HlsAssumption
<1>2. ASSUME NEW n \in Nat, NEW m \in Nat, m <= n
      PROVE  m * Blocks \in Nat /\ m * Blocks <= n * Blocks
  BY <1>1, <1>2
<1>3. (i - 1) * Blocks \in Nat /\ (c - 1) * Blocks \in Nat
  BY <1>1
<1>4. i < c => i * Blocks <= (c - 1) * Blocks
  BY <1>2
<1>5. i * Blocks = (i - 1) * Blocks + Blocks /\ c * Blocks = (c - 1) * Blocks + Blocks
  BY <1>1
<1>6. c + 1 - 1 = c
  OBVIOUS
<1> QED BY <1>1, <1>3, <1>4, <1>5, <1>6 DEF Place

\* What is fetched is what the source consists of, and there is some of it.
LEMMA ResourcesAre ==
    ASSUME Chosen, src \in Sources
    PROVE  /\ Resources \in Seq(Urls) /\ Len(Resources) >= 1
           /\ Resources = IF src[1] # "hls" THEN <<src[2]>>
                          ELSE LET refs == References(Pages[base])
                               IN [i \in DOMAIN refs |-> ResolveURL(base, refs[i])]
<1>1. CASE src[1] # "hls"
  <2>1. Resources = <<src[2]>>
    BY <1>1 DEF Resources
  <2>2. src[2] \in Urls
    BY DEF Urls
  <2> QED BY <1>1, <2>1, <2>2
<1>2. CASE src[1] = "hls"
  <2> DEFINE S == LinesOf(Pages[base])
             segs == play.segments
  <2>1. base \in DOMAIN Pages /\ Pages[base] \in Seq(S) /\ play = ParsePlaylist(Pages[base])
    BY <1>2, HlsAssumption DEF Chosen
  <2>2. play \in Playlist(S) /\ (play.variants = <<>> => segs = References(Pages[base]))
    <3> HIDE DEF S
    <3> QED BY <2>1, SegmentsAreReferences
  <2>3. segs = References(Pages[base]) /\ segs # <<>> /\ segs \in Seq(S)
    BY <1>2, <2>2 DEF Chosen, Parses, Playlist
  <2>4. Resources = [i \in DOMAIN segs |-> ResolveURL(base, segs[i])]
    BY <1>2 DEF Resources
  <2>5. ASSUME NEW line \in S PROVE ResolveURL(base, line) \in Urls
    <3>1. ResolveURL(base, line) \in {ResolveURL(base, l) : l \in S}
      BY Zenon
    <3> QED BY <2>1, <3>1, Zenon DEF Urls
  <2>6. Len(segs) \in Nat \ {0} /\ DOMAIN segs = 1..Len(segs) /\ \A i \in 1..Len(segs) : segs[i] \in S
    BY <2>3
  <2> HIDE DEF S, segs
  <2>7. Resources \in [1..Len(segs) -> Urls]
    BY <2>4, <2>5, <2>6
  <2>8. Resources \in Seq(Urls) /\ Len(Resources) = Len(segs)
    BY <2>6, <2>7
  <2> QED BY <1>2, <2>3, <2>4, <2>6, <2>8
<1> QED BY <1>1, <1>2

LEMMA HlsBegins == HlsInit => HlsInv
BY DEF HlsInit, HlsInv

\* Before the file is created.
LEMMA HlsDownload == ASSUME HlsInv, Download PROVE HlsInv'
<1>1. /\ calls' = calls + 1 /\ calls \in Nat /\ UNCHANGED file
      /\ phase' = IF src'[1] = "hls" THEN "playlist" ELSE "create"
  BY DEF Download, HlsInv
<1>2. src' \in Sources
  BY DEF Download, HlsInv
<1>3. phase' = "create" => Chosen'
  BY <1>1 DEF Chosen
<1>4. file' \in Seq(Urls \X Nat)
  BY <1>1 DEF HlsInv
<1> QED BY <1>1, <1>2, <1>3, <1>4 DEF HlsInv

\* A playlist without variants and with segments is the one the file is made of.
LEMMA HlsFetchPlaylist == ASSUME HlsInv, FetchPlaylist PROVE HlsInv'
<1>1. /\ phase = "playlist" /\ src[1] = "hls" /\ src \in Sources /\ calls # 0
      /\ UNCHANGED <<src, calls, current, block, file>> /\ phase' \in {"playlist", "create"}
  BY DEF FetchPlaylist, GotoPhase, HlsInv
<1>2. phase' = "create" => Chosen'
  BY DEF FetchPlaylist, GotoPhase, Chosen
<1>3. file' \in Seq(Urls \X Nat) /\ calls' \in Nat
  BY <1>1 DEF HlsInv
<1> QED BY <1>1, <1>2, <1>3 DEF HlsInv

\* Afterwards the resources stay the same.
Settled == UNCHANGED <<src, calls, base, play, variant>>

\* They depend on nothing that the steps from CreateDest on change.
LEMMA ResourcesStay == ASSUME Settled PROVE Resources' = Resources /\ Chosen' = Chosen
BY DEF Settled, Resources, Chosen

LEMMA HlsCreateDest == ASSUME HlsInv, CreateDest PROVE HlsInv'
<1>1. /\ phase = "create" /\ phase' = "request" /\ current' = 1 /\ file' = <<>>
      /\ Settled /\ Chosen /\ src \in Sources
  BY DEF CreateDest, GotoPhase, fetched, Settled, HlsInv
<1>2. 1 \in 1..Len(Resources) /\ Resources' = Resources /\ Chosen'
  BY <1>1, ResourcesAre, ResourcesStay
<1>3. Len(file') = 0 /\ Place(1, 0) = 0
  BY <1>1, HlsAssumption DEF Place
<1>4. Filled(current, 0)'
  BY <1>1, <1>3 DEF Filled, Place
<1> QED BY <1>1, <1>2, <1>4 DEF HlsInv, Settled

LEMMA HlsRequest == ASSUME HlsInv, Request PROVE HlsInv'
<1>1. /\ phase = "request" /\ phase' = "read" /\ block' = 1 /\ UNCHANGED <<current, file>>
      /\ Settled /\ Chosen /\ current \in 1..Len(Resources)
      /\ UNCHANGED cut /\ (cut \/ Filled(current, 0))
  BY DEF Request, GotoPhase, fetched, Settled, HlsInv
<1>2. Resources' = Resources /\ Chosen'
  BY <1>1, ResourcesStay
<1>3. block' - 1 = 0 /\ block' \in 1..(Blocks + 1)
  BY <1>1, HlsAssumption
<1>4. Filled(current, 0) => Filled(current, block - 1)'
  BY <1>1, <1>2, <1>3 DEF Filled, Place
<1> QED BY <1>1, <1>2, <1>3, <1>4 DEF HlsInv, Settled

\* The block that is appended is the next one of its resource.
LEMMA HlsReadBlock == ASSUME HlsInv, ReadBlock PROVE HlsInv'
<1>1. /\ phase = "read" /\ phase' = "read" /\ block' = block + 1 /\ UNCHANGED current
      /\ Settled /\ Chosen /\ src \in Sources
      /\ current \in 1..Len(Resources) /\ block \in 1..Blocks
      /\ UNCHANGED cut /\ (cut \/ Filled(current, block - 1))
      /\ file' = Append(file, <<Resources[current], block>>) /\ file \in Seq(Urls \X Nat)
  BY HlsAssumption DEF ReadBlock, GotoPhase, fetched, Settled, HlsInv
<1>2. Resources' = Resources /\ Chosen' /\ Resources \in Seq(Urls)
  BY <1>1, ResourcesAre, ResourcesStay
<1>3. <<Resources[current], block>> \in Urls \X Nat
  BY <1>1, <1>2, HlsAssumption
<1>4. file' \in Seq(Urls \X Nat) /\ Len(file') = Len(file) + 1 /\ Len(file) \in Nat
      /\ file'[Len(file) + 1] = <<Resources[current], block>>
      /\ \A n \in 1..Len(file) : file'[n] = file[n]
  BY <1>1, <1>3
<1>5. /\ current \in Nat \ {0} /\ block \in Nat /\ block' - 1 = block /\ block' \in 1..(Blocks + 1)
      /\ Len(Resources) \in Nat /\ Blocks \in Nat
  BY <1>1, <1>2, HlsAssumption
<1> SUFFICES ASSUME ~cut PROVE Filled(current, block - 1)'
  BY <1>1, <1>2, <1>4, <1>5 DEF HlsInv, Settled
<1>6. Len(file) = Place(current, 0) + (block - 1) /\ Place(current, 0) \in Nat
  <2>1. block \in 1..Blocks /\ block - 1 \in Int
    BY <1>1
  <2>2. Place(current, block - 1) = Place(current, 0) + (block - 1) /\ Place(current, 0) \in Nat
    BY <1>5, <2>1, Places
  <2> QED BY <1>1, <2>2 DEF Filled
<1>7. Len(file') = Place(current, block)
  BY <1>1, <1>4, <1>5, <1>6, Places
<1>8. ASSUME NEW i \in 1..current, NEW k \in 1..Blocks, i < current \/ k <= block
      PROVE  file'[Place(i, k)] = <<Resources[i], k>>
  <2>1. i \in Nat \ {0} /\ k \in Int
    BY <1>5
  <2>2. CASE i < current \/ k <= block - 1
    <3>1. file[Place(i, k)] = <<Resources[i], k>>
      BY <1>1, <2>2 DEF Filled
    <3>2. Place(i, k) \in Nat \ {0}
      BY <1>5, <2>1, Places
    <3>3. Place(i, k) <= Len(file)
      <4>1. CASE i < current
        <5>1. Place(i, k) <= Place(current, 0) /\ block >= 1
          BY <1>1, <1>5, <2>1, <4>1, Places
        <5> QED BY <1>5, <1>6, <3>2, <5>1
      <4>2. CASE ~(i < current)
        <5>1. i = current /\ k <= block - 1
          BY <1>5, <2>1, <2>2, <4>2
        <5>2. Place(current, k) = Place(current, 0) + k
          BY <1>5, <2>1, Places
        <5> QED BY <1>5, <1>6, <2>1, <5>1, <5>2
      <4> QED BY <4>1, <4>2
    <3> QED BY <1>4, <3>1, <3>2, <3>3
  <2>3. CASE ~(i < current \/ k <= block - 1)
    <3>1. i = current /\ k = block
      BY <1>5, <1>8, <2>1, <2>3
    <3>2. Place(current, block) = Len(file) + 1
      BY <1>4, <1>7
    <3> QED BY <1>4, <3>1, <3>2
  <2> QED BY <2>2, <2>3
<1> QED BY <1>1, <1>2, <1>5, <1>7, <1>8 DEF Filled, Place

\* A resource that does not end early ends whole: the next one begins at the end of the file.
LEMMA HlsEnd == ASSUME HlsInv, End PROVE HlsInv'
<1>1. /\ phase = "read" /\ UNCHANGED file
      /\ Settled /\ Chosen /\ src \in Sources /\ current \in 1..Len(Resources)
      /\ cut' = (cut \/ block # Blocks + 1) /\ (cut \/ Filled(current, block - 1))
      /\ file' \in Seq(Urls \X Nat) /\ calls' \in Nat
      /\ \/ current < Len(Resources) /\ current' = current + 1 /\ phase' = "request"
         \/ current = Len(Resources) /\ UNCHANGED current /\ phase' = "ok"
  BY DEF End, GotoPhase, fetched, Settled, HlsInv
<1>2. Resources' = Resources /\ Chosen' /\ Len(Resources) \in Nat
  BY <1>1, ResourcesAre, ResourcesStay
<1>3. Blocks \in Nat /\ current \in Nat \ {0}
  BY <1>1, <1>2, HlsAssumption
<1>7. CASE cut'
  <2>1. phase' = "request" => current' \in 1..Len(Resources)
    BY <1>1, <1>2, <1>3
  <2> QED BY <1>1, <1>2, <1>7, <2>1 DEF HlsInv, Settled
<1> SUFFICES ASSUME ~cut' PROVE HlsInv'
  BY <1>7
<1>4. Filled(current, Blocks)
  <2>0. ~cut /\ block = Blocks + 1
    BY <1>1, Zenon
  <2>1. block - 1 = Blocks
    BY <1>3, <2>0
  <2> QED BY <1>1, <2>0, <2>1
<1>5. CASE current < Len(Resources) /\ current' = current + 1 /\ phase' = "request"
  <2>1. Len(file') = Place(current', 0)
    <3>1. Len(file) = current * Blocks
      BY <1>3, <1>4 DEF Filled, Place
    <3> QED BY <1>1, <1>3, <1>5, <3>1 DEF Place
  <2>2. ASSUME NEW i \in 1..current', NEW k \in 1..Blocks, i < current' \/ k <= 0
        PROVE  file'[Place(i, k)] = <<Resources[i], k>>
    <3>1. i \in 1..current /\ k <= Blocks
      BY <1>3, <1>5, <2>2
    <3> QED BY <1>1, <1>4, <3>1 DEF Filled
  <2>3. Filled(current, 0)'
    BY <1>2, <2>1, <2>2 DEF Filled, Place
  <2>4. current' \in 1..Len(Resources)
    BY <1>2, <1>3, <1>5
  <2> QED BY <1>1, <1>2, <1>5, <2>3, <2>4 DEF HlsInv, Settled
<1>6. CASE current = Len(Resources) /\ UNCHANGED current /\ phase' = "ok"
  <2>1. Filled(Len(Resources), Blocks)'
    BY <1>1, <1>2, <1>4, <1>6 DEF Filled, Place
  <2> QED BY <1>1, <1>2, <1>6, <2>1 DEF HlsInv, Settled
<1> QED BY <1>1, <1>5, <1>6

LEMMA HlsStep == ASSUME HlsInv, [HlsNext]_hlsVars PROVE HlsInv'
<1>1. CASE DownloadFails
  <2>1. phase # "idle" /\ phase' = "failed" /\ UNCHANGED <<src, calls, file>>
    BY <1>1 DEF DownloadFails, GotoPhase
  <2> QED BY <2>1 DEF HlsInv
<1>2. CASE UNCHANGED hlsVars
  <2>1. UNCHANGED <<src, calls, phase, base, play, variant, current, block, file, cut>>
    BY <1>2 DEF hlsVars, fetched
  <2>2. Resources' = Resources /\ Chosen' = Chosen
    BY <2>1, ResourcesStay DEF Settled
  <2> QED BY <2>1, <2>2 DEF HlsInv, Filled, Place
<1> QED BY <1>1, <1>2, HlsDownload, HlsFetchPlaylist, HlsCreateDest, HlsRequest, HlsReadBlock,
           HlsEnd DEF HlsNext

\* A download that succeeds, and in which no body ended early, has every reference of the media
\* playlist, or the stream or the local file, whole and in order in its file (download.go,
\* downloadHLS, downloadStream, downloadFile), for any playlists, any number of segments and blocks
\* and any number of attempts before it, whichever of them were cut.
THEOREM DownloadIsWhole == HlsSpec => []FileIsWhole
<1>1. HlsInit => HlsInv
  BY HlsBegins
<1>2. HlsInv /\ [HlsNext]_hlsVars => HlsInv'
  BY HlsStep
<1>3. HlsInv => FileIsWhole
  <2> SUFFICES ASSUME HlsInv, phase = "ok", ~cut PROVE IsWhole(file, Resources)
    BY ResourcesAre DEF HlsInv, FileIsWhole
  <2>1. Filled(Len(Resources), Blocks) /\ Chosen /\ src \in Sources
    BY DEF HlsInv
  <2>2. Len(Resources) \in Nat
    BY <2>1, ResourcesAre
  <2>3. Len(file) = Len(Resources) * Blocks
    BY <2>1, <2>2, HlsAssumption DEF Filled, Place
  <2> QED BY <2>1, <2>3 DEF IsWhole, Filled, Place
<1> QED BY <1>1, <1>2, <1>3, PTL DEF HlsSpec
=============================================================================

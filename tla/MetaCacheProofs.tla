--------------------------- MODULE MetaCacheProofs ---------------------------
(***************************************************************************)
(* What the cache promises, for any number of calls that overlap, fail, or *)
(* ask for either kind, and for any number of seasons and episodes.        *)
(***************************************************************************)
EXTENDS MetaCache, TLAPS

Places == {"idle", "getSeasons", "getEpisodes", "cached", "details", "saveMedia", "list",
           "saveSeason", "season", "saveEpisode", "ok", "failed"}
Answer == [seasons : SUBSET Nat, episodes : SUBSET (Nat \X Nat)]

Types ==
    /\ aired \in Nat /\ seasons \in SUBSET Nat /\ episodes \in SUBSET (Nat \X Nat)
    /\ media \in [kind : Kinds \cup {"none"}, count : Nat, fresh : BOOLEAN, by : Calls \cup {NoCall}]
    /\ at \in [Calls -> Places] /\ kind \in [Calls -> Kinds]
    /\ details \in [Calls -> Nat] /\ listed \in [Calls -> Nat]
    /\ season \in [Calls -> Nat] /\ episode \in [Calls -> Nat]
    /\ answer \in [Calls -> Answer] /\ known \in Answer

\* the tables have all episodes of seasons 1 to n, and the rows of those seasons
HasSeasons(n) == \A s \in 1..n : s \in seasons
HasEpisodes(n) == \A s \in 1..n, e \in 1..Episodes : <<s, e>> \in episodes

\* how much of its list a call has saved, which is at least what its row counts
Progress(c) ==
    /\ at[c] \in {"saveMedia", "list"} => details[c] <= aired
    /\ at[c] \in {"saveSeason", "season", "saveEpisode"} =>
            details[c] <= listed[c] /\ HasSeasons(season[c] - 1) /\ HasEpisodes(season[c] - 1)
    /\ at[c] \in {"season", "saveEpisode"} => season[c] \in seasons
    /\ at[c] = "saveEpisode" => \A e \in 1..(episode[c] - 1) : <<season[c], e>> \in episodes
    /\ at[c] = "ok" /\ kind[c] = "tv" => HasSeasons(details[c]) /\ HasEpisodes(details[c])

\* the row is that of the call that saved it, which changes neither its kind nor its details
Credit ==
    media.by # NoCall =>
        /\ at[media.by] \in {"list", "saveSeason", "season", "saveEpisode", "ok", "failed"}
        /\ media.kind = kind[media.by] /\ media.count = details[media.by]

\* what was returned, or is to be, was saved
Saved ==
    /\ \A c \in Calls : answer[c].episodes \subseteq episodes
    /\ known.episodes \subseteq episodes

IInv == Types /\ (\A c \in Calls : Progress(c)) /\ Credit /\ Saved

Call(c) ==
    \/ \E k \in Kinds : Lookup(c, k)
    \/ GetSeasons(c) \/ GetEpisodes(c) \/ ShowDetails(c) \/ SaveMedia(c) \/ ListSeasons(c)
    \/ SaveSeason(c) \/ SeasonEpisodes(c) \/ SaveEpisode(c) \/ Fail(c)

(* Before the first call. *)
LEMMA InitIInv == MetaInit => IInv
<1> SUFFICES ASSUME MetaInit PROVE IInv OBVIOUS
<1>1. Types
    BY DEF MetaInit, Types, NoRow, Nothing, Answer, Places, Kinds
<1>2. (\A c \in Calls : Progress(c)) /\ Credit
    BY DEF MetaInit, Progress, Credit, NoRow
<1>3. Saved
    BY DEF MetaInit, Saved, Nothing
<1> QED BY <1>1, <1>2, <1>3 DEF IInv

(* Every step keeps the types. *)
LEMMA TypesStep == Episodes \in Nat /\ Types /\ [MetaNext]_metaVars => Types'
<1> SUFFICES ASSUME Episodes \in Nat, Types, [MetaNext]_metaVars PROVE Types' OBVIOUS
<1> USE DEF Types, Places, Kinds, Goto, tables, locals
<1>1. ASSUME NEW c \in Calls, NEW k \in Kinds, Lookup(c, k) PROVE Types' BY <1>1 DEF Lookup
<1>2. ASSUME NEW c \in Calls, GetSeasons(c) PROVE Types' BY <1>2 DEF GetSeasons, Answer
<1>3. ASSUME NEW c \in Calls, GetEpisodes(c) PROVE Types' BY <1>3 DEF GetEpisodes, Answer
<1>4. ASSUME NEW c \in Calls, ShowDetails(c) PROVE Types' BY <1>4 DEF ShowDetails
<1>5. ASSUME NEW c \in Calls, SaveMedia(c) PROVE Types' BY <1>5 DEF SaveMedia
<1>6. ASSUME NEW c \in Calls, ListSeasons(c) PROVE Types' BY <1>6 DEF ListSeasons
<1>7. ASSUME NEW c \in Calls, SaveSeason(c) PROVE Types' BY <1>7 DEF SaveSeason, Answer
<1>8. ASSUME NEW c \in Calls, SeasonEpisodes(c) PROVE Types' BY <1>8 DEF SeasonEpisodes
<1>9. ASSUME NEW c \in Calls, SaveEpisode(c) PROVE Types'
    <2>1. episodes' \in SUBSET (Nat \X Nat) /\ answer' \in [Calls -> Answer]
        BY <1>9 DEF SaveEpisode, Answer
    <2>2. known' \in Answer
        BY <1>9, <2>1 DEF SaveEpisode, Advance, Join, Answer
    <2> QED BY <1>9, <2>1, <2>2 DEF SaveEpisode, Advance
<1>10. ASSUME NEW c \in Calls, Fail(c) PROVE Types' BY <1>10 DEF Fail, Nothing, Answer
<1>11. CASE Expire BY <1>11 DEF Expire
<1>12. CASE Air BY <1>12 DEF Air
<1>13. CASE UNCHANGED metaVars BY <1>13 DEF metaVars
<1> QED BY <1>1, <1>2, <1>3, <1>4, <1>5, <1>6, <1>7, <1>8, <1>9, <1>10, <1>11, <1>12, <1>13 DEF MetaNext

(* The tables only grow, and so does what TMDB knows. *)
LEMMA Growth ==
    Types /\ [MetaNext]_metaVars => aired <= aired' /\ seasons \subseteq seasons' /\ episodes \subseteq episodes'
<1> SUFFICES ASSUME Types, [MetaNext]_metaVars
    PROVE aired <= aired' /\ seasons \subseteq seasons' /\ episodes \subseteq episodes'
    OBVIOUS
<1>1. seasons \subseteq seasons' /\ episodes \subseteq episodes'
    BY DEF MetaNext, metaVars, tables, Lookup, GetSeasons, GetEpisodes, ShowDetails, SaveMedia, ListSeasons,
           SaveSeason, SeasonEpisodes, SaveEpisode, Fail, Expire, Air
<1>2. aired \in Nat BY DEF Types
<1>3. aired' = aired \/ aired' = aired + 1
    BY DEF MetaNext, metaVars, Lookup, GetSeasons, GetEpisodes, ShowDetails, SaveMedia, ListSeasons,
           SaveSeason, SeasonEpisodes, SaveEpisode, Fail, Expire, Air
<1> QED BY <1>1, <1>2, <1>3

(* A step of one call leaves where the others are. *)
LEMMA OthersStay ==
    ASSUME Types, NEW c \in Calls, Call(c), NEW d \in Calls, d # c
    PROVE  /\ at'[d] = at[d] /\ kind'[d] = kind[d] /\ details'[d] = details[d]
           /\ listed'[d] = listed[d] /\ season'[d] = season[d] /\ episode'[d] = episode[d]
<1> USE DEF Types, Goto, locals
<1>1. at'[d] = at[d] /\ kind'[d] = kind[d]
    BY DEF Call, Lookup, GetSeasons, GetEpisodes, ShowDetails, SaveMedia, ListSeasons,
           SaveSeason, SeasonEpisodes, SaveEpisode, Advance, Fail
<1>2. details'[d] = details[d] /\ listed'[d] = listed[d]
    BY DEF Call, Lookup, GetSeasons, GetEpisodes, ShowDetails, SaveMedia, ListSeasons,
           SaveSeason, SeasonEpisodes, SaveEpisode, Fail
<1>3. season'[d] = season[d] /\ episode'[d] = episode[d]
    BY DEF Call, Lookup, GetSeasons, GetEpisodes, ShowDetails, SaveMedia, ListSeasons,
           SaveSeason, SeasonEpisodes, SaveEpisode, Advance, Fail
<1> QED BY <1>1, <1>2, <1>3

(* A call that stays where it is keeps what it has achieved while the tables grow. *)
LEMMA ProgressStays ==
    ASSUME Types, Types', NEW d \in Calls, Progress(d),
           aired <= aired', seasons \subseteq seasons', episodes \subseteq episodes',
           at'[d] = at[d], kind'[d] = kind[d], details'[d] = details[d],
           listed'[d] = listed[d], season'[d] = season[d], episode'[d] = episode[d]
    PROVE  Progress(d)'
<1>1. details[d] \in Nat /\ aired \in Nat /\ aired' \in Nat BY DEF Types
<1>2. at[d] \in {"saveMedia", "list"} => details[d] <= aired'
    BY <1>1 DEF Progress
<1>3. /\ HasSeasons(season[d] - 1) => HasSeasons(season[d] - 1)'
      /\ HasEpisodes(season[d] - 1) => HasEpisodes(season[d] - 1)'
    BY DEF HasSeasons, HasEpisodes
<1>4. /\ HasSeasons(details[d]) => HasSeasons(details[d])'
      /\ HasEpisodes(details[d]) => HasEpisodes(details[d])'
    BY DEF HasSeasons, HasEpisodes
<1> QED BY <1>2, <1>3, <1>4 DEF Progress

(* After the last episode of a season the season is complete; after the last season, the show. *)
LEMMA EpisodeStep ==
    ASSUME Episodes \in Nat, Types, Types', NEW c \in Calls, Progress(c), SaveEpisode(c)
    PROVE  Progress(c)'
<1>1. PICK n \in Nat, m \in Nat : n = season[c] /\ m = episode[c]
    BY DEF Types
<1>2. /\ details[c] \in Nat /\ listed[c] \in Nat
      /\ details'[c] = details[c] /\ listed'[c] = listed[c] /\ at[c] = "saveEpisode"
    BY DEF SaveEpisode, Types
<1>3. /\ details[c] <= listed[c] /\ n \in seasons'
      /\ \A s \in 1..(n - 1) : s \in seasons'
      /\ \A s \in 1..(n - 1), e \in 1..Episodes : <<s, e>> \in episodes'
      /\ \A e \in 1..m : <<n, e>> \in episodes'
    <2>1. \A e \in 1..m : e \in 1..(m - 1) \/ e = m OBVIOUS
    <2> QED BY <1>1, <1>2, <2>1 DEF SaveEpisode, Progress, HasSeasons, HasEpisodes
<1>4. CASE episode[c] < Episodes
    <2>1. at'[c] = "saveEpisode" /\ season'[c] = n /\ episode'[c] = m + 1
        BY <1>1, <1>2, <1>4 DEF SaveEpisode, Advance, Types
    <2> QED BY <1>2, <1>3, <2>1 DEF Progress, HasSeasons, HasEpisodes
<1>5. CASE ~(episode[c] < Episodes)
    <2>1. \A e \in 1..Episodes : <<n, e>> \in episodes'
        BY <1>1, <1>3, <1>5
    <2>2. \A s \in 1..n : s \in 1..(n - 1) \/ s = n OBVIOUS
    <2>3. /\ \A s \in 1..n : s \in seasons'
          /\ \A s \in 1..n, e \in 1..Episodes : <<s, e>> \in episodes'
        BY <1>3, <2>1, <2>2
    <2>4. CASE season[c] < listed[c]
        <3>1. at'[c] = "saveSeason" /\ season'[c] = n + 1
            BY <1>1, <1>5, <2>4 DEF SaveEpisode, Advance, Goto, Types
        <3> QED BY <1>2, <1>3, <2>3, <3>1 DEF Progress, HasSeasons, HasEpisodes
    <2>5. CASE ~(season[c] < listed[c])
        <3>1. at'[c] = "ok" /\ kind'[c] = kind[c]
            BY <1>5, <2>5 DEF SaveEpisode, Advance, Goto, Types
        <3>2. \A s \in 1..details[c] : s \in 1..n
            BY <1>1, <1>2, <1>3, <2>5
        <3> QED BY <1>2, <2>3, <3>1, <3>2 DEF Progress, HasSeasons, HasEpisodes
    <2> QED BY <2>4, <2>5
<1> QED BY <1>4, <1>5

(* What a call has achieved, its own next step does not undo. *)
LEMMA OwnProgress ==
    ASSUME Episodes \in Nat, Types, Types', NEW c \in Calls, Progress(c), Call(c)
    PROVE  Progress(c)'
<1> USE DEF Goto, tables, locals
<1>1. ASSUME NEW k \in Kinds, Lookup(c, k) PROVE Progress(c)'
    <2>1. at'[c] \in {"getSeasons", "cached", "details"} BY <1>1 DEF Lookup, Types
    <2> QED BY <2>1 DEF Progress
<1>2. CASE GetSeasons(c)
    <2>1. at'[c] = "getEpisodes" BY <1>2 DEF GetSeasons, Types
    <2> QED BY <2>1 DEF Progress
<1>3. CASE GetEpisodes(c)
    <2>1. at'[c] = "cached" BY <1>3 DEF GetEpisodes, Types
    <2> QED BY <2>1 DEF Progress
<1>4. CASE ShowDetails(c)
    <2>1. at'[c] = "saveMedia" /\ aired' = aired /\ aired \in Nat /\ details'[c] \in {aired, 0}
        BY <1>4 DEF ShowDetails, Types
    <2> QED BY <2>1 DEF Progress
<1>5. CASE SaveMedia(c)
    <2>1. /\ at[c] = "saveMedia" /\ aired' = aired /\ details'[c] = details[c] /\ kind'[c] = kind[c]
          /\ at'[c] = IF kind[c] = "tv" THEN "list" ELSE "ok"
        BY <1>5 DEF SaveMedia, Types
    <2> QED BY <2>1 DEF Progress
<1>6. CASE ListSeasons(c)
    <2>1. /\ at[c] = "list" /\ details'[c] = details[c] /\ listed'[c] = aired /\ season'[c] = 1
          /\ at'[c] = "saveSeason"
        BY <1>6 DEF ListSeasons, Types
    <2> QED BY <2>1 DEF Progress, HasSeasons, HasEpisodes
<1>7. CASE SaveSeason(c)
    <2>1. /\ at[c] = "saveSeason" /\ at'[c] = "season" /\ details'[c] = details[c]
          /\ listed'[c] = listed[c] /\ season'[c] = season[c] /\ episodes' = episodes
          /\ seasons' = seasons \cup {season[c]}
        BY <1>7 DEF SaveSeason, Types
    <2> QED BY <2>1 DEF Progress, HasSeasons, HasEpisodes
<1>8. CASE SeasonEpisodes(c)
    <2>1. /\ at[c] = "season" /\ at'[c] = "saveEpisode" /\ details'[c] = details[c]
          /\ listed'[c] = listed[c] /\ season'[c] = season[c] /\ episode'[c] = 1
          /\ seasons' = seasons /\ episodes' = episodes
        BY <1>8 DEF SeasonEpisodes, Types
    <2> QED BY <2>1 DEF Progress, HasSeasons, HasEpisodes
<1>9. CASE SaveEpisode(c) BY <1>9, EpisodeStep
<1>10. CASE Fail(c)
    <2>1. at'[c] = "failed" BY <1>10 DEF Fail, Types
    <2> QED BY <2>1 DEF Progress
<1> QED BY <1>1, <1>2, <1>3, <1>4, <1>5, <1>6, <1>7, <1>8, <1>9, <1>10 DEF Call

(* Every step keeps what every call has achieved. *)
LEMMA ProgressStep ==
    ASSUME Episodes \in Nat, Types, Types', [MetaNext]_metaVars, \A d \in Calls : Progress(d)
    PROVE  \A d \in Calls : Progress(d)'
<1> TAKE d \in Calls
<1>1. aired <= aired' /\ seasons \subseteq seasons' /\ episodes \subseteq episodes' BY Growth
<1>2. ASSUME NEW c \in Calls, Call(c) PROVE Progress(d)'
    <2>1. CASE d = c BY <1>2, <2>1, OwnProgress
    <2>2. CASE d # c BY <1>1, <1>2, <2>2, OthersStay, ProgressStays
    <2> QED BY <2>1, <2>2
<1>3. CASE Expire \/ Air \/ UNCHANGED metaVars
    <2>1. /\ at'[d] = at[d] /\ kind'[d] = kind[d] /\ details'[d] = details[d]
          /\ listed'[d] = listed[d] /\ season'[d] = season[d] /\ episode'[d] = episode[d]
        BY <1>3 DEF Expire, Air, metaVars, locals
    <2> QED BY <1>1, <2>1, ProgressStays
<1> QED BY <1>2, <1>3 DEF MetaNext, Call

(* The row stays that of the call that saved it, and that call does not ask anew. *)
LEMMA CreditStep ==
    ASSUME Types, Types', [MetaNext]_metaVars, Credit, NoCall \notin Calls
    PROVE  Credit'
<1> USE DEF Goto, tables, locals
<1>1. ASSUME NEW c \in Calls, SaveMedia(c) PROVE Credit'
    <2>1. /\ media'.by = c /\ media'.kind = kind'[c] /\ media'.count = details'[c]
          /\ at'[c] \in {"list", "ok"}
        BY <1>1 DEF SaveMedia, Types
    <2> QED BY <2>1 DEF Credit
<1>2. ASSUME NEW c \in Calls, Call(c), media' = media PROVE Credit'
    <2>1. CASE media.by = NoCall BY <1>2, <2>1 DEF Credit
    <2>2. ASSUME NEW d \in Calls, d = media.by, d # NoCall PROVE Credit'
        <3>1. /\ at[d] \in {"list", "saveSeason", "season", "saveEpisode", "ok", "failed"}
              /\ media.kind = kind[d] /\ media.count = details[d]
            BY <2>2 DEF Credit
        <3>2. CASE d # c
            <4>1. at'[d] = at[d] /\ kind'[d] = kind[d] /\ details'[d] = details[d]
                BY <1>2, <3>2, OthersStay
            <4> QED BY <1>2, <2>2, <3>1, <4>1 DEF Credit
        <3>3. CASE d = c
            <4>1. at'[d] \in {"list", "saveSeason", "season", "saveEpisode", "ok", "failed"}
                BY <1>2, <3>1, <3>3 DEF Call, Lookup, GetSeasons, GetEpisodes, ShowDetails, SaveMedia,
                   ListSeasons, SaveSeason, SeasonEpisodes, SaveEpisode, Advance, Fail, Types
            <4>2. kind'[d] = kind[d] /\ details'[d] = details[d]
                BY <1>2, <3>1, <3>3 DEF Call, Lookup, GetSeasons, GetEpisodes, ShowDetails, SaveMedia,
                   ListSeasons, SaveSeason, SeasonEpisodes, SaveEpisode, Fail, Types
            <4> QED BY <1>2, <2>2, <3>1, <4>1, <4>2 DEF Credit
        <3> QED BY <3>2, <3>3
    <2> QED BY <2>1, <2>2 DEF Types
<1>3. ASSUME NEW c \in Calls, Call(c), ~SaveMedia(c) PROVE media' = media
    BY <1>3 DEF Call, Lookup, GetSeasons, GetEpisodes, ShowDetails,
       ListSeasons, SaveSeason, SeasonEpisodes, SaveEpisode, Fail
<1>4. CASE Expire \/ Air \/ UNCHANGED metaVars
    <2>1. /\ media'.by = media.by /\ media'.kind = media.kind /\ media'.count = media.count
          /\ at' = at /\ kind' = kind /\ details' = details
        BY <1>4 DEF Expire, Air, metaVars, Types
    <2> QED BY <2>1 DEF Credit
<1> QED BY <1>1, <1>2, <1>3, <1>4 DEF MetaNext, Call

(* Nothing is returned, or kept for an answer, that was not saved. *)
LEMMA SavedStep ==
    ASSUME Types, Types', [MetaNext]_metaVars, Saved
    PROVE  Saved'
<1> USE DEF Goto, tables, locals
<1>1. episodes \subseteq episodes' BY Growth
<1>2. ASSUME NEW c \in Calls PROVE answer'[c].episodes \subseteq episodes'
    <2>1. ASSUME NEW d \in Calls, Call(d) PROVE answer'[c].episodes \subseteq episodes'
        <3>1. CASE SaveEpisode(d) BY <1>1, <3>1 DEF SaveEpisode, Saved, Types, Answer
        <3>2. CASE GetEpisodes(d) BY <1>1, <3>2 DEF GetEpisodes, Saved, Types, Answer
        <3>3. CASE GetSeasons(d) BY <1>1, <3>3 DEF GetSeasons, Saved, Types, Answer
        <3>4. CASE SaveSeason(d) BY <1>1, <3>4 DEF SaveSeason, Saved, Types, Answer
        <3>5. CASE Fail(d) BY <1>1, <3>5 DEF Fail, Nothing, Saved, Types, Answer
        <3>6. CASE answer' = answer BY <1>1, <3>6 DEF Saved
        <3> QED BY <2>1, <3>1, <3>2, <3>3, <3>4, <3>5, <3>6
                DEF Call, Lookup, ShowDetails, SaveMedia, ListSeasons, SeasonEpisodes
    <2>2. CASE Expire \/ Air \/ UNCHANGED metaVars BY <1>1, <2>2 DEF Expire, Air, metaVars, Saved
    <2> QED BY <2>1, <2>2 DEF MetaNext, Call
<1>3. known'.episodes \subseteq episodes'
    <2>1. ASSUME NEW d \in Calls, SaveEpisode(d) PROVE known'.episodes \subseteq episodes'
        <3>1. known' = known \/ known'.episodes = known.episodes \cup answer'[d].episodes
            BY <2>1 DEF SaveEpisode, Advance, Join
        <3> QED BY <1>1, <1>2, <3>1 DEF Saved
    <2>2. CASE known' = known BY <1>1, <2>2 DEF Saved
    <2> QED BY <2>1, <2>2 DEF MetaNext, Lookup, GetSeasons, GetEpisodes, ShowDetails, SaveMedia,
            ListSeasons, SaveSeason, SeasonEpisodes, Fail, Expire, Air, metaVars
<1> QED BY <1>2, <1>3 DEF Saved

(* The invariant holds throughout. *)
LEMMA AlwaysIInv == MetaSpec => []IInv
<1>1. IInv /\ [MetaNext]_metaVars => IInv'
    BY MetaAssumption, TypesStep, ProgressStep, CreditStep, SavedStep DEF IInv
<1> QED BY InitIInv, <1>1, PTL DEF MetaSpec

(* A row whose call went on to succeed has all seasons and episodes it counts, whatever other *)
(* calls do and wherever they fail.                                                           *)
THEOREM RowsAreComplete == MetaSpec => []CompleteShow
<1>1. IInv => CompleteShow
    <2> SUFFICES ASSUME IInv, media.kind = "tv", media.by # NoCall, at[media.by] = "ok"
        PROVE  /\ 1..media.count \subseteq seasons
               /\ (1..media.count) \X (1..Episodes) \subseteq episodes
        BY DEF CompleteShow
    <2>1. media.by \in Calls BY DEF IInv, Types
    <2>2. kind[media.by] = "tv" /\ media.count = details[media.by] BY DEF IInv, Credit
    <2>3. HasSeasons(media.count) /\ HasEpisodes(media.count)
        BY <2>1, <2>2 DEF IInv, Progress
    <2> QED BY <2>3 DEF HasSeasons, HasEpisodes
<1> QED BY AlwaysIInv, <1>1, PTL

(* An answer from the cache has every episode that any earlier call fetched to the end. *)
THEOREM AnswersForgetNothing == MetaSpec => NothingForgotten
<1>1. ASSUME IInv, [MetaNext]_metaVars, NEW c \in Calls, at[c] = "getEpisodes", at'[c] = "cached"
      PROVE  known.episodes \subseteq answer'[c].episodes
    <2> USE DEF Goto, tables, locals
    <2>1. Types BY <1>1 DEF IInv
    <2>2. GetEpisodes(c)
        <3>1. ASSUME NEW d \in Calls, Call(d) PROVE d = c
            BY <1>1, <2>1, <3>1, OthersStay
        <3>2. at' # at BY <1>1
        <3>3. Call(c) BY <1>1, <3>1, <3>2 DEF MetaNext, Call, Expire, Air, metaVars
        <3> QED BY <1>1, <2>1, <3>3 DEF Call, Lookup, GetSeasons, ShowDetails, SaveMedia,
                ListSeasons, SaveSeason, SeasonEpisodes, SaveEpisode, Fail, Types
    <2>3. answer'[c].episodes = episodes
        BY <2>1, <2>2 DEF GetEpisodes, Types, Answer
    <2> QED BY <1>1, <2>3 DEF IInv, Saved
<1>2. IInv /\ [MetaNext]_metaVars =>
        [\A c \in Calls : (at[c] = "getEpisodes" /\ at'[c] = "cached") =>
            known.episodes \subseteq answer'[c].episodes]_metaVars
    BY <1>1
<1> QED BY AlwaysIInv, <1>2, PTL DEF MetaSpec, NothingForgotten
=============================================================================

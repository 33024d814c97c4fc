----------------------------- MODULE MetaCache ------------------------------
(***************************************************************************)
(* internal/meta: Client.Show, and the tables media, season and episode    *)
(* it keeps what it fetched in, for one TMDB number.                       *)
(*                                                                         *)
(* The row of the show is saved first and says when it was fetched; its    *)
(* seasons and episodes follow, one request and one statement at a time.   *)
(* A call that fails on the way leaves what it has saved.  TMDB numbers    *)
(* its movies and its shows apart, the table does not.                     *)
(***************************************************************************)
EXTENDS Integers, FiniteSets

CONSTANTS
    Calls,          \* calls of Show, one after another or at once, each made once
    Episodes,       \* the episodes of every season, 1..Episodes
    MaxSeasons,     \* bound: seasons TMDB comes to know
    NoCall

ASSUME MetaAssumption == Episodes \in Nat /\ NoCall \notin Calls

VARIABLES
    aired,          \* seasons TMDB knows
    media,          \* the row: kind, season_count, within the TTL; and the call that saved it
    seasons, episodes,      \* the other two tables
    at, kind,       \* of a call: where it is, the kind asked for
    details, listed,        \* season_count of its details, seasons of its list
    season, episode,        \* where its loops are
    answer,         \* what it returns, seasons and episodes
    known           \* all that calls have fetched to the end so far

tables == <<media, seasons, episodes>>
locals == <<details, listed, season, episode>>
metaVars == <<aired, media, seasons, episodes, at, kind, details, listed, season, episode, answer, known>>

Kinds == {"movie", "tv"}
NoRow == [kind |-> "none", count |-> 0, fresh |-> FALSE, by |-> NoCall]
Rows == (1..MaxSeasons) \X (1..Episodes)
Nothing == [seasons |-> {}, episodes |-> {}]

MetaInit ==
    /\ aired = 1
    /\ media = NoRow /\ seasons = {} /\ episodes = {}
    /\ at = [c \in Calls |-> "idle"] /\ kind = [c \in Calls |-> "tv"]
    /\ details = [c \in Calls |-> 0] /\ listed = [c \in Calls |-> 0]
    /\ season = [c \in Calls |-> 0] /\ episode = [c \in Calls |-> 0]
    /\ answer = [c \in Calls |-> Nothing]
    /\ known = Nothing

Goto(c, l) == at' = [at EXCEPT ![c] = l]

\* The row must be of the kind asked for (an anime is a show) and younger than CacheTTL.  A
\* statement that fails is taken for a miss.
Lookup(c, k) ==
    /\ at[c] = "idle" /\ c = CHOOSE d \in Calls : at[d] = "idle"      \* their names do not matter
    /\ kind' = [kind EXCEPT ![c] = k]
    /\ \/ /\ media.kind = k /\ media.fresh
          /\ Goto(c, IF k = "tv" THEN "getSeasons" ELSE "cached")
       \/ Goto(c, "details")
    /\ UNCHANGED <<aired, tables, locals, answer, known>>

GetSeasons(c) ==
    /\ at[c] = "getSeasons"
    /\ answer' = [answer EXCEPT ![c].seasons = seasons]
    /\ Goto(c, "getEpisodes")
    /\ UNCHANGED <<aired, tables, kind, locals, known>>

GetEpisodes(c) ==
    /\ at[c] = "getEpisodes"
    /\ answer' = [answer EXCEPT ![c].episodes = episodes]
    /\ Goto(c, "cached")
    /\ UNCHANGED <<aired, tables, kind, locals, known>>

ShowDetails(c) ==
    /\ at[c] = "details"
    /\ details' = [details EXCEPT ![c] = IF kind[c] = "tv" THEN aired ELSE 0]
    /\ Goto(c, "saveMedia")
    /\ UNCHANGED <<aired, tables, kind, listed, season, episode, answer, known>>

\* Mutant: INSERT OR REPLACE, which deletes the row and, with it, all that refers to it.
SaveMediaReplacing(c) ==
    /\ at[c] = "saveMedia"
    /\ media' = [kind |-> kind[c], count |-> details[c], fresh |-> TRUE, by |-> c]
    /\ seasons' = {} /\ episodes' = {}
    /\ Goto(c, IF kind[c] = "tv" THEN "list" ELSE "ok")
    /\ UNCHANGED <<aired, kind, locals, answer, known>>

\* ON CONFLICT(tmdb_id), of either kind
SaveMedia(c) ==
    /\ at[c] = "saveMedia"
    /\ media' = [kind |-> kind[c], count |-> details[c], fresh |-> TRUE, by |-> c]
    /\ Goto(c, IF kind[c] = "tv" THEN "list" ELSE "ok")
    /\ UNCHANGED <<aired, seasons, episodes, kind, locals, answer, known>>

\* the same resource is asked for again, for its seasons; season 0 is skipped
ListSeasons(c) ==
    /\ at[c] = "list"
    /\ listed' = [listed EXCEPT ![c] = aired]
    /\ season' = [season EXCEPT ![c] = 1]
    /\ Goto(c, "saveSeason")
    /\ UNCHANGED <<aired, tables, kind, details, episode, answer, known>>

SaveSeason(c) ==
    /\ at[c] = "saveSeason"
    /\ seasons' = seasons \cup {season[c]}
    /\ answer' = [answer EXCEPT ![c].seasons = @ \cup {season[c]}]
    /\ Goto(c, "season")
    /\ UNCHANGED <<aired, media, episodes, kind, locals, known>>

SeasonEpisodes(c) ==
    /\ at[c] = "season"
    /\ episode' = [episode EXCEPT ![c] = 1]
    /\ Goto(c, "saveEpisode")
    /\ UNCHANGED <<aired, tables, kind, details, listed, season, answer, known>>

Join(a, b) == [seasons |-> a.seasons \cup b.seasons, episodes |-> a.episodes \cup b.episodes]

\* after the last episode of the last season the call returns all it has fetched
Advance(c) ==
    IF episode[c] < Episodes
    THEN /\ episode' = [episode EXCEPT ![c] = @ + 1]
         /\ UNCHANGED <<at, season, known>>
    ELSE IF season[c] < listed[c]
    THEN /\ season' = [season EXCEPT ![c] = @ + 1]
         /\ Goto(c, "saveSeason") /\ UNCHANGED <<episode, known>>
    ELSE Goto(c, "ok") /\ known' = Join(known, answer'[c]) /\ UNCHANGED <<season, episode>>

\* Mutant: an error of the statement is not returned.
SaveEpisodeUnchecked(c) ==
    /\ at[c] = "saveEpisode"
    /\ \E saved \in SUBSET {<<season[c], episode[c]>>} : episodes' = episodes \cup saved
    /\ answer' = [answer EXCEPT ![c].episodes = @ \cup {<<season[c], episode[c]>>}]
    /\ Advance(c)
    /\ UNCHANGED <<aired, media, seasons, kind, details, listed>>

SaveEpisode(c) ==
    /\ at[c] = "saveEpisode"
    /\ episodes' = episodes \cup {<<season[c], episode[c]>>}
    /\ answer' = [answer EXCEPT ![c].episodes = @ \cup {<<season[c], episode[c]>>}]
    /\ Advance(c)
    /\ UNCHANGED <<aired, media, seasons, kind, details, listed>>

\* any request or statement fails: what was saved before stays
Fail(c) ==
    /\ at[c] \notin {"idle", "cached", "ok", "failed"}
    /\ Goto(c, "failed")
    /\ answer' = [answer EXCEPT ![c] = Nothing]
    /\ UNCHANGED <<aired, tables, kind, locals, known>>

\* meta_fetched_at is more than CacheTTL ago
Expire ==
    /\ media.fresh
    /\ media' = [media EXCEPT !.fresh = FALSE]
    /\ UNCHANGED <<aired, seasons, episodes, at, kind, locals, answer, known>>

\* TMDB comes to know another season
Air ==
    /\ aired < MaxSeasons
    /\ aired' = aired + 1
    /\ UNCHANGED <<tables, at, kind, locals, answer, known>>

MetaNext ==
    \/ \E c \in Calls :
        \/ \E k \in Kinds : Lookup(c, k)
        \/ GetSeasons(c) \/ GetEpisodes(c) \/ ShowDetails(c) \/ SaveMedia(c) \/ ListSeasons(c)
        \/ SaveSeason(c) \/ SeasonEpisodes(c) \/ SaveEpisode(c) \/ Fail(c)
    \/ Expire \/ Air

MetaSpec == MetaInit /\ [][MetaNext]_metaVars
-----------------------------------------------------------------------------
(* A show whose row was saved by a call that went on to succeed has the episodes of at least  *)
(* as many seasons as its row says, whatever other calls for the same number, of either kind, *)
(* did before, meanwhile or since.  (A row saved by a call that failed or still runs may be   *)
(* fresh and lack any of them.)                                                               *)
CompleteShow ==
    (media.kind = "tv" /\ media.by # NoCall /\ at[media.by] = "ok") =>
        /\ 1..media.count \subseteq seasons
        /\ (1..media.count) \X (1..Episodes) \subseteq episodes

(* What a call has once fetched to the end is in every answer that is given from the cache,   *)
(* also while a later call that fails replaces the row.                                       *)
NothingForgotten ==
    [][\A c \in Calls : (at[c] = "getEpisodes" /\ at'[c] = "cached") =>
          known.episodes \subseteq answer'[c].episodes]_metaVars
=============================================================================

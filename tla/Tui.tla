-------------------------------- MODULE Tui ---------------------------------
(***************************************************************************)
(* internal/tui: the Bubble Tea model.  Update handles one message at a    *)
(* time; the commands that Init and Update return run on their own and     *)
(* send their message when they are done, so that they overtake each       *)
(* other.  Of a status only the number of its jobs matters, which the      *)
(* list of downloads has for its length.                                   *)
(***************************************************************************)
EXTENDS Integers

CONSTANTS MaxLines, MaxRefreshes    \* bounds: of a list, and of the commands that run at once

ASSUME TuiAssumption == MaxLines \in Nat \ {0} /\ MaxRefreshes \in Nat

VARIABLES
    active,         \* the jobs a status would show if it were read now
    screen, cursor, lines,  \* m.screen, m.cursor, len(m.items)
    typed,          \* whether m.search has any letter
    status,         \* len(m.status.Jobs)
    refresh, got    \* of a command: where it is, and the jobs in the status it will send

view == <<screen, cursor, lines, typed>>
async == <<active, status, refresh, got>>
tuiVars == <<active, screen, cursor, lines, typed, status, refresh, got>>

Screens == {"home", "status", "downloads", "library", "search"}
Ids == 1..MaxRefreshes

\* Init's command, the first, has an empty status to send: it may come in after any other
TuiInit ==
    /\ active = 0
    /\ screen = "home" /\ cursor = 0 /\ lines = 0 /\ typed = FALSE
    /\ status = 0
    /\ refresh = [i \in Ids |-> IF i = 1 THEN "read" ELSE "none"] /\ got = [i \in Ids |-> 0]

\* jobItems has a line of its own for no job
JobItems == IF status = 0 THEN 1 ELSE status

\* keys 1, 2, 3 and 5: the list is built from the status that is there, then a new one is asked for
Show(s) ==
    /\ \E i \in Ids : refresh[i] = "none" /\ refresh' = [refresh EXCEPT ![i] = "started"]
    /\ screen' = s /\ cursor' = 0
    /\ \/ s = "downloads" /\ lines' = JobItems
       \/ s \in {"status", "library"} /\ lines' \in 1..MaxLines
    /\ UNCHANGED <<active, typed, status, got>>

\* key 4: the list and the cursor of the screen before stay
Search ==
    /\ screen' = "search" /\ typed' = FALSE
    /\ UNCHANGED <<async, cursor, lines>>

Escape ==
    /\ screen' = "home" /\ cursor' = 0
    /\ UNCHANGED <<async, lines, typed>>

Type ==
    /\ screen = "search" /\ ~typed
    /\ typed' = TRUE
    /\ UNCHANGED <<async, screen, cursor, lines>>

\* enter, when there are hits; otherwise only the message changes
RunSearch ==
    /\ screen = "search" /\ typed
    /\ screen' = "library" /\ lines' \in 1..MaxLines /\ cursor' = 0
    /\ UNCHANGED <<async, typed>>

\* k and j, on any screen
Move(by) ==
    /\ lines > 0
    /\ cursor' = (cursor + by + lines) % lines
    /\ UNCHANGED <<async, screen, lines, typed>>

\* a refresh reads the status; an error makes it an empty one
ReadStatus(i) ==
    /\ refresh[i] = "started"
    /\ refresh' = [refresh EXCEPT ![i] = "read"]
    /\ got' \in {[got EXCEPT ![i] = active], [got EXCEPT ![i] = 0]}
    /\ UNCHANGED <<view, active, status>>

\* Mutant: the list of downloads follows the status.
UpdateFollowed(i) ==
    /\ refresh[i] = "read"
    /\ refresh' = [refresh EXCEPT ![i] = "none"]
    /\ status' = got[i]
    /\ lines' = IF screen = "downloads" THEN (IF status' = 0 THEN 1 ELSE status') ELSE lines
    /\ UNCHANGED <<active, screen, cursor, typed, got>>

\* Update gets the message of a command, and leaves the list as it is
Update(i) ==
    /\ refresh[i] = "read"
    /\ refresh' = [refresh EXCEPT ![i] = "none"]
    /\ status' = got[i]
    /\ UNCHANGED <<view, active, got>>

\* jobs come and go
Change ==
    /\ active' \in 0..MaxLines
    /\ UNCHANGED <<view, status, refresh, got>>

TuiNext ==
    \/ (\E s \in Screens : Show(s)) \/ Search \/ Escape \/ Type \/ RunSearch
    \/ \E by \in {-1, 1} : Move(by)
    \/ \E i \in Ids : ReadStatus(i) \/ Update(i)
    \/ Change

TuiSpec == TuiInit /\ [][TuiNext]_tuiVars
-----------------------------------------------------------------------------
(* The cursor is on a line of the list on every screen: also when a search replaces a long    *)
(* list by a short one, when keys move it on the home screen, and when statuses with other    *)
(* numbers of jobs come in, in any order, while the list is shown.                            *)
CursorInside == lines > 0 => cursor \in 0..(lines - 1)
=============================================================================

------------------------------- MODULE Formats ------------------------------
(***************************************************************************)
(* Functions whose result another part relies on: the text of a time,      *)
(* which SQLite compares (internal/db); the file name of an episode, which *)
(* Play finds it by (internal/queue, scrub, label, app); and the boxes of  *)
(* an MP4 file, which say whether its index comes first (internal/mux).    *)
(***************************************************************************)
EXTENDS Integers, Sequences, SequencesExt

CONSTANTS
    Base,           \* numerals of the text of a time: a second has Base^2 ticks
    MaxTime,
    Titles,         \* of shows and episodes: sequences of characters
    Numbers,        \* of seasons and episodes
    NameLimit,      \* 120 in the code
    Files           \* sequences of boxes, after a whole ftyp box

ASSUME FormatsAssumption ==
    /\ Base \in Nat \ {0} /\ MaxTime \in Nat
    /\ \A title \in Titles : title \in Seq(ToSet(title))
    /\ Numbers \subseteq Nat /\ NameLimit \in Nat
    /\ Files \subseteq Seq(STRING \X {"short", "long", "rest"} \X Nat)

VARIABLES asked, result     \* the operation with its arguments, and what it returns

formatsVars == <<asked, result>>
Second == Base * Base
-----------------------------------------------------------------------------
\* RFC3339Nano: two numerals of seconds, and a fraction without zeros at its end.  The codes are
\* in the order of ASCII: the point, the numerals, the Z.
Point == 0
Zulu == Base + 1
Numerals(n) == <<(n \div Base) + 1, (n % Base) + 1>>

Fraction(n) ==
    LET digits == IF n = 0 THEN 0 ELSE IF n % Base = 0 THEN 1 ELSE 2
    IN SubSeq(Numerals(n), 1, digits)

\* Mutant: the zero that a number below the base is padded with is left out.
FormatTimeShort(t) ==
    LET whole == Numerals(t \div Second)
        fraction == Fraction(t % Second)
    IN (IF Head(whole) = 1 THEN Tail(whole) ELSE whole)
       \o (IF fraction = <<>> THEN <<>> ELSE <<Point>> \o fraction) \o <<Zulu>>

FormatTime(t) ==
    LET fraction == Fraction(t % Second)
    IN Numerals(t \div Second)
       \o (IF fraction = <<>> THEN <<>> ELSE <<Point>> \o fraction) \o <<Zulu>>

\* next_retry_at <= now, both texts
TextLeq(a, b) ==
    \/ IsPrefix(a, b)
    \/ \E i \in DOMAIN a \cap DOMAIN b : a[i] < b[i] /\ \A k \in 1..(i - 1) : a[k] = b[k]

ListDue(next, now) ==
    /\ asked' = <<"due", next, now>>
    /\ result' = <<TextLeq(FormatTime(next), FormatTime(now))>>
-----------------------------------------------------------------------------
\* label.Clean: "~" stands for an emoji, a control or a zero-width character, "/" for the illegal
Squeeze(s) ==
    LET squeezed[n \in 0..Len(s)] ==
            IF n = 0 THEN <<>>
            ELSE IF n > 1 /\ s[n] = " " /\ s[n - 1] = " " THEN squeezed[n - 1]
            ELSE Append(squeezed[n - 1], s[n])
    IN squeezed[Len(s)]
Trim(s, cs) ==
    LET kept == {i \in DOMAIN s : s[i] \notin cs}
    IN IF kept = {} THEN <<>> ELSE SubSeq(s, Min(kept), Max(kept))
Clean(s) ==
    LET replace(c) == CASE c = "~" -> <<>> [] c = ":" -> <<" ", "-", " ">>
                        [] c = "/" -> <<"-">> [] OTHER -> <<c>>
        replaced[n \in 0..Len(s)] ==
            IF n = 0 THEN <<>> ELSE replaced[n - 1] \o replace(s[n])
    IN Trim(Squeeze(replaced[Len(s)]), {" ", "."})

Digit(n) == <<"0", "1", "2", "3", "4", "5", "6", "7", "8", "9">>[n + 1]
Itoa(n) ==
    LET digits[k \in 0..n] ==
            IF k < 10 THEN <<Digit(k)>> ELSE Append(digits[k \div 10], Digit(k % 10))
    IN digits[n]

\* queue.two, and %02d in matchEpisode
Two(n) == IF n < 10 THEN <<"0">> \o Itoa(n) ELSE Itoa(n)
Padded(n) == IF n \in 0..9 THEN <<"0", Digit(n)>> ELSE Itoa(n)

\* Mutant: the cut is at the first space.
LimitAtFirstSpace(name) ==
    IF Len(name) <= NameLimit THEN name
    ELSE SubSeq(name, 1, Min({i \in 1..NameLimit : name[i] = " "}))

\* scrub.LimitPathComponent cuts after the last space within the limit, and the space as well
LimitPathComponent(name) ==
    LET spaces == {i \in 1..NameLimit : name[i] = " "}
        cut == IF spaces = {} THEN NameLimit ELSE Max(spaces)
    IN IF Len(name) <= NameLimit THEN name ELSE Trim(SubSeq(name, 1, cut), {" "})

FileName(show, season, episode, title) ==
    Clean(show) \o <<" ", "-", " ", "S">> \o Two(season) \o <<"E">> \o Two(episode)
    \o <<" ", "-", " ">> \o Clean(title) \o <<".", "m", "p", "4">>
TargetName(show, season, episode, title) ==
    LimitPathComponent(FileName(show, season, episode, title))

\* lib.Scan, whose list is all that Play looks into, goes by the extension
Extensions == {<<".", "m", "p", "4">>, <<".", "m", "k", "v">>, <<".", "m", "4", "v">>,
               <<".", "w", "e", "b", "m">>, <<".", "t", "s">>}
Listed(name) == \E n \in 0..Len(name) : SubSeq(name, n + 1, Len(name)) \in Extensions

MatchEpisode(name, season, episode) ==
    LET needle == <<"S">> \o Padded(season) \o <<"E">> \o Padded(episode)
    IN \E i \in 1..(Len(name) - Len(needle) + 1) : SubSeq(name, i, i + Len(needle) - 1) = needle

\* two episodes of a show
NameTwo(show, a, b) ==
    /\ asked' = <<"names", show, a, b>>
    /\ result' = <<TargetName(show, a[1], a[2], a[3]), TargetName(show, b[1], b[2], b[3])>>
-----------------------------------------------------------------------------
\* A box is <<name, form, content>>: its size is written in 32 or 64 bits, or is "rest", up to the
\* end of the file.
HeaderSize(box) == IF box[2] = "long" THEN 16 ELSE 8

\* Mutant: a size of 1 is not taken for the sign of the 64-bit size.
DeclaredShort(box, rest) ==
    CASE box[2] = "long" -> 1 [] box[2] = "rest" -> rest [] OTHER -> 8 + box[3]

Declared(box, rest) == IF box[2] = "rest" THEN rest ELSE HeaderSize(box) + box[3]

\* one turn of the loop of boxPositions; size is that of the file
Visit(size, w, box) ==
    LET declared == Declared(box, size - w.offset)
        mark == [w EXCEPT !.moov = IF box[1] = "moov" THEN w.offset ELSE @,
                          !.mdat = IF box[1] = "mdat" THEN w.offset ELSE @]
    IN IF w.ended \/ declared < HeaderSize(box) \/ declared > size - w.offset
       THEN [w EXCEPT !.ended = TRUE]
       ELSE [mark EXCEPT !.offset = @ + declared, !.ended = mark.moov >= 0 /\ mark.mdat >= 0]

FileSize(boxes) ==
    LET behind[n \in 0..Len(boxes)] ==
            IF n = 0 THEN 8 ELSE behind[n - 1] + HeaderSize(boxes[n]) + boxes[n][3]
    IN behind[Len(boxes)]

boxPositions(boxes) ==
    LET size == FileSize(boxes)
        walk[n \in 0..Len(boxes)] ==
            IF n = 0 THEN [offset |-> 8, moov |-> -1, mdat |-> -1, ended |-> FALSE]
            ELSE Visit(size, walk[n - 1], boxes[n])
    IN walk[Len(boxes)]

NeedsFaststart(boxes) ==
    LET w == boxPositions(boxes)
    IN w.moov < 0 \/ (w.moov > w.mdat /\ w.mdat >= 0)

ReadBoxes(boxes) ==
    /\ asked' = <<"boxes", boxes>>
    /\ result' = <<NeedsFaststart(boxes)>>
-----------------------------------------------------------------------------
FormatsInit == asked = <<"nothing">> /\ result = <<>>

FormatsNext ==
    /\ asked = <<"nothing">>
    /\ \/ \E next, now \in 0..MaxTime : ListDue(next, now)
       \/ \E show \in Titles, a, b \in Numbers \X Numbers \X Titles : NameTwo(show, a, b)
       \/ \E boxes \in Files : ReadBoxes(boxes)

FormatsSpec == FormatsInit /\ [][FormatsNext]_formatsVars
-----------------------------------------------------------------------------
(* Times less than a second apart may compare either way as texts; no retry is taken a second *)
(* early or left a second late for it.                                                        *)
DueWithinSecond ==
    asked[1] = "due" =>
        /\ result[1] => asked[2] < asked[3] + Second
        /\ asked[2] + Second <= asked[3] => result[1]

(* As long as the show's title leaves room for the code in front of the cut, two episodes of  *)
(* a show never get the same file, also when their names are cut, the file stays in the       *)
(* show's directory, and its name has the code as Play formats it, by other means.  A name    *)
(* that is not cut is listed by Scan, so that Play finds the file.  One that is cut loses its *)
(* ".mp4" (the plan cuts the title, and keeps the extension): of these nothing is said.       *)
EpisodesApart ==
    asked[1] = "names" =>
        LET show == asked[2]
            a == asked[3]
            b == asked[4]
        IN Len(Clean(show)) + Len(Two(a[1]) \o Two(a[2])) + 6 <= NameLimit =>
            /\ <<a[1], a[2]>> # <<b[1], b[2]>> => result[1] # result[2]
            /\ "/" \notin ToSet(result[1]) /\ result[1][1] # "."
            /\ MatchEpisode(result[1], a[1], a[2])
            /\ Len(FileName(show, a[1], a[2], a[3])) <= NameLimit => Listed(result[1])

(* In a file whose boxes are all whole, the index is found to come late exactly if no moov    *)
(* box, or an mdat box before the first moov box, is there.                                   *)
LateIndexSeen ==
    asked[1] = "boxes" =>
        LET boxes == asked[2]
            visible(i) == \A k \in 1..(i - 1) : boxes[k][2] # "rest"
            firstMoov == {i \in DOMAIN boxes : boxes[i][1] = "moov" /\ visible(i)}
        IN result[1] <=> \A i \in firstMoov : \E k \in 1..(i - 1) : boxes[k][1] = "mdat"
=============================================================================

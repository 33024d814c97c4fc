---------------------------- MODULE FormatsProofs ---------------------------
(***************************************************************************)
(* What other parts rely on, for all times, titles, numbers and files: the *)
(* order of times as texts, the file name of an episode and the place of   *)
(* the index of an MP4 file.                                               *)
(***************************************************************************)
EXTENDS Formats, NatLemmas, SequenceTheorems

-----------------------------------------------------------------------------
(* Times as texts. *)

\* Division with rest, of integers and of natural numbers.
LEMMA DividedInt ==
    ASSUME NEW B \in Int, NEW n \in Int, B > 0
    PROVE  n = (n \div B) * B + (n % B)
OBVIOUS

LEMMA Divided ==
    ASSUME NEW B \in Nat \ {0}, NEW n \in Nat
    PROVE  /\ n \div B \in Nat /\ n % B \in Nat /\ n % B < B
           /\ n = (n \div B) * B + (n % B)
<1>1. n % B \in 0..(B - 1)
  BY Z3
<1>2. n = (n \div B) * B + (n % B)
  <2>1. B \in Int /\ n \in Int /\ B > 0
    OBVIOUS
  <2> QED BY <2>1, DividedInt, Zenon
<1>3. n \div B \in Int
  OBVIOUS
<1>4. n \div B >= 0
  OBVIOUS
<1> QED BY <1>1, <1>2, <1>3, <1>4

\* A quotient that is greater by one stands for B more.
LEMMA QuotientOrder ==
    ASSUME NEW B \in Nat \ {0}, NEW m \in Nat, NEW n \in Nat
    PROVE  /\ m + B <= n => m \div B < n \div B
           /\ m \div B <= n \div B => m < n + B
           /\ m \div B < n \div B => m < n
<1> DEFINE q == m \div B
           r == n \div B
<1>1. /\ q \in Nat /\ m % B \in Nat /\ m % B < B /\ m = q * B + (m % B)
      /\ r \in Nat /\ n % B \in Nat /\ n % B < B /\ n = r * B + (n % B)
  BY Divided
<1>2. ASSUME NEW x \in Nat, NEW y \in Nat, x < y PROVE x * B + B <= y * B
  BY <1>2
<1>3. ASSUME NEW x \in Nat, NEW y \in Nat, x <= y PROVE x * B <= y * B
  BY <1>3
<1> DEFINE s == m % B
           t == n % B
<1> HIDE DEF q, r, s, t
<1>4. q < r => q * B + B <= r * B
  BY <1>1, <1>2
<1>5. q <= r => q * B <= r * B
  BY <1>1, <1>3
<1>6. r <= q => r * B <= q * B
  BY <1>1, <1>3
<1>7. q * B \in Nat /\ r * B \in Nat
  BY <1>1
<1> QED BY <1>1, <1>4, <1>5, <1>6, <1>7 DEF q, r, s, t

\* What the two numerals of a text say of the number: their order is that of the numbers.
LEMMA NumeralsOrder ==
    ASSUME NEW m \in Nat, NEW n \in Nat
    PROVE  LET a == Numerals(m)
               b == Numerals(n)
           IN /\ a[1] \in Nat /\ a[2] \in Nat /\ a[1] # Point /\ a[2] # Point
              /\ b[1] \in Nat /\ b[2] \in Nat
              /\ m < n => a[1] < b[1] \/ (a[1] = b[1] /\ a[2] < b[2])
              /\ a[1] < b[1] \/ (a[1] = b[1] /\ a[2] <= b[2]) => m <= n
<1> DEFINE q == m \div Base
           r == n \div Base
           s == m % Base
           t == n % Base
<1>1. /\ q \in Nat /\ s \in Nat /\ s < Base /\ m = q * Base + s
      /\ r \in Nat /\ t \in Nat /\ t < Base /\ n = r * Base + t
  BY Divided, FormatsAssumption
<1>2. ASSUME NEW x \in Nat, NEW y \in Nat, x < y PROVE x * Base + Base <= y * Base
  BY <1>2, FormatsAssumption
<1>3. /\ Numerals(m)[1] = q + 1 /\ Numerals(m)[2] = s + 1
      /\ Numerals(n)[1] = r + 1 /\ Numerals(n)[2] = t + 1
  BY DEF Numerals
<1>4. Base \in Nat
  BY FormatsAssumption
<1> HIDE DEF q, r, s, t
<1>5. q < r => q * Base + Base <= r * Base
  BY <1>1, <1>2
<1>6. r < q => r * Base + Base <= q * Base
  BY <1>1, <1>2
<1>7. q * Base \in Nat /\ r * Base \in Nat
  BY <1>1, <1>4
<1>8. m < n => q < r \/ (q = r /\ s < t)
  BY <1>1, <1>4, <1>6, <1>7
<1>9. q < r \/ (q = r /\ s <= t) => m <= n
  BY <1>1, <1>4, <1>5, <1>7
<1> QED BY <1>1, <1>3, <1>8, <1>9 DEF Point

\* Sequences put together.
LEMMA Joined ==
    ASSUME NEW S, NEW u \in Seq(S), NEW v \in Seq(S)
    PROVE  /\ u \o v \in Seq(S) /\ Len(u \o v) = Len(u) + Len(v)
           /\ \A i \in 1..Len(u) : (u \o v)[i] = u[i]
           /\ \A i \in 1..Len(v) : (u \o v)[Len(u) + i] = v[i]
OBVIOUS

\* A text begins with the two numerals of the seconds, and goes on behind them.
LEMMA TextBegins ==
    ASSUME NEW t \in Nat
    PROVE  /\ FormatTime(t)[1] = Numerals(t \div Second)[1]
           /\ FormatTime(t)[2] = Numerals(t \div Second)[2]
           /\ FormatTime(t) \in Seq(Int) /\ Len(FormatTime(t)) > 2
<1>1. /\ t \div Second \in Nat /\ t % Second \in Nat
  <2>1. Second \in Nat \ {0}
    BY FormatsAssumption DEF Second
  <2> QED BY <2>1, Divided
<1>2. ASSUME NEW n \in Nat PROVE Numerals(n) \in Seq(Int) /\ Len(Numerals(n)) = 2
  <2>1. n \div Base \in Nat /\ n % Base \in Nat
    BY Divided, FormatsAssumption
  <2> QED BY <2>1 DEF Numerals
<1> DEFINE whole == Numerals(t \div Second)
           fraction == Fraction(t % Second)
           middle == IF fraction = <<>> THEN <<>> ELSE <<Point>> \o fraction
           zulu == <<Zulu>>
<1>3. fraction \in Seq(Int)
  BY <1>1, <1>2 DEF Fraction
<1>4. middle \in Seq(Int)
  <2>1. <<Point>> \in Seq(Int) /\ <<>> \in Seq(Int)
    BY DEF Point
  <2> HIDE DEF fraction
  <2> QED BY <1>3, <2>1, Joined
<1>5. zulu \in Seq(Int) /\ Len(zulu) = 1
  BY FormatsAssumption DEF Zulu
<1>6. whole \in Seq(Int) /\ Len(whole) = 2
  BY <1>1, <1>2
<1>7. FormatTime(t) = (whole \o middle) \o zulu
  BY DEF FormatTime
<1> HIDE DEF whole, middle, zulu
<1>8. /\ whole \o middle \in Seq(Int) /\ Len(whole \o middle) = 2 + Len(middle)
      /\ \A i \in 1..2 : (whole \o middle)[i] = whole[i]
  <2>1. /\ whole \o middle \in Seq(Int) /\ Len(whole \o middle) = Len(whole) + Len(middle)
        /\ \A i \in 1..Len(whole) : (whole \o middle)[i] = whole[i]
    BY <1>4, <1>6, Joined, ZenonT(30)
  <2> QED BY <1>6, <2>1
<1>9. Len(middle) \in Nat
  BY <1>4
<1> DEFINE left == whole \o middle
<1>10. left \in Seq(Int)
  BY <1>8
<1> HIDE DEF left
<1> DEFINE text == left \o zulu
<1>11. text \in Seq(Int) /\ Len(text) = Len(left) + Len(zulu)
  BY <1>5, <1>10, Joined, Zenon
<1>12. \A i \in 1..Len(left) : text[i] = left[i]
  BY <1>5, <1>10, Joined, Zenon
<1>13. text[1] = whole[1] /\ text[2] = whole[2]
  <2>1. 1 \in 1..Len(left) /\ 2 \in 1..Len(left)
    BY <1>8, <1>9 DEF left
  <2> HIDE DEF text
  <2>2. 1 \in 1..2 /\ 2 \in 1..2
    OBVIOUS
  <2> QED BY <1>8, <1>12, <2>1, <2>2 DEF left
<1>14. Len(text) \in Nat /\ Len(text) > 2
  BY <1>5, <1>8, <1>9, <1>11 DEF left
<1>15. FormatTime(t) = text
  BY <1>7 DEF left
<1> HIDE DEF text
<1> QED BY <1>11, <1>13, <1>14, <1>15 DEF whole

\* Texts compare as their first two numerals do, unless those are the same.
LEMMA TextsCompare ==
    ASSUME NEW a \in Seq(Int), NEW b \in Seq(Int), Len(a) > 2, Len(b) > 2
    PROVE  /\ TextLeq(a, b) => a[1] < b[1] \/ (a[1] = b[1] /\ a[2] <= b[2])
           /\ a[1] < b[1] \/ (a[1] = b[1] /\ a[2] < b[2]) => TextLeq(a, b)
<1>1. /\ 1 \in DOMAIN a /\ 2 \in DOMAIN a /\ 1 \in DOMAIN b /\ 2 \in DOMAIN b
      /\ a[1] \in Int /\ a[2] \in Int /\ b[1] \in Int /\ b[2] \in Int
  OBVIOUS
<1>2. ASSUME IsPrefix(a, b) PROVE a[1] = b[1] /\ a[2] = b[2]
  <2>1. SubSeq(a, 1, Len(a)) = SubSeq(b, 1, Len(a))
    BY <1>2 DEF IsPrefix
  <2>2. SubSeq(a, 1, Len(a))[1] = a[1] /\ SubSeq(a, 1, Len(a))[2] = a[2]
    OBVIOUS
  <2>3. SubSeq(b, 1, Len(a))[1] = b[1] /\ SubSeq(b, 1, Len(a))[2] = b[2]
    BY <1>2 DEF IsPrefix
  <2> QED BY <2>1, <2>2, <2>3
<1>3. ASSUME NEW i \in DOMAIN a \cap DOMAIN b, a[i] < b[i], \A j \in 1..(i - 1) : a[j] = b[j]
      PROVE  a[1] < b[1] \/ (a[1] = b[1] /\ a[2] <= b[2])
  <2>1. i \in 1..Len(a)
    OBVIOUS
  <2>2. CASE i = 1
    BY <1>3, <2>2
  <2>3. CASE i = 2
    BY <1>1, <1>3, <2>3
  <2>4. CASE i > 2
    <3>1. 1 \in 1..(i - 1) /\ 2 \in 1..(i - 1)
      BY <2>1, <2>4
    <3> QED BY <1>1, <1>3, <3>1
  <2> QED BY <2>1, <2>2, <2>3, <2>4
<1>4. ASSUME a[1] < b[1] PROVE TextLeq(a, b)
  BY <1>1, <1>4 DEF TextLeq
<1>5. ASSUME a[1] = b[1], a[2] < b[2] PROVE TextLeq(a, b)
  <2>1. \A j \in 1..(2 - 1) : a[j] = b[j]
    BY <1>5
  <2> QED BY <1>1, <1>5, <2>1 DEF TextLeq
<1> QED BY <1>2, <1>3, <1>4, <1>5, <1>1 DEF TextLeq

\* The answer for two times that are at least a second apart is that of their order.
LEMMA TimesCompare ==
    ASSUME NEW next \in Nat, NEW now \in Nat
    PROVE  /\ TextLeq(FormatTime(next), FormatTime(now)) => next < now + Second
           /\ next + Second <= now => TextLeq(FormatTime(next), FormatTime(now))
<1>1. Second \in Nat \ {0}
  BY FormatsAssumption DEF Second
<1> DEFINE a == FormatTime(next)
           b == FormatTime(now)
           m == next \div Second
           n == now \div Second
<1>2. m \in Nat /\ n \in Nat
  BY <1>1, Divided
<1>3. /\ a[1] = Numerals(m)[1] /\ a[2] = Numerals(m)[2]
      /\ a \in Seq(Int) /\ Len(a) > 2
  BY TextBegins
<1>4. /\ b[1] = Numerals(n)[1] /\ b[2] = Numerals(n)[2]
      /\ b \in Seq(Int) /\ Len(b) > 2
  BY TextBegins
<1>5. /\ m < n => a[1] < b[1] \/ (a[1] = b[1] /\ a[2] < b[2])
      /\ a[1] < b[1] \/ (a[1] = b[1] /\ a[2] <= b[2]) => m <= n
  <2> HIDE DEF a, b, m, n
  <2> QED BY <1>2, <1>3, <1>4, NumeralsOrder
<1>6. /\ TextLeq(a, b) => a[1] < b[1] \/ (a[1] = b[1] /\ a[2] <= b[2])
      /\ a[1] < b[1] \/ (a[1] = b[1] /\ a[2] < b[2]) => TextLeq(a, b)
  <2> HIDE DEF a, b
  <2> QED BY <1>3, <1>4, TextsCompare
<1>7. /\ next + Second <= now => m < n
      /\ m <= n => next < now + Second
  BY <1>1, QuotientOrder
<1> HIDE DEF a, b, m, n
<1>8. /\ TextLeq(a, b) => m <= n
      /\ m < n => TextLeq(a, b)
  BY <1>5, <1>6
<1> QED BY <1>7, <1>8 DEF a, b
-----------------------------------------------------------------------------
(* The boxes of an MP4 file. *)

Boxes == STRING \X {"short", "long", "rest"} \X Nat

\* The file ends where its last box does.
LEMMA FileSizeUpTo ==
    ASSUME NEW boxes \in Seq(Boxes)
    PROVE  \E behind \in [0..Len(boxes) -> Nat] :
              /\ behind[0] = 8
              /\ \A n \in 1..Len(boxes) :
                    behind[n] = behind[n - 1] + HeaderSize(boxes[n]) + boxes[n][3]
              /\ FileSize(boxes) = behind[Len(boxes)]
<1> DEFINE N == Len(boxes)
           Add(n, at) == at + HeaderSize(boxes[n]) + boxes[n][3]
           Body(f) == [n \in 0..N |-> IF n = 0 THEN 8 ELSE Add(n, f[n - 1])]
           R == CHOOSE f : f = Body(f)
           step == [z \in (1..N) \X Nat |-> Add(z[1], z[2])]
<1>1. N \in Nat /\ \A n \in 1..N : boxes[n][3] \in Nat
  BY DEF Boxes
<1>2. FileSize(boxes) = R[N]
  BY DEF FileSize
<1>3. \A n \in 1..N, at \in Nat : Add(n, at) \in Nat
  BY <1>1 DEF HeaderSize
<1> HIDE DEF Add
<1>4. step \in StepsOf(N, Nat)
  BY <1>1, <1>3 DEF StepsOf
<1>5. \A n \in 1..N, at \in Nat : step[<<n, at>>] = Add(n, at)
  OBVIOUS
<1> HIDE DEF step
<1>6. PICK f \in [0..N -> Nat] : f[0] = 8 /\ \A n \in 1..N : f[n] = step[<<n, f[n - 1]>>]
  <2>1. PICK f : f \in RunsOf(N, Nat, 8, step)
    <3>1. 8 \in Nat
      OBVIOUS
    <3> HIDE DEF N
    <3> QED BY <1>1, <1>4, <3>1, Recursion, Zenon
  <2> QED BY <2>1 DEF RunsOf
<1>7. f = Body(f)
  <2>1. \A n \in 1..N : n - 1 \in 0..N
    BY <1>1
  <2>2. \A n \in 1..N : f[n] = Add(n, f[n - 1])
    BY <1>5, <1>6, <2>1
  <2> QED BY <1>6, <2>2
<1>8. R = Body(R)
  <2> HIDE DEF Body
  <2> QED BY <1>7, Zenon
<1>9. R = [n \in 0..N |-> R[n]] /\ R[0] = 8 /\ \A n \in 1..N : R[n] = Add(n, R[n - 1])
  <2>1. /\ Body(R) = [n \in 0..N |-> Body(R)[n]] /\ Body(R)[0] = 8
        /\ \A n \in 1..N : Body(R)[n] = Add(n, R[n - 1])
    BY <1>1
  <2> HIDE DEF Body, R
  <2> QED BY <1>8, <2>1
<1>10. R \in RunsOf(N, Nat, 8, step)
  <2>1. \A n \in 1..N : R[n - 1] \in Nat => R[n] = step[<<n, R[n - 1]>>]
    <3> HIDE DEF R
    <3> QED BY <1>5, <1>9
  <2> HIDE DEF R, N
  <2> QED BY <1>1, <1>4, <1>9, <2>1, RunsTyped
<1> HIDE DEF R
<1> QED BY <1>2, <1>9, <1>10 DEF RunsOf, Add

\* Each box begins where the one before it ends, and none ends behind the file.
LEMMA BehindGrows ==
    ASSUME NEW N \in Nat, NEW behind \in [0..N -> Nat],
           \A n \in 1..N : behind[n - 1] <= behind[n]
    PROVE  \A n \in 0..N : behind[n] <= behind[N]
<1> DEFINE T == {m \in 0..N : behind[N - m] <= behind[N]}
<1>1. 0 \in T
  OBVIOUS
<1>2. ASSUME NEW m \in 1..N, m - 1 \in T PROVE m \in T
  <2>1. N - m \in 0..N /\ N - (m - 1) \in 1..N /\ N - (m - 1) - 1 = N - m
    OBVIOUS
  <2>2. behind[N - m] <= behind[N - (m - 1)]
    BY <2>1
  <2>3. behind[N - (m - 1)] <= behind[N]
    BY <1>2
  <2>4. behind[N - m] \in Nat /\ behind[N - (m - 1)] \in Nat /\ behind[N] \in Nat
    BY <2>1
  <2> QED BY <2>2, <2>3, <2>4
<1>3. 0..N \subseteq T
  <2> HIDE DEF T
  <2> QED BY <1>1, <1>2, UpTo
<1>4. ASSUME NEW n \in 0..N PROVE behind[n] <= behind[N]
  <2>1. N - n \in 0..N /\ N - (N - n) = n
    OBVIOUS
  <2> QED BY <1>3, <2>1
<1> QED BY <1>4

Walks == [offset : Int, moov : Int, mdat : Int, ended : BOOLEAN]
AtFirstBox == [offset |-> 8, moov |-> -1, mdat |-> -1, ended |-> FALSE]

\* What a visit makes of the position: it ends the walk, or marks the box and goes behind it.
LEMMA Visited ==
    ASSUME NEW size \in Int, NEW w \in Walks, NEW box \in Boxes
    PROVE  LET d == Declared(box, size - w.offset)
               v == Visit(size, w, box)
           IN /\ v \in Walks /\ d \in Int
              /\ w.ended \/ d < HeaderSize(box) \/ d > size - w.offset =>
                    v.ended /\ v.moov = w.moov /\ v.mdat = w.mdat
              /\ ~(w.ended \/ d < HeaderSize(box) \/ d > size - w.offset) =>
                    /\ v.offset = w.offset + d
                    /\ v.moov = IF box[1] = "moov" THEN w.offset ELSE w.moov
                    /\ v.mdat = IF box[1] = "mdat" THEN w.offset ELSE w.mdat
                    /\ v.ended = (v.moov >= 0 /\ v.mdat >= 0)
<1> DEFINE d == Declared(box, size - w.offset)
           mark == [w EXCEPT !.moov = IF box[1] = "moov" THEN w.offset ELSE @,
                             !.mdat = IF box[1] = "mdat" THEN w.offset ELSE @]
           stop == [w EXCEPT !.ended = TRUE]
           both == mark.moov >= 0 /\ mark.mdat >= 0
           end == mark.offset + d
           further == [mark EXCEPT !.offset = end, !.ended = both]
<1>1. d \in Int
  BY DEF Declared, HeaderSize, Walks, Boxes
<1>2. /\ mark \in Walks /\ mark.offset = w.offset /\ mark.ended = w.ended
      /\ mark.moov = IF box[1] = "moov" THEN w.offset ELSE w.moov
      /\ mark.mdat = IF box[1] = "mdat" THEN w.offset ELSE w.mdat
  BY DEF Walks
<1>3. stop \in Walks /\ stop.ended /\ stop.moov = w.moov /\ stop.mdat = w.mdat
  BY DEF Walks
<1>4. both \in BOOLEAN
  OBVIOUS
<1>5. both = (mark.moov >= 0 /\ mark.mdat >= 0)
  OBVIOUS
<1>6. end \in Int
  BY <1>1, <1>2 DEF Walks
<1>7. end = mark.offset + d
  OBVIOUS
<1> HIDE DEF d, mark, both, end
<1>8. /\ further \in Walks /\ further.offset = end
      /\ further.moov = mark.moov /\ further.mdat = mark.mdat
      /\ further.ended = both
  BY <1>2, <1>4, <1>6 DEF Walks
<1>9. Visit(size, w, box) = IF w.ended \/ d < HeaderSize(box) \/ d > size - w.offset
                           THEN stop ELSE further
  BY DEF Visit, d, mark, both, end
<1> HIDE DEF stop, further
<1> QED BY <1>1, <1>2, <1>3, <1>8, <1>9, <1>5, <1>7 DEF d

\* The walk, as FileSizeUpTo.
LEMMA WalkUpTo ==
    ASSUME NEW boxes \in Seq(Boxes), FileSize(boxes) \in Int
    PROVE  \E walk \in [0..Len(boxes) -> Walks] :
              /\ walk[0] = AtFirstBox
              /\ \A n \in 1..Len(boxes) :
                    walk[n] = Visit(FileSize(boxes), walk[n - 1], boxes[n])
              /\ boxPositions(boxes) = walk[Len(boxes)]
<1> DEFINE N == Len(boxes)
           size == FileSize(boxes)
           Go(n, w) == Visit(size, w, boxes[n])
           Body(f) == [n \in 0..N |-> IF n = 0 THEN AtFirstBox ELSE Go(n, f[n - 1])]
           R == CHOOSE f : f = Body(f)
           step == [z \in (1..N) \X Walks |-> Go(z[1], z[2])]
<1>1. N \in Nat /\ \A n \in 1..N : boxes[n] \in Boxes
  OBVIOUS
<1>2. boxPositions(boxes) = R[N]
  BY DEF boxPositions, AtFirstBox
<1>3. \A n \in 1..N, w \in Walks : Go(n, w) \in Walks
  BY <1>1, Visited
<1> HIDE DEF Go
<1>4. step \in StepsOf(N, Walks)
  BY <1>1, <1>3 DEF StepsOf
<1>5. \A n \in 1..N, w \in Walks : step[<<n, w>>] = Go(n, w)
  OBVIOUS
<1>6. AtFirstBox \in Walks
  BY DEF AtFirstBox, Walks
<1> HIDE DEF step
<1>7. PICK f \in [0..N -> Walks] : f[0] = AtFirstBox /\ \A n \in 1..N : f[n] = step[<<n, f[n - 1]>>]
  <2>1. PICK f : f \in RunsOf(N, Walks, AtFirstBox, step)
    <3> HIDE DEF N
    <3> QED BY <1>1, <1>4, <1>6, Recursion, Zenon
  <2> QED BY <2>1 DEF RunsOf
<1>8. f = Body(f)
  <2>1. \A n \in 1..N : n - 1 \in 0..N
    BY <1>1
  <2>2. \A n \in 1..N : f[n] = Go(n, f[n - 1])
    BY <1>5, <1>7, <2>1
  <2> QED BY <1>7, <2>2
<1>9. R = Body(R)
  <2> HIDE DEF Body
  <2> QED BY <1>8, Zenon
<1>10. R = [n \in 0..N |-> R[n]] /\ R[0] = AtFirstBox /\ \A n \in 1..N : R[n] = Go(n, R[n - 1])
  <2>1. /\ Body(R) = [n \in 0..N |-> Body(R)[n]] /\ Body(R)[0] = AtFirstBox
        /\ \A n \in 1..N : Body(R)[n] = Go(n, R[n - 1])
    BY <1>1
  <2> HIDE DEF Body, R
  <2> QED BY <1>9, <2>1
<1>11. R \in RunsOf(N, Walks, AtFirstBox, step)
  <2>1. \A n \in 1..N : R[n - 1] \in Walks => R[n] = step[<<n, R[n - 1]>>]
    <3> HIDE DEF R
    <3> QED BY <1>5, <1>10
  <2> HIDE DEF R, N
  <2> QED BY <1>1, <1>4, <1>6, <1>10, <2>1, RunsTyped
<1> HIDE DEF R
<1> QED BY <1>2, <1>10, <1>11 DEF RunsOf, Go

\* Boxes that a walk over the whole file comes to: behind a box up to the end there is none.
Visible(boxes, i) == \A k \in 1..(i - 1) : boxes[k][2] # "rest"
VisibleOnes(boxes, n, name) == {i \in 1..n : Visible(boxes, i) /\ boxes[i][1] = name}
ComesLate(boxes, moovs) == \A i \in moovs : \E k \in 1..(i - 1) : boxes[k][1] = "mdat"

\* After n boxes the walk has found at most one of the two and goes on, or stands behind the
\* last box it can see, or has found both.
OneFound(boxes, n, w) ==
    LET moovs == VisibleOnes(boxes, n, "moov")
        mdats == VisibleOnes(boxes, n, "mdat")
    IN /\ moovs = {} \/ mdats = {}
       /\ w.moov >= 0 <=> moovs # {}
       /\ w.mdat >= 0 <=> mdats # {}
GoesOn(boxes, n, w, at) ==
    /\ ~w.ended /\ w.offset = at /\ w.moov < at /\ w.mdat < at
    /\ \A k \in 1..n : boxes[k][2] # "rest"
    /\ OneFound(boxes, n, w)
StandsAtEnd(boxes, n, w, size) ==
    /\ w.ended \/ w.offset = size
    /\ \E k \in 1..n : boxes[k][2] = "rest"
    /\ OneFound(boxes, n, w)
BothFound(boxes, n, w) ==
    /\ w.ended /\ w.moov >= 0 /\ w.mdat >= 0
    /\ VisibleOnes(boxes, n, "mdat") # {}
    /\ w.moov > w.mdat <=> ComesLate(boxes, VisibleOnes(boxes, n, "moov"))
Walked(boxes, n, w, at, size) ==
    GoesOn(boxes, n, w, at) \/ StandsAtEnd(boxes, n, w, size) \/ BothFound(boxes, n, w)

\* One box more: it is among the visible ones if all before it let it be.
LEMMA OneMoreVisible ==
    ASSUME NEW boxes \in Seq(Boxes), NEW n \in 1..Len(boxes), NEW name
    PROVE  VisibleOnes(boxes, n, name)
             = VisibleOnes(boxes, n - 1, name)
               \cup (IF Visible(boxes, n) /\ boxes[n][1] = name THEN {n} ELSE {})
<1>1. 1..n = 1..(n - 1) \cup {n}
  OBVIOUS
<1> QED BY <1>1 DEF VisibleOnes

\* What has been found is judged once and for all: a later moov box has the mdat before it.
LEMMA StaysFound ==
    ASSUME NEW boxes \in Seq(Boxes), NEW n \in 1..Len(boxes), NEW size \in Int, NEW w \in Walks,
           BothFound(boxes, n - 1, w)
    PROVE  BothFound(boxes, n, Visit(size, w, boxes[n]))
<1> DEFINE v == Visit(size, w, boxes[n])
           moovs == VisibleOnes(boxes, n - 1, "moov")
           mdats == VisibleOnes(boxes, n - 1, "mdat")
<1>1. boxes[n] \in Boxes /\ n \in Nat
  OBVIOUS
<1>2. v.ended /\ v.moov = w.moov /\ v.mdat = w.mdat
  BY <1>1, Visited DEF BothFound
<1>3. PICK k \in 1..(n - 1) : boxes[k][1] = "mdat"
  BY DEF BothFound, VisibleOnes
<1>4. mdats # {} /\ mdats \subseteq VisibleOnes(boxes, n, "mdat")
  BY OneMoreVisible DEF BothFound
<1>5. ComesLate(boxes, VisibleOnes(boxes, n, "moov")) <=> ComesLate(boxes, moovs)
  BY <1>3, OneMoreVisible DEF ComesLate
<1>6. w.moov > w.mdat <=> ComesLate(boxes, VisibleOnes(boxes, n, "moov"))
  BY <1>5 DEF BothFound
<1>7. VisibleOnes(boxes, n, "mdat") # {}
  BY <1>4
<1>8. w.moov >= 0 /\ w.mdat >= 0
  BY DEF BothFound
<1> SUFFICES BothFound(boxes, n, v)
  OBVIOUS
<1> HIDE DEF v
<1> QED BY <1>2, <1>6, <1>7, <1>8 DEF BothFound

\* At the end of the file nothing more is visible.
LEMMA StaysAtEnd ==
    ASSUME NEW boxes \in Seq(Boxes), NEW n \in 1..Len(boxes), NEW size \in Int, NEW w \in Walks,
           StandsAtEnd(boxes, n - 1, w, size)
    PROVE  StandsAtEnd(boxes, n, Visit(size, w, boxes[n]), size)
<1> DEFINE v == Visit(size, w, boxes[n])
           d == Declared(boxes[n], size - w.offset)
<1>1. boxes[n] \in Boxes /\ n \in Nat /\ boxes[n][3] \in Nat
  BY DEF Boxes
<1>2. \E k \in 1..(n - 1) : boxes[k][2] = "rest"
  BY DEF StandsAtEnd
<1>3. w.ended \/ d < HeaderSize(boxes[n]) \/ d > size - w.offset
  BY <1>1 DEF StandsAtEnd, Declared, HeaderSize
<1>4. v.ended /\ v.moov = w.moov /\ v.mdat = w.mdat
  BY <1>1, <1>3, Visited
<1>5. ~Visible(boxes, n)
  BY <1>2 DEF Visible
<1>6. ASSUME NEW name PROVE VisibleOnes(boxes, n, name) = VisibleOnes(boxes, n - 1, name)
  <2>1. VisibleOnes(boxes, n, name) = VisibleOnes(boxes, n - 1, name)
          \cup (IF Visible(boxes, n) /\ boxes[n][1] = name THEN {n} ELSE {})
    BY OneMoreVisible
  <2> QED BY <1>5, <2>1
<1>7. OneFound(boxes, n - 1, w) => OneFound(boxes, n, v)
  BY <1>4, <1>6 DEF OneFound
<1>8. \E k \in 1..n : boxes[k][2] = "rest"
  BY <1>2
<1> SUFFICES StandsAtEnd(boxes, n, v, size)
  OBVIOUS
<1> HIDE DEF v
<1> QED BY <1>4, <1>8, <1>7 DEF StandsAtEnd

\* The next box of a walk that goes on.
LEMMA GoesFurther ==
    ASSUME NEW boxes \in Seq(Boxes), NEW n \in 1..Len(boxes), NEW size \in Nat, NEW w \in Walks,
           NEW at \in Nat, GoesOn(boxes, n - 1, w, at),
           at + HeaderSize(boxes[n]) + boxes[n][3] <= size
    PROVE  Walked(boxes, n, Visit(size, w, boxes[n]),
                  at + HeaderSize(boxes[n]) + boxes[n][3], size)
<1> DEFINE box == boxes[n]
           v == Visit(size, w, box)
           d == Declared(box, size - at)
           next == at + HeaderSize(box) + box[3]
           moovs == VisibleOnes(boxes, n - 1, "moov")
           mdats == VisibleOnes(boxes, n - 1, "mdat")
           Moovs == VisibleOnes(boxes, n, "moov")
           Mdats == VisibleOnes(boxes, n, "mdat")
<1>1. box \in Boxes /\ n \in Nat /\ box[3] \in Nat /\ HeaderSize(box) \in {8, 16}
  BY DEF Boxes, HeaderSize
<1>2. ~w.ended /\ w.offset = at /\ w.moov \in Int /\ w.mdat \in Int
  BY DEF GoesOn, Walks
<1>3. /\ d = IF box[2] = "rest" THEN size - at ELSE HeaderSize(box) + box[3]
      /\ d >= HeaderSize(box) /\ d <= size - at
  <2>1. d = IF box[2] = "rest" THEN size - at ELSE HeaderSize(box) + box[3]
    BY DEF Declared
  <2>2. at \in Int /\ box[3] \in Nat /\ HeaderSize(box) \in Nat
    BY <1>1
  <2>3. HeaderSize(box) + box[3] <= size - at
    <3>1. at + HeaderSize(box) + box[3] <= size
      OBVIOUS
    <3> HIDE DEF box
    <3> QED BY <2>2, <3>1
  <2> HIDE DEF box, d
  <2> QED BY <2>1, <2>2, <2>3
<1>4. /\ v.offset = at + d
      /\ v.moov = IF box[1] = "moov" THEN at ELSE w.moov
      /\ v.mdat = IF box[1] = "mdat" THEN at ELSE w.mdat
      /\ v.ended <=> v.moov >= 0 /\ v.mdat >= 0
      /\ v.moov \in Int /\ v.mdat \in Int
  <2>1. ~(w.ended \/ Declared(box, size - w.offset) < HeaderSize(box)
            \/ Declared(box, size - w.offset) > size - w.offset)
    <3>1. d \in Int /\ HeaderSize(box) \in Int /\ size - at \in Int
      <4>1. at \in Int /\ HeaderSize(box) \in Int /\ box[3] \in Int /\ size \in Int
        BY <1>1
      <4> HIDE DEF box, d
      <4> QED BY <4>1, <1>3
    <3>2. Declared(box, size - w.offset) = d
      <4> HIDE DEF box
      <4> QED BY <1>2
    <3> HIDE DEF d, box
    <3>3. ~(d < HeaderSize(box)) /\ ~(d > size - at)
      BY <3>1, <1>3
    <3> QED BY <3>2, <3>3, <1>2
  <2>2. size \in Int
    OBVIOUS
  <2>3. /\ v \in Walks /\ v.offset = w.offset + Declared(box, size - w.offset)
        /\ v.moov = IF box[1] = "moov" THEN w.offset ELSE w.moov
        /\ v.mdat = IF box[1] = "mdat" THEN w.offset ELSE w.mdat
        /\ v.ended = (v.moov >= 0 /\ v.mdat >= 0)
    <3> HIDE DEF box
    <3> QED BY <1>1, <2>1, <2>2, Visited, ZenonT(30)
  <2>4. v.moov \in Int /\ v.mdat \in Int
    BY <2>3 DEF Walks
  <2> HIDE DEF v, box
  <2>5. v.offset = at + d
    BY <1>2, <2>3
  <2>6. v.ended <=> v.moov >= 0 /\ v.mdat >= 0
    BY <2>3
  <2> QED BY <1>2, <2>3, <2>4, <2>5, <2>6
<1>5. Visible(boxes, n)
  BY DEF GoesOn, Visible
<1>6. /\ Moovs = moovs \cup (IF box[1] = "moov" THEN {n} ELSE {})
      /\ Mdats = mdats \cup (IF box[1] = "mdat" THEN {n} ELSE {})
  BY <1>5, OneMoreVisible
<1>7. /\ moovs = {} \/ mdats = {}
      /\ w.moov >= 0 <=> moovs # {}
      /\ w.mdat >= 0 <=> mdats # {}
      /\ w.moov < at /\ w.mdat < at
  BY DEF GoesOn, OneFound
<1>8. /\ v.moov >= 0 <=> Moovs # {}
      /\ v.mdat >= 0 <=> Mdats # {}
  <2> HIDE DEF v, box, moovs, mdats, Moovs, Mdats
  <2>1. v.moov >= 0 <=> Moovs # {}
    BY <1>4, <1>6, <1>7
  <2>2. v.mdat >= 0 <=> Mdats # {}
    BY <1>4, <1>6, <1>7
  <2> QED BY <2>1, <2>2
<1>9. \A i \in mdats : i \in 1..(n - 1) /\ boxes[i][1] = "mdat"
  BY DEF VisibleOnes
<1>10. \A i \in moovs : i \in 1..(n - 1) /\ Visible(boxes, i)
  BY DEF VisibleOnes
<1> SUFFICES Walked(boxes, n, v, next, size)
  OBVIOUS
<1> HIDE DEF box, v, d, moovs, mdats, Moovs, Mdats
<1>11. CASE Moovs # {} /\ Mdats # {}
  <2>1. v.ended /\ v.moov >= 0 /\ v.mdat >= 0
    BY <1>4, <1>8, <1>11
  <2>2. CASE box[1] = "moov"
    <3>1. moovs = {} /\ mdats # {} /\ Moovs = {n}
      BY <1>6, <1>7, <1>11, <2>2
    <3>2. v.moov > v.mdat
      BY <1>4, <1>7, <2>2
    <3>3. ComesLate(boxes, Moovs)
      BY <1>9, <3>1 DEF ComesLate
    <3> QED BY <1>11, <2>1, <3>2, <3>3 DEF Walked, BothFound, Moovs, Mdats
  <2>3. CASE box[1] = "mdat"
    <3>1. mdats = {} /\ moovs # {} /\ Moovs = moovs
      BY <1>6, <1>7, <1>11, <2>3
    <3>2. v.moov < v.mdat
      BY <1>4, <1>7, <2>3
    <3>3. PICK i \in moovs : TRUE
      BY <3>1
    <3>4. ASSUME NEW k \in 1..(i - 1), boxes[k][1] = "mdat" PROVE FALSE
      <4>1. i \in 1..(n - 1) /\ Visible(boxes, i)
        BY <1>10
      <4>2. k \in 1..(n - 1) /\ Visible(boxes, k)
        BY <4>1, <1>1 DEF Visible
      <4>3. k \in mdats
        BY <3>4, <4>2 DEF mdats, VisibleOnes
      <4> QED BY <3>1, <4>3
    <3>5. ~ComesLate(boxes, Moovs)
      BY <3>1, <3>4 DEF ComesLate
    <3>6. ~(v.moov > v.mdat)
      BY <1>4, <3>2
    <3> QED BY <1>11, <2>1, <3>5, <3>6 DEF Walked, BothFound, Moovs, Mdats
  <2>4. CASE box[1] # "moov" /\ box[1] # "mdat"
    BY <1>6, <1>7, <1>11, <2>4
  <2> QED BY <2>2, <2>3, <2>4
<1>12. CASE Moovs = {} \/ Mdats = {}
  <2>1. OneFound(boxes, n, v)
    BY <1>8, <1>12 DEF OneFound, Moovs, Mdats
  <2>2. ~v.ended
    BY <1>4, <1>8, <1>12
  <2>3. CASE box[2] = "rest"
    <3>1. v.offset = size
      BY <1>1, <1>3, <1>4, <2>3
    <3>2. n \in 1..n /\ boxes[n][2] = "rest"
      BY <1>1, <2>3 DEF box
    <3>3. \E k \in 1..n : boxes[k][2] = "rest"
      BY <3>2
    <3> QED BY <2>1, <3>1, <3>3 DEF Walked, StandsAtEnd
  <2>4. CASE box[2] # "rest"
    <3>1. v.offset = next
      BY <1>1, <1>3, <1>4, <2>4, SMTT(30)
    <3>2. v.moov < next /\ v.mdat < next
      <4>1. at < next
        BY <1>1
      <4> HIDE DEF next
      <4>2. next \in Int
        BY <1>1 DEF next
      <4>3. v.moov < next
        BY <1>2, <1>4, <1>7, <4>1, <4>2
      <4>4. v.mdat < next
        BY <1>2, <1>4, <1>7, <4>1, <4>2
      <4> QED BY <4>3, <4>4
    <3>3. \A k \in 1..n : boxes[k][2] # "rest"
      <4>1. \A k \in 1..(n - 1) : boxes[k][2] # "rest"
        BY DEF GoesOn
      <4>2. 1..n = 1..(n - 1) \cup {n}
        OBVIOUS
      <4> QED BY <2>4, <4>1, <4>2 DEF box
    <3> HIDE DEF next
    <3> QED BY <2>1, <2>2, <3>1, <3>2, <3>3 DEF Walked, GoesOn
  <2> QED BY <2>3, <2>4
<1> QED BY <1>11, <1>12

\* The walk over all boxes, box by box.
LEMMA WalkedAll ==
    ASSUME NEW boxes \in Seq(Boxes)
    PROVE  /\ FileSize(boxes) \in Nat /\ boxPositions(boxes) \in Walks
           /\ Walked(boxes, Len(boxes), boxPositions(boxes), FileSize(boxes), FileSize(boxes))
<1> DEFINE N == Len(boxes)
<1>1. PICK behind \in [0..N -> Nat] :
        /\ behind[0] = 8
        /\ \A n \in 1..N : behind[n] = behind[n - 1] + HeaderSize(boxes[n]) + boxes[n][3]
        /\ FileSize(boxes) = behind[N]
  BY FileSizeUpTo
<1>2. N \in Nat /\ N \in 0..N /\ \A n \in 1..N : n - 1 \in 0..N /\ n \in 0..N
  OBVIOUS
<1>3. FileSize(boxes) \in Nat
  BY <1>1, <1>2
<1>4. PICK walk \in [0..N -> Walks] :
        /\ walk[0] = AtFirstBox
        /\ \A n \in 1..N : walk[n] = Visit(FileSize(boxes), walk[n - 1], boxes[n])
        /\ boxPositions(boxes) = walk[N]
  <2>1. FileSize(boxes) \in Int
    BY <1>3
  <2> QED BY <2>1, WalkUpTo
<1>5. \A n \in 0..N : behind[n] <= FileSize(boxes)
  <2>1. ASSUME NEW n \in 1..N PROVE behind[n - 1] <= behind[n]
    <3>1. boxes[n][3] \in Nat /\ HeaderSize(boxes[n]) \in Nat
      BY DEF Boxes, HeaderSize
    <3>2. behind[n - 1] \in Nat
      BY <1>2
    <3>3. behind[n] = behind[n - 1] + HeaderSize(boxes[n]) + boxes[n][3]
      BY <1>1
    <3> QED BY <3>1, <3>2, <3>3
  <2> HIDE DEF N
  <2> QED BY <1>1, <1>2, <2>1, BehindGrows
<1> DEFINE T == {n \in 0..N : Walked(boxes, n, walk[n], behind[n], FileSize(boxes))}
<1>6. 0 \in T
  <2>1. \A name : VisibleOnes(boxes, 0, name) = {}
    BY DEF VisibleOnes
  <2>2. OneFound(boxes, 0, AtFirstBox)
    BY <2>1 DEF OneFound, AtFirstBox
  <2>3. GoesOn(boxes, 0, AtFirstBox, 8)
    BY <2>2 DEF GoesOn, AtFirstBox
  <2> QED BY <1>1, <1>2, <1>4, <2>3 DEF Walked
<1>7. ASSUME NEW n \in 1..N, n - 1 \in T PROVE n \in T
  <2> DEFINE size == FileSize(boxes)
             w == walk[n - 1]
             at == behind[n - 1]
  <2>1. /\ n \in 1..Len(boxes) /\ w \in Walks /\ at \in Nat
        /\ walk[n] = Visit(size, w, boxes[n])
        /\ behind[n] = at + HeaderSize(boxes[n]) + boxes[n][3]
        /\ behind[n] <= size /\ size \in Int /\ size \in Nat
    <3>1. n - 1 \in 0..N /\ n \in 0..N
      BY <1>2
    <3>2. w \in Walks /\ at \in Nat
      BY <3>1
    <3>3. walk[n] = Visit(size, w, boxes[n])
      BY <1>4
    <3>4. behind[n] = at + HeaderSize(boxes[n]) + boxes[n][3]
      BY <1>1
    <3>5. behind[n] <= size
      BY <1>5, <3>1
    <3>6. size \in Int /\ size \in Nat
      BY <1>3
    <3> QED BY <3>2, <3>3, <3>4, <3>5, <3>6
  <2>2. Walked(boxes, n - 1, w, at, size)
    BY <1>7
  <2> SUFFICES Walked(boxes, n, walk[n], behind[n], size)
    BY <1>2
  <2> HIDE DEF size, w, at, T
  <2>3. CASE GoesOn(boxes, n - 1, w, at)
    <3>1. at + HeaderSize(boxes[n]) + boxes[n][3] <= size
      BY <2>1
    <3>2. Walked(boxes, n, Visit(size, w, boxes[n]), at + HeaderSize(boxes[n]) + boxes[n][3], size)
      BY <2>1, <2>3, <3>1, GoesFurther, Zenon
    <3> QED BY <2>1, <3>2
  <2>4. CASE StandsAtEnd(boxes, n - 1, w, size)
    BY <2>1, <2>4, StaysAtEnd DEF Walked
  <2>5. CASE BothFound(boxes, n - 1, w)
    BY <2>1, <2>5, StaysFound DEF Walked
  <2> QED BY <2>2, <2>3, <2>4, <2>5 DEF Walked
<1>8. N \in T
  <2>1. 0..N \subseteq T
    <3> HIDE DEF T
    <3> QED BY <1>2, <1>6, <1>7, UpTo
  <2> QED BY <1>2, <2>1
<1> QED BY <1>1, <1>2, <1>3, <1>4, <1>8

\* What NeedsFaststart says of a file of whole boxes.
LEMMA FaststartNeeded ==
    ASSUME NEW boxes \in Seq(Boxes)
    PROVE  NeedsFaststart(boxes) <=> ComesLate(boxes, VisibleOnes(boxes, Len(boxes), "moov"))
<1> DEFINE w == boxPositions(boxes)
           N == Len(boxes)
           moovs == VisibleOnes(boxes, N, "moov")
           mdats == VisibleOnes(boxes, N, "mdat")
<1>1. w.moov \in Int /\ w.mdat \in Int /\ N \in Nat
  BY WalkedAll DEF Walks
<1>2. OneFound(boxes, N, w) \/ BothFound(boxes, N, w)
  BY WalkedAll DEF Walked, GoesOn, StandsAtEnd
<1>3. NeedsFaststart(boxes) <=> w.moov < 0 \/ (w.moov > w.mdat /\ w.mdat >= 0)
  BY DEF NeedsFaststart
<1>4. CASE BothFound(boxes, N, w)
  <2>1. w.moov >= 0 /\ w.mdat >= 0 /\ (w.moov > w.mdat <=> ComesLate(boxes, moovs))
    BY <1>4 DEF BothFound
  <2> HIDE DEF w, moovs
  <2> QED BY <1>1, <1>3, <2>1 DEF moovs
<1>5. CASE OneFound(boxes, N, w)
  <2>1. (moovs = {} \/ mdats = {}) /\ (w.moov >= 0 <=> moovs # {}) /\ (w.mdat >= 0 <=> mdats # {})
    BY <1>5 DEF OneFound
  <2>2. ASSUME NEW i \in moovs, NEW k \in 1..(i - 1), boxes[k][1] = "mdat" PROVE k \in mdats
    <3>1. i \in 1..N /\ Visible(boxes, i)
      BY DEF VisibleOnes
    <3>2. k \in 1..N /\ Visible(boxes, k)
      BY <1>1, <3>1 DEF Visible
    <3> QED BY <2>2, <3>2 DEF VisibleOnes
  <2>3. ComesLate(boxes, moovs) <=> moovs = {}
    <3> HIDE DEF moovs, mdats
    <3> QED BY <2>1, <2>2 DEF ComesLate
  <2> HIDE DEF w, moovs, mdats
  <2> QED BY <1>1, <1>3, <2>1, <2>3 DEF moovs
<1> QED BY <1>2, <1>4, <1>5
-----------------------------------------------------------------------------
(* File names of episodes. *)

\* The characters of titles and of names.
Marks == {" ", "-", "S", "E", ".", "m", "p", "4"}
Digits == {"0", "1", "2", "3", "4", "5", "6", "7", "8", "9"}
Letters == UNION {ToSet(title) : title \in Titles}
Sound == (Letters \cup Marks \cup Digits) \ {"/"}

\* The first digit is zero only for zero, and each digit has its own character.
LEMMA DigitsDiffer ==
    /\ \A k \in 0..9 : Digit(k) \in Digits /\ (Digit(k) = "0" => k = 0)
    /\ \A k, l \in 0..9 : Digit(k) = Digit(l) => k = l
<1>1. 0..9 = {0, 1, 2, 3, 4, 5, 6, 7, 8, 9}
  OBVIOUS
<1>2. /\ Digit(0) = "0" /\ Digit(1) = "1" /\ Digit(2) = "2" /\ Digit(3) = "3" /\ Digit(4) = "4"
      /\ Digit(5) = "5" /\ Digit(6) = "6" /\ Digit(7) = "7" /\ Digit(8) = "8" /\ Digit(9) = "9"
  BY DEF Digit
<1> QED BY <1>1, <1>2 DEF Digits

\* Division by ten.
LEMMA Tenth ==
    ASSUME NEW k \in Nat
    PROVE  /\ k \div 10 \in Nat /\ k % 10 \in 0..9 /\ k = 10 * (k \div 10) + (k % 10)
           /\ k < 10 => k % 10 = k
           /\ k >= 10 => k \div 10 >= 1 /\ k \div 10 < k
           /\ k >= 1 => k \div 10 < k
OBVIOUS

Writes(F, n) ==
    /\ F \in [0..n -> Seq(Digits)]
    /\ \A k \in 0..n : F[k] = IF k < 10 THEN <<Digit(k)>> ELSE Append(F[k \div 10], Digit(k % 10))

\* Itoa writes each number from those before it.
LEMMA ItoaWrites ==
    ASSUME NEW n \in Nat
    PROVE  \E F : Writes(F, n) /\ Itoa(n) = F[n]
<1> DEFINE S == Seq(Digits)
           Write(k, s) == IF k < 10 THEN <<Digit(k)>> ELSE Append(s, Digit(k % 10))
           Body(f) == [k \in 0..n |-> Write(k, f[k \div 10])]
           R == CHOOSE f : f = Body(f)
           first == <<Digit(0)>>
           step == [z \in (1..n) \X S |-> Write(z[1], z[2])]
           prev == [k \in 1..n |-> k \div 10]
<1>1. Itoa(n) = R[n]
  BY DEF Itoa
<1>2. ASSUME NEW k \in 0..n, NEW s \in S PROVE Write(k, s) \in S
  <2>1. k < 10 => Digit(k) \in Digits
    BY DigitsDiffer
  <2>2. Digit(k % 10) \in Digits
    BY Tenth, DigitsDiffer
  <2> QED BY <2>1, <2>2
<1>3. first \in S /\ \A s : Write(0, s) = first
  BY DigitsDiffer
<1>4. Earlier(n, prev) /\ \A k \in 1..n : prev[k] = k \div 10 /\ k \in 0..n
  <2>1. \A k \in 1..n : k \div 10 \in Nat /\ k \div 10 < k
    BY Tenth
  <2> QED BY <2>1 DEF Earlier
<1> HIDE DEF Write, S, first
<1>5. step \in StepsOf(n, S)
  BY <1>2 DEF StepsOf
<1>6. \A k \in 1..n, s \in S : step[<<k, s>>] = Write(k, s)
  OBVIOUS
<1> HIDE DEF step, prev
<1>7. PICK f \in [0..n -> S] : f[0] = first /\ \A k \in 1..n : f[k] = step[<<k, f[prev[k]]>>]
  <2>1. PICK f : f \in RunsBy(n, S, first, step, prev)
    BY <1>3, <1>4, <1>5, RecursionBy, Zenon
  <2> QED BY <2>1 DEF RunsBy
<1>8. f = Body(f)
  <2>1. \A k \in 1..n : k \div 10 \in 0..n
    BY <1>4 DEF Earlier
  <2>2. \A k \in 1..n : f[k] = Write(k, f[k \div 10])
    BY <1>4, <1>6, <1>7, <2>1
  <2>3. f[0] = Write(0, f[0 \div 10])
    BY <1>3, <1>7
  <2> QED BY <1>7, <2>2, <2>3
<1>9. R = Body(R)
  <2> HIDE DEF Body
  <2> QED BY <1>8, Zenon
<1>10. R = [k \in 0..n |-> R[k]] /\ \A k \in 0..n : R[k] = Write(k, R[k \div 10])
  <2>1. Body(R) = [k \in 0..n |-> Body(R)[k]] /\ \A k \in 0..n : Body(R)[k] = Write(k, R[k \div 10])
    OBVIOUS
  <2> HIDE DEF Body, R
  <2> QED BY <1>9, <2>1
<1> HIDE DEF R
<1>11. R[0] = first
  <2>1. 0 \in 0..n
    OBVIOUS
  <2> QED BY <1>3, <1>10, <2>1
<1>12. \A k \in 1..n : R[prev[k]] \in S => R[k] = step[<<k, R[prev[k]]>>]
  BY <1>4, <1>6, <1>10
<1>13. R \in RunsBy(n, S, first, step, prev)
  BY <1>3, <1>4, <1>5, <1>10, <1>11, <1>12, RunsByTyped
<1> QED BY <1>1, <1>10, <1>13 DEF RunsBy, Writes, Write, S

\* A number has a digit, more than one from ten on, and the first is zero only for zero.
LEMMA WritesDigits ==
    ASSUME NEW n \in Nat, NEW F, Writes(F, n)
    PROVE  \A k \in 0..n : /\ F[k] \in Seq(Digits) /\ Len(F[k]) >= 1 /\ (Len(F[k]) = 1 <=> k < 10)
                           /\ k >= 1 => F[k][1] # "0"
<1> DEFINE T == {k \in 0..n : /\ Len(F[k]) >= 1 /\ (Len(F[k]) = 1 <=> k < 10)
                              /\ k >= 1 => F[k][1] # "0"}
           prev == [k \in 1..n |-> k \div 10]
<1>1. Earlier(n, prev)
  <2>1. \A k \in 1..n : k \div 10 \in Nat /\ k \div 10 < k
    BY Tenth
  <2> QED BY <2>1 DEF Earlier
<1>2. \A k \in 0..9 : k <= n => F[k] = <<Digit(k)>> /\ Len(F[k]) = 1 /\ F[k][1] = Digit(k)
  BY DEF Writes
<1>3. 0 \in T
  BY <1>2
<1>4. ASSUME NEW k \in 1..n, prev[k] \in T PROVE k \in T
  <2>1. CASE k < 10
    <3>1. k \in 0..9 /\ k <= n /\ k \in 0..n
      BY <2>1
    <3> QED BY <1>2, <2>1, <3>1, DigitsDiffer
  <2>2. CASE k >= 10
    <3> DEFINE p == k \div 10
               d == Digit(k % 10)
    <3>1. p \in 0..n /\ p >= 1 /\ Len(F[p]) >= 1 /\ F[p][1] # "0"
      BY <1>4, <2>2, Tenth
    <3>2. F[p] \in Seq(Digits) /\ F[k] = Append(F[p], d) /\ d \in Digits
      <4>1. d \in Digits
        BY Tenth, DigitsDiffer
      <4>2. ~(k < 10) /\ k \in 0..n
        BY <2>2
      <4> QED BY <3>1, <4>1, <4>2 DEF Writes
    <3> HIDE DEF p, d
    <3>3. Len(F[k]) = Len(F[p]) + 1 /\ F[k][1] = F[p][1]
      BY <3>1, <3>2
    <3>4. Len(F[p]) \in Nat
      BY <3>2
    <3>5. Len(F[k]) >= 1 /\ Len(F[k]) # 1 /\ ~(k < 10)
      BY <2>2, <3>1, <3>3, <3>4
    <3>6. F[k][1] # "0"
      BY <3>1, <3>3
    <3> QED BY <3>5, <3>6
  <2> QED BY <2>1, <2>2
<1>5. 0..n \subseteq T
  <2> HIDE DEF T, prev
  <2> QED BY <1>1, <1>3, <1>4, UpToBy
<1> QED BY <1>5 DEF Writes

\* What is appended can be told from what it is appended to.
LEMMA AppendedSame ==
    ASSUME NEW S, NEW s \in Seq(S), NEW t \in Seq(S), NEW c \in S, NEW d \in S,
           Append(s, c) = Append(t, d)
    PROVE  s = t /\ c = d
BY AppendInjective

\* Numbers that are written the same are the same.
LEMMA WritesOnce ==
    ASSUME NEW m \in Nat, NEW n \in Nat, NEW F, NEW G, Writes(F, m), Writes(G, n)
    PROVE  \A k \in 0..m, l \in 0..n : F[k] = G[l] => k = l
<1> DEFINE T == {k \in 0..m : \A l \in 0..n : F[k] = G[l] => k = l}
           prev == [k \in 1..m |-> k \div 10]
<1>1. Earlier(m, prev)
  <2>1. \A k \in 1..m : k \div 10 \in Nat /\ k \div 10 < k
    BY Tenth
  <2> QED BY <2>1 DEF Earlier
<1>2. ASSUME NEW k \in 0..m, k < 10, NEW l \in 0..n, F[k] = G[l] PROVE k = l
  <2>1. l < 10
    <3>1. Len(F[k]) = 1
      BY <1>2, WritesDigits
    <3> QED BY <1>2, <3>1, WritesDigits
  <2>2. F[k] = <<Digit(k)>> /\ G[l] = <<Digit(l)>>
    BY <1>2, <2>1 DEF Writes
  <2>3. Digit(k) = Digit(l)
    <3>1. F[k][1] = Digit(k) /\ G[l][1] = Digit(l)
      BY <2>2
    <3> QED BY <1>2, <3>1
  <2>4. k \in 0..9 /\ l \in 0..9
    BY <1>2, <2>1
  <2> QED BY <2>3, <2>4, DigitsDiffer
<1>3. 0 \in T
  BY <1>2
<1>4. ASSUME NEW k \in 1..m, prev[k] \in T PROVE k \in T
  <2>1. CASE k < 10
    BY <1>2, <2>1
  <2>2. CASE k >= 10
    <3>1. SUFFICES ASSUME NEW l \in 0..n, F[k] = G[l] PROVE k = l
      OBVIOUS
    <3> DEFINE p == k \div 10
               q == l \div 10
               c == Digit(k % 10)
               d == Digit(l % 10)
    <3>2. k \in 0..m /\ l \in Nat /\ k \in Nat
      OBVIOUS
    <3>3. l >= 10
      <4>1. Len(F[k]) # 1
        BY <2>2, <3>2, WritesDigits
      <4> QED BY <3>1, <3>2, <4>1, WritesDigits
    <3>4. p \in 0..m /\ q \in 0..n /\ prev[k] = p
      BY <2>2, <3>2, <3>3, Tenth
    <3>5. F[k] = Append(F[p], c) /\ G[l] = Append(G[q], d)
      <4>1. ~(k < 10) /\ ~(l < 10)
        BY <2>2, <3>2, <3>3
      <4>2. F[k] = Append(F[p], c)
        BY <3>2, <4>1 DEF Writes
      <4>3. G[l] = Append(G[q], d)
        BY <4>1 DEF Writes
      <4> QED BY <4>2, <4>3
    <3>6. F[p] \in Seq(Digits) /\ G[q] \in Seq(Digits)
      BY <3>4 DEF Writes
    <3>7. c \in Digits /\ d \in Digits /\ k % 10 \in 0..9 /\ l % 10 \in 0..9
      BY <3>2, Tenth, DigitsDiffer
    <3>8. F[p] = G[q] /\ c = d
      <4> HIDE DEF p, q, c, d
      <4>1. Append(F[p], c) = Append(G[q], d)
        BY <3>1, <3>5
      <4>2. c \in Digits /\ d \in Digits
        BY <3>7
      <4> DEFINE u == F[p]
                 v == G[q]
      <4>3. u \in Seq(Digits) /\ v \in Seq(Digits) /\ Append(u, c) = Append(v, d)
        BY <3>6, <4>1
      <4> HIDE DEF u, v
      <4>4. u = v /\ c = d
        BY <4>2, <4>3, AppendedSame
      <4> QED BY <4>4 DEF u, v
    <3>9. p = q
      BY <1>4, <3>4, <3>8
    <3>10. k % 10 = l % 10
      BY <3>7, <3>8, DigitsDiffer
    <3> QED BY <3>2, <3>9, <3>10, Tenth
  <2> QED BY <2>1, <2>2
<1>5. 0..m \subseteq T
  <2> HIDE DEF T, prev
  <2> QED BY <1>1, <1>3, <1>4, UpToBy
<1> QED BY <1>5

\* Titles are made of letters.
LEMMA TitlesAreLetters == Titles \subseteq Seq(Letters)
<1>1. ASSUME NEW title \in Titles PROVE title \in Seq(Letters)
  <2>1. title \in Seq(ToSet(title)) /\ ToSet(title) \subseteq Letters
    BY FormatsAssumption DEF Letters
  <2> QED BY <2>1, SeqMonotonic
<1> QED BY <1>1

\* One character.
LEMMA Single ==
    ASSUME NEW S, NEW c \in S
    PROVE  <<c>> \in Seq(S) /\ Len(<<c>>) = 1 /\ <<c>>[1] = c
OBVIOUS

\* What Trim leaves: it begins and ends with characters that are kept.
TrimsTo(s, cs, r) ==
    \/ (\A i \in 1..Len(s) : s[i] \in cs) /\ r = <<>>
    \/ \E i, j \in 1..Len(s) :
          /\ i <= j /\ s[i] \notin cs /\ s[j] \notin cs
          /\ \A k \in 1..Len(s) : s[k] \notin cs => i <= k /\ k <= j
          /\ r = SubSeq(s, i, j)

LEMMA Trimmed ==
    ASSUME NEW S, NEW s \in Seq(S), NEW cs
    PROVE  Trim(s, cs) \in Seq(S) /\ TrimsTo(s, cs, Trim(s, cs))
<1> DEFINE N == Len(s)
           kept == {i \in DOMAIN s : s[i] \notin cs}
<1>1. N \in Nat /\ DOMAIN s = 1..N /\ \A i \in 1..N : s[i] \in S
  OBVIOUS
<1>2. Trim(s, cs) = IF kept = {} THEN <<>> ELSE SubSeq(s, Min(kept), Max(kept))
  BY DEF Trim
<1>3. CASE kept = {}
  BY <1>1, <1>2, <1>3 DEF TrimsTo
<1>4. CASE kept # {}
  <2>1. kept \subseteq 1..N /\ kept \subseteq Nat /\ kept \subseteq Int /\ IsFiniteSet(kept)
    <3>1. kept \subseteq 1..N
      BY <1>1
    <3>2. IsFiniteSet(1..N)
      BY <1>1, FS_Interval
    <3> QED BY <1>1, <3>1, <3>2, FS_Subset
  <2> HIDE DEF kept
  <2>2. \E i \in kept : \A k \in kept : i <= k
    BY <1>4, <2>1, LeastElement
  <2>3. \E j \in kept : \A k \in kept : j >= k
    <3>1. \E j \in kept : \A k \in kept : k <= j
      BY <1>4, <2>1, GreatestElement
    <3> QED BY <2>1, <3>1
  <2> DEFINE i == Min(kept)
             j == Max(kept)
  <2>4. i \in kept /\ \A k \in kept : i <= k
    BY <2>2, Zenon DEF Min
  <2>5. j \in kept /\ \A k \in kept : j >= k
    BY <2>3, Zenon DEF Max
  <2> HIDE DEF i, j
  <2>6. Trim(s, cs) = SubSeq(s, i, j)
    BY <1>2, <1>4 DEF i, j
  <2>7. i \in 1..N /\ j \in 1..N /\ i <= j
    BY <2>1, <2>4, <2>5
  <2>8. \A k \in 1..N : s[k] \notin cs => i <= k /\ k <= j
    BY <1>1, <2>1, <2>4, <2>5 DEF kept
  <2>9. s[i] \notin cs /\ s[j] \notin cs
    BY <2>4, <2>5 DEF kept
  <2>10. SubSeq(s, i, j) \in Seq(S)
    BY <1>1, <2>7, SubSeqProperties
  <2> QED BY <2>6, <2>7, <2>8, <2>9, <2>10 DEF TrimsTo
<1> QED BY <1>3, <1>4

\* Squeeze adds no character.
LEMMA Squeezed ==
    ASSUME NEW S, NEW s \in Seq(S)
    PROVE  Squeeze(s) \in Seq(S)
<1> DEFINE N == Len(s)
           Next1(n, t) == IF n > 1 /\ s[n] = " " /\ s[n - 1] = " " THEN t ELSE Append(t, s[n])
           Body(f) == [n \in 0..N |-> IF n = 0 THEN <<>> ELSE Next1(n, f[n - 1])]
           R == CHOOSE f : f = Body(f)
           step == [z \in (1..N) \X Seq(S) |-> Next1(z[1], z[2])]
<1>1. N \in Nat /\ N \in 0..N /\ <<>> \in Seq(S)
  OBVIOUS
<1>2. Squeeze(s) = R[N]
  BY DEF Squeeze
<1>3. \A n \in 1..N, t \in Seq(S) : Next1(n, t) \in Seq(S)
  <2>1. ASSUME NEW n \in 1..N, NEW t \in Seq(S) PROVE Append(t, s[n]) \in Seq(S)
    OBVIOUS
  <2> QED BY <2>1
<1> HIDE DEF Next1
<1>4. step \in StepsOf(N, Seq(S))
  BY <1>1, <1>3 DEF StepsOf
<1>5. \A n \in 1..N, t \in Seq(S) : step[<<n, t>>] = Next1(n, t)
  OBVIOUS
<1> HIDE DEF step
<1>6. PICK f \in [0..N -> Seq(S)] : f[0] = <<>> /\ \A n \in 1..N : f[n] = step[<<n, f[n - 1]>>]
  <2>1. PICK f : f \in RunsOf(N, Seq(S), <<>>, step)
    <3> HIDE DEF N
    <3> QED BY <1>1, <1>4, Recursion, Zenon
  <2> QED BY <2>1 DEF RunsOf
<1>7. f = Body(f)
  <2>1. \A n \in 1..N : n - 1 \in 0..N
    BY <1>1
  <2>2. \A n \in 1..N : f[n] = Next1(n, f[n - 1])
    BY <1>5, <1>6, <2>1
  <2> QED BY <1>6, <2>2
<1>8. R = Body(R)
  <2> HIDE DEF Body
  <2> QED BY <1>7, Zenon
<1>9. R = [n \in 0..N |-> R[n]] /\ R[0] = <<>> /\ \A n \in 1..N : R[n] = Next1(n, R[n - 1])
  <2>1. /\ Body(R) = [n \in 0..N |-> Body(R)[n]] /\ Body(R)[0] = <<>>
        /\ \A n \in 1..N : Body(R)[n] = Next1(n, R[n - 1])
    BY <1>1
  <2> HIDE DEF Body, R
  <2> QED BY <1>8, <2>1
<1>10. R \in RunsOf(N, Seq(S), <<>>, step)
  <2>1. \A n \in 1..N : R[n - 1] \in Seq(S) => R[n] = step[<<n, R[n - 1]>>]
    <3> HIDE DEF R
    <3> QED BY <1>5, <1>9
  <2> HIDE DEF R, N
  <2> QED BY <1>1, <1>4, <1>9, <2>1, RunsTyped
<1> HIDE DEF R
<1> QED BY <1>1, <1>2, <1>10 DEF RunsOf

\* Clean leaves no slash, and no space or point at the beginning.
LEMMA Cleaned ==
    ASSUME NEW s \in Seq(Letters)
    PROVE  /\ Clean(s) \in Seq(Sound)
           /\ Len(Clean(s)) >= 1 => Clean(s)[1] # " " /\ Clean(s)[1] # "."
<1> DEFINE N == Len(s)
           S == Seq(Sound)
           replace(c) == CASE c = "~" -> <<>> [] c = ":" -> <<" ", "-", " ">>
                           [] c = "/" -> <<"-">> [] OTHER -> <<c>>
           Next1(n, t) == t \o replace(s[n])
           Body(f) == [n \in 0..N |-> IF n = 0 THEN <<>> ELSE Next1(n, f[n - 1])]
           R == CHOOSE f : f = Body(f)
           step == [z \in (1..N) \X S |-> Next1(z[1], z[2])]
<1>1. N \in Nat /\ N \in 0..N /\ <<>> \in S
  OBVIOUS
<1>2. Clean(s) = Trim(Squeeze(R[N]), {" ", "."})
  BY DEF Clean
<1>3. ASSUME NEW c \in Letters PROVE replace(c) \in S
  <2>1. " " \in Sound /\ "-" \in Sound
    BY DEF Sound, Marks
  <2>2. c # "/" => c \in Sound
    BY DEF Sound
  <2>3. <<>> \in S /\ <<"-">> \in S /\ (c # "/" => <<c>> \in S)
    BY <2>1, <2>2, Single, EmptySeq
  <2>4. <<" ", "-", " ">> \in S
    <3> DEFINE blank == " "
               dash == "-"
    <3>1. blank \in Sound /\ dash \in Sound
      BY <2>1
    <3> HIDE DEF blank, dash
    <3>2. <<blank, dash, blank>> \in S
      BY <3>1
    <3> QED BY <3>2 DEF blank, dash
  <2> HIDE DEF S
  <2>5. CASE c = "~"
    BY <2>3, <2>5
  <2>6. CASE c = ":"
    BY <2>4, <2>6
  <2>7. CASE c = "/"
    BY <2>3, <2>7
  <2>8. CASE c \notin {"~", ":", "/"}
    BY <2>3, <2>8
  <2> QED BY <2>5, <2>6, <2>7, <2>8
<1> HIDE DEF replace
<1>4. ASSUME NEW n \in 1..N, NEW t \in S PROVE Next1(n, t) \in S
  <2>1. replace(s[n]) \in S
    BY <1>3
  <2> QED BY <2>1, ConcatProperties
<1> HIDE DEF Next1
<1>5. step \in StepsOf(N, S)
  BY <1>1, <1>4 DEF StepsOf
<1>6. \A n \in 1..N, t \in S : step[<<n, t>>] = Next1(n, t)
  OBVIOUS
<1> HIDE DEF step, S
<1>7. PICK f \in [0..N -> S] : f[0] = <<>> /\ \A n \in 1..N : f[n] = step[<<n, f[n - 1]>>]
  <2>1. PICK f : f \in RunsOf(N, S, <<>>, step)
    <3> HIDE DEF N
    <3> QED BY <1>1, <1>5, Recursion, Zenon
  <2> QED BY <2>1 DEF RunsOf
<1>8. f = Body(f)
  <2>1. \A n \in 1..N : n - 1 \in 0..N
    BY <1>1
  <2>2. \A n \in 1..N : f[n] = Next1(n, f[n - 1])
    BY <1>6, <1>7, <2>1
  <2> QED BY <1>7, <2>2
<1>9. R = Body(R)
  <2> HIDE DEF Body
  <2> QED BY <1>8, Zenon
<1>10. R = [n \in 0..N |-> R[n]] /\ R[0] = <<>> /\ \A n \in 1..N : R[n] = Next1(n, R[n - 1])
  <2>1. /\ Body(R) = [n \in 0..N |-> Body(R)[n]] /\ Body(R)[0] = <<>>
        /\ \A n \in 1..N : Body(R)[n] = Next1(n, R[n - 1])
    BY <1>1
  <2> HIDE DEF Body, R
  <2> QED BY <1>9, <2>1
<1>11. R \in RunsOf(N, S, <<>>, step)
  <2>1. \A n \in 1..N : R[n - 1] \in S => R[n] = step[<<n, R[n - 1]>>]
    <3> HIDE DEF R
    <3> QED BY <1>6, <1>10
  <2> HIDE DEF R, N
  <2> QED BY <1>1, <1>5, <1>10, <2>1, RunsTyped
<1> DEFINE whole == Squeeze(R[N])
           edges == {" ", "."}
<1>12. whole \in Seq(Sound)
  <2> HIDE DEF R
  <2>1. R[N] \in Seq(Sound)
    BY <1>1, <1>11 DEF RunsOf, S
  <2> QED BY <2>1, Squeezed
<1> HIDE DEF R, whole, edges
<1>13. Clean(s) = Trim(whole, edges)
  BY <1>2 DEF whole, edges
<1>14. Trim(whole, edges) \in Seq(Sound)
  BY <1>12, Trimmed
<1>15. ASSUME Len(Trim(whole, edges)) >= 1 PROVE Trim(whole, edges)[1] \notin edges
  <2>1. Trim(whole, edges) # <<>>
    BY <1>15
  <2>2. PICK i, j \in 1..Len(whole) : /\ i <= j /\ whole[i] \notin edges
                                      /\ Trim(whole, edges) = SubSeq(whole, i, j)
    <3>1. TrimsTo(whole, edges, Trim(whole, edges))
      BY <1>12, Trimmed
    <3> QED BY <2>1, <3>1 DEF TrimsTo
  <2>3. SubSeq(whole, i, j)[1] = whole[i]
    BY <1>12, <2>2
  <2> QED BY <2>2, <2>3
<1> QED BY <1>13, <1>14, <1>15 DEF edges

\* What the numbers of a season and an episode are written as.
LEMMA TwoDigits ==
    ASSUME NEW n \in Nat
    PROVE  /\ Two(n) \in Seq(Digits) /\ Len(Two(n)) >= 2 /\ Padded(n) = Two(n)
           /\ Two(n)[1] = "0" <=> n < 10
<1>1. PICK F : Writes(F, n) /\ Itoa(n) = F[n]
  BY ItoaWrites
<1>2. /\ F[n] \in Seq(Digits) /\ Len(F[n]) >= 1 /\ (Len(F[n]) = 1 <=> n < 10)
      /\ n >= 1 => F[n][1] # "0"
  BY <1>1, WritesDigits
<1>3. CASE n < 10
  <2> DEFINE c == Digit(n)
  <2>1. Itoa(n) = <<c>> /\ c \in Digits /\ "0" \in Digits /\ n \in 0..9
    BY <1>1, <1>3, DigitsDiffer DEF Writes, Digits
  <2>2. Two(n) = <<"0">> \o <<c>> /\ Padded(n) = <<"0", c>>
    BY <1>3, <2>1 DEF Two, Padded
  <2> HIDE DEF c
  <2> DEFINE zero == "0"
  <2>3. zero \in Digits
    BY <2>1
  <2> HIDE DEF zero
  <2> HIDE DEF Digits
  <2> DEFINE a == <<zero>>
             b == <<c>>
             p == <<zero, c>>
  <2>4. p \in Seq(Digits) /\ Len(p) = 2 /\ p[1] = zero /\ p[2] = c
    BY <2>1, <2>3
  <2>5. /\ a \in Seq(Digits) /\ Len(a) = 1 /\ a[1] = zero
        /\ b \in Seq(Digits) /\ Len(b) = 1 /\ b[1] = c
    BY <2>1, <2>3
  <2> HIDE DEF a, b, p
  <2>6. a \o b \in Seq(Digits) /\ Len(a \o b) = 2 /\ (a \o b)[1] = zero /\ (a \o b)[2] = c
    <3>1. /\ a \o b \in Seq(Digits) /\ Len(a \o b) = 1 + 1
          /\ \A i \in 1..1 : (a \o b)[i] = a[i]
          /\ \A i \in 1..1 : (a \o b)[1 + i] = b[i]
      <4>1. /\ a \o b \in Seq(Digits) /\ Len(a \o b) = Len(a) + Len(b)
            /\ \A i \in 1..Len(a) : (a \o b)[i] = a[i]
            /\ \A i \in 1..Len(b) : (a \o b)[Len(a) + i] = b[i]
        BY <2>5, Joined
      <4> QED BY <2>5, <4>1
    <3> QED BY <2>5, <3>1
  <2>7. a \o b = p
    <3>1. \A i \in 1..2 : (a \o b)[i] = p[i]
      BY <2>4, <2>6
    <3> HIDE DEF a, b
    <3> DEFINE ab == a \o b
    <3>2. ab \in Seq(Digits) /\ Len(ab) = Len(p) /\ p \in Seq(Digits)
      BY <2>4, <2>6
    <3>3. \A i \in 1..Len(ab) : ab[i] = p[i]
      BY <2>6, <3>1
    <3> HIDE DEF ab
    <3>4. ab = p
      BY <3>2, <3>3, SeqEqual, Zenon
    <3> QED BY <3>4 DEF ab
  <2>8. Two(n) = p /\ Padded(n) = p
    BY <2>2, <2>7 DEF a, b, p, zero
  <2>9. p[1] = "0"
    BY <2>4 DEF zero
  <2>10. Len(p) >= 2
    BY <2>4
  <2> HIDE DEF c
  <2> QED BY <1>3, <2>4, <2>8, <2>9, <2>10
<1>4. CASE n >= 10
  <2>1. Two(n) = F[n] /\ Padded(n) = F[n]
    BY <1>1, <1>4 DEF Two, Padded
  <2>2. Len(F[n]) \in Nat
    BY <1>2
  <2>3. Len(F[n]) >= 2
    <3>1. Len(F[n]) # 1
      BY <1>2, <1>4
    <3>2. Len(F[n]) >= 1
      BY <1>2
    <3> DEFINE l == Len(F[n])
    <3> HIDE DEF l
    <3>3. l \in Nat /\ l >= 1 /\ l # 1
      BY <2>2, <3>1, <3>2 DEF l
    <3>4. l >= 2
      BY <3>3
    <3> QED BY <3>4 DEF l
  <2>4. F[n][1] # "0" /\ ~(n < 10)
    BY <1>2, <1>4
  <2> QED BY <1>2, <2>1, <2>3, <2>4
<1> QED BY <1>3, <1>4

\* No two numbers are written alike.
LEMMA TwoDiffer ==
    ASSUME NEW m \in Nat, NEW n \in Nat, Two(m) = Two(n)
    PROVE  m = n
<1>1. PICK F : Writes(F, m) /\ Itoa(m) = F[m]
  BY ItoaWrites
<1>2. PICK G : Writes(G, n) /\ Itoa(n) = G[n]
  BY ItoaWrites
<1>3. m < 10 <=> n < 10
  BY TwoDigits
<1>4. Itoa(m) = Itoa(n)
  <2>1. CASE m < 10
    <3> DEFINE zero == "0"
    <3>1. zero \in Digits /\ Itoa(m) \in Seq(Digits) /\ Itoa(n) \in Seq(Digits)
      BY <1>1, <1>2 DEF Writes, Digits
    <3>2. Two(m) = <<zero>> \o Itoa(m) /\ Two(n) = <<zero>> \o Itoa(n)
      BY <1>3, <2>1 DEF Two
    <3> HIDE DEF zero
    <3>3. <<zero>> \in Seq(Digits)
      BY <3>1
    <3>4. <<zero>> \o Itoa(m) = <<zero>> \o Itoa(n)
      BY <3>2
    <3> QED BY <3>1, <3>3, <3>4, ConcatSimplifications
  <2>2. CASE m >= 10
    BY <1>3, <2>2 DEF Two
  <2> QED BY <2>1, <2>2
<1>5. m \in 0..m /\ n \in 0..n /\ F[m] = G[n]
  BY <1>1, <1>2, <1>4
<1> QED BY <1>1, <1>2, <1>5, WritesOnce

Blank == " "

(* The whole name, before it is cut: "show - S01E01 - title.mp4". *)
Lead == <<" ", "-", " ", "S">>
Mid == <<"E">>
Rear == <<" ", "-", " ">>
Ext == <<".", "m", "p", "4">>
WholeName(c, s, e, t) == c \o Lead \o s \o Mid \o e \o Rear \o t \o Ext

\* Its places.
Laid(full, c, s, e) ==
    LET C == Len(c)
        q == C + 5 + Len(s)
    IN /\ full \in Seq(Sound) /\ Len(full) >= q + Len(e) + 4
       /\ \A k \in 1..C : full[k] = c[k]
       /\ full[C + 1] = Blank /\ full[C + 2] = "-" /\ full[C + 3] = Blank /\ full[C + 4] = "S"
       /\ \A k \in 1..Len(s) : full[C + 4 + k] = s[k]
       /\ full[q] = "E"
       /\ \A k \in 1..Len(e) : full[q + k] = e[k]
       /\ full[q + Len(e) + 1] = Blank

\* The fixed parts.
LEMMA Parts ==
    /\ Lead \in Seq(Sound) /\ Len(Lead) = 4 /\ Lead[1] = Blank /\ Lead[2] = "-" /\ Lead[3] = Blank
    /\ Lead[4] = "S"
    /\ Mid \in Seq(Sound) /\ Len(Mid) = 1 /\ Mid[1] = "E"
    /\ Rear \in Seq(Sound) /\ Len(Rear) = 3 /\ Rear[1] = Blank
    /\ Ext \in Seq(Sound) /\ Len(Ext) = 4
    /\ Digits \subseteq Sound /\ Seq(Digits) \subseteq Seq(Sound)
<1> DEFINE blank == " "
           dash == "-"
           ess == "S"
           ee == "E"
           dot == "."
           em == "m"
           pe == "p"
           four == "4"
<1>1. /\ blank \in Sound /\ dash \in Sound /\ ess \in Sound /\ ee \in Sound
      /\ dot \in Sound /\ em \in Sound /\ pe \in Sound /\ four \in Sound
  BY DEF Sound, Marks
<1>2. Digits \subseteq Sound
  BY DEF Sound, Digits
<1>3. Seq(Digits) \subseteq Seq(Sound)
  BY <1>2, SeqMonotonic
<1>4. /\ Lead = <<blank, dash, blank, ess>> /\ Mid = <<ee>> /\ Rear = <<blank, dash, blank>>
      /\ Ext = <<dot, em, pe, four>>
  BY DEF Lead, Mid, Rear, Ext
<1> HIDE DEF blank, dash, ess, ee, dot, em, pe, four
<1>5. Lead \in Seq(Sound) /\ Len(Lead) = 4
  BY <1>1, <1>4
<1>6. Mid \in Seq(Sound) /\ Len(Mid) = 1 /\ Rear \in Seq(Sound) /\ Len(Rear) = 3
  BY <1>1, <1>4
<1>7. Ext \in Seq(Sound) /\ Len(Ext) = 4
  BY <1>1, <1>4
<1>8. Lead[1] = blank /\ Lead[2] = dash /\ Lead[3] = blank /\ Lead[4] = ess
  BY <1>4
<1>9. Mid[1] = ee /\ Rear[1] = blank
  BY <1>4
<1> QED BY <1>2, <1>3, <1>5, <1>6, <1>7, <1>8, <1>9 DEF blank, Blank, dash, ess, ee

\* A part more: what is there stays, and the part comes behind it.
Behind(u, v, w) ==
    /\ w \in Seq(Sound) /\ Len(w) = Len(u) + Len(v) /\ Len(u) \in Nat /\ Len(v) \in Nat
    /\ \A k \in 1..Len(u) : w[k] = u[k]
    /\ \A k \in 1..Len(v) : w[Len(u) + k] = v[k]

\* That is what \o does.
LEMMA PartBehind ==
    ASSUME NEW u \in Seq(Sound), NEW v \in Seq(Sound)
    PROVE  Behind(u, v, u \o v)
BY Joined DEF Behind

\* The name is laid out so.
LEMMA WholeNameLaid ==
    ASSUME NEW c \in Seq(Sound), NEW s \in Seq(Digits), NEW e \in Seq(Digits),
           NEW t \in Seq(Sound)
    PROVE  Laid(WholeName(c, s, e, t), c, s, e)
<1> DEFINE w1 == c \o Lead
           w2 == w1 \o s
           w3 == w2 \o Mid
           w4 == w3 \o e
           w5 == w4 \o Rear
           w6 == w5 \o t
           w7 == w6 \o Ext
<1>1. s \in Seq(Sound) /\ e \in Seq(Sound)
  BY Parts
<1>2. WholeName(c, s, e, t) = w7
  BY DEF WholeName
<1>3. Behind(c, Lead, w1)
  BY Parts, PartBehind
<1>4. Behind(w1, s, w2)
  BY <1>1, <1>3, PartBehind DEF Behind
<1>5. Behind(w2, Mid, w3)
  BY <1>4, Parts, PartBehind DEF Behind
<1>6. Behind(w3, e, w4)
  BY <1>1, <1>5, PartBehind DEF Behind
<1>7. Behind(w4, Rear, w5)
  BY <1>6, Parts, PartBehind DEF Behind
<1>8. Behind(w5, t, w6)
  BY <1>7, PartBehind DEF Behind
<1>9. Behind(w6, Ext, w7)
  BY <1>8, Parts, PartBehind DEF Behind
<1> HIDE DEF w1, w2, w3, w4, w5, w6, w7
<1> DEFINE C == Len(c)
           d == Len(s)
           f == Len(e)
<1>10. /\ C \in Nat /\ d \in Nat /\ f \in Nat /\ Len(t) \in Nat
       /\ Len(w1) = C + 4 /\ Len(w2) = C + 4 + d /\ Len(w3) = C + 5 + d
       /\ Len(w4) = C + 5 + d + f /\ Len(w5) = C + 8 + d + f
       /\ Len(w7) = C + 12 + d + f + Len(t)
  <2>1. Len(Lead) = 4 /\ Len(Mid) = 1 /\ Len(Rear) = 3 /\ Len(Ext) = 4
    BY Parts
  <2>2. C \in Nat /\ d \in Nat /\ f \in Nat /\ Len(t) \in Nat
    BY <1>3, <1>4, <1>6, <1>8 DEF Behind
  <2>3. Len(w1) = C + 4 /\ Len(w2) = Len(w1) + d
    BY <1>3, <1>4, <2>1 DEF Behind
  <2>4. Len(w3) = Len(w2) + 1 /\ Len(w4) = Len(w3) + f
    BY <1>5, <1>6, <2>1 DEF Behind
  <2>5. Len(w5) = Len(w4) + 3 /\ Len(w6) = Len(w5) + Len(t) /\ Len(w7) = Len(w6) + 4
    BY <1>7, <1>8, <1>9, <2>1 DEF Behind
  <2> HIDE DEF C, d, f
  <2> QED BY <2>2, <2>3, <2>4, <2>5
<1>11. /\ \A k \in 1..Len(w1) : w7[k] = w1[k]
       /\ \A k \in 1..Len(w2) : w7[k] = w2[k]
       /\ \A k \in 1..Len(w3) : w7[k] = w3[k]
       /\ \A k \in 1..Len(w4) : w7[k] = w4[k]
       /\ \A k \in 1..Len(w5) : w7[k] = w5[k]
  <2>1. \A k \in 1..Len(w5) : w7[k] = w5[k]
    BY <1>8, <1>9 DEF Behind
  <2>2. \A k \in 1..Len(w4) : w7[k] = w4[k]
    BY <1>7, <2>1 DEF Behind
  <2>3. \A k \in 1..Len(w3) : w7[k] = w3[k]
    BY <1>6, <2>2 DEF Behind
  <2>4. \A k \in 1..Len(w2) : w7[k] = w2[k]
    BY <1>5, <2>3 DEF Behind
  <2>5. \A k \in 1..Len(w1) : w7[k] = w1[k]
    BY <1>4, <2>4 DEF Behind
  <2> QED BY <2>1, <2>2, <2>3, <2>4, <2>5
<1>12. \A k \in 1..C : w7[k] = c[k]
  BY <1>3, <1>10, <1>11 DEF Behind
<1>13. \A k \in 1..4 : w7[C + k] = Lead[k]
  <2>1. Len(Lead) = 4
    BY Parts
  <2>2. \A k \in 1..4 : w1[C + k] = Lead[k] /\ C + k \in 1..Len(w1)
    BY <1>3, <1>10, <2>1, SMTT(30) DEF Behind
  <2> QED BY <1>11, <2>2
<1>14. \A k \in 1..d : w7[C + 4 + k] = s[k]
  BY <1>4, <1>10, <1>11 DEF Behind
<1>15. w7[C + 5 + d] = "E"
  <2>0. Len(Mid) = 1 /\ Mid[1] = "E"
    BY Parts
  <2>1. w3[Len(w2) + 1] = Mid[1] /\ Len(w2) + 1 \in 1..Len(w3)
    BY <1>5, <2>0 DEF Behind
  <2>2. w7[Len(w2) + 1] = "E"
    BY <1>11, <2>0, <2>1
  <2> HIDE DEF C, d, f
  <2>3. Len(w2) + 1 = C + 5 + d
    BY <1>10
  <2> QED BY <2>2, <2>3
<1>16. \A k \in 1..f : w7[C + 5 + d + k] = e[k]
  BY <1>6, <1>10, <1>11 DEF Behind
<1>17. w7[C + 5 + d + f + 1] = Blank
  <2>0. Len(Rear) = 3 /\ Rear[1] = Blank
    BY Parts
  <2>1. w5[Len(w4) + 1] = Rear[1] /\ Len(w4) + 1 \in 1..Len(w5)
    <3>1. Len(w5) = Len(w4) + 3 /\ Len(w4) \in Nat
      BY <1>7, <2>0 DEF Behind
    <3>2. \A k \in 1..3 : w5[Len(w4) + k] = Rear[k]
      BY <1>7, <2>0 DEF Behind
    <3> QED BY <3>1, <3>2
  <2>2. w7[Len(w4) + 1] = Blank
    BY <1>11, <2>0, <2>1
  <2> HIDE DEF C, d, f
  <2>3. Len(w4) + 1 = C + 5 + d + f + 1
    BY <1>10
  <2> QED BY <2>2, <2>3
<1>18. w7[C + 1] = Blank /\ w7[C + 2] = "-" /\ w7[C + 3] = Blank /\ w7[C + 4] = "S"
  <2>1. Lead[1] = Blank /\ Lead[2] = "-" /\ Lead[3] = Blank /\ Lead[4] = "S"
    BY Parts
  <2>2. 1 \in 1..4 /\ 2 \in 1..4 /\ 3 \in 1..4 /\ 4 \in 1..4
    OBVIOUS
  <2> HIDE DEF C
  <2> QED BY <1>13, <2>1, <2>2
<1>19. w7 \in Seq(Sound)
  BY <1>9 DEF Behind
<1>20. Len(w7) >= C + 5 + d + f + 4
  BY <1>10
<1> QED BY <1>2, <1>12, <1>14, <1>15, <1>16, <1>17, <1>18, <1>19, <1>20 DEF Laid

\* Nothing else in the fixed parts and no digit is a blank.
LEMMA BlankDiffers ==
    /\ "-" # Blank /\ "S" # Blank /\ "E" # Blank
    /\ Blank \notin Digits /\ "E" \notin Digits
BY DEF Blank, Digits

\* A name over the limit is cut at its last space within it.
LEMMA CutAtSpace ==
    ASSUME NEW name \in Seq(Sound), Len(name) > NameLimit,
           NEW k \in 1..NameLimit, name[k] = Blank
    PROVE  \E cut \in k..NameLimit :
              /\ name[cut] = Blank /\ \A i \in 1..NameLimit : name[i] = Blank => i <= cut
              /\ LimitPathComponent(name) = Trim(SubSeq(name, 1, cut), {Blank})
<1> DEFINE spaces == {i \in 1..NameLimit : name[i] = Blank}
           cut == Max(spaces)
<1>1. NameLimit \in Nat /\ k \in spaces /\ spaces \subseteq Int /\ IsFiniteSet(spaces)
  <2>1. NameLimit \in Nat
    BY FormatsAssumption
  <2>2. IsFiniteSet(1..NameLimit)
    BY <2>1, FS_Interval
  <2>3. spaces \subseteq 1..NameLimit
    OBVIOUS
  <2>4. IsFiniteSet(spaces)
    BY <2>2, <2>3, FS_Subset
  <2> QED BY <2>1, <2>4
<1>2. ~(Len(name) <= NameLimit)
  BY <1>1
<1>3. LimitPathComponent(name) = Trim(SubSeq(name, 1, cut), {Blank})
  BY <1>1, <1>2 DEF LimitPathComponent, Blank
<1>4. cut \in spaces /\ \A i \in spaces : cut >= i
  <2> HIDE DEF spaces
  <2>1. \E x \in spaces : \A y \in spaces : y <= x
    BY <1>1, GreatestElement
  <2>2. \E x \in spaces : \A y \in spaces : x >= y
    BY <1>1, <2>1
  <2> QED BY <2>2, Zenon DEF Max
<1> HIDE DEF cut
<1>5. cut \in k..NameLimit
  BY <1>1, <1>4
<1> QED BY <1>1, <1>3, <1>4, <1>5

\* A stretch of a name.
Part(full, i, j, r) ==
    /\ i \in 1..Len(full) /\ j \in 1..Len(full) /\ i <= j
    /\ r \in Seq(Sound) /\ Len(r) = j - i + 1
    /\ \A k \in 1..(j - i + 1) : r[k] = full[i + k - 1]

\* What is left of the first characters of a name, if one of them is no blank.
LEMMA PartTrimmed ==
    ASSUME NEW name \in Seq(Sound), NEW cut \in 1..Len(name), NEW q \in 1..cut, name[q] # Blank
    PROVE  \E i, j \in 1..cut :
              /\ Part(name, i, j, Trim(SubSeq(name, 1, cut), {Blank}))
              /\ name[i] # Blank /\ name[j] # Blank
              /\ \A k \in 1..cut : name[k] # Blank => i <= k /\ k <= j
<1> DEFINE pre == SubSeq(name, 1, cut)
           blank == {Blank}
           r == Trim(pre, blank)
<1>1. pre \in Seq(Sound) /\ Len(pre) = cut /\ \A k \in 1..cut : pre[k] = name[k]
  <2>1. \A k \in 1..cut : name[k] \in Sound
    OBVIOUS
  <2>2. cut \in Int /\ 1 \in Int /\ 1 <= cut
    OBVIOUS
  <2>3. /\ pre \in Seq(Sound) /\ Len(pre) = IF 1 <= cut THEN cut - 1 + 1 ELSE 0
        /\ \A k \in 1..(cut - 1 + 1) : pre[k] = name[1 + k - 1]
    BY <2>1, <2>2, SubSeqProperties
  <2> HIDE DEF pre
  <2> QED BY <2>2, <2>3
<1> HIDE DEF pre
<1>2. PICK i, j \in 1..cut :
         /\ i <= j /\ pre[i] \notin blank /\ pre[j] \notin blank
         /\ \A k \in 1..cut : pre[k] \notin blank => i <= k /\ k <= j
         /\ r = SubSeq(pre, i, j)
  <2>1. pre[q] \notin blank
    BY <1>1
  <2> HIDE DEF blank
  <2>2. TrimsTo(pre, blank, r)
    BY <1>1, Trimmed
  <2> HIDE DEF r
  <2> QED BY <1>1, <2>1, <2>2 DEF TrimsTo
<1>3. /\ r \in Seq(Sound) /\ Len(r) = j - i + 1
      /\ \A k \in 1..(j - i + 1) : r[k] = pre[i + k - 1]
  <2>1. \A k \in i..j : pre[k] \in Sound
    BY <1>1
  <2>2. /\ SubSeq(pre, i, j) \in Seq(Sound)
        /\ Len(SubSeq(pre, i, j)) = IF i <= j THEN j - i + 1 ELSE 0
        /\ \A k \in 1..(j - i + 1) : SubSeq(pre, i, j)[k] = pre[i + k - 1]
    BY <2>1, SubSeqProperties
  <2> HIDE DEF r
  <2> QED BY <1>2, <2>2
<1> HIDE DEF r
<1>4. \A k \in 1..(j - i + 1) : i + k - 1 \in 1..cut
  OBVIOUS
<1>5. Part(name, i, j, r)
  BY <1>1, <1>2, <1>3, <1>4 DEF Part
<1>6. name[i] # Blank /\ name[j] # Blank /\ \A k \in 1..cut : name[k] # Blank => i <= k /\ k <= j
  BY <1>1, <1>2 DEF blank
<1> QED BY <1>5, <1>6 DEF r, pre, blank

\* A cut name keeps its beginning, but for a leading space.
Begins(c, i) == i \in {1, 2} /\ (i = 2 => Len(c) = 0)

\* It keeps the code too, if there is room for a space behind it.
LEMMA NameKept ==
    ASSUME NEW full, NEW c \in Seq(Sound), NEW s \in Seq(Digits), NEW e \in Seq(Digits),
           Laid(full, c, s, e), Len(c) >= 1 => c[1] # Blank, Len(s) >= 1, Len(e) >= 1,
           Len(c) + Len(s) + Len(e) + 6 <= NameLimit
    PROVE  \E i, j \in 1..Len(full) :
              /\ Part(full, i, j, LimitPathComponent(full))
              /\ Begins(c, i) /\ j >= Len(c) + 5 + Len(s) + Len(e)
<1> DEFINE p == Len(c) + 5 + Len(s) + Len(e)
<1>1. /\ NameLimit \in Nat /\ Len(c) \in Nat /\ Len(s) \in Nat /\ Len(e) \in Nat
      /\ full \in Seq(Sound) /\ Len(full) >= p + 4 /\ Len(full) \in Nat
  <2>1. NameLimit \in Nat
    BY FormatsAssumption
  <2>2. Len(c) \in Nat /\ Len(s) \in Nat /\ Len(e) \in Nat
    OBVIOUS
  <2>3. full \in Seq(Sound) /\ Len(full) >= p + 4
    BY DEF Laid
  <2> QED BY <2>1, <2>2, <2>3
<1>2. full[p + 1] = Blank /\ full[p] # Blank
  <2>1. e[Len(e)] \in Digits
    BY <1>1
  <2>2. \A k \in 1..Len(e) : full[Len(c) + 5 + Len(s) + k] = e[k]
    BY DEF Laid
  <2>3. full[p] = e[Len(e)]
    BY <1>1, <2>2
  <2> QED BY <2>1, <2>3, BlankDiffers DEF Laid
<1>3. CASE Len(full) <= NameLimit
  <2>1. LimitPathComponent(full) = full
    BY <1>3 DEF LimitPathComponent, Blank
  <2>2. Part(full, 1, Len(full), full)
    BY <1>1 DEF Part
  <2>3. 1 \in 1..Len(full) /\ Len(full) \in 1..Len(full) /\ Len(full) >= p
    BY <1>1
  <2>4. Begins(c, 1)
    BY DEF Begins
  <2> QED BY <2>1, <2>2, <2>3, <2>4
<1>4. CASE Len(full) > NameLimit
  <2>1. PICK cut \in (p + 1)..NameLimit :
           LimitPathComponent(full) = Trim(SubSeq(full, 1, cut), {Blank})
    <3>1. p + 1 \in 1..NameLimit
      BY <1>1
    <3> QED BY <1>1, <1>2, <1>4, <3>1, CutAtSpace
  <2>2. cut \in 1..Len(full) /\ p \in 1..cut
    BY <1>1, <1>4
  <2>3. PICK i, j \in 1..cut :
           /\ Part(full, i, j, LimitPathComponent(full))
           /\ \A k \in 1..cut : full[k] # Blank => i <= k /\ k <= j
    <3> HIDE DEF p
    <3>1. \E i, j \in 1..cut :
             /\ Part(full, i, j, Trim(SubSeq(full, 1, cut), {Blank}))
             /\ full[i] # Blank /\ full[j] # Blank
             /\ \A k \in 1..cut : full[k] # Blank => i <= k /\ k <= j
      BY <1>1, <1>2, <2>2, PartTrimmed, Zenon
    <3> QED BY <2>1, <3>1
  <2>4. j >= p
    BY <1>2, <2>2, <2>3
  <2>5. Begins(c, i)
    <3>1. CASE Len(c) = 0
      <4>1. full[2] = "-" /\ 2 \in 1..cut
        BY <1>1, <3>1 DEF Laid
      <4>2. i <= 2
        BY <2>3, <4>1, BlankDiffers
      <4> QED BY <3>1, <4>2 DEF Begins
    <3>2. CASE Len(c) >= 1
      <4>1. full[1] # Blank /\ 1 \in 1..cut
        BY <1>1, <3>2, SMTT(30) DEF Laid
      <4>2. i <= 1
        BY <2>3, <4>1
      <4> QED BY <4>2 DEF Begins
    <3> QED BY <1>1, <3>1, <3>2
  <2>6. i \in 1..Len(full) /\ j \in 1..Len(full)
    BY <2>2
  <2> QED BY <2>3, <2>4, <2>5, <2>6
<1> QED BY <1>1, <1>3, <1>4

\* Without that room, the name ends in front of the code.
LEMMA NameWithoutCode ==
    ASSUME NEW full, NEW c \in Seq(Sound), NEW s \in Seq(Digits), NEW e \in Seq(Digits),
           Laid(full, c, s, e), Len(c) + 3 <= NameLimit,
           Len(c) + Len(s) + Len(e) + 6 > NameLimit
    PROVE  Len(LimitPathComponent(full)) <= Len(c) + 2
<1> DEFINE p == Len(c) + 5 + Len(s) + Len(e)
           C == Len(c)
<1>1. /\ NameLimit \in Nat /\ C \in Nat /\ Len(s) \in Nat /\ Len(e) \in Nat
      /\ full \in Seq(Sound) /\ Len(full) >= p + 4 /\ Len(full) \in Nat
  <2>1. NameLimit \in Nat
    BY FormatsAssumption
  <2>2. Len(c) \in Nat /\ Len(s) \in Nat /\ Len(e) \in Nat
    OBVIOUS
  <2>3. full \in Seq(Sound) /\ Len(full) >= p + 4
    BY DEF Laid
  <2> QED BY <2>1, <2>2, <2>3
<1>2. ASSUME NEW k \in (C + 4)..p PROVE full[k] # Blank
  <2>1. /\ \A l \in 1..Len(s) : full[C + 4 + l] = s[l]
        /\ \A l \in 1..Len(e) : full[C + 5 + Len(s) + l] = e[l]
        /\ full[C + 4] = "S" /\ full[C + 5 + Len(s)] = "E"
    BY DEF Laid
  <2>2. CASE k = C + 4 \/ k = C + 5 + Len(s)
    BY <2>1, <2>2, BlankDiffers
  <2>3. CASE k - (C + 4) \in 1..Len(s)
    <3>1. full[k] = s[k - (C + 4)]
      <4> DEFINE l == k - (C + 4)
      <4>1. l \in 1..Len(s) /\ C + 4 + l = k
        BY <1>1, <2>3
      <4> HIDE DEF l
      <4>2. full[k] = s[l]
        BY <2>1, <4>1
      <4> QED BY <4>2 DEF l
    <3>2. s[k - (C + 4)] \in Digits
      BY <2>3
    <3> QED BY <3>1, <3>2, BlankDiffers
  <2>4. CASE k - (C + 5 + Len(s)) \in 1..Len(e)
    <3>1. full[k] = e[k - (C + 5 + Len(s))]
      <4> DEFINE l == k - (C + 5 + Len(s))
      <4>1. l \in 1..Len(e) /\ C + 5 + Len(s) + l = k
        BY <1>1, <2>4
      <4> HIDE DEF l
      <4>2. full[k] = e[l]
        BY <2>1, <4>1
      <4> QED BY <4>2 DEF l
    <3>2. e[k - (C + 5 + Len(s))] \in Digits
      BY <2>4
    <3> QED BY <3>1, <3>2, BlankDiffers
  <2> DEFINE d == Len(s)
             f == Len(e)
  <2>5. C \in Nat /\ d \in Nat /\ f \in Nat /\ k \in (C + 4)..(C + 5 + d + f)
    BY <1>1
  <2> HIDE DEF C, d, f
  <2>6. k = C + 4 \/ k = C + 5 + d \/ k - (C + 4) \in 1..d \/ k - (C + 5 + d) \in 1..f
    BY <2>5
  <2> QED BY <2>2, <2>3, <2>4, <2>6 DEF d, f
<1>3. Len(full) > NameLimit
  BY <1>1
<1>4. full[C + 3] = Blank /\ full[C + 2] = "-" /\ C + 3 \in 1..NameLimit
  BY <1>1 DEF Laid
<1>5. PICK cut \in (C + 3)..NameLimit :
         full[cut] = Blank /\ LimitPathComponent(full) = Trim(SubSeq(full, 1, cut), {Blank})
  BY <1>1, <1>3, <1>4, CutAtSpace
<1>6. cut = C + 3
  <2>1. cut \notin (C + 4)..p
    BY <1>2, <1>5
  <2>2. cut <= p /\ cut >= C + 3
    BY <1>1
  <2> QED BY <1>1, <2>1, <2>2
<1>7. cut \in 1..Len(full) /\ C + 2 \in 1..cut
  BY <1>1, <1>3
<1>8. PICK i, j \in 1..cut :
         /\ Part(full, i, j, LimitPathComponent(full))
         /\ full[j] # Blank
  <2> DEFINE q == C + 2
  <2>1. full[q] # Blank /\ q \in 1..cut
    BY <1>4, <1>7, BlankDiffers
  <2> HIDE DEF q
  <2>2. \E i, j \in 1..cut :
           /\ Part(full, i, j, Trim(SubSeq(full, 1, cut), {Blank}))
           /\ full[i] # Blank /\ full[j] # Blank
           /\ \A k \in 1..cut : full[k] # Blank => i <= k /\ k <= j
    BY <1>1, <1>7, <2>1, PartTrimmed, Zenon
  <2> QED BY <1>5, <2>2
<1>9. j # cut
  BY <1>5, <1>8
<1>10. Len(LimitPathComponent(full)) = j - i + 1
  BY <1>8 DEF Part
<1> QED BY <1>1, <1>6, <1>9, <1>10

\* Such a stretch stays in its directory.
LEMMA KeptSound ==
    ASSUME NEW full, NEW c \in Seq(Sound), NEW s \in Seq(Digits), NEW e \in Seq(Digits),
           Laid(full, c, s, e), Len(c) >= 1 => c[1] # ".",
           NEW i, NEW j, NEW r, Part(full, i, j, r), Begins(c, i)
    PROVE  "/" \notin ToSet(r) /\ r[1] # "."
<1>1. r \in Seq(Sound) /\ Len(c) \in Nat /\ i \in Nat /\ j \in Nat /\ i <= j
  BY DEF Part
<1>2. "/" \notin Sound /\ "-" # "." /\ Blank # "."
  BY DEF Sound, Blank
<1>3. ToSet(r) \subseteq Sound
  BY <1>1 DEF ToSet
<1>4. r[1] = full[i]
  <2>1. 1 \in 1..(j - i + 1) /\ i + 1 - 1 = i
    BY <1>1
  <2> QED BY <2>1 DEF Part
<1>5. full[i] # "."
  <2>1. CASE i = 2
    <3>1. full[2] = "-"
      BY <2>1 DEF Begins, Laid
    <3> QED BY <1>2, <2>1, <3>1
  <2>2. CASE i = 1 /\ Len(c) = 0
    <3>1. full[1] = Blank
      BY <2>2 DEF Laid
    <3> QED BY <1>2, <2>2, <3>1
  <2>3. CASE i = 1 /\ Len(c) >= 1
    <3>1. full[1] = c[1]
      BY <1>1, <2>3 DEF Laid
    <3> QED BY <2>3, <3>1
  <2> QED BY <1>1, <2>1, <2>2, <2>3 DEF Begins
<1> QED BY <1>2, <1>3, <1>4, <1>5

\* Play finds the code in it.
LEMMA KeptIsFound ==
    ASSUME NEW full, NEW c \in Seq(Sound), NEW season \in Nat, NEW episode \in Nat,
           NEW i, NEW j, NEW r, Part(full, i, j, r), Begins(c, i),
           Laid(full, c, Two(season), Two(episode)),
           j >= Len(c) + 5 + Len(Two(season)) + Len(Two(episode))
    PROVE  MatchEpisode(r, season, episode)
<1> DEFINE s == Two(season)
           e == Two(episode)
           C == Len(c)
           d == Len(s)
           f == Len(e)
           ess == <<"S">>
           n1 == ess \o s
           n2 == n1 \o Mid
           needle == n2 \o e
           at == C + 5 - i
           last == at + Len(needle) - 1
<1>1. /\ s \in Seq(Digits) /\ Padded(season) = s /\ s \in Seq(Sound)
      /\ e \in Seq(Digits) /\ Padded(episode) = e /\ e \in Seq(Sound)
  BY TwoDigits, Parts
<1>2. MatchEpisode(r, season, episode)
        <=> \E k \in 1..(Len(r) - Len(needle) + 1) : SubSeq(r, k, k + Len(needle) - 1) = needle
  BY <1>1 DEF MatchEpisode, Mid
<1>3. ess \in Seq(Sound) /\ Len(ess) = 1 /\ ess[1] = "S"
  <2>1. "S" \in Sound
    BY DEF Sound, Marks
  <2> QED BY <2>1, Single
<1> HIDE DEF s, e, ess
<1>4. Behind(ess, s, n1)
  BY <1>1, <1>3, PartBehind
<1>5. Behind(n1, Mid, n2)
  BY <1>4, Parts, PartBehind DEF Behind
<1>6. Behind(n2, e, needle)
  BY <1>1, <1>5, PartBehind DEF Behind
<1>7. Len(Mid) = 1 /\ Mid[1] = "E"
  BY Parts
<1> HIDE DEF n1, n2, needle
<1>8. /\ C \in Nat /\ d \in Nat /\ f \in Nat /\ i \in Nat /\ j \in Nat /\ i \in {1, 2}
      /\ j >= C + 5 + d + f
  <2>1. d \in Nat /\ f \in Nat /\ C \in Nat
    BY <1>1
  <2>2. i \in Nat /\ j \in Nat /\ i \in {1, 2}
    BY DEF Part, Begins
  <2> QED BY <2>1, <2>2 DEF s, e
<1>9. Len(n1) = 1 + d /\ Len(n2) = 2 + d /\ Len(needle) = 2 + d + f /\ needle \in Seq(Sound)
  <2>1. Len(n1) = 1 + d
    BY <1>3, <1>4 DEF Behind
  <2>2. Len(n2) = Len(n1) + 1
    BY <1>5, <1>7 DEF Behind
  <2>3. Len(needle) = Len(n2) + f /\ needle \in Seq(Sound)
    BY <1>6 DEF Behind
  <2> HIDE DEF d, f
  <2> QED BY <1>8, <2>1, <2>2, <2>3
<1>10. \A k \in 1..Len(needle) : needle[k] = full[C + 3 + k]
  <2>1. /\ \A k \in 1..Len(n2) : needle[k] = n2[k]
        /\ \A k \in 1..Len(n1) : n2[k] = n1[k]
    BY <1>5, <1>6 DEF Behind
  <2>2. /\ full[C + 4] = "S" /\ full[C + 5 + d] = "E"
        /\ \A k \in 1..d : full[C + 4 + k] = s[k]
        /\ \A k \in 1..f : full[C + 5 + d + k] = e[k]
    BY DEF Laid, s, e
  <2>3. needle[1] = "S" /\ \A k \in 1..d : needle[1 + k] = s[k]
    <3>1. n1[1] = "S" /\ \A k \in 1..d : n1[1 + k] = s[k]
      BY <1>3, <1>4 DEF Behind
    <3>2. /\ 1 \in 1..Len(n1) /\ 1 \in 1..Len(n2)
          /\ \A k \in 1..d : 1 + k \in 1..Len(n1) /\ 1 + k \in 1..Len(n2)
      BY <1>8, <1>9
    <3> QED BY <2>1, <3>1, <3>2
  <2>4. needle[2 + d] = "E"
    <3>1. n2[Len(n1) + 1] = "E"
      BY <1>5, <1>7 DEF Behind
    <3>2. Len(n1) + 1 = 2 + d /\ 2 + d \in 1..Len(n2)
      BY <1>8, <1>9
    <3> QED BY <2>1, <3>1, <3>2
  <2>5. \A k \in 1..f : needle[2 + d + k] = e[k]
    BY <1>6, <1>9 DEF Behind
  <2> HIDE DEF C, d, f
  <2>6. ASSUME NEW k \in 1..Len(needle) PROVE needle[k] = full[C + 3 + k]
    <3>1. CASE k = 1
      BY <1>8, <2>2, <2>3, <3>1
    <3>2. CASE k \in 2..(1 + d)
      <4> DEFINE l == k - 1
      <4>1. l \in 1..d /\ k = 1 + l /\ C + 3 + k = C + 4 + l
        BY <1>8, <3>2
      <4> HIDE DEF l
      <4> QED BY <2>2, <2>3, <4>1
    <3>3. CASE k = 2 + d
      <4>1. C + 3 + k = C + 5 + d
        BY <1>8, <3>3
      <4> QED BY <2>2, <2>4, <3>3, <4>1
    <3>4. CASE k \in (3 + d)..(2 + d + f)
      <4> DEFINE l == k - (2 + d)
      <4>1. l \in 1..f /\ k = 2 + d + l /\ C + 3 + k = C + 5 + d + l
        BY <1>8, <3>4
      <4> HIDE DEF l
      <4> QED BY <2>2, <2>5, <4>1
    <3> QED BY <1>8, <1>9, <3>1, <3>2, <3>3, <3>4
  <2> QED BY <2>6
<1>11. /\ r \in Seq(Sound) /\ Len(r) = j - i + 1
       /\ \A k \in 1..Len(r) : r[k] = full[i + k - 1]
  BY DEF Part
<1> HIDE DEF C, d, f
<1>12. at \in 1..(Len(r) - Len(needle) + 1) /\ last <= Len(r) /\ last - at + 1 = Len(needle)
  <2> DEFINE m == Len(needle)
             l == Len(r)
  <2>1. m = 2 + d + f /\ l = j - i + 1
    BY <1>9, <1>11
  <2> HIDE DEF m, l
  <2>2. at \in 1..(l - m + 1) /\ at + m - 1 <= l /\ (at + m - 1) - at + 1 = m
    BY <1>8, <2>1
  <2> QED BY <2>2 DEF m, l
<1>13. SubSeq(r, at, last) = needle
  <2> DEFINE u == SubSeq(r, at, last)
  <2>1. at \in Int /\ last \in Int /\ at <= last /\ at >= 1 /\ Len(needle) \in Nat /\ Len(r) \in Nat
    BY <1>8, <1>9, <1>11
  <2>2. \A k \in at..last : r[k] \in Sound
    <3>1. last <= Len(r)
      BY <1>12
    <3> HIDE DEF at, last
    <3>2. \A k \in at..last : k \in 1..Len(r)
      BY <2>1, <3>1
    <3> QED BY <1>11, <3>2
  <2> HIDE DEF at, last
  <2>3. /\ u \in Seq(Sound) /\ Len(u) = IF at <= last THEN last - at + 1 ELSE 0
        /\ \A k \in 1..(last - at + 1) : u[k] = r[at + k - 1]
    BY <2>1, <2>2, SubSeqProperties
  <2> HIDE DEF u
  <2>4. Len(u) = Len(needle) /\ \A k \in 1..Len(needle) : u[k] = r[at + k - 1]
    BY <1>12, <2>1, <2>3
  <2>5. ASSUME NEW k \in 1..Len(needle) PROVE u[k] = needle[k]
    <3>1. at + k - 1 \in 1..Len(r) /\ i + (at + k - 1) - 1 = C + 3 + k
      BY <1>8, <1>12, <2>1 DEF at
    <3>2. r[at + k - 1] = full[i + (at + k - 1) - 1]
      BY <1>11, <3>1
    <3> QED BY <1>10, <2>4, <3>1, <3>2
  <2>6. u = needle
    BY <1>9, <2>3, <2>4, <2>5, SeqEqual
  <2> QED BY <2>6 DEF u
<1> HIDE DEF at
<1> QED BY <1>2, <1>12, <1>13 DEF last

\* A number in a text, with no digit behind it, is the same in texts that agree there.
NumberAt(g, q, s) ==
    (\A k \in 1..Len(s) : g[q + k] = s[k]) /\ g[q + Len(s) + 1] \notin Digits
Agree(g, h, q, n) == \A k \in 1..n : g[q + k] = h[q + k]

LEMMA NumbersEnd ==
    ASSUME NEW s \in Seq(Digits), NEW t \in Seq(Digits), NEW g, NEW h, NEW q \in Nat,
           NumberAt(g, q, s), NumberAt(h, q, t), Agree(g, h, q, Len(s)), Agree(g, h, q, Len(t))
    PROVE  s = t
<1>1. Len(s) \in Nat /\ Len(t) \in Nat
  OBVIOUS
<1>2. ~(Len(s) < Len(t))
  <2> SUFFICES ASSUME Len(s) < Len(t) PROVE FALSE
    OBVIOUS
  <2> DEFINE k == Len(s) + 1
  <2>1. k \in 1..Len(t) /\ q + k = q + Len(s) + 1
    BY <1>1
  <2>2. t[k] \in Digits
    BY <2>1
  <2> HIDE DEF k
  <2>3. g[q + k] = h[q + k] /\ h[q + k] = t[k]
    BY <2>1 DEF NumberAt, Agree
  <2> QED BY <2>1, <2>2, <2>3 DEF NumberAt
<1>3. ~(Len(t) < Len(s))
  <2> SUFFICES ASSUME Len(t) < Len(s) PROVE FALSE
    OBVIOUS
  <2> DEFINE k == Len(t) + 1
  <2>1. k \in 1..Len(s) /\ q + k = q + Len(t) + 1
    BY <1>1
  <2>2. s[k] \in Digits
    BY <2>1
  <2> HIDE DEF k
  <2>3. g[q + k] = h[q + k] /\ g[q + k] = s[k]
    BY <2>1 DEF NumberAt, Agree
  <2> QED BY <2>1, <2>2, <2>3 DEF NumberAt
<1>4. Len(s) = Len(t)
  BY <1>1, <1>2, <1>3
<1>5. \A k \in 1..Len(s) : s[k] = t[k]
  BY <1>4 DEF NumberAt, Agree
<1> QED BY <1>4, <1>5, SeqEqual

\* Two names of a show of which the same is kept have the same code.
LEMMA KeptDiffer ==
    ASSUME NEW c \in Seq(Sound), NEW r,
           NEW full, NEW s \in Seq(Digits), NEW e \in Seq(Digits), Laid(full, c, s, e),
           NEW i, NEW j, Part(full, i, j, r), Begins(c, i), j >= Len(c) + 5 + Len(s) + Len(e),
           NEW whole, NEW t \in Seq(Digits), NEW f \in Seq(Digits), Laid(whole, c, t, f),
           NEW k, NEW l, Part(whole, k, l, r), Begins(c, k), l >= Len(c) + 5 + Len(t) + Len(f)
    PROVE  s = t /\ e = f
<1> DEFINE C == Len(c)
<1>1. /\ C \in Nat /\ Len(s) \in Nat /\ Len(e) \in Nat /\ Len(t) \in Nat /\ Len(f) \in Nat
      /\ i \in Nat /\ j \in Nat /\ k \in Nat /\ l \in Nat
      /\ i \in {1, 2} /\ k \in {1, 2} /\ i <= j /\ k <= l
  <2>1. C \in Nat /\ Len(s) \in Nat /\ Len(e) \in Nat /\ Len(t) \in Nat /\ Len(f) \in Nat
    OBVIOUS
  <2>2. i \in Nat /\ j \in Nat /\ i <= j
    BY DEF Part
  <2>3. k \in Nat /\ l \in Nat /\ k <= l
    BY DEF Part
  <2>4. i \in {1, 2} /\ k \in {1, 2}
    BY DEF Begins
  <2> QED BY <2>1, <2>2, <2>3, <2>4
<1>2. /\ full[C + 1] = Blank /\ full[C + 2] = "-"
      /\ \A n \in 1..Len(s) : full[C + 4 + n] = s[n]
      /\ full[C + 5 + Len(s)] = "E"
      /\ \A n \in 1..Len(e) : full[C + 5 + Len(s) + n] = e[n]
      /\ full[C + 5 + Len(s) + Len(e) + 1] = Blank
  BY DEF Laid
<1>3. /\ whole[C + 1] = Blank /\ whole[C + 2] = "-"
      /\ \A n \in 1..Len(t) : whole[C + 4 + n] = t[n]
      /\ whole[C + 5 + Len(t)] = "E"
      /\ \A n \in 1..Len(f) : whole[C + 5 + Len(t) + n] = f[n]
      /\ whole[C + 5 + Len(t) + Len(f) + 1] = Blank
  BY DEF Laid
<1>4. /\ \A n \in 1..(j - i + 1) : r[n] = full[i + n - 1]
      /\ \A n \in 1..(l - k + 1) : r[n] = whole[k + n - 1]
      /\ j - i = l - k
  <2>1. Len(r) = j - i + 1 /\ Len(r) = l - k + 1
    BY DEF Part
  <2>2. j - i + 1 = l - k + 1
    BY <2>1
  <2>3. j - i = l - k
    BY <1>1, <2>2
  <2> QED BY <2>3 DEF Part
<1>5. i = k /\ j = l
  <2>1. CASE C >= 1
    <3>1. i = 1 /\ k = 1
      BY <1>1, <2>1 DEF Begins
    <3> QED BY <1>1, <1>4, <3>1
  <2>2. CASE C = 0
    <3>1. full[1] = Blank /\ full[2] = "-" /\ whole[1] = Blank /\ whole[2] = "-"
      BY <1>2, <1>3, <2>2
    <3>2. r[1] = full[i] /\ r[1] = whole[k]
      <4>1. 1 \in 1..(j - i + 1) /\ 1 \in 1..(l - k + 1) /\ i + 1 - 1 = i /\ k + 1 - 1 = k
        BY <1>1
      <4> QED BY <1>4, <4>1
    <3>3. "-" # Blank
      BY BlankDiffers
    <3>4. ~(i = 1 /\ k = 2) /\ ~(i = 2 /\ k = 1)
      BY <3>1, <3>2, <3>3
    <3>5. i = k
      BY <1>1, <3>4
    <3> QED BY <1>1, <1>4, <3>5
  <2> QED BY <1>1, <2>1, <2>2
<1>6. \A n \in 2..j : full[n] = whole[n]
  <2> SUFFICES ASSUME NEW n \in 2..j PROVE full[n] = whole[n]
    OBVIOUS
  <2> DEFINE m == n - i + 1
  <2>1. m \in 1..(j - i + 1) /\ i + m - 1 = n
    BY <1>1
  <2> HIDE DEF m
  <2>2. r[m] = full[i + m - 1] /\ r[m] = whole[i + m - 1]
    BY <1>4, <1>5, <2>1
  <2> QED BY <2>1, <2>2
<1> HIDE DEF C
<1>7. "E" \notin Digits /\ Blank \notin Digits
  BY BlankDiffers
<1>8. j >= C + 5 + Len(s) + Len(e) /\ j >= C + 5 + Len(t) + Len(f)
  BY <1>5 DEF C
<1>9. s = t
  <2> DEFINE q == C + 4
  <2>1. q \in Nat /\ q + Len(s) + 1 = C + 5 + Len(s) /\ q + Len(t) + 1 = C + 5 + Len(t)
    BY <1>1
  <2>2. \A n \in 1..Len(s) : q + n \in 2..j
    BY <1>1, <1>8
  <2>3. \A n \in 1..Len(t) : q + n \in 2..j
    BY <1>1, <1>8
  <2>4. full[q + Len(s) + 1] \notin Digits /\ whole[q + Len(t) + 1] \notin Digits
    BY <1>2, <1>3, <1>7, <2>1, SMTT(30)
  <2>5. /\ \A n \in 1..Len(s) : full[q + n] = s[n]
        /\ \A n \in 1..Len(t) : whole[q + n] = t[n]
    BY <1>2, <1>3
  <2> HIDE DEF q
  <2>6. Agree(full, whole, q, Len(s)) /\ Agree(full, whole, q, Len(t))
    BY <1>6, <2>2, <2>3 DEF Agree
  <2>7. NumberAt(full, q, s) /\ NumberAt(whole, q, t)
    BY <2>4, <2>5 DEF NumberAt
  <2> QED BY <2>1, <2>6, <2>7, NumbersEnd
<1>10. e = f
  <2> DEFINE q == C + 5 + Len(s)
  <2>1. q \in Nat
    BY <1>1
  <2>2. \A n \in 1..Len(e) : q + n \in 2..j
    BY <1>1, <1>8
  <2>3. \A n \in 1..Len(f) : q + n \in 2..j
    BY <1>1, <1>8, <1>9
  <2>4. full[q + Len(e) + 1] \notin Digits /\ whole[q + Len(f) + 1] \notin Digits
    BY <1>2, <1>3, <1>7, <1>9
  <2>5. /\ \A n \in 1..Len(e) : full[q + n] = e[n]
        /\ \A n \in 1..Len(f) : whole[q + n] = f[n]
    BY <1>2, <1>3, <1>9
  <2> HIDE DEF q
  <2>6. Agree(full, whole, q, Len(e)) /\ Agree(full, whole, q, Len(f))
    BY <1>6, <2>2, <2>3 DEF Agree
  <2>7. NumberAt(full, q, e) /\ NumberAt(whole, q, f)
    BY <2>4, <2>5 DEF NumberAt
  <2> QED BY <2>1, <2>6, <2>7, NumbersEnd
<1> QED BY <1>9, <1>10

\* A name that is not cut ends in ".mp4", which Scan looks for.
LEMMA WholeNameListed ==
    ASSUME NEW c \in Seq(Sound), NEW s \in Seq(Digits), NEW e \in Seq(Digits),
           NEW t \in Seq(Sound)
    PROVE  Listed(WholeName(c, s, e, t))
<1> DEFINE stem == c \o Lead \o s \o Mid \o e \o Rear \o t
           full == WholeName(c, s, e, t)
<1>1. stem \in Seq(Sound) /\ Ext \in Seq(Sound) /\ Len(Ext) = 4
  BY Parts
<1>2. full = stem \o Ext
  BY DEF WholeName
<1> HIDE DEF stem, full
<1>3. /\ full \in Seq(Sound) /\ Len(full) = Len(stem) + 4 /\ Len(stem) \in Nat
      /\ \A k \in 1..4 : full[Len(stem) + k] = Ext[k]
  <2>1. Behind(stem, Ext, full)
    BY <1>1, <1>2, PartBehind
  <2> HIDE DEF Ext
  <2> QED BY <1>1, <2>1 DEF Behind
<1> DEFINE n == Len(stem)
<1>4. n \in 0..Len(full) /\ Len(full) = n + 4 /\ \A k \in 1..4 : full[n + k] = Ext[k]
  BY <1>3
<1> HIDE DEF n
<1>5. SubSeq(full, n + 1, Len(full)) = Ext
  <2> DEFINE tail == SubSeq(full, n + 1, Len(full))
  <2>1. tail \in Seq(Sound) /\ Len(tail) = 4
    BY <1>3, <1>4, SMTT(30)
  <2>2. \A k \in 1..4 : tail[k] = full[n + k]
    BY <1>3, <1>4, SMTT(30)
  <2> HIDE DEF tail
  <2>3. tail = Ext
    BY <1>1, <1>4, <2>1, <2>2, SeqEqual
  <2> QED BY <2>3 DEF tail
<1>6. Ext \in Extensions
  BY DEF Ext, Extensions
<1>7. Listed(full)
  BY <1>4, <1>5, <1>6 DEF Listed
<1> QED BY <1>7 DEF full

\* The file of an episode.
LEMMA TargetIsCut ==
    ASSUME NEW show \in Titles, NEW title \in Titles, NEW season \in Nat, NEW episode \in Nat
    PROVE  \E full :
              /\ TargetName(show, season, episode, title) = LimitPathComponent(full)
              /\ Laid(full, Clean(show), Two(season), Two(episode))
              /\ full = FileName(show, season, episode, title) /\ Listed(full)
<1> DEFINE full == WholeName(Clean(show), Two(season), Two(episode), Clean(title))
<1>1. /\ TargetName(show, season, episode, title) = LimitPathComponent(full)
      /\ full = FileName(show, season, episode, title)
  BY DEF TargetName, FileName, WholeName, Lead, Mid, Rear, Ext
<1>2. Clean(show) \in Seq(Sound) /\ Clean(title) \in Seq(Sound)
  BY TitlesAreLetters, Cleaned
<1>3. Two(season) \in Seq(Digits) /\ Two(episode) \in Seq(Digits)
  BY TwoDigits
<1>4. Laid(full, Clean(show), Two(season), Two(episode))
  BY <1>2, <1>3, WholeNameLaid
<1>5. Listed(full)
  BY <1>2, <1>3, WholeNameListed
<1> QED BY <1>1, <1>4, <1>5

\* Two episodes of a show.
LEMMA TargetsApart ==
    ASSUME NEW show \in Titles, NEW ta \in Titles, NEW sa \in Nat, NEW ea \in Nat,
           NEW tb \in Titles, NEW sb \in Nat, NEW eb \in Nat,
           Len(Clean(show)) + Len(Two(sa) \o Two(ea)) + 6 <= NameLimit
    PROVE  LET r == TargetName(show, sa, ea, ta)
           IN /\ <<sa, ea>> # <<sb, eb>> => r # TargetName(show, sb, eb, tb)
              /\ "/" \notin ToSet(r) /\ r[1] # "." /\ MatchEpisode(r, sa, ea)
              /\ Len(FileName(show, sa, ea, ta)) <= NameLimit => Listed(r)
<1> DEFINE c == Clean(show)
           s == Two(sa)
           e == Two(ea)
           t == Two(sb)
           f == Two(eb)
           r == TargetName(show, sa, ea, ta)
           u == TargetName(show, sb, eb, tb)
<1>1. c \in Seq(Sound) /\ Len(c) \in Nat /\ NameLimit \in Nat
  <2>1. c \in Seq(Sound)
    BY TitlesAreLetters, Cleaned
  <2>2. NameLimit \in Nat
    BY FormatsAssumption
  <2> HIDE DEF c
  <2> QED BY <2>1, <2>2
<1>2. (Len(c) >= 1 => c[1] # Blank) /\ (Len(c) >= 1 => c[1] # ".")
  BY TitlesAreLetters, Cleaned DEF Blank
<1>3. /\ s \in Seq(Digits) /\ e \in Seq(Digits) /\ t \in Seq(Digits) /\ f \in Seq(Digits)
      /\ Len(s) >= 2 /\ Len(e) >= 2 /\ Len(t) >= 2 /\ Len(f) >= 2
  BY TwoDigits
<1>4. PICK full : /\ r = LimitPathComponent(full) /\ Laid(full, c, s, e)
                  /\ full = FileName(show, sa, ea, ta) /\ Listed(full)
  BY TargetIsCut
<1>5. PICK whole : u = LimitPathComponent(whole) /\ Laid(whole, c, t, f)
  BY TargetIsCut
<1>6. Len(c) + Len(s) + Len(e) + 6 <= NameLimit
  <2>1. Len(s \o e) = Len(s) + Len(e)
    BY <1>3, ConcatProperties
  <2>2. Len(c) + Len(s \o e) + 6 <= NameLimit
    OBVIOUS
  <2> HIDE DEF s, e, c
  <2> DEFINE d == Len(s)
             g == Len(e)
             C == Len(c)
  <2>3. d \in Nat /\ g \in Nat /\ C \in Nat /\ NameLimit \in Nat /\ C + (d + g) + 6 <= NameLimit
    BY <1>1, <1>3, <2>1, <2>2
  <2> HIDE DEF d, g, C
  <2>4. C + d + g + 6 <= NameLimit
    BY <2>3
  <2> QED BY <2>4 DEF d, g, C
<1> HIDE DEF c, r, u
<1>7. PICK i, j \in 1..Len(full) :
         Part(full, i, j, r) /\ Begins(c, i) /\ j >= Len(c) + 5 + Len(s) + Len(e)
  <2> HIDE DEF s, e
  <2>1. Len(s) >= 1 /\ Len(e) >= 1
    BY <1>3
  <2> QED BY <1>1, <1>3, <1>4, <1>6, <2>1, <1>2, NameKept
<1>8. "/" \notin ToSet(r) /\ r[1] # "."
  <2> HIDE DEF s, e
  <2> QED BY <1>1, <1>3, <1>4, <1>7, <1>2, KeptSound
<1>9. MatchEpisode(r, sa, ea)
  BY <1>1, <1>4, <1>7, KeptIsFound
<1> HIDE DEF s, e, t, f
<1>10. ASSUME r = u PROVE s = t /\ e = f
  <2>1. CASE Len(c) + Len(t) + Len(f) + 6 <= NameLimit
    <3>1. Len(t) >= 1 /\ Len(f) >= 1
      BY <1>3
    <3>2. PICK k, l \in 1..Len(whole) :
             Part(whole, k, l, u) /\ Begins(c, k) /\ l >= Len(c) + 5 + Len(t) + Len(f)
      BY <1>1, <1>3, <1>5, <2>1, <3>1, <1>2, NameKept
    <3> QED BY <1>1, <1>3, <1>4, <1>5, <1>7, <1>10, <3>2, KeptDiffer, SMTT(30)
  <2>2. CASE Len(c) + Len(t) + Len(f) + 6 > NameLimit
    <3> DEFINE C == Len(c)
               d == Len(s)
               g == Len(e)
    <3>1. /\ C \in Nat /\ d \in Nat /\ g \in Nat /\ d >= 2 /\ g >= 2 /\ NameLimit \in Nat
          /\ C + d + g + 6 <= NameLimit
      BY <1>1, <1>3, <1>6
    <3>2. Len(r) = j - i + 1 /\ i \in {1, 2} /\ j \in Nat /\ j >= C + 5 + d + g
      BY <1>7 DEF Part, Begins
    <3> HIDE DEF C, d, g
    <3>3. C + 3 <= NameLimit
      BY <3>1
    <3>4. Len(u) <= C + 2
      BY <1>1, <1>3, <1>5, <2>2, <3>3, NameWithoutCode DEF C
    <3>5. j - i + 1 > C + 2
      BY <3>1, <3>2
    <3>6. j - i + 1 <= C + 2
      BY <1>10, <3>2, <3>4
    <3> QED BY <3>1, <3>2, <3>5, <3>6
  <2>3. Len(c) \in Nat /\ Len(t) \in Nat /\ Len(f) \in Nat /\ NameLimit \in Nat
    BY <1>1, <1>3
  <2> QED BY <2>1, <2>2, <2>3
<1>11. r = u => <<sa, ea>> = <<sb, eb>>
  BY <1>10, TwoDiffer DEF s, e, t, f
<1>12. Len(FileName(show, sa, ea, ta)) <= NameLimit => Listed(r)
  BY <1>4 DEF LimitPathComponent
<1> QED BY <1>8, <1>9, <1>11, <1>12 DEF r, u

-----------------------------------------------------------------------------
(* The answers. *)

Answered ==
    \/ asked = <<"nothing">>
    \/ \E next, now \in Nat :
          asked = <<"due", next, now>> /\ result = <<TextLeq(FormatTime(next), FormatTime(now))>>
    \/ \E show \in Titles, a, b \in Nat \X Nat \X Titles :
          /\ asked = <<"names", show, a, b>>
          /\ result = <<TargetName(show, a[1], a[2], a[3]), TargetName(show, b[1], b[2], b[3])>>
    \/ \E boxes \in Seq(Boxes) :
          asked = <<"boxes", boxes>> /\ result = <<NeedsFaststart(boxes)>>

\* Nothing has been asked.
LEMMA AnswersBegin == FormatsInit => Answered
BY DEF FormatsInit, Answered

\* Each operation leaves its own answer.
LEMMA AnswersStep == ASSUME Answered, [FormatsNext]_formatsVars PROVE Answered'
<1>1. CASE UNCHANGED formatsVars
  BY <1>1 DEF formatsVars, Answered
<1>2. ASSUME NEW next \in 0..MaxTime, NEW now \in 0..MaxTime, ListDue(next, now)
      PROVE  Answered'
  BY <1>2, FormatsAssumption DEF ListDue, Answered
<1>3. ASSUME NEW show \in Titles, NEW a \in Numbers \X Numbers \X Titles,
             NEW b \in Numbers \X Numbers \X Titles, NameTwo(show, a, b)
      PROVE  Answered'
  <2>1. a \in Nat \X Nat \X Titles /\ b \in Nat \X Nat \X Titles
    BY FormatsAssumption
  <2> QED BY <1>3, <2>1 DEF NameTwo, Answered
<1>4. ASSUME NEW boxes \in Files, ReadBoxes(boxes) PROVE Answered'
  <2>1. boxes \in Seq(Boxes)
    BY FormatsAssumption DEF Boxes
  <2> QED BY <1>4, <2>1 DEF ReadBoxes, Answered
<1> QED BY <1>1, <1>2, <1>3, <1>4 DEF FormatsNext

\* So it is an invariant.
LEMMA AnsweredAlways == FormatsSpec => []Answered
<1>1. FormatsInit => Answered
  BY AnswersBegin
<1>2. Answered /\ [FormatsNext]_formatsVars => Answered'
  BY AnswersStep
<1> QED BY <1>1, <1>2, PTL DEF FormatsSpec

\* db.ListDue compares texts that FormatTime wrote without the zeros at their end: whatever the
\* two times, no retry is taken a second early, and none a second late is left.
THEOREM RetryIsDue == FormatsSpec => []DueWithinSecond
<1>1. Answered => DueWithinSecond
  <2> SUFFICES ASSUME Answered, asked[1] = "due"
               PROVE  /\ result[1] => asked[2] < asked[3] + Second
                      /\ asked[2] + Second <= asked[3] => result[1]
    BY DEF DueWithinSecond
  <2>1. PICK next, now \in Nat :
           asked = <<"due", next, now>> /\ result = <<TextLeq(FormatTime(next), FormatTime(now))>>
    BY DEF Answered
  <2>2. asked[2] = next /\ asked[3] = now
    BY <2>1
  <2>3. result[1] <=> TextLeq(FormatTime(next), FormatTime(now))
    BY <2>1
  <2> QED BY <2>2, <2>3, TimesCompare
<1> QED BY <1>1, AnsweredAlways, PTL

\* runJob's target name, cut by scrub.LimitPathComponent: for all titles and numbers, episodes
\* whose code is in front of the cut get files of their own, in their directory, with the code
\* that app.matchEpisode looks for; those whose names are not cut are in the list of lib.Scan.
THEOREM EpisodesStayApart == FormatsSpec => []EpisodesApart
<1>1. Answered => EpisodesApart
  <2> SUFFICES ASSUME Answered, asked[1] = "names" PROVE EpisodesApart
    BY DEF EpisodesApart
  <2>1. PICK show \in Titles, a \in Nat \X Nat \X Titles, b \in Nat \X Nat \X Titles :
           /\ asked = <<"names", show, a, b>>
           /\ result = <<TargetName(show, a[1], a[2], a[3]), TargetName(show, b[1], b[2], b[3])>>
    BY DEF Answered
  <2>2. asked[2] = show /\ asked[3] = a /\ asked[4] = b
    BY <2>1
  <2>3. /\ result[1] = TargetName(show, a[1], a[2], a[3])
        /\ result[2] = TargetName(show, b[1], b[2], b[3])
    BY <2>1
  <2>4. /\ a[1] \in Nat /\ a[2] \in Nat /\ a[3] \in Titles
        /\ b[1] \in Nat /\ b[2] \in Nat /\ b[3] \in Titles
    OBVIOUS
  <2>5. ASSUME Len(Clean(show)) + Len(Two(a[1]) \o Two(a[2])) + 6 <= NameLimit
        PROVE  /\ <<a[1], a[2]>> # <<b[1], b[2]>> => result[1] # result[2]
               /\ "/" \notin ToSet(result[1]) /\ result[1][1] # "."
               /\ MatchEpisode(result[1], a[1], a[2])
               /\ Len(FileName(show, a[1], a[2], a[3])) <= NameLimit => Listed(result[1])
    BY <2>3, <2>4, <2>5, TargetsApart, ZenonT(30)
  <2> QED BY <2>2, <2>5 DEF EpisodesApart
<1> QED BY <1>1, AnsweredAlways, PTL

\* mux.boxPositions and NeedsFaststart: in every file of whole boxes, however their sizes are
\* written, the index is found late exactly if it is late, or not there.
THEOREM LateIndexIsSeen == FormatsSpec => []LateIndexSeen
<1>1. Answered => LateIndexSeen
  <2> SUFFICES ASSUME Answered, asked[1] = "boxes" PROVE LateIndexSeen
    BY DEF LateIndexSeen
  <2>1. PICK boxes \in Seq(Boxes) : asked = <<"boxes", boxes>> /\ result = <<NeedsFaststart(boxes)>>
    BY DEF Answered
  <2>2. asked[2] = boxes
    BY <2>1
  <2>3. result[1] <=> NeedsFaststart(boxes)
    BY <2>1
  <2>4. VisibleOnes(boxes, Len(boxes), "moov")
          = {i \in DOMAIN boxes : boxes[i][1] = "moov" /\ Visible(boxes, i)}
    BY DEF VisibleOnes
  <2>5. result[1] <=> ComesLate(boxes, {i \in DOMAIN boxes :
                                          boxes[i][1] = "moov" /\ Visible(boxes, i)})
    BY <2>3, <2>4, FaststartNeeded
  <2> QED BY <2>2, <2>5 DEF LateIndexSeen, ComesLate, Visible
<1> QED BY <1>1, AnsweredAlways, PTL
=============================================================================

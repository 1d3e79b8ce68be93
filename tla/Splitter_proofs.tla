--------------------------- MODULE Splitter_proofs ---------------------------
(***************************************************************************)
(* Proofs about the lexer and its driver: of every dump, read in chunks of *)
(* any size.                                                               *)
(***************************************************************************)
EXTENDS Splitter, SequenceTheorems, WellFoundedInduction, TLAPS

------------------------------------------------------------------------------
(* Natural numbers.  The least element of a set, and induction stated with *)
(* a set of numbers in the place of a predicate.                           *)

LEMMA LessThan ==
  \E R : IsWellFoundedOn(R, Nat) /\ \A x, y \in Nat : x < y => <<x, y>> \in R
<1>1. \A x, y \in Nat : x < y => <<x, y>> \in OpToRel(<, Nat)
  BY DEF OpToRel
<1> QED BY <1>1, NatLessThanWellFounded

LEMMA HasLeast ==
  ASSUME NEW S, S \subseteq Nat, S # {}
  PROVE  Least(S) \in S /\ \A j \in S : Least(S) <= j
<1>1. PICK R : IsWellFoundedOn(R, Nat) /\ \A x, y \in Nat : x < y => <<x, y>> \in R
  BY LessThan
<1>2. PICK k \in S : \A j \in S : <<j, k>> \notin R
  BY <1>1, WFMin, ZenonT(30)
<1>3. ASSUME NEW j \in S PROVE k <= j
  <2>1. j \in Nat /\ k \in Nat OBVIOUS
  <2>2. ~(j < k) BY <1>1, <1>2, <2>1
  <2> QED BY <2>1, <2>2
<1> QED BY <1>3 DEF Least

LEMMA HasGreatest ==
  ASSUME NEW n \in Nat, NEW S, S \subseteq 0..n, S # {}
  PROVE  Greatest(S) \in S /\ \A j \in S : Greatest(S) >= j
<1> DEFINE T == {k \in 0..n : n - k \in S}
<1>1. PICK j \in S : TRUE OBVIOUS
<1>2. n - j \in T BY <1>1
<1>3. T \subseteq Nat OBVIOUS
<1>3a. T # {} BY <1>2
<1>4. Least(T) \in T /\ \A k \in T : Least(T) <= k BY <1>3, <1>3a, HasLeast
<1> DEFINE g == n - Least(T)
<1>5. g \in S BY <1>4
<1>6. ASSUME NEW k \in S PROVE g >= k
  <2>1. n - k \in T OBVIOUS
  <2> QED BY <2>1, <1>4
<1> HIDE DEF g
<1> QED BY <1>5, <1>6 DEF Greatest

LEMMA Induction ==
  ASSUME NEW S, 0 \in S, \A n \in Nat : n \in S => n + 1 \in S
  PROVE  Nat \subseteq S
<1> SUFFICES ASSUME Nat \ S # {} PROVE FALSE OBVIOUS
<1>1. PICK k \in Nat \ S : \A j \in Nat \ S : k <= j BY HasLeast
<1>2. k # 0 /\ k - 1 \in Nat BY <1>1
<1>3. k - 1 \in S BY <1>1, <1>2
<1> QED BY <1>2, <1>3

------------------------------------------------------------------------------
(* Slices of a sequence. *)
LEMMA Slice ==
  ASSUME NEW S, NEW s \in Seq(S), NEW a \in 1..(Len(s) + 1), NEW b \in (a - 1)..Len(s)
  PROVE  /\ SubSeq(s, a, b) \in Seq(S)
         /\ Len(SubSeq(s, a, b)) = b - a + 1
         /\ \A k \in 1..(b - a + 1) : SubSeq(s, a, b)[k] = s[a + k - 1]
<1>1. Len(s) \in Nat BY LenProperties
<1>2. a \in Int /\ b \in Int BY <1>1
<1>3. \A k \in a..b : s[k] \in S BY <1>1, <1>2, ElementOfSeq
<1>4. /\ SubSeq(s, a, b) \in Seq(S)
      /\ Len(SubSeq(s, a, b)) = IF a <= b THEN b - a + 1 ELSE 0
      /\ \A k \in 1..(b - a + 1) : SubSeq(s, a, b)[k] = s[a + k - 1]
  BY <1>2, <1>3, SubSeqProperties
<1> QED BY <1>1, <1>2, <1>4

LEMMA SliceOne ==
  ASSUME NEW S, NEW s \in Seq(S), NEW a \in 1..Len(s)
  PROVE  SubSeq(s, a, a) = <<s[a]>>
<1>1. Len(s) \in Nat BY LenProperties
<1>2. a \in 1..(Len(s) + 1) /\ a \in (a - 1)..Len(s) /\ a - a + 1 = 1 BY <1>1
<1>3. s[a] \in S BY ElementOfSeq
<1> DEFINE t == SubSeq(s, a, a)
           u == <<s[a]>>
<1>4. t \in Seq(S) /\ Len(t) = 1 /\ t[1] = s[a] BY <1>2, Slice
<1>5. u \in Seq(S) /\ Len(u) = 1 /\ u[1] = s[a] BY <1>3
<1> HIDE DEF t, u
<1>6. t = u BY <1>4, <1>5, SeqEqual
<1> QED BY <1>6 DEF t, u

LEMMA SliceTwo ==
  ASSUME NEW S, NEW s \in Seq(S), NEW a \in 1..Len(s), a + 1 <= Len(s)
  PROVE  SubSeq(s, a, a + 1) = <<s[a], s[a + 1]>>
<1>1. Len(s) \in Nat BY LenProperties
<1>2. /\ a \in 1..(Len(s) + 1) /\ a + 1 \in (a - 1)..Len(s) /\ a + 1 - a + 1 = 2
      /\ a + 1 - 1 = a /\ a + 2 - 1 = a + 1 /\ a + 1 \in 1..Len(s)
  BY <1>1
<1>3. s[a] \in S /\ s[a + 1] \in S BY <1>2, ElementOfSeq
<1> DEFINE t == SubSeq(s, a, a + 1)
           u == <<s[a], s[a + 1]>>
<1>4. /\ t \in Seq(S) /\ Len(t) = a + 1 - a + 1
      /\ \A k \in 1..(a + 1 - a + 1) : t[k] = s[a + k - 1]
  BY <1>2, Slice
<1>5. u \in Seq(S) /\ Len(u) = 2 /\ u[1] = s[a] /\ u[2] = s[a + 1] BY <1>3
<1> HIDE DEF t, u
<1>6. Len(t) = 2 /\ t[1] = s[a] /\ t[2] = s[a + 1] BY <1>2, <1>4
<1>7. t = u BY <1>4, <1>5, <1>6, SeqEqual
<1> QED BY <1>7 DEF t, u

------------------------------------------------------------------------------
(* Words: what the lexer cuts out of a text has only symbols of the text.  *)

From(S, t, s) == /\ t \in Seq(S)
                 /\ \A k \in 1..Len(t) : \E j \in 1..Len(s) : t[k] = s[j]

LEMMA FromTrans ==
  ASSUME NEW S, NEW s, NEW t, NEW u, From(S, u, t), From(S, t, s)
  PROVE  From(S, u, s)
BY DEF From

LEMMA SliceFrom ==
  ASSUME NEW S, NEW s \in Seq(S), NEW a \in Int, NEW b \in Int, 1 <= a, b <= Len(s)
  PROVE  From(S, SubSeq(s, a, b), s)
<1>1. Len(s) \in Nat /\ \A k \in a..b : s[k] \in S
  BY LenProperties, ElementOfSeq
<1>2. /\ SubSeq(s, a, b) \in Seq(S)
      /\ Len(SubSeq(s, a, b)) = IF a <= b THEN b - a + 1 ELSE 0
      /\ \A k \in 1..(b - a + 1) : SubSeq(s, a, b)[k] = s[a + k - 1]
  BY <1>1, SubSeqProperties
<1>3. ASSUME NEW k \in 1..Len(SubSeq(s, a, b))
      PROVE  \E j \in 1..Len(s) : SubSeq(s, a, b)[k] = s[j]
  <2>1. a <= b /\ k \in 1..(b - a + 1) BY <1>2
  <2>2. a + k - 1 \in 1..Len(s) BY <1>1, <2>1
  <2> QED BY <1>2, <2>1, <2>2
<1> QED BY <1>2, <1>3 DEF From

LEMMA EmptyFrom == \A S, s : From(S, <<>>, s)
BY EmptySeq DEF From

LEMMA TrimFrom ==
  ASSUME NEW S, NEW s \in Seq(S), NEW cutset
  PROVE  From(S, Trim(s, cutset), s)
<1> DEFINE solid == {k \in DOMAIN s : s[k] \notin cutset}
<1>1. Len(s) \in Nat /\ DOMAIN s = 1..Len(s) BY LenProperties
<1>2. CASE solid = {} BY <1>2, EmptyFrom DEF Trim
<1>3. CASE solid # {}
  <2>1. solid \subseteq 0..Len(s) /\ solid \subseteq Nat BY <1>1
  <2>2. Least(solid) \in 1..Len(s) BY <1>1, <1>3, <2>1, HasLeast
  <2>3. Greatest(solid) \in 1..Len(s) BY <1>1, <1>3, <2>1, HasGreatest
  <2>4. Trim(s, cutset) = SubSeq(s, Least(solid), Greatest(solid)) BY <1>3 DEF Trim
  <2> HIDE DEF solid
  <2> QED BY <1>1, <2>2, <2>3, <2>4, SliceFrom
<1> QED BY <1>2, <1>3

LEMMA TrimSpaceFrom ==
  ASSUME NEW S, NEW s \in Seq(S)
  PROVE  From(S, TrimSpace(s), s) /\ TrimSpace(s) \in Seq(S)
<1>1. From(S, TrimSpace(s), s) BY TrimFrom DEF TrimSpace
<1> QED BY <1>1 DEF From

LEMMA FirstWordType ==
  ASSUME NEW S, NEW s \in Seq(S)
  PROVE  FirstWord(s) \in Seq(S)
<1> DEFINE ends == {k \in DOMAIN s : s[k] \in Space}
<1>1. Len(s) \in Nat /\ DOMAIN s = 1..Len(s) BY LenProperties
<1>2. CASE ends = {} BY <1>2 DEF FirstWord
<1>3. CASE ends # {}
  <2>1. ends \subseteq Nat BY <1>1
  <2>2. Least(ends) \in 1..Len(s) BY <1>1, <1>3, <2>1, HasLeast
  <2>3. FirstWord(s) = SubSeq(s, 1, Least(ends) - 1) BY <1>3 DEF FirstWord
  <2> HIDE DEF ends
  <2>4. From(S, FirstWord(s), s) BY <1>1, <2>2, <2>3, SliceFrom
  <2> QED BY <2>4 DEF From
<1> QED BY <1>2, <1>3

LEMMA PartFrom ==
  ASSUME NEW S, NEW s \in Seq(S), NEW sep, NEW a \in PartStarts(s, sep)
  PROVE  From(S, PartAt(s, sep, a), s)
<1> DEFINE ends == {k \in a..Len(s) : s[k] = sep} \cup {Len(s) + 1}
<1>1. Len(s) \in Nat /\ DOMAIN s = 1..Len(s) BY LenProperties
<1>2. a \in Nat \ {0} BY <1>1 DEF PartStarts
<1>3. ends \subseteq Nat /\ Len(s) + 1 \in ends BY <1>1, <1>2
<1>4. Least(ends) \in ends /\ Least(ends) <= Len(s) + 1 BY <1>3, HasLeast
<1>5. Least(ends) \in Nat BY <1>3, <1>4
<1>6. PartAt(s, sep, a) = SubSeq(s, a, Least(ends) - 1) BY DEF PartAt
<1> HIDE DEF ends
<1> QED BY <1>1, <1>2, <1>4, <1>5, <1>6, SliceFrom

LEMMA FirstOfTwo ==
  ASSUME NEW S, NEW s \in Seq(S), 2 <= Len(s)
  PROVE  SubSeq(s, 1, 2)[1] = s[1] /\ 1 \in 1..Len(s)
<1>1. Len(s) \in Nat BY LenProperties
<1>2. \A k \in 1..2 : s[k] \in S BY <1>1, ElementOfSeq
<1> QED BY <1>1, <1>2, SubSeqProperties

(* What is taken for a DELIMITER command holds the word.                   *)
LEMMA CommandTrimmed ==
  ASSUME NEW S, NEW s \in Seq(S), IsDelimiterCommand(s)
  PROVE  /\ TrimSpace(s) \in Seq(S) /\ TrimSpace(s) # <<>>
         /\ TrimSpace(s)[1] = "DELIMITER" /\ 1 \in 1..Len(TrimSpace(s))
<1> DEFINE t == TrimSpace(s)
           word == <<"DELIMITER", " ">>
<1>1. t \in Seq(S) BY TrimSpaceFrom
<1>2. Len(word) = 2 /\ word[1] = "DELIMITER" OBVIOUS
<1>3. Len(word) <= Len(t) /\ SubSeq(word, 1, Len(word)) = SubSeq(t, 1, Len(word))
  BY DEF IsDelimiterCommand, IsPrefix
<1>4. word \in Seq({"DELIMITER", " "}) OBVIOUS
<1> HIDE DEF t, word
<1>5. 2 <= Len(t) /\ SubSeq(word, 1, 2) = SubSeq(t, 1, 2) /\ 2 <= Len(word)
  BY <1>2, <1>3
<1>6. SubSeq(t, 1, 2)[1] = t[1] /\ 1 \in 1..Len(t) BY <1>1, <1>5, FirstOfTwo
<1>7. SubSeq(word, 1, 2)[1] = word[1] BY <1>4, <1>5, FirstOfTwo
<1>8. t # <<>> BY <1>5, EmptySeq
<1>9. t[1] = "DELIMITER" BY <1>2, <1>5, <1>6, <1>7
<1> QED BY <1>1, <1>6, <1>8, <1>9 DEF t

LEMMA CommandHasWord ==
  ASSUME NEW S, NEW s \in Seq(S), IsDelimiterCommand(s)
  PROVE  \E j \in 1..Len(s) : s[j] = "DELIMITER"
<1> DEFINE t == TrimSpace(s)
<1>1. t[1] = "DELIMITER" /\ 1 \in 1..Len(t) BY CommandTrimmed
<1>2. From(S, t, s) BY TrimSpaceFrom
<1> HIDE DEF t
<1> QED BY <1>1, <1>2 DEF From

LEMMA LineHasWord ==
  ASSUME NEW S, NEW s \in Seq(S), DelimiterLine(s) # <<>>
  PROVE  /\ DelimiterLine(s) \in Seq(S) /\ IsDelimiterCommand(DelimiterLine(s))
         /\ \E j \in 1..Len(s) : s[j] = "DELIMITER"
<1> DEFINE Line(a) == TrimSpace(PartAt(s, "\n", a))
           solid == {a \in PartStarts(s, "\n") : Line(a) # <<>> /\ ~IsComment(Line(a))}
<1>1. solid # {} /\ IsDelimiterCommand(Line(Least(solid)))
      /\ DelimiterLine(s) = Line(Least(solid))
  BY DEF DelimiterLine
<1>2. Len(s) \in Nat /\ DOMAIN s = 1..Len(s) BY LenProperties
<1>3. solid \subseteq Nat BY <1>2 DEF PartStarts
<1>4. Least(solid) \in solid BY <1>1, <1>3, HasLeast
<1>5. Least(solid) \in PartStarts(s, "\n") BY <1>4
<1> DEFINE part == PartAt(s, "\n", Least(solid))
<1>6. From(S, part, s) BY <1>5, PartFrom
<1>7. part \in Seq(S) BY <1>6 DEF From
<1>8. From(S, Line(Least(solid)), part) /\ Line(Least(solid)) \in Seq(S)
  BY <1>7, TrimSpaceFrom
<1>9. From(S, Line(Least(solid)), s) BY <1>6, <1>8, FromTrans
<1> HIDE DEF Line, solid
<1>10. PICK k \in 1..Len(Line(Least(solid))) : Line(Least(solid))[k] = "DELIMITER"
  BY <1>1, <1>8, CommandHasWord
<1> QED BY <1>1, <1>8, <1>9, <1>10 DEF From

LEMMA CommandType ==
  ASSUME NEW S, NEW s \in Seq(S), NEW mode \in SplitterConfigs(S), IsDelimiterCommand(s)
  PROVE  HandleDelimiterCommand(mode, s) \in SplitterConfigs(S)
<1> DEFINE t == TrimSpace(s)
           word == FirstWord(TrimSpace(Tail(t)))
<1>1. t \in Seq(S) /\ t # <<>> BY CommandTrimmed
<1>2. Tail(t) \in Seq(S) BY <1>1, HeadTailProperties
<1>3. word \in Seq(S) BY <1>2, TrimSpaceFrom, FirstWordType
<1>4. HandleDelimiterCommand(mode, s)
        = IF word = <<>> THEN mode ELSE [mode EXCEPT !.delim = word]
  BY DEF HandleDelimiterCommand
<1> HIDE DEF word
<1> QED BY <1>3, <1>4 DEF SplitterConfigs

LEMMA SetType ==
  ASSUME NEW S, NEW s, NEW mode \in SplitterConfigs(S)
  PROVE  ObserveSet(mode, s) \in SplitterConfigs(S)
BY DEF ObserveSet, SplitterConfigs

------------------------------------------------------------------------------
(* One round of feed's loop takes symbols into the buffer, or drops the    *)
(* buffer, which held a DELIMITER command, or hands it to the callback.    *)

Taken(d, l0, l1) ==
  /\ l1.buf = l0.buf \o SubSeq(d, l0.i, l1.i - 1)
  /\ l1.out = l0.out /\ l1.mode = l0.mode
Dropped(l0, l1) ==
  /\ l1.buf = <<>> /\ l1.out = l0.out
  /\ \E j \in 1..Len(l0.buf) : l0.buf[j] = "DELIMITER"
Emitted(d, l0, l1) ==
  /\ l1.buf = <<>>
  /\ l1.out = Append(l0.out, [text |-> l0.buf, next |-> l1.i,
                              delim |-> SubSeq(d, l0.i, l1.i - 1), mode |-> l1.mode])
Round(S, d, l0, l1, e) ==
  /\ l1 \in Lexers(S) /\ l0.i < l1.i /\ l1.i <= e + 1
  /\ Taken(d, l0, l1) \/ Dropped(l0, l1) \/ Emitted(d, l0, l1)

LEMMA EnterRound ==
  ASSUME NEW S, NEW d, NEW l0, NEW l1 \in Lexers(S), NEW st \in LexStates, Taken(d, l0, l1)
  PROVE  LET l2 == [l1 EXCEPT !.st = st]
         IN  l2 \in Lexers(S) /\ l2.i = l1.i /\ Taken(d, l0, l2)
<1> DEFINE l2 == [l1 EXCEPT !.st = st]
<1>1. l2 \in Lexers(S) /\ l2.i = l1.i /\ l2.buf = l1.buf /\ l2.out = l1.out
      /\ l2.mode = l1.mode
  BY DEF Lexers
<1> HIDE DEF l2
<1>2. Taken(d, l0, l2) BY <1>1 DEF Taken
<1> QED BY <1>1, <1>2 DEF l2

LEMMA TakeRound ==
  ASSUME NEW S, NEW d \in Seq(S), NEW e \in 0..Len(d), NEW l0 \in Lexers(S), l0.i \in 1..e
  PROVE  /\ Take(d, l0) \in Lexers(S) /\ Take(d, l0).i = l0.i + 1
         /\ Taken(d, l0, Take(d, l0)) /\ Take(d, l0).buf = Append(l0.buf, d[l0.i])
<1>1. Len(d) \in Nat BY LenProperties
<1>2. l0.i \in 1..Len(d) /\ l0.i + 1 \in Nat /\ l0.i + 1 - 1 = l0.i BY <1>1
<1>3. d[l0.i] \in S BY <1>2, ElementOfSeq
<1>4. l0.buf \in Seq(S) BY DEF Lexers
<1> DEFINE b == Append(l0.buf, d[l0.i])
           l1 == Take(d, l0)
<1>5. b = l0.buf \o SubSeq(d, l0.i, l0.i)
  BY <1>2, <1>3, <1>4, SliceOne, AppendIsConcat
<1>6. b \in Seq(S) BY <1>3, <1>4, AppendProperties
<1> HIDE DEF b
<1>7. l1 = [l0 EXCEPT !.buf = b, !.i = l0.i + 1] BY DEF Take, b
<1> HIDE DEF l1
<1>8. /\ l1 \in Lexers(S) /\ l1.i = l0.i + 1 /\ l1.buf = b
      /\ l1.out = l0.out /\ l1.mode = l0.mode
  <2>1. l1 \in Lexers(S) BY <1>2, <1>6, <1>7 DEF Lexers
  <2>2. /\ l1.i = l0.i + 1 /\ l1.buf = b /\ l1.out = l0.out /\ l1.mode = l0.mode
    BY <1>7 DEF Lexers
  <2> QED BY <2>1, <2>2
<1>s. l1.i - 1 = l0.i BY <1>2, <1>8
<1>9. Taken(d, l0, l1) BY <1>s, <1>5, <1>8 DEF Taken
<1> QED BY <1>8, <1>9 DEF b, l1

LEMMA Take2Round ==
  ASSUME NEW S, NEW d \in Seq(S), NEW e \in 0..Len(d), NEW l0 \in Lexers(S), l0.i \in 1..e,
         l0.i + 1 <= e
  PROVE  /\ Take2(d, l0) \in Lexers(S) /\ Take2(d, l0).i = l0.i + 2
         /\ Taken(d, l0, Take2(d, l0))
<1>1. Len(d) \in Nat BY LenProperties
<1>2. l0.i \in 1..Len(d) /\ l0.i + 1 \in 1..Len(d) /\ l0.i + 2 \in Nat
      /\ l0.i + 2 - 1 = l0.i + 1 /\ l0.i + 1 <= Len(d)
  BY <1>1
<1>3. d[l0.i] \in S /\ d[l0.i + 1] \in S BY <1>2, ElementOfSeq
<1>4. l0.buf \in Seq(S) BY DEF Lexers
<1> DEFINE t == <<d[l0.i], d[l0.i + 1]>>
           b == l0.buf \o t
           l1 == Take2(d, l0)
<1>5. t = SubSeq(d, l0.i, l0.i + 1) BY <1>2, SliceTwo
<1>6. t \in Seq(S) BY <1>3
<1>7. l1 = [l0 EXCEPT !.buf = b, !.i = l0.i + 2] BY DEF Take2
<1> HIDE DEF t, l1
<1>8. b \in Seq(S) BY <1>4, <1>6, ConcatProperties
<1>b. b = l0.buf \o SubSeq(d, l0.i, l0.i + 1) BY <1>5
<1> HIDE DEF b
<1>9. /\ l1 \in Lexers(S) /\ l1.i = l0.i + 2 /\ l1.buf = b
      /\ l1.out = l0.out /\ l1.mode = l0.mode
  <2>1. l1 \in Lexers(S) BY <1>2, <1>7, <1>8 DEF Lexers
  <2>2. /\ l1.i = l0.i + 2 /\ l1.buf = b /\ l1.out = l0.out /\ l1.mode = l0.mode
    BY <1>7 DEF Lexers
  <2> QED BY <2>1, <2>2
<1>s. l1.i - 1 = l0.i + 1 BY <1>2, <1>9
<1>10. Taken(d, l0, l1) BY <1>s, <1>b, <1>9 DEF Taken
<1> QED BY <1>9, <1>10 DEF l1

LEMMA AtNewlineRound ==
  ASSUME NEW S, NEW d \in Seq(S), NEW e \in 0..Len(d), NEW l0 \in Lexers(S), l0.i \in 1..e,
         d[l0.i] = "\n"
  PROVE  Round(S, d, l0, AtNewline(Take(d, l0)), e)
<1> DEFINE l1 == Take(d, l0)
           line == DelimiterLine(l1.buf)
           m == HandleDelimiterCommand(l1.mode, line)
<1>1. /\ l1 \in Lexers(S) /\ l1.i = l0.i + 1 /\ l0.i \in Nat /\ l0.i < l1.i /\ l1.i <= e + 1
      /\ Taken(d, l0, l1) /\ l1.buf = Append(l0.buf, "\n")
  <2>1. e \in Nat BY LenProperties
  <2> QED BY <2>1, TakeRound DEF Lexers
<1> HIDE DEF l1
<1>2. CASE line = <<>>
  <2>1. AtNewline(l1) = l1 BY <1>2 DEF AtNewline
  <2> QED BY <1>1, <2>1 DEF Round, l1
<1>3. CASE line # <<>>
  <2>1. l1.buf \in Seq(S) /\ l0.buf \in Seq(S) /\ l1.mode \in SplitterConfigs(S)
    BY <1>1 DEF Lexers
  <2>2. /\ line \in Seq(S) /\ IsDelimiterCommand(line)
        /\ \E j \in 1..Len(l1.buf) : l1.buf[j] = "DELIMITER"
    BY <1>3, <2>1, LineHasWord
  <2>3. m \in SplitterConfigs(S) BY <2>1, <2>2, CommandType
  <2>4. \E j \in 1..Len(l0.buf) : l0.buf[j] = "DELIMITER"
    <3>1. PICK j \in 1..Len(l1.buf) : l1.buf[j] = "DELIMITER" BY <2>2
    <3>2. /\ Len(l1.buf) = Len(l0.buf) + 1 /\ l1.buf[Len(l0.buf) + 1] = "\n"
          /\ \A k \in 1..Len(l0.buf) : l1.buf[k] = l0.buf[k]
      <4>1. "\n" \in S
        <5>1. Len(d) \in Nat BY LenProperties
        <5> QED BY <5>1, ElementOfSeq
      <4> QED BY <1>1, <2>1, <4>1, AppendProperties
    <3>3. Len(l0.buf) \in Nat BY <2>1, LenProperties
    <3>4. j # Len(l0.buf) + 1 BY <3>1, <3>2
    <3>5. j \in 1..Len(l0.buf) BY <3>2, <3>3, <3>4
    <3> QED BY <3>1, <3>2, <3>5
  <2>5. AtNewline(l1) = [l1 EXCEPT !.mode = m, !.buf = <<>>]
    BY <1>3 DEF AtNewline
  <2> DEFINE l2 == AtNewline(l1)
  <2> HIDE DEF m, line, l2
  <2>6. l2 = [l1 EXCEPT !.mode = m, !.buf = <<>>] BY <2>5 DEF l2
  <2>7. l2 \in Lexers(S) BY <1>1, <2>3, <2>6, EmptySeq DEF Lexers
  <2>8. l2.i = l1.i /\ l2.buf = <<>> /\ l2.out = l1.out BY <1>1, <2>6 DEF Lexers
  <2>9. Dropped(l0, l2) BY <1>1, <2>4, <2>8 DEF Dropped, Taken
  <2> QED BY <1>1, <2>7, <2>8, <2>9 DEF Round, l1, l2
<1> QED BY <1>2, <1>3

LEMMA AtDelimiterRound ==
  ASSUME NEW S, NEW d \in Seq(S), NEW e \in 0..Len(d), NEW l0 \in Lexers(S), l0.i \in 1..e,
         DelimiterMatch(d, l0, e)
  PROVE  Round(S, d, l0, AtDelimiter(l0), e)
<1> DEFINE n == Len(l0.mode.delim)
           after == [l0 EXCEPT !.i = @ + n, !.buf = <<>>]
           mode == IF IsSetStatement(l0.buf) THEN ObserveSet(l0.mode, l0.buf) ELSE l0.mode
           cmd == HandleDelimiterCommand(l0.mode, l0.buf)
           stmt == [text |-> l0.buf, next |-> l0.i + n, delim |-> l0.mode.delim, mode |-> mode]
           out == Append(l0.out, stmt)
<1>1. /\ l0.i \in Nat /\ l0.buf \in Seq(S) /\ l0.mode \in SplitterConfigs(S)
      /\ l0.mode.delim \in Seq(S) /\ l0.mode.delim # <<>> /\ l0.out \in Seq(Statements(S))
  BY DEF Lexers, SplitterConfigs
<1>2. n \in Nat \ {0} BY <1>1, EmptySeq
<1>3. l0.i + n - 1 <= e /\ SubSeq(d, l0.i, l0.i + n - 1) = l0.mode.delim
  BY DEF DelimiterMatch
<1>4. mode \in SplitterConfigs(S) BY <1>1, SetType
<1>5. e \in Nat BY LenProperties
<1>6. l0.i + n \in Nat /\ l0.i < l0.i + n /\ l0.i + n <= e + 1
  <2> HIDE DEF n
  <2> QED BY <1>1, <1>2, <1>3, <1>5
<1>7. after \in Lexers(S) /\ after.i = l0.i + n /\ after.buf = <<>>
      /\ after.out = l0.out /\ after.mode = l0.mode
  <2> HIDE DEF n
  <2>1. after \in Lexers(S) BY <1>6, EmptySeq DEF Lexers
  <2>2. after.i = l0.i + n /\ after.buf = <<>> /\ after.out = l0.out
        /\ after.mode = l0.mode
    BY DEF Lexers
  <2> QED BY <2>1, <2>2
<1> DEFINE l1 == AtDelimiter(l0)
<1>8. CASE IsDelimiterCommand(l0.buf)
  <2>1. cmd \in SplitterConfigs(S) BY <1>1, <1>8, CommandType
  <2>2. l1 = [after EXCEPT !.mode = cmd]
    BY <1>7, <1>8 DEF AtDelimiter
  <2>3. \E j \in 1..Len(l0.buf) : l0.buf[j] = "DELIMITER"
    BY <1>1, <1>8, CommandHasWord
  <2> HIDE DEF l1, after, cmd
  <2>4. l1 \in Lexers(S) BY <1>7, <2>1, <2>2 DEF Lexers
  <2>5. l1.i = l0.i + n /\ l1.buf = <<>> /\ l1.out = l0.out BY <1>7, <2>2 DEF Lexers
  <2>6. Dropped(l0, l1) BY <2>3, <2>5 DEF Dropped
  <2> QED BY <1>6, <2>4, <2>5, <2>6 DEF Round, l1
<1>9. CASE ~IsDelimiterCommand(l0.buf)
  <2>1. stmt \in Statements(S) BY <1>1, <1>4, <1>6 DEF Statements
  <2>2. out \in Seq(Statements(S)) BY <1>1, <2>1, AppendProperties
  <2>3. l1 = [after EXCEPT !.mode = mode, !.out = out]
    BY <1>7, <1>9 DEF AtDelimiter
  <2> HIDE DEF l1, after, mode, out
  <2>4. l1 \in Lexers(S) BY <1>4, <1>7, <2>2, <2>3 DEF Lexers
  <2>5. /\ l1.i = l0.i + n /\ l1.buf = <<>> /\ l1.out = out /\ l1.mode = mode
    BY <1>7, <2>3 DEF Lexers
  <2>6. l1.i - 1 = l0.i + n - 1 BY <1>6, <2>5
  <2>7. l0.mode.delim = SubSeq(d, l0.i, l1.i - 1) BY <1>3, <2>6
  <2>8. stmt = [text |-> l0.buf, next |-> l1.i,
                delim |-> SubSeq(d, l0.i, l1.i - 1), mode |-> l1.mode]
    BY <2>5, <2>7
  <2>9. Emitted(d, l0, l1) BY <2>5, <2>8 DEF Emitted, out
  <2> QED BY <1>6, <2>4, <2>5, <2>9 DEF Round, l1
<1> QED BY <1>8, <1>9

LEMMA States ==
  /\ Default \notin {SingleQuote, DoubleQuote, Backtick, LineComment, HashComment,
                     BlockComment, ExecComment}
  /\ SingleQuote \notin {DoubleQuote, Backtick, LineComment, HashComment,
                         BlockComment, ExecComment}
  /\ DoubleQuote \notin {Backtick, LineComment, HashComment, BlockComment, ExecComment}
  /\ Backtick \notin {LineComment, HashComment, BlockComment, ExecComment}
  /\ LineComment \notin {BlockComment, ExecComment}
  /\ HashComment \notin {BlockComment, ExecComment}
BY DEF Default, SingleQuote, DoubleQuote, Backtick, LineComment, HashComment, BlockComment,
   ExecComment

LEMMA OneRound ==
  ASSUME NEW S, NEW d \in Seq(S), NEW e \in 0..Len(d), NEW l0 \in Lexers(S), l0.i \in 1..e
  PROVE  /\ Round(S, d, l0, Take(d, l0), e)
         /\ \A st \in LexStates : Round(S, d, l0, [Take(d, l0) EXCEPT !.st = st], e)
<1>1. e \in Nat BY LenProperties
<1> DEFINE l1 == Take(d, l0)
<1>2. l1 \in Lexers(S) /\ l1.i = l0.i + 1 /\ Taken(d, l0, l1) BY TakeRound
<1>3. l0.i < l1.i /\ l1.i <= e + 1 BY <1>1, <1>2
<1> HIDE DEF l1
<1>4. ASSUME NEW st \in LexStates
      PROVE  Round(S, d, l0, [l1 EXCEPT !.st = st], e)
  BY <1>2, <1>3, EnterRound DEF Round
<1> QED BY <1>2, <1>3, <1>4 DEF Round, l1

LEMMA TwoRound ==
  ASSUME NEW S, NEW d \in Seq(S), NEW e \in 0..Len(d), NEW l0 \in Lexers(S), l0.i \in 1..e,
         l0.i + 1 <= e
  PROVE  /\ Round(S, d, l0, Take2(d, l0), e)
         /\ \A st \in LexStates : Round(S, d, l0, [Take2(d, l0) EXCEPT !.st = st], e)
<1>1. e \in Nat BY LenProperties
<1> DEFINE l1 == Take2(d, l0)
<1>2. l1 \in Lexers(S) /\ l1.i = l0.i + 2 /\ Taken(d, l0, l1) BY Take2Round
<1>3. l0.i < l1.i /\ l1.i <= e + 1 BY <1>1, <1>2
<1> HIDE DEF l1
<1>4. ASSUME NEW st \in LexStates
      PROVE  Round(S, d, l0, [l1 EXCEPT !.st = st], e)
  BY <1>2, <1>3, EnterRound DEF Round
<1> QED BY <1>2, <1>3, <1>4 DEF Round, l1

LEMMA DefaultRound ==
  ASSUME NEW S, NEW d \in Seq(S), NEW e \in 0..Len(d), NEW l0 \in Lexers(S), l0.i \in 1..e
  PROVE  Round(S, d, l0, FeedDefault(d, l0, e), e)
<1> DEFINE l1 == FeedDefault(d, l0, e)
           Entered == \E st \in LexStates : l1 = [Take(d, l0) EXCEPT !.st = st]
<1>1. CASE d[l0.i] = "\n"
  <2>1. l1 = AtNewline(Take(d, l0)) BY <1>1 DEF FeedDefault
  <2> QED BY <1>1, <2>1, AtNewlineRound
<1>2. CASE Entered
  BY <1>2, OneRound
<1>3. CASE d[l0.i] = "'"
  BY <1>2, <1>3 DEF FeedDefault, LexStates
<1>4. CASE d[l0.i] = "\""
  BY <1>2, <1>4 DEF FeedDefault, LexStates
<1>5. CASE d[l0.i] = "bq"
  BY <1>2, <1>5 DEF FeedDefault, LexStates
<1>6. CASE d[l0.i] = "#"
  BY <1>2, <1>6 DEF FeedDefault, LexStates
<1>7. CASE d[l0.i] = "-" /\ Next1(d, l0, e) = "-"
  BY <1>2, <1>7 DEF FeedDefault, LexStates
<1>8. CASE d[l0.i] = "/" /\ Next1(d, l0, e) = "*"
  BY <1>2, <1>8 DEF FeedDefault, LexStates
<1>9. CASE /\ d[l0.i] \notin {"\n", "'", "\"", "bq", "#"}
           /\ ~(d[l0.i] = "-" /\ Next1(d, l0, e) = "-")
           /\ ~(d[l0.i] = "/" /\ Next1(d, l0, e) = "*")
  <2>1. l1 = IF DelimiterMatch(d, l0, e) THEN AtDelimiter(l0) ELSE Take(d, l0)
    BY <1>9 DEF FeedDefault
  <2> QED BY <2>1, AtDelimiterRound, OneRound
<1> QED BY <1>1, <1>3, <1>4, <1>5, <1>6, <1>7, <1>8, <1>9

LEMMA QuotedRound ==
  ASSUME NEW S, NEW d \in Seq(S), NEW e \in 0..Len(d), NEW l0 \in Lexers(S), l0.i \in 1..e,
         NEW q, q # "none", NEW escapes
  PROVE  Round(S, d, l0, FeedQuoted(d, l0, e, q, escapes), e)
<1> DEFINE l1 == FeedQuoted(d, l0, e, q, escapes)
<1>1. \/ l1 = Take(d, l0)
      \/ l0.i + 1 <= e /\ l1 = Take2(d, l0)
      \/ l1 = [Take(d, l0) EXCEPT !.st = Default]
  BY DEF FeedQuoted, Next1
<1>2. Default \in LexStates BY DEF LexStates
<1> QED BY <1>1, <1>2, OneRound, TwoRound

LEMMA FeedRound ==
  ASSUME NEW S, NEW d \in Seq(S), NEW e \in 0..Len(d), NEW l0 \in Lexers(S), l0.i \in 1..e
  PROVE  Round(S, d, l0, Feed(d, l0, e), e)
<1>1. Default \in LexStates BY DEF LexStates
<1>2. Round(S, d, l0, FeedLineComment(d, l0), e)
  <2>1. l0.st \in LexStates BY DEF Lexers
  <2>2. \E st \in LexStates : FeedLineComment(d, l0) = [Take(d, l0) EXCEPT !.st = st]
    BY <1>1, <2>1 DEF FeedLineComment, Take, Lexers
  <2> QED BY <2>2, OneRound
<1>3. Round(S, d, l0, FeedBlockComment(d, l0, e), e)
  <2>1. \/ FeedBlockComment(d, l0, e) = Take(d, l0)
        \/ l0.i + 1 <= e /\ FeedBlockComment(d, l0, e) = [Take2(d, l0) EXCEPT !.st = Default]
    BY DEF FeedBlockComment, Next1
  <2> QED BY <1>1, <2>1, OneRound, TwoRound
<1>4. CASE l0.st = Default
  <2>1. Feed(d, l0, e) = FeedDefault(d, l0, e) BY <1>4, States DEF Feed
  <2> QED BY <2>1, DefaultRound
<1>5. CASE l0.st = SingleQuote
  <2>1. Feed(d, l0, e) = FeedQuoted(d, l0, e, "'", TRUE) BY <1>5, States DEF Feed
  <2> QED BY <2>1, QuotedRound
<1>6. CASE l0.st = DoubleQuote
  <2>1. Feed(d, l0, e) = FeedQuoted(d, l0, e, "\"", TRUE) BY <1>6, States DEF Feed
  <2> QED BY <2>1, QuotedRound
<1>7. CASE l0.st = Backtick
  <2>1. Feed(d, l0, e) = FeedQuoted(d, l0, e, "bq", FALSE) BY <1>7, States DEF Feed
  <2> QED BY <2>1, QuotedRound
<1>8. CASE l0.st \in {LineComment, HashComment}
  <2>1. Feed(d, l0, e) = FeedLineComment(d, l0) BY <1>8, States DEF Feed
  <2> QED BY <1>2, <2>1
<1>9. CASE l0.st \in {BlockComment, ExecComment}
  <2>1. Feed(d, l0, e) = FeedBlockComment(d, l0, e) BY <1>9, States DEF Feed
  <2> QED BY <1>3, <2>1
<1>10. l0.st \in LexStates BY DEF Lexers
<1> QED BY <1>4, <1>5, <1>6, <1>7, <1>8, <1>9, <1>10 DEF LexStates

------------------------------------------------------------------------------
(* Any such round keeps the buffer and the statements slices of the dump.  *)

LEMMA EmptySlice ==
  ASSUME NEW S, NEW d \in Seq(S), NEW i \in Nat \ {0}
  PROVE  <<>> = SubSeq(d, i, i - 1)
BY SubSeqEmpty

LEMMA BufAt ==
  ASSUME NEW S, NEW d \in Seq(S), NEW from \in Nat \ {0}, NEW x \in Lexers(S), x.i \in 1..(Len(d) + 1), Sliced(d, from, x)
  PROVE  /\ Len(d) \in Nat /\ Len(x.buf) \in Nat /\ Len(x.out) \in Nat /\ x.i \in Nat
         /\ After(from, x, Len(x.out)) \in 1..BufStart(x) /\ BufStart(x) \in 1..x.i
         /\ Len(x.buf) = x.i - BufStart(x)
<1>1. /\ Len(d) \in Nat /\ x.i \in Nat /\ x.buf \in Seq(S) /\ Len(x.buf) \in Nat
      /\ x.out \in Seq(Statements(S)) /\ Len(x.out) \in Nat
  BY LenProperties DEF Lexers
<1> DEFINE last == After(from, x, Len(x.out))
<1>2. last \in Nat \ {0}
  <2>1. CASE Len(x.out) = 0 BY <2>1 DEF After
  <2>2. CASE Len(x.out) # 0
    <3>1. x.out[Len(x.out)] \in Statements(S) BY <1>1, <2>2, ElementOfSeq
    <3> QED BY <2>2, <3>1 DEF After, Statements
  <2> QED BY <2>1, <2>2
<1>3. last <= BufStart(x) BY DEF Sliced, Skipped
<1>4. BufStart(x) = x.i - Len(x.buf) BY DEF BufStart
<1> HIDE DEF last
<1>5. BufStart(x) \in 1..x.i /\ last \in 1..BufStart(x) /\ Len(x.buf) = x.i - BufStart(x)
  BY <1>1, <1>2, <1>3, <1>4
<1> QED BY <1>1, <1>5 DEF last

LEMMA SameStatement ==
  ASSUME NEW S, NEW d, NEW from, NEW l0 \in Lexers(S), NEW l1 \in Lexers(S), l0.i <= l1.i,
         NEW k \in 1..Len(l0.out), l1.out[k] = l0.out[k],
         After(from, l1, k - 1) = After(from, l0, k - 1), StatementSliced(d, from, l0, k)
  PROVE  StatementSliced(d, from, l1, k)
<1>1. TextStart(l1, k) = TextStart(l0, k) /\ TextEnd(l1, k) = TextEnd(l0, k)
  BY DEF TextStart, TextEnd
<1>2. l0.out[k].next <= l1.i
  <2>1. l0.out \in Seq(Statements(S)) /\ l0.i \in Nat /\ l1.i \in Nat BY DEF Lexers
  <2>2. l0.out[k] \in Statements(S) BY <2>1, ElementOfSeq
  <2>3. l0.out[k].next \in Nat /\ l0.out[k].next <= l0.i
    BY <2>2 DEF Statements, StatementSliced
  <2> QED BY <2>1, <2>3
<1> QED BY <1>1, <1>2 DEF StatementSliced

LEMMA SameStatements ==
  ASSUME NEW S, NEW d, NEW from, NEW l0 \in Lexers(S), NEW l1 \in Lexers(S), l0.i <= l1.i,
         l1.out = l0.out, Sliced(d, from, l0)
  PROVE  \A k \in DOMAIN l1.out : StatementSliced(d, from, l1, k)
<1> SUFFICES ASSUME NEW k \in DOMAIN l1.out PROVE StatementSliced(d, from, l1, k) OBVIOUS
<1>1. l0.out \in Seq(Statements(S)) BY DEF Lexers
<1>2. k \in 1..Len(l0.out) BY <1>1, LenProperties
<1>3. After(from, l1, k - 1) = After(from, l0, k - 1) BY DEF After
<1>4. StatementSliced(d, from, l0, k) BY DEF Sliced
<1> QED BY <1>2, <1>3, <1>4, SameStatement

LEMMA TakenSliced ==
  ASSUME NEW S, NEW d \in Seq(S), NEW from \in Nat \ {0}, NEW l0 \in Lexers(S), NEW l1 \in Lexers(S),
         l0.i \in 1..(Len(d) + 1), l1.i \in l0.i..(Len(d) + 1),
         Sliced(d, from, l0), Taken(d, l0, l1)
  PROVE  Sliced(d, from, l1)
<1> DEFINE a == BufStart(l0)
           s == SubSeq(d, l0.i, l1.i - 1)
<1>1. /\ Len(d) \in Nat /\ l0.i \in Nat /\ Len(l0.buf) \in Nat
      /\ a \in 1..l0.i /\ Len(l0.buf) = l0.i - a
  BY BufAt
<1>2. l1.i \in Nat /\ l0.buf \in Seq(S) BY DEF Lexers
<1>3. s \in Seq(S) /\ Len(s) = l1.i - l0.i
  <2>1. l0.i \in 1..(Len(d) + 1) /\ l1.i - 1 \in (l0.i - 1)..Len(d)
        /\ l1.i - 1 - l0.i + 1 = l1.i - l0.i
    BY <1>1, <1>2
  <2> QED BY <2>1, Slice
<1>4. l1.buf = l0.buf \o s /\ l1.out = l0.out BY DEF Taken
<1> HIDE DEF a, s
<1>5. Len(l1.buf) = Len(l0.buf) + Len(s) BY <1>2, <1>3, <1>4, ConcatProperties
<1>6. BufStart(l1) = a BY <1>1, <1>2, <1>3, <1>5, SMTT(20) DEF BufStart
<1>7. l1.buf = SubSeq(d, a, l1.i - 1)
  <2>1. l0.buf = SubSeq(d, a, l0.i - 1) BY DEF Sliced, a
  <2>2. /\ a \in 1..(Len(d) + 1) /\ l0.i - 1 \in (a - 1)..Len(d)
        /\ l1.i - 1 \in (l0.i - 1)..Len(d) /\ l0.i - 1 + 1 = l0.i
    BY <1>1, <1>2
  <2>3. SubSeq(d, a, l0.i - 1) \o SubSeq(d, l0.i - 1 + 1, l1.i - 1) = SubSeq(d, a, l1.i - 1)
    BY <2>2, ConcatAdjacentSubSeq
  <2> QED BY <1>4, <2>1, <2>2, <2>3 DEF s
<1>8. l0.i <= l1.i BY <1>1, <1>2
<1>9. \A k \in DOMAIN l1.out : StatementSliced(d, from, l1, k)
  BY <1>4, <1>8, SameStatements
<1> QED BY <1>4, <1>6, <1>7, <1>9 DEF Sliced, After, a

LEMMA DroppedSliced ==
  ASSUME NEW S, NEW d \in Seq(S), NEW from \in Nat \ {0}, NEW l0 \in Lexers(S), NEW l1 \in Lexers(S),
         l0.i \in 1..(Len(d) + 1), l1.i \in l0.i..(Len(d) + 1),
         Sliced(d, from, l0), Dropped(l0, l1)
  PROVE  Sliced(d, from, l1)
<1> DEFINE a == BufStart(l0)
           last == After(from, l0, Len(l0.out))
<1>1. /\ Len(d) \in Nat /\ l0.i \in Nat /\ a \in 1..l0.i /\ Len(l0.buf) = l0.i - a
      /\ last \in 1..a
  BY BufAt
<1>2. l1.i \in Nat BY DEF Lexers
<1>3. l1.buf = <<>> /\ l1.out = l0.out BY DEF Dropped
<1>4. BufStart(l1) = l1.i BY <1>2, <1>3, EmptySeq DEF BufStart
<1>5. l1.buf = SubSeq(d, BufStart(l1), l1.i - 1)
  BY <1>1, <1>2, <1>3, <1>4, EmptySlice
<1>6. \E j \in last..(l1.i - 1) : d[j] = "DELIMITER"
  <2>1. PICK j \in 1..Len(l0.buf) : l0.buf[j] = "DELIMITER" BY DEF Dropped
  <2>2. l0.buf = SubSeq(d, a, l0.i - 1) BY DEF Sliced
  <2> HIDE DEF a, last
  <2>3. /\ a \in 1..(Len(d) + 1) /\ l0.i - 1 \in (a - 1)..Len(d)
        /\ j \in 1..(l0.i - 1 - a + 1)
    BY <1>1
  <2>4. l0.buf[j] = d[a + j - 1] BY <2>2, <2>3, Slice
  <2>5. a + j - 1 \in last..(l1.i - 1) BY <1>1, <1>2
  <2> QED BY <2>1, <2>4, <2>5
<1>7. last <= l1.i BY <1>1, <1>2
<1>8. Skipped(d, After(from, l1, Len(l1.out)), BufStart(l1))
  BY <1>3, <1>4, <1>6, <1>7 DEF Skipped, After
<1>9. l0.i <= l1.i BY <1>1, <1>2
<1>10. \A k \in DOMAIN l1.out : StatementSliced(d, from, l1, k)
  BY <1>3, <1>9, SameStatements
<1> QED BY <1>5, <1>8, <1>10 DEF Sliced

LEMMA EmittedSliced ==
  ASSUME NEW S, NEW d \in Seq(S), NEW from \in Nat \ {0}, NEW l0 \in Lexers(S), NEW l1 \in Lexers(S),
         l0.i \in 1..(Len(d) + 1), l1.i \in l0.i..(Len(d) + 1),
         Sliced(d, from, l0), Emitted(d, l0, l1), l0.i < l1.i \/ l0.buf # <<>>
  PROVE  Sliced(d, from, l1)
<1> DEFINE a == BufStart(l0)
           n == Len(l0.out)
           delim == SubSeq(d, l0.i, l1.i - 1)
           stmt == [text |-> l0.buf, next |-> l1.i, delim |-> delim, mode |-> l1.mode]
<1>1. /\ Len(d) \in Nat /\ l0.i \in Nat /\ a \in 1..l0.i /\ Len(l0.buf) = l0.i - a
      /\ n \in Nat
  BY BufAt
<1>2. l1.i \in Nat /\ l0.out \in Seq(Statements(S)) /\ l1.out \in Seq(Statements(S))
  BY DEF Lexers
<1>3. l1.buf = <<>> /\ l1.out = Append(l0.out, stmt) BY DEF Emitted
<1>4. Len(delim) = l1.i - l0.i
  <2>1. l0.i \in 1..(Len(d) + 1) /\ l1.i - 1 \in (l0.i - 1)..Len(d)
        /\ l1.i - 1 - l0.i + 1 = l1.i - l0.i
    BY <1>1, <1>2
  <2> QED BY <2>1, Slice
<1>5. BufStart(l1) = l1.i BY <1>2, <1>3, EmptySeq DEF BufStart
<1>6. l1.buf = SubSeq(d, BufStart(l1), l1.i - 1)
  BY <1>1, <1>2, <1>3, <1>5, EmptySlice
<1>7. /\ Len(l1.out) = n + 1 /\ l1.out[n + 1] = stmt
      /\ \A k \in 1..n : l1.out[k] = l0.out[k]
  <2> HIDE DEF stmt
  <2> QED BY <1>2, <1>3, AppendProperties
<1>8. After(from, l1, n + 1) = l1.i BY <1>1, <1>7 DEF After
<1>9. \A k \in 0..n : After(from, l1, k) = After(from, l0, k) BY <1>1, <1>7 DEF After
<1>10. Skipped(d, After(from, l1, Len(l1.out)), BufStart(l1))
  BY <1>2, <1>5, <1>7, <1>8 DEF Skipped
<1>11. TextEnd(l1, n + 1) = l0.i - 1
  <2> HIDE DEF delim, n
  <2>1. l1.out[n + 1].next = l1.i /\ l1.out[n + 1].delim = delim BY <1>7
  <2> QED BY <1>1, <1>2, <1>4, <2>1 DEF TextEnd
<1>12. TextStart(l1, n + 1) = a
  <2>1. l1.out[n + 1].text = l0.buf BY <1>7
  <2> HIDE DEF n, a
  <2> QED BY <1>1, <1>11, <2>1 DEF TextStart
<1>13. ASSUME NEW k \in DOMAIN l1.out PROVE StatementSliced(d, from, l1, k)
  <2>1. k \in 1..(n + 1) BY <1>2, <1>7, LenProperties
  <2>2. CASE k \in 1..n
    <3>1. l1.out[k] = l0.out[k] /\ k - 1 \in 0..n /\ l0.i <= l1.i
      <4>1. l1.out[k] = l0.out[k] BY <1>7, <2>2
      <4> HIDE DEF n
      <4> QED BY <1>1, <1>2, <2>2, <4>1
    <3>2. After(from, l1, k - 1) = After(from, l0, k - 1) BY <1>9, <3>1
    <3>3. k \in DOMAIN l0.out BY <1>2, <2>2, LenProperties
    <3>4. StatementSliced(d, from, l0, k) BY <3>3 DEF Sliced
    <3> QED BY <2>2, <3>1, <3>2, <3>4, SameStatement
  <2>3. CASE k = n + 1
    <3>1. k - 1 = n /\ n \in 0..n /\ l0.i - 1 + 1 = l0.i BY <1>1, <2>3
    <3>2. After(from, l1, k - 1) = After(from, l0, n) BY <1>9, <3>1
    <3>3. Skipped(d, After(from, l0, n), a) BY DEF Sliced
    <3>4. /\ l1.out[k].text = l0.buf /\ l1.out[k].delim = delim
          /\ l1.out[k].next = l1.i
      <4> HIDE DEF delim, n
      <4> QED BY <1>7, <2>3
    <3>5. l0.buf = SubSeq(d, a, l0.i - 1) BY DEF Sliced
    <3>6. After(from, l0, n) < l1.i
      <4>1. After(from, l0, n) \in 1..a BY BufAt
      <4>2. l0.i <= l1.i BY <1>1, <1>2
      <4>3. l0.buf # <<>> => Len(l0.buf) # 0
        <5>1. l0.buf \in Seq(S) BY DEF Lexers
        <5> QED BY <5>1, EmptySeq
      <4> HIDE DEF a, n
      <4> QED BY <1>1, <1>2, <4>1, <4>2, <4>3
    <3>7. l1.out[k].next <= l1.i BY <1>2, <3>4
    <3>8. TextStart(l1, k) = a /\ TextEnd(l1, k) = l0.i - 1 BY <1>11, <1>12, <2>3
    <3> HIDE DEF a, n, delim
    <3>9. l1.out[k].delim = SubSeq(d, TextEnd(l1, k) + 1, l1.out[k].next - 1)
      BY <3>1, <3>4, <3>8 DEF delim
    <3> QED BY <3>2, <3>3, <3>4, <3>5, <3>6, <3>7, <3>8, <3>9 DEF StatementSliced
  <2> QED BY <1>1, <2>1, <2>2, <2>3
<1> QED BY <1>6, <1>10, <1>13 DEF Sliced

LEMMA RoundSliced ==
  ASSUME NEW S, NEW d \in Seq(S), NEW e \in 0..Len(d), NEW from \in Nat \ {0}, NEW l0 \in Lexers(S), l0.i \in 1..e,
         Sliced(d, from, l0)
  PROVE  LET l1 == Feed(d, l0, e)
         IN  l1 \in Lexers(S) /\ l1.i \in (l0.i + 1)..(e + 1) /\ Sliced(d, from, l1)
<1> DEFINE l1 == Feed(d, l0, e)
<1>1. Round(S, d, l0, l1, e) BY FeedRound
<1> HIDE DEF l1
<1>2. /\ l1 \in Lexers(S) /\ l1.i \in Nat /\ Len(d) \in Nat /\ e \in Nat
      /\ l0.i < l1.i /\ l1.i <= e + 1
  BY <1>1, LenProperties DEF Round, Lexers
<1>3. l0.i \in 1..(Len(d) + 1) /\ l1.i \in l0.i..(Len(d) + 1) /\ l1.i \in (l0.i + 1)..(e + 1)
  BY <1>2
<1>4. Sliced(d, from, l1)
  BY <1>1, <1>2, <1>3, TakenSliced, DroppedSliced, EmittedSliced DEF Round
<1> QED BY <1>2, <1>3, <1>4 DEF l1

LEMMA EofSliced ==
  ASSUME NEW S, NEW d \in Seq(S), NEW from \in Nat \ {0}, NEW l0 \in Lexers(S), l0.i \in 1..(Len(d) + 1), Sliced(d, from, l0)
  PROVE  LET l1 == AtEOF(l0)
         IN  l1 \in Lexers(S) /\ l1.i = l0.i /\ Sliced(d, from, l1)
<1> DEFINE l1 == AtEOF(l0)
           stmt == [text |-> l0.buf, next |-> l0.i, delim |-> <<>>, mode |-> l0.mode]
           out == Append(l0.out, stmt)
<1>1. CASE l0.buf = <<>> BY <1>1 DEF AtEOF
<1>2. CASE l0.buf # <<>>
  <2>1. /\ l0.buf \in Seq(S) /\ l0.i \in Nat \ {0} /\ l0.mode \in SplitterConfigs(S)
        /\ l0.out \in Seq(Statements(S))
    BY DEF Lexers
  <2>2. stmt \in Statements(S) BY <2>1, EmptySeq DEF Statements
  <2>3. out \in Seq(Statements(S)) BY <2>1, <2>2, AppendProperties
  <2>4. l1 = [l0 EXCEPT !.buf = <<>>, !.out = out] BY <1>2 DEF AtEOF
  <2> HIDE DEF l1, out
  <2>5. l1 \in Lexers(S) BY <2>3, <2>4, EmptySeq DEF Lexers
  <2>6. l1.i = l0.i /\ l1.buf = <<>> /\ l1.out = out /\ l1.mode = l0.mode
    BY <2>4 DEF Lexers
  <2>7. stmt = [text |-> l0.buf, next |-> l1.i, delim |-> SubSeq(d, l0.i, l1.i - 1),
                mode |-> l1.mode]
    BY <2>1, <2>6, EmptySlice
  <2>8. Emitted(d, l0, l1) BY <2>6, <2>7 DEF Emitted, out
  <2>9. Len(d) \in Nat /\ l1.i \in l0.i..(Len(d) + 1) BY <2>1, <2>6, LenProperties
  <2> QED BY <1>2, <2>5, <2>6, <2>8, <2>9, EmittedSliced DEF l1
<1> QED BY <1>1, <1>2

LEMMA NewSliced ==
  ASSUME NEW S, NEW d \in Seq(S), NEW from \in 1..(Len(d) + 1), NEW mode \in SplitterConfigs(S)
  PROVE  /\ NewLexer(from, mode) \in Lexers(S)
         /\ NewLexer(from, mode).buf = <<>> /\ NewLexer(from, mode).out = <<>>
         /\ Sliced(d, from, NewLexer(from, mode))
<1> DEFINE x == NewLexer(from, mode)
<1>1. Len(d) \in Nat BY LenProperties
<1>2. x \in Lexers(S)
  BY <1>1, EmptySeq DEF NewLexer, Lexers, LexStates
<1>3. x.i = from /\ x.buf = <<>> /\ x.out = <<>> BY DEF NewLexer
<1> HIDE DEF x
<1>4. Sliced(d, from, x)
  <2>1. Len(x.buf) = 0 /\ Len(x.out) = 0 BY <1>3, EmptySeq
  <2>2. BufStart(x) = from /\ from \in Nat \ {0} BY <1>1, <1>3, <2>1 DEF BufStart
  <2>3. x.buf = SubSeq(d, BufStart(x), x.i - 1)
    BY <1>3, <2>2, EmptySlice
  <2>4. Skipped(d, After(from, x, Len(x.out)), BufStart(x))
    BY <2>1, <2>2 DEF After, Skipped
  <2>5. DOMAIN x.out = {} BY <1>3
  <2> QED BY <2>3, <2>4, <2>5 DEF Sliced
<1> QED BY <1>2, <1>3, <1>4 DEF x

------------------------------------------------------------------------------
(* Split: the same loop as a function.  It is well defined, and hands on   *)
(* slices of the dump from the position where it starts.                   *)

Rounds(d, end, x, f, k) ==
  IF k = 0 THEN {x} ELSE {FeedOn(d, y, end) : y \in f[k - 1]}

LEMMA NoRound ==
  ASSUME NEW d, NEW end, NEW x, NEW f
  PROVE  Rounds(d, end, x, f, 0) = {x}
BY DEF Rounds

LEMMA NextRound ==
  ASSUME NEW d, NEW end, NEW x, NEW f, NEW k \in Nat, NEW y, f[k] = {y}
  PROVE  Rounds(d, end, x, f, k + 1) = {FeedOn(d, y, end)}
<1>1. k + 1 # 0 /\ k + 1 - 1 = k OBVIOUS
<1>2. Rounds(d, end, x, f, k + 1) = {FeedOn(d, z, end) : z \in f[k]}
  BY <1>1 DEF Rounds
<1> QED BY <1>2

LEMMA FedExists ==
  ASSUME NEW d, NEW x, NEW end \in Nat
  PROVE  \E f : f = [k \in 0..end |-> Rounds(d, end, x, f, k)]
<1> DEFINE T == {n \in Nat : \E f : f = [k \in 0..n |-> Rounds(d, end, x, f, k)]}
<1>1. 0 \in T
  <2> DEFINE f == [k \in 0..0 |-> {x}]
  <2>1. f = [k \in 0..0 |-> Rounds(d, end, x, f, k)] BY DEF Rounds
  <2> QED BY <2>1
<1>2. ASSUME NEW n \in Nat, n \in T PROVE n + 1 \in T
  <2>1. PICK f : f = [k \in 0..n |-> Rounds(d, end, x, f, k)] BY <1>2
  <2> DEFINE h == [k \in 0..(n + 1) |-> IF k <= n THEN f[k] ELSE Rounds(d, end, x, f, k)]
  <2>2. ASSUME NEW k \in 0..(n + 1) PROVE h[k] = Rounds(d, end, x, h, k)
    <3>1. h[k] = Rounds(d, end, x, f, k)
      <4>1. CASE k <= n
        <5>1. k \in 0..n BY <4>1
        <5>2. f[k] = Rounds(d, end, x, f, k) BY <2>1, <5>1
        <5> QED BY <4>1, <5>2
      <4>2. CASE ~(k <= n) BY <4>2
      <4> QED BY <4>1, <4>2
    <3>2. CASE k = 0 BY <3>1, <3>2 DEF Rounds
    <3>3. CASE k # 0
      <4>1. k - 1 \in 0..(n + 1) /\ k - 1 <= n BY <3>3
      <4>2. h[k - 1] = f[k - 1] BY <4>1
      <4> HIDE DEF h
      <4> QED BY <3>1, <3>3, <4>2 DEF Rounds
    <3> QED BY <3>2, <3>3
  <2>3. h = [k \in 0..(n + 1) |-> Rounds(d, end, x, h, k)]
    BY <2>2
  <2> HIDE DEF h
  <2>4. n + 1 \in Nat BY <1>2
  <2> QED BY <2>3, <2>4
<1>3. Nat \subseteq T
  <2> HIDE DEF T
  <2> QED BY <1>1, <1>2, Induction
<1> QED BY <1>3

LEMMA FedIs ==
  ASSUME NEW S, NEW d \in Seq(S), NEW from, NEW mode, NEW k \in 0..Len(d)
  PROVE  Fed(d, from, mode)[k]
           = Rounds(d, Len(d), NewLexer(from, mode), Fed(d, from, mode), k)
<1>1. Len(d) \in Nat BY LenProperties
<1> DEFINE x == NewLexer(from, mode)
           f == Fed(d, from, mode)
<1>2. f = CHOOSE g : g = [j \in 0..Len(d) |-> Rounds(d, Len(d), x, g, j)]
  BY DEF Fed, Rounds
<1> HIDE DEF x, f
<1>3. \E g : g = [j \in 0..Len(d) |-> Rounds(d, Len(d), x, g, j)]
  BY <1>1, FedExists
<1>4. f = [j \in 0..Len(d) |-> Rounds(d, Len(d), x, f, j)]
  BY <1>2, <1>3
<1> QED BY <1>4 DEF f, x

LEMMA FedSliced ==
  ASSUME NEW S, NEW d \in Seq(S), NEW from \in 1..(Len(d) + 1), NEW mode \in SplitterConfigs(S),
         NEW n \in 0..Len(d)
  PROVE  \E x \in Lexers(S) : /\ Fed(d, from, mode)[n] = {x}
                              /\ x.i \in 1..(Len(d) + 1) /\ Sliced(d, from, x)
<1> DEFINE f == Fed(d, from, mode)
           Good(k) == \E x \in Lexers(S) :
                        f[k] = {x} /\ x.i \in 1..(Len(d) + 1) /\ Sliced(d, from, x)
           T == {k \in Nat : k <= Len(d) => Good(k)}
<1>1. Len(d) \in Nat /\ from \in Nat \ {0} BY LenProperties
<1>2. ASSUME NEW k \in 0..Len(d)
      PROVE  f[k] = Rounds(d, Len(d), NewLexer(from, mode), f, k)
  BY FedIs
<1> HIDE DEF f
<1>3. Good(0)
  <2> DEFINE x == NewLexer(from, mode)
  <2>1. f[0] = {x}
    <3>1. 0 \in 0..Len(d) BY <1>1
    <3>2. f[0] = Rounds(d, Len(d), x, f, 0) BY <1>2, <3>1
    <3> HIDE DEF x
    <3> QED BY <3>2, NoRound
  <2>2. x.i = from BY DEF NewLexer
  <2>3. x \in Lexers(S) /\ Sliced(d, from, x) BY NewSliced
  <2> HIDE DEF x
  <2> QED BY <2>1, <2>2, <2>3
<1>4. ASSUME NEW k \in Nat, k \in T, k + 1 <= Len(d) PROVE Good(k + 1)
  <2>1. PICK x \in Lexers(S) : f[k] = {x} /\ x.i \in 1..(Len(d) + 1) /\ Sliced(d, from, x)
    BY <1>1, <1>4
  <2> DEFINE y == FeedOn(d, x, Len(d))
  <2>2. f[k + 1] = {y}
    <3>1. k + 1 \in 0..Len(d) BY <1>1, <1>4
    <3>2. f[k + 1] = Rounds(d, Len(d), NewLexer(from, mode), f, k + 1) BY <1>2, <3>1
    <3>3. Rounds(d, Len(d), NewLexer(from, mode), f, k + 1) = {FeedOn(d, x, Len(d))}
      BY <2>1, NextRound
    <3> QED BY <3>2, <3>3
  <2>3. y \in Lexers(S) /\ y.i \in 1..(Len(d) + 1) /\ Sliced(d, from, y)
    <3>1. CASE x.i > Len(d) BY <2>1, <3>1 DEF FeedOn
    <3>2. CASE ~(x.i > Len(d))
      <4>1. x.i \in 1..Len(d) /\ Len(d) \in 0..Len(d) BY <1>1, <2>1, <3>2
      <4>2. y = Feed(d, x, Len(d)) BY <3>2 DEF FeedOn
      <4> HIDE DEF y
      <4>3. y \in Lexers(S) /\ y.i \in (x.i + 1)..(Len(d) + 1) /\ Sliced(d, from, y)
        BY <1>1, <2>1, <4>1, <4>2, RoundSliced
      <4> QED BY <1>1, <4>1, <4>3
    <3> QED BY <3>1, <3>2
  <2> HIDE DEF y
  <2> QED BY <2>2, <2>3
<1>5. Nat \subseteq T
  <2>1. 0 \in T BY <1>3
  <2>2. ASSUME NEW k \in Nat, k \in T PROVE k + 1 \in T
    <3>1. k + 1 <= Len(d) => Good(k + 1) BY <1>4, <2>2
    <3> HIDE DEF Good
    <3> QED BY <3>1
  <2> HIDE DEF T
  <2> QED BY <2>1, <2>2, Induction
<1> QED BY <1>1, <1>5 DEF f

LEMMA SplitSliced ==
  ASSUME NEW S, NEW d \in Seq(S), NEW from \in 1..(Len(d) + 1), NEW mode \in SplitterConfigs(S)
  PROVE  \E x \in Lexers(S) : /\ Split(d, from, mode) = x.out
                              /\ x.i \in 1..(Len(d) + 1) /\ Sliced(d, from, x)
<1>1. Len(d) \in 0..Len(d) /\ from \in Nat \ {0} BY LenProperties
<1>2. PICK x \in Lexers(S) : /\ Fed(d, from, mode)[Len(d)] = {x}
                            /\ x.i \in 1..(Len(d) + 1) /\ Sliced(d, from, x)
  BY <1>1, FedSliced
<1>3. Split(d, from, mode) = AtEOF(x).out BY <1>2 DEF Split
<1>4. AtEOF(x) \in Lexers(S) /\ AtEOF(x).i = x.i /\ Sliced(d, from, AtEOF(x))
  BY <1>1, <1>2, EofSliced
<1> QED BY <1>2, <1>3, <1>4

(* What RestoreRunner assumes of its statements (CutsAssumption), the      *)
(* lexer delivers for every dump, position and configuration: resumed at   *)
(* any byte, the splitter moves forward, stays inside the file, and hands  *)
(* on no more bytes than it moved over.                                    *)
THEOREM LexerCuts ==
  ASSUME NEW S, NEW d \in Seq(S), NEW p \in 0..Len(d), NEW mode \in SplitterConfigs(S),
         NEW c \in FirstStatement(d, p, mode)
  PROVE  /\ c.next \in Nat /\ c.len \in Nat /\ c.mode \in SplitterConfigs(S)
         /\ c.text \in Seq(S)
         /\ p < c.next /\ c.next <= Len(d) /\ p + c.len <= c.next
<1> DEFINE from == p + 1
           out == Split(d, from, mode)
           o == out[1]
<1>1. Len(d) \in Nat /\ from \in 1..(Len(d) + 1) BY LenProperties
<1>2. PICK x \in Lexers(S) : out = x.out /\ x.i \in 1..(Len(d) + 1) /\ Sliced(d, from, x)
  BY <1>1, SplitSliced
<1>3. out # <<>>
      /\ c = [next |-> o.next - 1, len |-> Len(o.text), text |-> o.text, mode |-> o.mode]
  BY DEF FirstStatement
<1> HIDE DEF out, from
<1>4. out \in Seq(Statements(S)) /\ Len(out) \in Nat \ {0} /\ 1 \in DOMAIN x.out
  <2>1. out \in Seq(Statements(S)) BY <1>2 DEF Lexers
  <2>2. Len(out) \in Nat \ {0} BY <1>3, <2>1, EmptySeq
  <2>3. 1 \in DOMAIN out BY <2>1, <2>2, LenProperties
  <2> QED BY <1>2, <2>1, <2>2, <2>3
<1>5. o \in Statements(S) BY <1>4, ElementOfSeq
<1>6. StatementSliced(d, from, x, 1) BY <1>2, <1>4 DEF Sliced
<1>7. /\ o.next \in Nat \ {0} /\ o.text \in Seq(S) /\ o.delim \in Seq(S)
      /\ o.mode \in SplitterConfigs(S)
  BY <1>5 DEF Statements
<1>8. Len(o.text) \in Nat /\ Len(o.delim) \in Nat BY <1>7, LenProperties
<1>9. o = x.out[1] BY <1>2
<1> HIDE DEF o
<1>10. from < o.next /\ o.next <= x.i BY <1>6, <1>9 DEF StatementSliced, After
<1>11. from <= o.next - Len(o.delim) - 1 - Len(o.text) + 1
  BY <1>6, <1>9 DEF StatementSliced, Skipped, After, TextStart, TextEnd
<1>12. p < o.next - 1 /\ o.next - 1 <= Len(d) /\ p + Len(o.text) <= o.next - 1
  <2>1. x.i <= Len(d) + 1 /\ x.i \in Nat BY <1>1, <1>2
  <2>2. p \in Nat /\ from = p + 1 BY <1>1 DEF from
  <2> QED BY <1>1, <1>7, <1>8, <1>10, <1>11, <2>1, <2>2, SMTT(20)
<1> QED BY <1>3, <1>7, <1>8, <1>12

------------------------------------------------------------------------------
(* Theorems about Run *)

LEMMA DefaultType == DefaultSplitterConfig \in SplitterConfigs(Symbols)
<1>1. <<";">> \in Seq(Symbols) /\ <<";">> # <<>> BY DEF Symbols
<1> QED BY <1>1 DEF DefaultSplitterConfig, SplitterConfigs

LEMMA InitHolds == Init => TypeOK /\ SlicesOfDump
<1> SUFFICES ASSUME Init PROVE TypeOK /\ SlicesOfDump OBVIOUS
<1>1. PICK in \in Inputs : data \in in.dumps /\ sizes = in.sizes BY DEF Init
<1>2. data \in Seq(Symbols)
  <2>1. data \in Seq(Range(data)) BY <1>1, InputsAssumption DEF InputsAssumption
  <2> QED BY <2>1, SeqMonotonic DEF Symbols
<1>3. sizes \subseteq Nat \ {0} /\ sizes # {} BY <1>1, InputsAssumption DEF InputsAssumption
<1>4. l = NewLexer(1, DefaultSplitterConfig) /\ upto = 0 /\ ended = "no" BY DEF Init
<1>5. Len(data) \in Nat BY <1>2, LenProperties
<1>6. l \in Lexers(Symbols) /\ Sliced(data, 1, l)
  BY <1>2, <1>4, <1>5, DefaultType, NewSliced
<1>7. l.i = 1 BY <1>4 DEF NewLexer
<1> QED BY <1>2, <1>3, <1>4, <1>5, <1>6, <1>7 DEF TypeOK, SlicesOfDump

LEMMA NextHolds == TypeOK /\ SlicesOfDump /\ [Next]_vars => TypeOK' /\ SlicesOfDump'
<1> SUFFICES ASSUME TypeOK, SlicesOfDump, [Next]_vars PROVE TypeOK' /\ SlicesOfDump'
  OBVIOUS
<1> USE DEF TypeOK, SlicesOfDump
<1>1. Len(data) \in Nat BY LenProperties
<1>2. CASE Read
  <2>1. PICK n \in sizes :
          upto' = IF upto + n < Len(data) THEN upto + n ELSE Len(data)
    BY <1>2 DEF Read
  <2>2. upto' \in upto..Len(data) BY <1>1, <2>1
  <2>3. data' = data /\ sizes' = sizes /\ l' = l /\ ended' = ended BY <1>2 DEF Read
  <2>4. l'.i \in 1..(upto' + 1) /\ upto' \in 0..Len(data') BY <1>1, <2>2, <2>3
  <2>5. Symbols' = Symbols BY <2>3 DEF Symbols
  <2> QED BY <2>3, <2>4, <2>5
<1>3. ASSUME NEW st \in LexStates, FeedIn(st) PROVE TypeOK' /\ SlicesOfDump'
  <2>1. l.i \in 1..upto BY <1>1, <1>3 DEF FeedIn, ChunkConsumed
  <2>2. l' = Feed(data, l, upto) /\ UNCHANGED <<data, sizes, upto, ended>>
    BY <1>3 DEF FeedIn
  <2>3. l' \in Lexers(Symbols) /\ l'.i \in (l.i + 1)..(upto + 1) /\ Sliced(data, 1, l')
    BY <2>1, <2>2, RoundSliced
  <2>4. l'.i \in 1..(upto + 1) BY <1>1, <2>1, <2>3
  <2> QED BY <2>2, <2>3, <2>4 DEF Symbols
<1>4. CASE Eof
  <2>1. l.i \in 1..(Len(data) + 1) BY <1>4 DEF Eof
  <2>2. l' \in Lexers(Symbols) /\ l'.i = l.i /\ Sliced(data, 1, l')
    BY <1>4, <2>1, EofSliced DEF Eof
  <2> QED BY <1>4, <2>2 DEF Eof, Symbols
<1>5. CASE ReadFails
  BY <1>5 DEF ReadFails, Symbols
<1>6. CASE UNCHANGED vars
  BY <1>6 DEF vars, Symbols
<1> QED BY <1>2, <1>3, <1>4, <1>5, <1>6 DEF Next

(* Whatever the dump and whatever the sizes of the chunks, the splitter    *)
(* keeps its types, and in particular never sets an empty delimiter, nor   *)
(* reads past its chunk.                                                   *)
THEOREM LexerTyped == Spec => []TypeOK
<1> QED BY InitHolds, NextHolds, PTL DEF Spec

(* Of every dump, read in chunks of any sizes, in any SQL mode: what       *)
(* reaches the callback are slices of the dump in their order, and between *)
(* two of them nothing is left out but delimiters and DELIMITER commands.  *)
THEOREM NothingIsLost == Spec => []SlicesOfDump
<1> QED BY InitHolds, NextHolds, PTL DEF Spec

------------------------------------------------------------------------------
(* Two lexers side by side: x reads a dump in chunks, y as one.  They are  *)
(* equal, but for the two kinds of block comment, which differ in nothing  *)
(* the lexer does; or x has closed a quoted region at the end of its chunk *)
(* whose doubled quote y takes in one round.                               *)

BlockComments == {BlockComment, ExecComment}
Agree(x, y) ==
  /\ x.i = y.i /\ x.buf = y.buf /\ x.mode = y.mode /\ x.out = y.out
  /\ x.st = y.st \/ (x.st \in BlockComments /\ y.st \in BlockComments)

(* The quotes of the quoted regions. *)
QuoteOf(st, q) ==
  \/ st = SingleQuote /\ q = "'"
  \/ st = DoubleQuote /\ q = "\""
  \/ st = Backtick /\ q = "bq"
Half(d, x, y) ==
  /\ \E q : QuoteOf(y.st, q) /\ d[y.i] = q /\ d[y.i + 1] = q
  /\ y.i + 1 <= Len(d)
  /\ x = [Take(d, y) EXCEPT !.st = Default]

(* Under ANSI_QUOTES a double quote opens an identifier. *)
NoAnsiString(y) == y.st = DoubleQuote => ~y.mode.ansi

LEMMA SameLexer ==
  ASSUME NEW S, NEW x \in Lexers(S), NEW y \in Lexers(S), Agree(x, y), x.st = y.st
  PROVE  x = y
BY DEF Agree, Lexers

LEMMA TakeFields ==
  ASSUME NEW S, NEW d, NEW x \in Lexers(S)
  PROVE  /\ Take(d, x).i = x.i + 1 /\ Take(d, x).buf = Append(x.buf, d[x.i])
         /\ Take(d, x).mode = x.mode /\ Take(d, x).out = x.out /\ Take(d, x).st = x.st
         /\ \A st : LET z == [Take(d, x) EXCEPT !.st = st]
                    IN  /\ z.i = x.i + 1 /\ z.buf = Append(x.buf, d[x.i])
                        /\ z.mode = x.mode /\ z.out = x.out /\ z.st = st
BY DEF Take, Lexers

LEMMA Take2Fields ==
  ASSUME NEW S, NEW d, NEW x \in Lexers(S)
  PROVE  /\ Take2(d, x).i = x.i + 2 /\ Take2(d, x).buf = x.buf \o <<d[x.i], d[x.i + 1]>>
         /\ Take2(d, x).mode = x.mode /\ Take2(d, x).out = x.out /\ Take2(d, x).st = x.st
         /\ \A st : LET z == [Take2(d, x) EXCEPT !.st = st]
                    IN  /\ z.i = x.i + 2 /\ z.buf = x.buf \o <<d[x.i], d[x.i + 1]>>
                        /\ z.mode = x.mode /\ z.out = x.out /\ z.st = st
BY DEF Take2, Lexers

LEMMA Take2Keeps ==
  ASSUME NEW S, NEW d, NEW x \in Lexers(S)
  PROVE  /\ Take2(d, x).mode = x.mode /\ Take2(d, x).st = x.st
         /\ \A st : LET z == [Take2(d, x) EXCEPT !.st = st]
                    IN  z.mode = x.mode /\ z.st = st
BY DEF Take2, Lexers

LEMMA AgreeTakes ==
  ASSUME NEW S, NEW d, NEW x \in Lexers(S), NEW y \in Lexers(S), Agree(x, y)
  PROVE  /\ Agree(Take(d, x), Take(d, y)) /\ Agree(Take2(d, x), Take2(d, y))
         /\ \A st : Agree([Take2(d, x) EXCEPT !.st = st], [Take2(d, y) EXCEPT !.st = st])
         /\ \A st, su \in BlockComments :
              Agree([Take(d, x) EXCEPT !.st = st], [Take(d, y) EXCEPT !.st = su])
<1>1. Agree(Take(d, x), Take(d, y)) BY TakeFields, SMTT(20) DEF Agree
<1>0. x.i = y.i /\ x.buf \o <<d[x.i], d[x.i + 1]>> = y.buf \o <<d[y.i], d[y.i + 1]>>
  BY DEF Agree
<1> DEFINE x2 == Take2(d, x)
           y2 == Take2(d, y)
<1>x. /\ x2.i = x.i + 2 /\ x2.buf = x.buf \o <<d[x.i], d[x.i + 1]>>
      /\ x2.mode = x.mode /\ x2.out = x.out /\ x2.st = x.st
  BY Take2Fields
<1>y. /\ y2.i = y.i + 2 /\ y2.buf = y.buf \o <<d[y.i], d[y.i + 1]>>
      /\ y2.mode = y.mode /\ y2.out = y.out /\ y2.st = y.st
  BY Take2Fields
<1>2. Agree(x2, y2)
  <2> HIDE DEF x2, y2
  <2> QED BY <1>0, <1>x, <1>y DEF Agree
<1>3. ASSUME NEW st
      PROVE  Agree([x2 EXCEPT !.st = st], [y2 EXCEPT !.st = st])
  <2> DEFINE x3 == [x2 EXCEPT !.st = st]
             y3 == [y2 EXCEPT !.st = st]
  <2>x. /\ x3.i = x.i + 2 /\ x3.buf = x.buf \o <<d[x.i], d[x.i + 1]>>
        /\ x3.mode = x.mode /\ x3.out = x.out /\ x3.st = st
    BY Take2Fields
  <2>y. /\ y3.i = y.i + 2 /\ y3.buf = y.buf \o <<d[y.i], d[y.i + 1]>>
        /\ y3.mode = y.mode /\ y3.out = y.out /\ y3.st = st
    BY Take2Fields
  <2> HIDE DEF x3, y3
  <2>1. Agree(x3, y3) BY <1>0, <2>x, <2>y DEF Agree
  <2> QED BY <2>1 DEF x3, y3
<1>4. ASSUME NEW st \in BlockComments, NEW su \in BlockComments
      PROVE  Agree([Take(d, x) EXCEPT !.st = st], [Take(d, y) EXCEPT !.st = su])
  <2> DEFINE x1 == [Take(d, x) EXCEPT !.st = st]
             y1 == [Take(d, y) EXCEPT !.st = su]
  <2>x. /\ x1.i = x.i + 1 /\ x1.buf = Append(x.buf, d[x.i])
        /\ x1.mode = x.mode /\ x1.out = x.out /\ x1.st = st
    BY TakeFields
  <2>y. /\ y1.i = y.i + 1 /\ y1.buf = Append(y.buf, d[y.i])
        /\ y1.mode = y.mode /\ y1.out = y.out /\ y1.st = su
    BY TakeFields
  <2> HIDE DEF x1, y1
  <2>0. x.i = y.i /\ x.buf = y.buf /\ x.mode = y.mode /\ x.out = y.out BY DEF Agree
  <2>1. Agree(x1, y1) BY <1>4, <2>0, <2>x, <2>y DEF Agree
  <2> QED BY <2>1 DEF x1, y1
<1> QED BY <1>1, <1>2, <1>3, <1>4

LEMMA AgreesWithItself == \A x : Agree(x, x)
BY DEF Agree

LEMMA SliceOfSlice ==
  ASSUME NEW S, NEW s \in Seq(S), NEW a \in 1..Len(s), NEW n \in Nat, a + n - 1 <= Len(s),
         NEW k \in 1..n
  PROVE  SubSeq(SubSeq(s, a, a + n - 1), 1, k) = SubSeq(s, a, a + k - 1)
<1> DEFINE j == a + n - 1
<1>1. Len(s) \in Nat BY LenProperties
<1>2. j \in 1..Len(s) /\ 1 \in 1..(j - a + 1) /\ k \in 1..(j - a + 1) /\ a + 1 - 1 = a
  BY <1>1
<1> HIDE DEF j
<1>3. SubSeq(SubSeq(s, a, j), 1, k) = SubSeq(s, a + 1 - 1, a + k - 1)
  BY <1>2, SubSeqOfSubSeq
<1> QED BY <1>2, <1>3 DEF j

(* At a harmless end of a chunk the lexer sees what it would see beyond.   *)
LEMMA SameLookAhead ==
  ASSUME NEW S, NEW d \in Seq(S), NEW e \in 0..Len(d), NEW x \in Lexers(S), x.i \in 1..e,
         Harmless(d, e, x.mode.delim)
  PROVE  /\ d[x.i] \in {"-", "/", "*", "\\"} =>
              /\ Next1(d, x, e) = Next1(d, x, Len(d))
              /\ x.i + 1 <= e <=> x.i + 1 <= Len(d)
         /\ DelimiterMatch(d, x, e) <=> DelimiterMatch(d, x, Len(d))
<1>1. Len(d) \in Nat /\ x.i \in Nat BY LenProperties DEF Lexers
<1>2. CASE e = Len(d) BY <1>2
<1>3. CASE e # Len(d)
  <2>1. e \in 1..(Len(d) - 1) BY <1>1, <1>3
  <2>2. d[e] \notin {"-", "/", "*", "\\"} BY <2>1 DEF Harmless
  <2>3. ASSUME d[x.i] \in {"-", "/", "*", "\\"} PROVE x.i + 1 <= e /\ x.i + 1 <= Len(d)
    <3>1. x.i # e BY <2>2, <2>3
    <3> QED BY <1>1, <3>1
  <2>4. DelimiterMatch(d, x, e) => DelimiterMatch(d, x, Len(d))
    <3> DEFINE n == Len(x.mode.delim)
    <3>1. n \in Nat BY LenProperties DEF Lexers, SplitterConfigs
    <3> QED BY <1>1, <3>1 DEF DelimiterMatch
  <2>5. ASSUME DelimiterMatch(d, x, Len(d)), ~DelimiterMatch(d, x, e) PROVE FALSE
    <3> DEFINE s == x.mode.delim
               n == Len(s)
               k == e - x.i + 1
    <3>1. s \in Seq(S) /\ n \in Nat BY LenProperties DEF Lexers, SplitterConfigs
    <3>2. /\ x.i + n - 1 <= Len(d) /\ SubSeq(d, x.i, x.i + n - 1) = s
          /\ ~(x.i + n - 1 <= e)
      BY <2>5 DEF DelimiterMatch
    <3> HIDE DEF s, n
    <3>3. k \in 1..(n - 1) /\ k <= e /\ e - k + 1 = x.i BY <1>1, <3>1, <3>2
    <3>4. SubSeq(d, x.i, e) # SubSeq(s, 1, k)
      <4>1. SubSeq(d, e - k + 1, e) # SubSeq(s, 1, k)
        <5> HIDE DEF k
        <5> QED BY <2>1, <3>3 DEF Harmless, s, n
      <4> QED BY <3>3, <4>1
    <3>5. SubSeq(s, 1, k) = SubSeq(d, x.i, e)
      <4>1. x.i \in 1..Len(d) /\ x.i + k - 1 = e /\ k \in 1..n
        BY <1>1, <3>1, <3>3
      <4> HIDE DEF k
      <4> QED BY <3>1, <3>2, <4>1, SliceOfSlice
    <3> QED BY <3>4, <3>5
  <2> QED BY <1>1, <2>3, <2>4, <2>5 DEF Next1
<1> QED BY <1>2, <1>3

(* One round at a harmless end of a chunk, beside the same round with the   *)
(* whole dump in sight.                                                    *)
LEMMA DefaultAgrees ==
  ASSUME NEW S, NEW d \in Seq(S), NEW e \in 0..Len(d), NEW x \in Lexers(S), x.i \in 1..e,
         Harmless(d, e, x.mode.delim)
  PROVE  Agree(FeedDefault(d, x, e), FeedDefault(d, x, Len(d)))
<1> DEFINE b == d[x.i]
           n == Len(d)
<1>1. b \in {"-", "/"} => Next1(d, x, e) = Next1(d, x, n) BY SameLookAhead
<1>2. CASE b = "/" /\ Next1(d, x, n) = "*"
  <2>1. ASSUME NEW k, Next1(d, x, k) = "*"
        PROVE  \E st \in BlockComments : FeedDefault(d, x, k) = [Take(d, x) EXCEPT !.st = st]
    BY <1>2, <2>1 DEF FeedDefault, BlockComments
  <2>2. Next1(d, x, e) = "*" BY <1>1, <1>2
  <2>3. PICK st \in BlockComments : FeedDefault(d, x, e) = [Take(d, x) EXCEPT !.st = st]
    BY <2>1, <2>2
  <2>4. PICK su \in BlockComments : FeedDefault(d, x, n) = [Take(d, x) EXCEPT !.st = su]
    BY <1>2, <2>1
  <2>5. Agree([Take(d, x) EXCEPT !.st = st], [Take(d, x) EXCEPT !.st = su])
    BY AgreesWithItself, AgreeTakes
  <2> QED BY <2>3, <2>4, <2>5
<1>3. CASE ~(b = "/" /\ Next1(d, x, n) = "*")
  <2>1. ~(b = "/" /\ Next1(d, x, e) = "*") BY <1>1, <1>3
  <2>2. b = "-" /\ Next1(d, x, e) = "-" <=> b = "-" /\ Next1(d, x, n) = "-" BY <1>1
  <2>3. DelimiterMatch(d, x, e) <=> DelimiterMatch(d, x, n) BY SameLookAhead
  <2>4. FeedDefault(d, x, e) = FeedDefault(d, x, n)
    BY <1>3, <2>1, <2>2, <2>3 DEF FeedDefault
  <2> QED BY <2>4, AgreesWithItself
<1> QED BY <1>2, <1>3

(* The second of two quotes, of which a chunk ends with the first.         *)
LEMMA QuotedAgrees ==
  ASSUME NEW S, NEW d \in Seq(S), NEW e \in 0..Len(d), NEW x \in Lexers(S), x.i \in 1..e,
         Harmless(d, e, x.mode.delim), NEW q, QuoteOf(x.st, q), NEW escapes
  PROVE  \/ FeedQuoted(d, x, e, q, escapes) = FeedQuoted(d, x, Len(d), q, escapes)
         \/ Half(d, FeedQuoted(d, x, e, q, escapes), x)
<1>1. Len(d) \in Nat /\ x.i \in Nat /\ e \in Nat BY LenProperties DEF Lexers
<1>2. CASE d[x.i] = "\\"
  <2>1. x.i + 1 <= e <=> x.i + 1 <= Len(d) BY <1>2, SameLookAhead
  <2>2. d[x.i] # q BY <1>2 DEF QuoteOf
  <2> QED BY <1>2, <2>1, <2>2 DEF FeedQuoted
<1>3. CASE d[x.i] # "\\" /\ d[x.i] # q
  BY <1>3 DEF FeedQuoted
<1>4. CASE d[x.i] # "\\" /\ d[x.i] = q
  <2>1. CASE Next1(d, x, e) = Next1(d, x, Len(d))
    BY <1>4, <2>1 DEF FeedQuoted
  <2>2. CASE Next1(d, x, e) # Next1(d, x, Len(d))
    <3>1. Next1(d, x, e) = "none" /\ x.i + 1 <= Len(d) BY <1>1, <2>2 DEF Next1
    <3>2. q # "none" BY DEF QuoteOf
    <3>3. FeedQuoted(d, x, e, q, escapes) = [Take(d, x) EXCEPT !.st = Default]
      BY <1>4, <3>1, <3>2 DEF FeedQuoted
    <3>4. CASE d[x.i + 1] = q
      BY <1>4, <3>1, <3>3, <3>4 DEF Half
    <3>5. CASE d[x.i + 1] # q
      <4>1. Next1(d, x, Len(d)) # q BY <3>1, <3>5 DEF Next1
      <4>2. FeedQuoted(d, x, Len(d), q, escapes) = [Take(d, x) EXCEPT !.st = Default]
        BY <1>4, <4>1 DEF FeedQuoted
      <4> QED BY <3>3, <4>2
    <3> QED BY <3>4, <3>5
  <2> QED BY <2>1, <2>2
<1> QED BY <1>2, <1>3, <1>4

(* The closed region is opened again.                                      *)
LEMMA HalfAgrees ==
  ASSUME NEW S, NEW d \in Seq(S), NEW e \in 0..Len(d), NEW y \in Lexers(S),
         NEW x \in Lexers(S), x.i \in 1..e, Half(d, x, y), NoAnsiString(y), y.i # 0
  PROVE  Agree(Feed(d, x, e), Feed(d, y, Len(d)))
<1>1. PICK q : QuoteOf(y.st, q) /\ d[y.i] = q /\ d[y.i + 1] = q BY DEF Half
<1>2. x = [Take(d, y) EXCEPT !.st = Default] /\ y.i + 1 <= Len(d) BY DEF Half
<1>3. /\ x.i = y.i + 1 /\ x.buf = Append(y.buf, q) /\ x.mode = y.mode /\ x.out = y.out
      /\ x.st = Default
  BY <1>1, <1>2, TakeFields
<1> HIDE DEF Half
<1>4. Feed(d, x, e) = [Take(d, x) EXCEPT !.st = y.st]
  <2>1. Feed(d, x, e) = FeedDefault(d, x, e) BY <1>3, States DEF Feed
  <2>2. d[x.i] = q BY <1>1, <1>3
  <2> QED BY <1>1, <1>3, <2>1, <2>2 DEF FeedDefault, QuoteOf, NoAnsiString
<1>5. Feed(d, y, Len(d)) = Take2(d, y)
  <2>1. Next1(d, y, Len(d)) = q BY <1>1, <1>2 DEF Next1
  <2>2. \E escapes : Feed(d, y, Len(d)) = FeedQuoted(d, y, Len(d), q, escapes)
    BY <1>1, States DEF Feed, QuoteOf
  <2>3. q # "\\" BY <1>1 DEF QuoteOf
  <2> QED BY <1>1, <2>1, <2>2, <2>3 DEF FeedQuoted
<1>6. Append(Append(y.buf, q), q) = y.buf \o <<q, q>>
  <2>1. y.buf \in Seq(S) /\ q \in S
    <3>1. y.i \in 1..Len(d) BY <1>2, LenProperties DEF Lexers
    <3> QED BY <1>1, <3>1, ElementOfSeq DEF Lexers
  <2> QED BY <2>1, SMTT(20)
<1>7. x.i + 1 = y.i + 2 BY <1>3 DEF Lexers
<1> DEFINE x1 == Feed(d, x, e)
           y1 == Feed(d, y, Len(d))
<1>8. /\ x1.i = x.i + 1 /\ x1.buf = Append(x.buf, d[x.i]) /\ x1.mode = x.mode
      /\ x1.out = x.out /\ x1.st = y.st
  BY <1>4, TakeFields
<1>9. /\ y1.i = y.i + 2 /\ y1.buf = y.buf \o <<q, q>> /\ y1.mode = y.mode
      /\ y1.out = y.out /\ y1.st = y.st
  BY <1>1, <1>5, Take2Fields
<1>10. d[x.i] = q BY <1>1, <1>3
<1> HIDE DEF x1, y1
<1>11. Agree(x1, y1) BY <1>3, <1>6, <1>7, <1>8, <1>9, <1>10 DEF Agree
<1> QED BY <1>11 DEF x1, y1

LEMMA FeedAgrees ==
  ASSUME NEW S, NEW d \in Seq(S), NEW e \in 0..Len(d), NEW y \in Lexers(S),
         NEW x \in Lexers(S), x.i \in 1..e, Agree(x, y), Harmless(d, e, x.mode.delim)
  PROVE  \/ Agree(Feed(d, x, e), Feed(d, y, Len(d)))
         \/ Half(d, Feed(d, x, e), y)
<1>0. x.st \in LexStates /\ y.st \in LexStates BY DEF Lexers
<1>1. CASE x.st = Default
  <2>1. x = y BY <1>1, States, SameLexer DEF Agree, BlockComments
  <2>2. \A k : Feed(d, x, k) = FeedDefault(d, x, k) BY <1>1, States DEF Feed
  <2> QED BY <2>1, <2>2, DefaultAgrees
<1>2. ASSUME NEW q, QuoteOf(x.st, q)
      PROVE  \/ Agree(Feed(d, x, e), Feed(d, y, Len(d)))
             \/ Half(d, Feed(d, x, e), y)
  <2>1. x = y BY <1>2, States, SameLexer DEF Agree, BlockComments, QuoteOf
  <2>2. \E escapes : \A k : Feed(d, x, k) = FeedQuoted(d, x, k, q, escapes)
    BY <1>2, States DEF Feed, QuoteOf
  <2> QED BY <1>2, <2>1, <2>2, QuotedAgrees, AgreesWithItself
<1>3. CASE x.st \in {LineComment, HashComment}
  <2>1. x = y BY <1>3, States, SameLexer DEF Agree, BlockComments
  <2>2. \A k : Feed(d, x, k) = FeedLineComment(d, x) BY <1>3, States DEF Feed
  <2> QED BY <2>1, <2>2, AgreesWithItself
<1>4. CASE x.st \in BlockComments
  <2>1. y.st \in BlockComments BY <1>4 DEF Agree
  <2>2. /\ Feed(d, x, e) = FeedBlockComment(d, x, e)
        /\ Feed(d, y, Len(d)) = FeedBlockComment(d, y, Len(d))
    BY <1>4, <2>1, States DEF Feed, BlockComments
  <2>3. x.i = y.i BY DEF Agree
  <2>4. d[x.i] = "*" => Next1(d, x, e) = Next1(d, y, Len(d))
    BY <2>3, SameLookAhead DEF Next1
  <2> DEFINE closes == d[x.i] = "*" /\ Next1(d, x, e) = "/"
  <2>5. closes <=> d[y.i] = "*" /\ Next1(d, y, Len(d)) = "/" BY <2>3, <2>4
  <2>6. CASE closes
    <3>1. Feed(d, x, e) = [Take2(d, x) EXCEPT !.st = Default]
      BY <2>2, <2>6 DEF FeedBlockComment
    <3>2. Feed(d, y, Len(d)) = [Take2(d, y) EXCEPT !.st = Default]
      BY <2>2, <2>5, <2>6 DEF FeedBlockComment
    <3>3. Agree([Take2(d, x) EXCEPT !.st = Default], [Take2(d, y) EXCEPT !.st = Default])
      BY AgreeTakes
    <3> QED BY <3>1, <3>2, <3>3
  <2>7. CASE ~closes
    <3>1. Feed(d, x, e) = Take(d, x) BY <2>2, <2>7 DEF FeedBlockComment
    <3>2. Feed(d, y, Len(d)) = Take(d, y) BY <2>2, <2>5, <2>7 DEF FeedBlockComment
    <3> QED BY <3>1, <3>2, AgreeTakes
  <2> QED BY <2>6, <2>7
<1>5. QuoteOf(SingleQuote, "'") /\ QuoteOf(DoubleQuote, "\"") /\ QuoteOf(Backtick, "bq")
  BY DEF QuoteOf
<1> QED BY <1>0, <1>1, <1>2, <1>3, <1>4, <1>5 DEF LexStates, BlockComments

LEMMA StringsStayStrings ==
  ASSUME NEW S, NEW d, NEW e, NEW x \in Lexers(S), NoAnsiString(x)
  PROVE  NoAnsiString(Feed(d, x, e))
<1> DEFINE x1 == Feed(d, x, e)
           Entered == [Take(d, x) EXCEPT !.st = IF x.mode.ansi THEN Backtick ELSE DoubleQuote]
<1>1. x.st \in LexStates BY DEF Lexers
<1>2. CASE x.st = Default
  <2>1. x1 = FeedDefault(d, x, e) BY <1>2, States DEF Feed
  <2>2. Take(d, x).st = Default /\ AtNewline(Take(d, x)).st = Default
    <3>1. Take(d, x).st = Default BY <1>2, TakeFields
    <3> QED BY <1>2, <3>1 DEF AtNewline, Take, Lexers
  <2>3. AtDelimiter(x).st = Default BY <1>2 DEF AtDelimiter, Lexers
  <2>4. \A st : [Take(d, x) EXCEPT !.st = st].st = st BY TakeFields
  <2>5. CASE d[x.i] = "\""
    <3>1. x1 = Entered BY <2>1, <2>5 DEF FeedDefault
    <3>2. Entered.mode = x.mode
          /\ Entered.st = IF x.mode.ansi THEN Backtick ELSE DoubleQuote
      BY TakeFields
    <3> HIDE DEF Entered, x1
    <3> QED BY <3>1, <3>2, States DEF NoAnsiString, x1
  <2>6. CASE d[x.i] # "\""
    <3>1. x1.st # DoubleQuote
      BY <2>1, <2>2, <2>3, <2>4, <2>6, States DEF FeedDefault
    <3> QED BY <3>1 DEF NoAnsiString
  <2> QED BY <2>5, <2>6
<1>3. CASE x.st # Default
  <2>1. \/ x1 = Take(d, x) \/ x1 = Take2(d, x)
        \/ \E st \in {Default, x.st} : \/ x1 = [Take(d, x) EXCEPT !.st = st]
                                     \/ x1 = [Take2(d, x) EXCEPT !.st = st]
    <3>1. Take(d, x).st = x.st BY TakeFields
    <3>2. CASE x.st \in {LineComment, HashComment}
      <4>1. x1 = FeedLineComment(d, x) BY <3>2, States DEF Feed
      <4> QED BY <3>1, <4>1 DEF FeedLineComment
    <3>3. CASE x.st \in BlockComments
      <4>1. x1 = FeedBlockComment(d, x, e) BY <3>3, States DEF Feed, BlockComments
      <4> QED BY <4>1 DEF FeedBlockComment
    <3>4. CASE x.st \in {SingleQuote, DoubleQuote, Backtick}
      <4>1. \E q, escapes : x1 = FeedQuoted(d, x, e, q, escapes)
        BY <3>4, States DEF Feed
      <4> QED BY <4>1 DEF FeedQuoted
    <3> QED BY <1>1, <1>3, <3>2, <3>3, <3>4 DEF LexStates, BlockComments
  <2>2. x1.mode = x.mode /\ x1.st \in {Default, x.st}
    <3> HIDE DEF x1, Entered
    <3>1. CASE x1 = Take(d, x) BY <3>1, TakeFields
    <3>2. CASE x1 = Take2(d, x) BY <3>2, Take2Keeps
    <3>3. ASSUME NEW st \in {Default, x.st}, x1 = [Take(d, x) EXCEPT !.st = st]
          PROVE  x1.mode = x.mode /\ x1.st = st
      BY <3>3, TakeFields
    <3>4. ASSUME NEW st \in {Default, x.st}, x1 = [Take2(d, x) EXCEPT !.st = st]
          PROVE  x1.mode = x.mode /\ x1.st = st
      BY <3>4, Take2Keeps
    <3> QED BY <2>1, <3>1, <3>2, <3>3, <3>4
  <2> QED BY <2>2, States DEF NoAnsiString
<1> QED BY <1>2, <1>3

(* The rounds of Split, one by one, and at its end.                        *)
LEMMA FedNext ==
  ASSUME NEW S, NEW d \in Seq(S), NEW from, NEW mode, NEW k \in Nat, k < Len(d),
         NEW y, Fed(d, from, mode)[k] = {y}
  PROVE  Fed(d, from, mode)[k + 1] = {FeedOn(d, y, Len(d))}
<1>1. k + 1 \in 0..Len(d) BY LenProperties
<1> DEFINE f == Fed(d, from, mode)
<1>2. f[k + 1] = Rounds(d, Len(d), NewLexer(from, mode), f, k + 1) BY <1>1, FedIs
<1>3. Rounds(d, Len(d), NewLexer(from, mode), f, k + 1) = {FeedOn(d, y, Len(d))}
  BY NextRound
<1> QED BY <1>2, <1>3

LEMMA FedStays ==
  ASSUME NEW S, NEW d \in Seq(S), NEW from, NEW mode, NEW k \in 0..Len(d),
         NEW y, Fed(d, from, mode)[k] = {y}, y.i > Len(d)
  PROVE  Fed(d, from, mode)[Len(d)] = {y}
<1> DEFINE f == Fed(d, from, mode)
           T == {n \in Nat : k <= n /\ n <= Len(d) => f[n] = {y}}
<1>1. Len(d) \in Nat /\ k \in Nat BY LenProperties
<1>2. 0 \in T BY <1>1
<1>3. ASSUME NEW n \in Nat, n \in T PROVE n + 1 \in T
  <2>1. CASE k = n + 1 BY <2>1
  <2>2. CASE k <= n /\ n + 1 <= Len(d)
    <3>1. f[n] = {y} /\ n < Len(d) BY <1>1, <1>3, <2>2
    <3>2. f[n + 1] = {FeedOn(d, y, Len(d))} BY <3>1, FedNext
    <3>3. FeedOn(d, y, Len(d)) = y BY DEF FeedOn
    <3> QED BY <3>2, <3>3
  <2>3. CASE ~(k <= n + 1 /\ n + 1 <= Len(d)) BY <2>3
  <2> QED BY <1>1, <2>1, <2>2, <2>3
<1>4. Nat \subseteq T
  <2> HIDE DEF T
  <2> QED BY <1>2, <1>3, Induction
<1> QED BY <1>1, <1>4

------------------------------------------------------------------------------
(* Chunks that end harmlessly make no difference. *)

(* Before it has ended, Run follows the rounds of Split over the dump.     *)
Follows(d, x, k, y) ==
  /\ Fed(d, 1, DefaultSplitterConfig)[k] = {y}
  /\ k < y.i /\ y.i <= Len(d) + 1
  /\ NoAnsiString(y)
  /\ Agree(x, y) \/ Half(d, x, y)
Tracked ==
  ended = "no" => \E k \in 0..Len(data), y \in Lexers(Symbols) : Follows(data, l, k, y)
Steady == Tracked /\ ChunkIndependent

LEMMA FollowsOn ==
  ASSUME NEW S, NEW d \in Seq(S), NEW e \in 0..Len(d), NEW x \in Lexers(S), x.i \in 1..e,
         Harmless(d, e, x.mode.delim),
         NEW k \in 0..Len(d), NEW y \in Lexers(S), Follows(d, x, k, y)
  PROVE  \E m \in 0..Len(d), z \in Lexers(S) :
           /\ Follows(d, Feed(d, x, e), m, z)
           /\ z = y \/ (y.i \in 1..Len(d) /\ z = Feed(d, y, Len(d)))
<1> DEFINE y1 == Feed(d, y, Len(d))
           x1 == Feed(d, x, e)
<1>0. Len(d) \in Nat /\ e \in Nat /\ k \in Nat /\ y.i \in Nat /\ x.i \in Nat
  BY LenProperties DEF Lexers
<1>1. \/ Agree(x1, y1) \/ Half(d, x1, y)
  <2>1. CASE Agree(x, y) BY <2>1, FeedAgrees
  <2>2. CASE Half(d, x, y)
    <3>1. y.i # 0 /\ NoAnsiString(y) BY <1>0 DEF Follows
    <3> QED BY <2>2, <3>1, HalfAgrees
  <2> QED BY <2>1, <2>2 DEF Follows
<1>2. CASE Half(d, x1, y)
  BY <1>2 DEF Follows
<1>3. CASE Agree(x1, y1)
  <2>1. y.i \in 1..Len(d)
    <3>1. y.i <= x.i
      <4>1. CASE Agree(x, y) BY <1>0, <4>1 DEF Agree
      <4>2. CASE Half(d, x, y)
        <5>1. x.i = y.i + 1 BY <4>2, TakeFields DEF Half
        <5> QED BY <1>0, <5>1
      <4> QED BY <4>1, <4>2 DEF Follows
    <3>2. k < y.i BY DEF Follows
    <3> QED BY <1>0, <3>1, <3>2
  <2>2. k < y.i /\ k < Len(d) BY <1>0, <2>1 DEF Follows
  <2>3. FeedOn(d, y, Len(d)) = y1 BY <1>0, <2>1 DEF FeedOn
  <2>4. Fed(d, 1, DefaultSplitterConfig)[k + 1] = {y1}
    BY <1>0, <2>2, <2>3, FedNext DEF Follows
  <2>5. Len(d) \in 0..Len(d) BY <1>0
  <2>6. Round(S, d, y, y1, Len(d)) BY <2>1, <2>5, FeedRound
  <2>7. y1 \in Lexers(S) /\ y.i < y1.i /\ y1.i <= Len(d) + 1 BY <2>6 DEF Round
  <2>8. NoAnsiString(y1) BY StringsStayStrings DEF Follows
  <2>9. y1.i \in Nat BY <2>7 DEF Lexers
  <2> HIDE DEF y1, x1
  <2>10. k + 1 \in 0..Len(d) /\ k + 1 < y1.i BY <1>0, <2>1, <2>2, <2>7, <2>9
  <2>11. Follows(d, x1, k + 1, y1) BY <1>3, <2>4, <2>7, <2>8, <2>10 DEF Follows
  <2> QED BY <2>1, <2>7, <2>10, <2>11 DEF x1, y1
<1> QED BY <1>1, <1>2, <1>3

LEMMA FollowsInit ==
  ASSUME Init
  PROVE  /\ l \in Lexers(Symbols) /\ ended = "no"
         /\ \E k \in 0..Len(data) : Follows(data, l, k, l)
<1> DEFINE x == NewLexer(1, DefaultSplitterConfig)
<1>1. data \in Seq(Symbols) /\ l \in Lexers(Symbols) BY InitHolds DEF TypeOK
<1>2. l = x /\ ended = "no" BY DEF Init
<1>3. Len(data) \in Nat BY <1>1, LenProperties
<1>4. Fed(data, 1, DefaultSplitterConfig)[0] = {x}
  <2>1. 0 \in 0..Len(data) BY <1>3
  <2> DEFINE f == Fed(data, 1, DefaultSplitterConfig)
  <2>2. f[0] = Rounds(data, Len(data), x, f, 0) BY <1>1, <2>1, FedIs
  <2> QED BY <2>2, NoRound
<1>5. x.i = 1 /\ x.st = Default BY DEF NewLexer
<1> HIDE DEF x
<1>6. Follows(data, l, 0, l)
  BY <1>2, <1>3, <1>4, <1>5, AgreesWithItself, States DEF Follows, NoAnsiString
<1>7. 0 \in 0..Len(data) BY <1>3
<1> QED BY <1>1, <1>2, <1>6, <1>7

LEMMA SteadyInit == Init => Steady
BY FollowsInit DEF Steady, Tracked, ChunkIndependent

LEMMA SteadyNext == TypeOK /\ HarmlessChunks /\ Steady /\ [Next]_vars => Steady'
<1> SUFFICES ASSUME TypeOK, HarmlessChunks, Steady, [Next]_vars PROVE Steady' OBVIOUS
<1>0. data \in Seq(Symbols) /\ l \in Lexers(Symbols) /\ upto \in 0..Len(data)
      /\ l.i \in 1..(upto + 1) /\ Len(data) \in Nat
  BY LenProperties DEF TypeOK
<1>1. CASE Read
  BY <1>1 DEF Read, Running, Steady, Tracked, ChunkIndependent, Symbols
<1>2. ASSUME NEW st \in LexStates, FeedIn(st) PROVE Steady'
  <2>1. l.i \in 1..upto BY <1>0, <1>2 DEF FeedIn, ChunkConsumed
  <2>2. /\ l' = Feed(data, l, upto) /\ ended = "no"
        /\ data' = data /\ ended' = ended /\ Symbols' = Symbols
    BY <1>2 DEF FeedIn, Running, Symbols
  <2>3. PICK k \in 0..Len(data), y \in Lexers(Symbols) : Follows(data, l, k, y)
    BY <2>2 DEF Steady, Tracked
  <2>4. \E m \in 0..Len(data), z \in Lexers(Symbols) : Follows(data, l', m, z)
    BY <1>0, <2>1, <2>2, <2>3, FollowsOn DEF HarmlessChunks
  <2> QED BY <2>2, <2>4 DEF Steady, Tracked, ChunkIndependent
<1>3. CASE Eof
  <2>1. /\ l' = AtEOF(l) /\ ended = "no" /\ ended' = "eof" /\ data' = data
        /\ l.i > Len(data)
    BY <1>0, <1>3 DEF Eof, Running, ChunkConsumed
  <2>2. PICK k \in 0..Len(data), y \in Lexers(Symbols) : Follows(data, l, k, y)
    BY <2>1 DEF Steady, Tracked
  <2>3. Agree(l, y)
    <3>1. ASSUME Half(data, l, y) PROVE FALSE
      <4>1. l.i = y.i + 1 /\ y.i + 1 <= Len(data) BY <3>1, TakeFields DEF Half
      <4> QED BY <1>0, <2>1, <4>1 DEF Lexers
    <3> QED BY <2>2, <3>1 DEF Follows
  <2>4. y.i > Len(data) BY <2>1, <2>3 DEF Agree
  <2>5. Fed(data, 1, DefaultSplitterConfig)[Len(data)] = {y}
    BY <1>0, <2>2, <2>4, FedStays DEF Follows
  <2>6. Split(data, 1, DefaultSplitterConfig) = AtEOF(y).out BY <2>5 DEF Split
  <2>7. AtEOF(y).out = AtEOF(l).out
    <3>1. y.buf = l.buf /\ y.i = l.i /\ y.mode = l.mode /\ y.out = l.out
      BY <2>3 DEF Agree
    <3> DEFINE out(z) == Append(z.out, [text |-> z.buf, next |-> z.i,
                                        delim |-> <<>>, mode |-> z.mode])
    <3>2. ASSUME NEW z \in {l, y}
          PROVE  AtEOF(z).out = IF z.buf = <<>> THEN z.out ELSE out(z)
      <4>1. z \in Lexers(Symbols) BY <1>0
      <4> QED BY <4>1 DEF AtEOF, Lexers
    <3>3. out(l) = out(y) BY <3>1
    <3> HIDE DEF out
    <3> QED BY <3>1, <3>2, <3>3
  <2> QED BY <2>1, <2>6, <2>7 DEF Steady, Tracked, ChunkIndependent
<1>4. CASE ReadFails
  BY <1>4 DEF ReadFails, Steady, Tracked, ChunkIndependent
<1>5. CASE UNCHANGED vars
  BY <1>5 DEF vars, Steady, Tracked, ChunkIndependent, Symbols
<1> QED BY <1>1, <1>2, <1>3, <1>4, <1>5 DEF Next

(* However a reader cuts a dump into chunks, the callback gets the same    *)
(* statements as from one chunk, as long as no chunk ends where the lexer  *)
(* would have looked ahead.  A quote doubled across two chunks is no such  *)
(* place: closing and opening again comes to the same.                     *)
THEOREM ChunksMakeNoDifference == Spec /\ []HarmlessChunks => []ChunkIndependent
<1>1. Steady => ChunkIndependent BY DEF Steady
<1> QED BY <1>1, SteadyInit, SteadyNext, LexerTyped, PTL DEF Spec

------------------------------------------------------------------------------
(* Where a DELIMITER command stands on a line of its own, the lexer sees   *)
(* it.  First what trimming leaves of a text.                              *)

Blank == " "
At(s, i, symbol) == s[i] = symbol

LEMMA TrimKeeps ==
  ASSUME NEW S, NEW s \in Seq(S), NEW i \in 1..Len(s), s[i] \notin Space,
         \A k \in 1..(i - 1) : s[k] \in Space
  PROVE  \E g \in i..Len(s) :
           /\ TrimSpace(s) = SubSeq(s, i, g)
           /\ s[g] \notin Space /\ \A k \in 1..Len(s) : s[k] \notin Space => k <= g
<1> DEFINE solid == {k \in DOMAIN s : s[k] \notin Space}
<1>1. Len(s) \in Nat /\ DOMAIN s = 1..Len(s) BY LenProperties
<1>2. solid \subseteq 0..Len(s) /\ solid \subseteq Nat /\ i \in solid BY <1>1
<1>3. Greatest(solid) \in solid /\ \A k \in solid : Greatest(solid) >= k
  BY <1>1, <1>2, HasGreatest
<1>4. Least(solid) = i
  <2>1. Least(solid) \in solid /\ Least(solid) <= i BY <1>2, HasLeast
  <2>2. Least(solid) \in 1..Len(s) /\ s[Least(solid)] \notin Space BY <1>1, <2>1
  <2> HIDE DEF solid
  <2>3. ~(Least(solid) \in 1..(i - 1)) BY <2>2
  <2> QED BY <1>1, <2>1, <2>2, <2>3
<1>5. TrimSpace(s) = SubSeq(s, i, Greatest(solid))
  BY <1>2, <1>4 DEF TrimSpace, Trim
<1>6. /\ Greatest(solid) \in 1..Len(s) /\ s[Greatest(solid)] \notin Space
      /\ \A k \in 1..Len(s) : s[k] \notin Space => k <= Greatest(solid)
  <2>1. \A k \in 1..Len(s) : s[k] \notin Space => k \in solid BY <1>1
  <2>2. Greatest(solid) \in 1..Len(s) /\ s[Greatest(solid)] \notin Space BY <1>1, <1>3
  <2> DEFINE g == Greatest(solid)
  <2>3. \A k \in solid : g >= k BY <1>3
  <2> HIDE DEF solid, g
  <2> QED BY <1>1, <2>1, <2>2, <2>3 DEF g
<1> HIDE DEF solid
<1>7. i <= Greatest(solid)
  <2> DEFINE g == Greatest(solid)
  <2>1. \A k \in 1..Len(s) : s[k] \notin Space => k <= g BY <1>6
  <2> HIDE DEF g
  <2> QED BY <2>1 DEF g
<1> QED BY <1>1, <1>5, <1>6, <1>7

LEMMA TrimBlank ==
  ASSUME NEW S, NEW s \in Seq(S), TrimSpace(s) = <<>>
  PROVE  \A k \in 1..Len(s) : s[k] \in Space
<1> DEFINE solid == {k \in 1..Len(s) : s[k] \notin Space}
<1> SUFFICES ASSUME solid # {} PROVE FALSE OBVIOUS
<1>1. Len(s) \in Nat BY LenProperties
<1>0. solid \subseteq Nat BY <1>1
<1>2. Least(solid) \in solid /\ \A k \in solid : Least(solid) <= k
  <2> HIDE DEF solid
  <2> QED BY <1>0, HasLeast
<1> DEFINE i == Least(solid)
<1>3. /\ i \in 1..Len(s) /\ s[i] \notin Space
      /\ \A k \in 1..(i - 1) : s[k] \in Space
  <2>1. i \in 1..Len(s) /\ s[i] \notin Space BY <1>2
  <2>2. ASSUME NEW k \in 1..(i - 1), s[k] \notin Space PROVE FALSE
    <3>1. k \in solid BY <1>1, <2>1, <2>2
    <3>2. i <= k BY <1>2, <3>1
    <3> HIDE DEF i
    <3> QED BY <1>1, <2>1, <3>2
  <2> QED BY <2>1, <2>2
<1> HIDE DEF i, solid
<1>4. PICK g \in i..Len(s) : TrimSpace(s) = SubSeq(s, i, g) BY <1>3, TrimKeeps
<1>5. Len(SubSeq(s, i, g)) = g - i + 1 BY <1>1, <1>3, Slice
<1> QED BY <1>1, <1>3, <1>4, <1>5

(* A line that begins with the word and has an argument, as it stands, ... *)
LEMMA CommandPlain ==
  ASSUME NEW S, NEW s \in Seq(S), NEW h \in 3..Len(s), s[h] \notin Space,
         At(s, 1, "DELIMITER"), At(s, 2, Blank)
  PROVE  IsDelimiterCommand(s)
<1>1. Len(s) \in Nat BY LenProperties
<1>2. s[1] \notin Space BY DEF Space, At
<1>3. 1 \in 1..Len(s) /\ 2 \in 1..Len(s) /\ h \in 1..Len(s) BY <1>1
<1>4. PICK g \in 1..Len(s) :
        /\ TrimSpace(s) = SubSeq(s, 1, g)
        /\ \A k \in 1..Len(s) : s[k] \notin Space => k <= g
  <2>1. \A k \in 1..(1 - 1) : s[k] \in Space OBVIOUS
  <2> QED BY <1>1, <1>2, <1>3, <2>1, TrimKeeps
<1>5. 3 <= g BY <1>1, <1>3, <1>4
<1> DEFINE t == SubSeq(s, 1, g)
           word == <<"DELIMITER", Blank>>
<1>6. t \in Seq(S) /\ Len(t) = g /\ t[1] = s[1] /\ t[2] = s[2]
  <2>1. 1 \in 1..(Len(s) + 1) /\ g \in (1 - 1)..Len(s) /\ g - 1 + 1 = g BY <1>1
  <2>2. /\ t \in Seq(S) /\ Len(t) = g
        /\ \A k \in 1..g : t[k] = s[1 + k - 1]
    BY <2>1, Slice
  <2> HIDE DEF t
  <2> QED BY <1>5, <2>2
<1> HIDE DEF t
<1>7. SubSeq(t, 1, 2) = <<t[1], t[2]>>
  <2>1. 1 \in 1..Len(t) /\ 1 + 1 <= Len(t) /\ 1 + 1 = 2 BY <1>5, <1>6
  <2> QED BY <1>6, <2>1, SliceTwo
<1>8. Len(word) = 2 /\ SubSeq(word, 1, 2) = word
  <2>1. word \in Seq({"DELIMITER", Blank}) /\ Len(word) = 2 OBVIOUS
  <2>2. 1 \in 1..Len(word) /\ 1 + 1 <= Len(word) /\ 1 + 1 = 2 BY <2>1
  <2>3. word[1] = "DELIMITER" /\ word[2] = Blank OBVIOUS
  <2> HIDE DEF word
  <2>4. SubSeq(word, 1, 2) = <<word[1], word[2]>> BY <2>1, <2>2, SliceTwo
  <2> QED BY <2>1, <2>3, <2>4 DEF word
<1>9. SubSeq(t, 1, 2) = word BY <1>6, <1>7 DEF At
<1> HIDE DEF word
<1>10. IsPrefix(word, t) BY <1>5, <1>6, <1>8, <1>9 DEF IsPrefix
<1> QED BY <1>4, <1>10 DEF IsDelimiterCommand, word, t, Blank

(* ... and when it is indented, and trimmed.                               *)
LEMMA CommandIndented ==
  ASSUME NEW S, NEW s \in Seq(S), NEW i \in 1..Len(s), NEW h \in (i + 2)..Len(s),
         \A k \in 1..(i - 1) : s[k] \in Space,
         At(s, i, "DELIMITER"), At(s, i + 1, Blank), s[h] \notin Space
  PROVE  LET t == TrimSpace(s)
         IN  t # <<>> /\ ~IsComment(t) /\ IsDelimiterCommand(t)
<1>1. Len(s) \in Nat BY LenProperties
<1>2. s[i] \notin Space BY DEF Space, At
<1>3. h \in 1..Len(s) BY <1>1
<1>4. PICK g \in i..Len(s) :
        /\ TrimSpace(s) = SubSeq(s, i, g) /\ s[g] \notin Space
        /\ \A k \in 1..Len(s) : s[k] \notin Space => k <= g
  BY <1>1, <1>2, TrimKeeps
<1>5. h <= g BY <1>3, <1>4
<1> DEFINE t == SubSeq(s, i, g)
           n == g - i + 1
<1>6. /\ t \in Seq(S) /\ Len(t) = n
      /\ \A k \in 1..n : t[k] = s[i + k - 1]
  BY <1>1, Slice
<1> HIDE DEF t
<1>7. /\ 1 \in 1..n /\ 2 \in 1..n /\ n \in 3..n /\ i + 1 - 1 = i /\ i + 2 - 1 = i + 1
      /\ i + n - 1 = g /\ n \in 1..n
  BY <1>1, <1>5
<1> HIDE DEF n
<1>8. t[1] = s[i] /\ t[2] = s[i + 1] /\ t[n] \notin Space
  BY <1>4, <1>6, <1>7
<1>s. At(t, 1, "DELIMITER") /\ At(t, 2, Blank)
  BY <1>8 DEF At
<1>9. IsDelimiterCommand(t) BY <1>6, <1>7, <1>8, <1>s, CommandPlain
<1>10. t # <<>> BY <1>6, <1>7, EmptySeq
<1>11. ~IsComment(t)
  <2>1. ASSUME NEW c, c \in {<<"-", "-">>, <<"#">>}, IsPrefix(c, t) PROVE FALSE
    <3>1. c \in Seq({"-", "#"}) /\ c[1] \in {"-", "#"} /\ Len(c) \in {1, 2}
      <4>1. CASE c = <<"-", "-">> BY <4>1
      <4>2. CASE c = <<"#">> BY <4>2
      <4> QED BY <2>1, <4>1, <4>2
    <3>2. SubSeq(c, 1, Len(c)) = SubSeq(t, 1, Len(c)) /\ Len(c) <= Len(t)
      BY <2>1 DEF IsPrefix
    <3>3. Len(c) - 1 + 1 = Len(c) /\ 1 \in 1..Len(c) /\ Len(c) \in (1 - 1)..Len(c)
          /\ 1 \in 1..(Len(c) + 1) /\ 1 \in 1..(Len(t) + 1) /\ Len(c) \in (1 - 1)..Len(t)
          /\ 1 + 1 - 1 = 1
      <4>1. Len(t) \in Nat BY <1>6, LenProperties
      <4>2. Len(c) = 1 \/ Len(c) = 2 BY <3>1
      <4>3. Len(c) <= Len(t) BY <3>2
      <4> DEFINE m == Len(c)
                 M == Len(t)
      <4> HIDE DEF m, M
      <4>4. M \in Nat /\ m \in {1, 2} /\ m <= M BY <4>1, <4>2, <4>3 DEF m, M
      <4>5. /\ m - 1 + 1 = m /\ 1 \in 1..m /\ m \in (1 - 1)..m /\ 1 \in 1..(m + 1)
            /\ 1 \in 1..(M + 1) /\ m \in (1 - 1)..M /\ 1 + 1 - 1 = 1
        BY <4>4
      <4> QED BY <4>5 DEF m, M
    <3>4. SubSeq(c, 1, Len(c))[1] = c[1] BY <3>1, <3>3, Slice
    <3>5. SubSeq(t, 1, Len(c))[1] = t[1] BY <1>6, <3>3, Slice
    <3> QED BY <1>s, <3>1, <3>2, <3>4, <3>5 DEF At
  <2> QED BY <2>1 DEF IsComment
<1> QED BY <1>4, <1>9, <1>10, <1>11 DEF t

(* Lines: a part goes on up to the next newline, or to the end.            *)
LEMMA PartIs ==
  ASSUME NEW S, NEW s \in Seq(S), NEW a \in 1..(Len(s) + 1), NEW b \in a..(Len(s) + 1), NEW sep,
         b = Len(s) + 1 \/ s[b] = sep, \A k \in a..(b - 1) : s[k] # sep
  PROVE  PartAt(s, sep, a) = SubSeq(s, a, b - 1)
<1> DEFINE ends == {k \in a..Len(s) : s[k] = sep} \cup {Len(s) + 1}
<1>1. Len(s) \in Nat BY LenProperties
<1>2. ends \subseteq Nat /\ b \in ends BY <1>1
<1>3. ends # {} BY <1>2
<1>4. \A k \in ends : k \in a..(Len(s) + 1) /\ (k = Len(s) + 1 \/ s[k] = sep) BY <1>1
<1>5. PartAt(s, sep, a) = SubSeq(s, a, Least(ends) - 1) BY DEF PartAt
<1> HIDE DEF ends
<1>6. Least(ends) \in ends /\ \A k \in ends : Least(ends) <= k BY <1>2, <1>3, HasLeast
<1> DEFINE n == Least(ends)
<1>7. /\ n \in a..(Len(s) + 1) /\ n <= b BY <1>2, <1>4, <1>6
<1>8. n = Len(s) + 1 \/ s[n] = sep BY <1>4, <1>6
<1>9. n \in ends BY <1>6
<1> HIDE DEF n
<1>10. n = b
  <2>1. CASE n = Len(s) + 1 BY <1>1, <1>7, <2>1
  <2>2. CASE s[n] = sep
    <3>1. ~(n \in a..(b - 1)) BY <2>2
    <3> QED BY <1>1, <1>7, <3>1
  <2> QED BY <1>8, <2>1, <2>2
<1> QED BY <1>5, <1>10 DEF n

(* What comes before a command, line by line, as extractDelimiterLine sees *)
(* it.                                                                     *)
BlankOrComment(s) ==
  \A a \in PartStarts(s, "\n") :
    LET line == TrimSpace(PartAt(s, "\n", a))
    IN  line = <<>> \/ (IsComment(line) /\ \E k \in a..Len(s) : s[k] = "\n")

LEMMA Spaces ==
  /\ "\n" \in Space
  /\ \A c \in Space : c \notin {"'", "\"", "bq", "#", "-", "/", "*", "\\", "DELIMITER", "none"}
BY Zenon DEF Space

(* The first symbols of a text decide whether a command may follow them.   *)
LEMMA OpensSame ==
  ASSUME NEW S, NEW s \in Seq(S), NEW t \in Seq(S), NEW n \in Nat, n <= Len(s), n <= Len(t),
         \A k \in 1..n : t[k] = s[k], Opens(s, n)
  PROVE  Opens(t, n)
<1>1. Len(s) \in Nat /\ Len(t) \in Nat BY LenProperties
<1> SUFFICES ASSUME NEW k \in 1..n, t[k] \notin Space
             PROVE  \E i \in 1..k, e \in k..n : CommentLine(t, i, e)
  BY DEF Opens
<1>2. s[k] \notin Space OBVIOUS
<1>3. PICK i \in 1..k, e \in k..n : CommentLine(s, i, e) BY <1>2 DEF Opens
<1>4. /\ i < e /\ s[e] = "\n" /\ \A m \in i..(e - 1) : s[m] # "\n"
      /\ \A m \in 1..(i - 1) : s[m] \in Space \/ \E h \in m..(i - 1) : s[h] = "\n"
  BY <1>3 DEF CommentLine
<1>5. i \in 1..n /\ e \in 1..n /\ i + 1 \in 1..n BY <1>4
<1>6. \A m \in i..(e - 1) : t[m] # "\n"
  <2>1. \A m \in i..(e - 1) : m \in 1..n BY <1>5
  <2> QED BY <1>4, <2>1
<1>7. \A m \in 1..(i - 1) : t[m] \in Space \/ \E h \in m..(i - 1) : t[h] = "\n"
  <2> SUFFICES ASSUME NEW m \in 1..(i - 1)
               PROVE  t[m] \in Space \/ \E h \in m..(i - 1) : t[h] = "\n"
    OBVIOUS
  <2>1. m \in 1..n BY <1>5
  <2>2. CASE s[m] \in Space BY <2>1, <2>2
  <2>3. ASSUME NEW h \in m..(i - 1), s[h] = "\n" PROVE t[h] = "\n"
    <3>1. h \in 1..n BY <1>5
    <3> QED BY <2>3, <3>1
  <2> QED BY <1>4, <2>2, <2>3
<1>8. Hashes(t, i) \/ Dashes(t, i)
  <2>1. CASE Hashes(s, i) BY <1>5, <2>1 DEF Hashes
  <2>2. CASE Dashes(s, i)
    <3>1. i < Len(t) BY <1>1, <1>5
    <3> QED BY <1>5, <2>2, <3>1 DEF Dashes
  <2> QED BY <1>3, <2>1, <2>2 DEF CommentLine
<1>9. CommentLine(t, i, e) BY <1>4, <1>5, <1>6, <1>7, <1>8 DEF CommentLine
<1> QED BY <1>9

LEMMA OpensLast ==
  ASSUME NEW s, NEW n \in Nat \ {0}, Opens(s, n)
  PROVE  s[n] \in Space
<1>1. n \in 1..n OBVIOUS
<1>2. ASSUME NEW i \in 1..n, NEW e \in n..n, CommentLine(s, i, e) PROVE s[n] \in Space
  <2>1. e = n OBVIOUS
  <2> QED BY <1>2, <2>1, Spaces DEF CommentLine
<1> QED BY <1>1, <1>2 DEF Opens

(* One symbol less: it was a blank, or the newline of a blank line or of a *)
(* comment.                                                                *)
LEMMA OpensBefore ==
  ASSUME NEW t, NEW n \in Nat, Opens(t, n + 1)
  PROVE  \/ t[n + 1] \in Space /\ Opens(t, n)
         \/ /\ t[n + 1] = "\n"
            /\ \E i \in 1..n : /\ Opens(t, i - 1)
                               /\ Hashes(t, i) \/ Dashes(t, i)
                               /\ \A k \in i..n : t[k] # "\n"
<1>0. t[n + 1] \in Space BY OpensLast
<1> SUFFICES ASSUME ~Opens(t, n)
             PROVE  /\ t[n + 1] = "\n"
                    /\ \E i \in 1..n : /\ Opens(t, i - 1)
                                       /\ Hashes(t, i) \/ Dashes(t, i)
                                       /\ \A k \in i..n : t[k] # "\n"
  BY <1>0
<1>1. PICK k \in 1..n : t[k] \notin Space /\ ~\E i \in 1..k, e \in k..n : CommentLine(t, i, e)
  BY DEF Opens
<1>2. k \in 1..(n + 1) OBVIOUS
<1>3. PICK i \in 1..k, e \in k..(n + 1) : CommentLine(t, i, e) BY <1>1, <1>2 DEF Opens
<1>4. e = n + 1
  <2>1. e \notin k..n BY <1>1, <1>3
  <2> QED BY <2>1
<1>5. /\ t[e] = "\n" /\ i < e /\ \A m \in i..(e - 1) : t[m] # "\n"
      /\ \A m \in 1..(i - 1) : t[m] \in Space \/ \E h \in m..(i - 1) : t[h] = "\n"
      /\ Hashes(t, i) \/ Dashes(t, i)
  BY <1>3 DEF CommentLine
<1>6. Opens(t, i - 1)
  <2> SUFFICES ASSUME NEW m \in 1..(i - 1), t[m] \notin Space
               PROVE  \E a \in 1..m, b \in m..(i - 1) : CommentLine(t, a, b)
    BY DEF Opens
  <2>1. m \in 1..(n + 1) OBVIOUS
  <2>2. PICK a \in 1..m, b \in m..(n + 1) : CommentLine(t, a, b) BY <2>1 DEF Opens
  <2>3. PICK h \in m..(i - 1) : t[h] = "\n" BY <1>5
  <2>4. \A g \in a..(b - 1) : t[g] # "\n" BY <2>2 DEF CommentLine
  <2>5. h \notin a..(b - 1) BY <2>3, <2>4
  <2>6. b \in m..(i - 1) BY <2>5
  <2> QED BY <2>2, <2>6
<1>7. i \in 1..n /\ \A m \in i..n : t[m] # "\n" BY <1>4, <1>5
<1> QED BY <1>4, <1>5, <1>6, <1>7

LEMMA CommentPrefix ==
  ASSUME NEW S, NEW w \in Seq(S), Len(w) > 0,
         w[1] = "#" \/ (Len(w) > 1 /\ w[1] = "-" /\ w[2] = "-")
  PROVE  IsComment(w)
<1>1. Len(w) \in Nat BY LenProperties
<1>2. CASE w[1] = "#"
  <2>1. SubSeq(w, 1, 1) = <<w[1]>>
    <3>1. 1 \in 1..Len(w) BY <1>1
    <3> QED BY <3>1, SliceOne
  <2>2. Len(<<"#">>) = 1 /\ SubSeq(<<"#">>, 1, 1) = <<"#">>
    <3> DEFINE c == <<"#">>
    <3>1. c \in Seq({"#"}) /\ Len(c) = 1 /\ c[1] = "#" /\ 1 \in 1..1 OBVIOUS
    <3> HIDE DEF c
    <3>2. SubSeq(c, 1, 1) = <<c[1]>> BY <3>1, SliceOne
    <3> QED BY <3>1, <3>2 DEF c
  <2>3. SubSeq(w, 1, 1) = <<"#">> BY <1>2, <2>1
  <2>4. IsPrefix(<<"#">>, w)
    <3> DEFINE c == <<"#">>
    <3>1. Len(c) = 1 /\ SubSeq(c, 1, 1) = c BY <2>2
    <3>2. SubSeq(w, 1, 1) = c BY <2>3
    <3>3. 1 <= Len(w) BY <1>1
    <3> HIDE DEF c
    <3>4. IsPrefix(c, w) BY <3>1, <3>2, <3>3 DEF IsPrefix
    <3> QED BY <3>4 DEF c
  <2> QED BY <2>4 DEF IsComment
<1>3. CASE Len(w) > 1 /\ w[1] = "-" /\ w[2] = "-"
  <2> DEFINE c == <<"-", "-">>
  <2>1. 1 \in 1..Len(w) /\ 1 + 1 <= Len(w) /\ 1 + 1 = 2 BY <1>1, <1>3
  <2>2. SubSeq(w, 1, 2) = <<w[1], w[2]>> BY <2>1, SliceTwo
  <2>3. Len(c) = 2 /\ SubSeq(c, 1, 2) = c
    <3>1. c \in Seq({"-"}) /\ Len(c) = 2 /\ c[1] = "-" /\ c[2] = "-" OBVIOUS
    <3>2. 1 \in 1..2 /\ 1 + 1 <= 2 /\ 1 + 1 = 2 OBVIOUS
    <3> HIDE DEF c
    <3>3. SubSeq(c, 1, 2) = <<c[1], c[2]>> BY <3>1, <3>2, SliceTwo
    <3> QED BY <3>1, <3>3 DEF c
  <2>4. SubSeq(w, 1, 2) = c BY <1>3, <2>2
  <2> HIDE DEF c
  <2>5. IsPrefix(c, w) BY <2>1, <2>3, <2>4 DEF IsPrefix
  <2> QED BY <2>5 DEF IsComment, c
<1> QED BY <1>2, <1>3

LEMMA OpensLines ==
  ASSUME NEW S, NEW p \in Seq(S), Opens(p, Len(p))
  PROVE  BlankOrComment(p)
<1> DEFINE n == Len(p)
<1>1. n \in Nat /\ DOMAIN p = 1..n BY LenProperties
<1> SUFFICES ASSUME NEW a \in PartStarts(p, "\n"), TrimSpace(PartAt(p, "\n", a)) # <<>>
             PROVE  /\ IsComment(TrimSpace(PartAt(p, "\n", a)))
                    /\ \E k \in a..n : p[k] = "\n"
  BY DEF BlankOrComment
<1>2. a \in 1..(n + 1) /\ (a = 1 \/ (a - 1 \in 1..n /\ p[a - 1] = "\n"))
  BY <1>1 DEF PartStarts
<1> HIDE DEF n
<1>3. PICK b \in a..(n + 1) : (b = n + 1 \/ p[b] = "\n") /\ \A k \in a..(b - 1) : p[k] # "\n"
  <2> DEFINE ends == {k \in a..n : p[k] = "\n"} \cup {n + 1}
  <2>1. ends \subseteq Nat /\ ends # {} BY <1>1, <1>2
  <2>2. \A k \in ends : k \in a..(n + 1) /\ (k = n + 1 \/ p[k] = "\n") BY <1>1, <1>2
  <2>3. \A k \in a..n : p[k] = "\n" => k \in ends OBVIOUS
  <2> HIDE DEF ends
  <2>4. Least(ends) \in ends /\ \A k \in ends : Least(ends) <= k BY <2>1, HasLeast
  <2> DEFINE b == Least(ends)
  <2>5. b \in a..(n + 1) /\ (b = n + 1 \/ p[b] = "\n") /\ \A k \in ends : b <= k
    BY <2>2, <2>4
  <2> HIDE DEF b
  <2>6. ASSUME NEW k \in a..(b - 1), p[k] = "\n" PROVE FALSE
    <3>1. k \in a..n BY <1>1, <1>2, <2>5
    <3>2. b <= k BY <2>3, <2>5, <2>6, <3>1
    <3> QED BY <1>2, <2>5, <3>2
  <2> QED BY <2>5, <2>6
<1> DEFINE q == SubSeq(p, a, b - 1)
<1>4. PartAt(p, "\n", a) = q
  <2>1. a \in 1..(Len(p) + 1) /\ b \in a..(Len(p) + 1) BY <1>2 DEF n
  <2>2. b = Len(p) + 1 \/ p[b] = "\n" BY <1>3 DEF n
  <2> QED BY <1>3, <2>1, <2>2, PartIs
<1>5. q \in Seq(S) /\ Len(q) = b - a /\ \A k \in 1..(b - a) : q[k] = p[a + k - 1]
  <2>1. a \in 1..(Len(p) + 1) /\ b - 1 \in (a - 1)..Len(p) /\ b - 1 - a + 1 = b - a
    BY <1>1, <1>2 DEF n
  <2> QED BY <2>1, Slice
<1> HIDE DEF q
<1>6. PICK i \in 1..(b - a) : q[i] \notin Space /\ \A k \in 1..(i - 1) : q[k] \in Space
  <2> DEFINE solid == {k \in DOMAIN q : q[k] \notin Space}
  <2>1. DOMAIN q = 1..(b - a) BY <1>5, LenProperties
  <2>2. solid # {} BY <1>4 DEF TrimSpace, Trim
  <2>3. solid \subseteq Nat /\ \A k \in solid : k \in 1..(b - a) /\ q[k] \notin Space
    BY <1>1, <1>2, <2>1
  <2>4. \A k \in 1..(b - a) : q[k] \notin Space => k \in solid BY <2>1
  <2> HIDE DEF solid
  <2>5. Least(solid) \in solid /\ \A k \in solid : Least(solid) <= k BY <2>2, <2>3, HasLeast
  <2> DEFINE i == Least(solid)
  <2>6. i \in 1..(b - a) /\ q[i] \notin Space /\ \A k \in solid : i <= k BY <2>3, <2>5
  <2> HIDE DEF i
  <2>7. ASSUME NEW k \in 1..(i - 1), q[k] \notin Space PROVE FALSE
    <3>1. k \in 1..(b - a) BY <1>1, <1>2, <2>6
    <3>2. i <= k BY <2>4, <2>6, <2>7, <3>1
    <3> QED BY <1>1, <1>2, <2>6, <3>2
  <2> QED BY <2>6, <2>7
<1> DEFINE h == a + i - 1
<1>7. h \in 1..n /\ h \in a..(b - 1) /\ p[h] = q[i] /\ h - a + 1 = i
  BY <1>1, <1>2, <1>5, <1>6
<1> HIDE DEF h
<1>8. PICK c \in 1..h, e \in h..n : CommentLine(p, c, e)
  <2>1. Opens(p, n) BY DEF n
  <2> QED BY <1>6, <1>7, <2>1 DEF Opens
<1>9. /\ c < e /\ p[e] = "\n" /\ \A m \in c..(e - 1) : p[m] # "\n"
      /\ Hashes(p, c) \/ Dashes(p, c)
  BY <1>8 DEF CommentLine
<1>10. c = h
  <2>1. CASE c < a
    <3>1. a - 1 \in c..(e - 1) /\ p[a - 1] = "\n" BY <1>1, <1>2, <1>7, <2>1
    <3> QED BY <1>9, <3>1
  <2>2. CASE a <= c /\ c < h
    <3>1. c - a + 1 \in 1..(i - 1) /\ c - a + 1 \in 1..(b - a) /\ a + (c - a + 1) - 1 = c
      BY <1>1, <1>2, <1>6, <1>7, <2>2
    <3>2. p[c] \in Space BY <1>5, <1>6, <3>1
    <3> QED BY <1>9, <3>2, Spaces DEF Hashes, Dashes
  <2> QED BY <1>1, <1>2, <1>7, <2>1, <2>2
<1>11. e = b
  <2>1. e \notin a..(b - 1) BY <1>3, <1>9
  <2>2. b \notin c..(e - 1) \/ b = n + 1 BY <1>3, <1>9
  <2> QED BY <1>1, <1>2, <1>7, <1>10, <2>1, <2>2
<1>12. PICK g \in i..(b - a) :
         /\ TrimSpace(q) = SubSeq(q, i, g)
         /\ \A k \in 1..(b - a) : q[k] \notin Space => k <= g
  <2>1. i \in 1..Len(q) BY <1>5, <1>6
  <2>2. \A k \in 1..(i - 1) : q[k] \in Space BY <1>6
  <2> QED BY <1>5, <1>6, <2>1, <2>2, TrimKeeps
<1> DEFINE w == SubSeq(q, i, g)
<1>13. w \in Seq(S) /\ Len(w) = g - i + 1 /\ \A k \in 1..(g - i + 1) : w[k] = q[i + k - 1]
  <2>1. i \in 1..(Len(q) + 1) /\ g \in (i - 1)..Len(q) BY <1>1, <1>2, <1>5, <1>6, <1>12
  <2> QED BY <1>5, <2>1, Slice
<1> HIDE DEF w
<1>14. 1 \in 1..(g - i + 1) /\ i + 1 - 1 = i /\ g - i + 1 > 0 BY <1>1, <1>2, <1>6, <1>12
<1>15. w[1] = p[h] BY <1>7, <1>13, <1>14
<1>16. ASSUME Hashes(p, c) PROVE IsComment(w)
  <2>1. w[1] = "#" BY <1>10, <1>15, <1>16 DEF Hashes
  <2> QED BY <1>13, <1>14, <2>1, CommentPrefix
<1>17. ASSUME Dashes(p, c) PROVE IsComment(w)
  <2>1. p[h] = "-" /\ p[h + 1] = "-" BY <1>10, <1>17 DEF Dashes
  <2>2. h + 1 \in a..(b - 1)
    <3>1. h + 1 # b BY <1>9, <1>11, <2>1
    <3> QED BY <1>1, <1>2, <1>7, <3>1
  <2>3. i + 1 \in 1..(b - a) /\ a + (i + 1) - 1 = h + 1 BY <1>1, <1>2, <1>6, <1>7, <2>2
  <2>4. q[i + 1] = "-" BY <1>5, <2>1, <2>3
  <2>5. i + 1 <= g BY <1>12, <2>3, <2>4, Spaces
  <2>6. 2 \in 1..(g - i + 1) /\ i + 2 - 1 = i + 1 BY <1>1, <1>2, <1>6, <1>12, <2>5
  <2>7. w[2] = "-" /\ Len(w) > 1 BY <1>1, <1>2, <1>6, <1>12, <1>13, <2>4, <2>5, <2>6
  <2> QED BY <1>13, <1>14, <1>15, <2>1, <2>7, CommentPrefix
<1>18. IsComment(w) BY <1>9, <1>16, <1>17
<1>19. e \in a..n /\ p[e] = "\n" BY <1>1, <1>2, <1>7, <1>9
<1> QED BY <1>4, <1>12, <1>18, <1>19 DEF w

(* Behind blank lines and comments the command is the first line that      *)
(* counts.                                                                 *)
LEMMA CommandSeen ==
  ASSUME NEW S, NEW s \in Seq(S), NEW n \in 0..Len(s), NEW h \in (n + 3)..(Len(s) - 1),
         BlankOrComment(SubSeq(s, 1, n)),
         At(s, n + 1, "DELIMITER"), At(s, n + 2, Blank), s[h] \notin Space,
         \A k \in (n + 1)..(Len(s) - 1) : s[k] # "\n", At(s, Len(s), "\n")
  PROVE  DelimiterLine(s) # <<>>
<1> DEFINE p == SubSeq(s, 1, n)
           N == Len(s)
           Line(a) == TrimSpace(PartAt(s, "\n", a))
           starts == PartStarts(p, "\n")
           a0 == Greatest(starts)
<1>1. N \in Nat /\ h \in Nat /\ n + 3 <= h /\ h < N /\ DOMAIN s = 1..N BY LenProperties
<1>2. p \in Seq(S) /\ Len(p) = n /\ DOMAIN p = 1..n /\ \A k \in 1..n : p[k] = s[k]
  <2>1. 1 \in 1..(N + 1) /\ n \in (1 - 1)..N /\ n - 1 + 1 = n BY <1>1
  <2>2. p \in Seq(S) /\ Len(p) = n /\ \A k \in 1..n : p[k] = s[1 + k - 1] BY <2>1, Slice
  <2> HIDE DEF p
  <2> QED BY <2>2, LenProperties
<1> HIDE DEF p
<1>3. starts \subseteq 0..(n + 1) /\ 1 \in starts BY <1>1, <1>2 DEF PartStarts
<1>4. a0 \in starts /\ \A a \in starts : a0 >= a
  <2> HIDE DEF starts
  <2>1. n + 1 \in Nat /\ starts # {} BY <1>1, <1>3
  <2> QED BY <1>3, <2>1, HasGreatest
<1>5. /\ a0 \in 1..(n + 1)
      /\ a0 = 1 \/ p[a0 - 1] = "\n"
      /\ \A k \in a0..n : p[k] # "\n"
  <2>1. a0 \in 1..(n + 1) /\ (a0 = 1 \/ (a0 - 1 \in 1..n /\ p[a0 - 1] = "\n"))
    BY <1>1, <1>2, <1>4 DEF PartStarts
  <2>2. ASSUME NEW k \in a0..n, p[k] = "\n" PROVE FALSE
    <3>1. k \in 1..n BY <1>1, <2>1
    <3>2. k + 1 \in starts BY <1>2, <2>2, <3>1 DEF PartStarts
    <3>3. a0 >= k + 1 BY <1>4, <3>2
    <3> HIDE DEF a0
    <3> QED BY <1>1, <2>1, <3>1, <3>3
  <2> QED BY <2>1, <2>2
<1>6. BlankOrComment(p) BY DEF p
<1>7. a0 \in starts BY <1>4
<1> HIDE DEF a0
<1>8. \A k \in a0..n : s[k] \in Space
  <2> DEFINE q == SubSeq(p, a0, n)
  <2>1. PartAt(p, "\n", a0) = q
    <3> DEFINE b == n + 1
    <3>1. a0 \in 1..(Len(p) + 1) /\ b \in a0..(Len(p) + 1) /\ b = Len(p) + 1 /\ b - 1 = n
      BY <1>1, <1>2, <1>5
    <3> HIDE DEF b
    <3>2. \A k \in a0..(b - 1) : p[k] # "\n" BY <1>5, <3>1
    <3>3. PartAt(p, "\n", a0) = SubSeq(p, a0, b - 1) BY <1>2, <3>1, <3>2, PartIs
    <3> QED BY <3>1, <3>3
  <2>2. TrimSpace(q) = <<>>
    <3>1. ~\E k \in a0..Len(p) : p[k] = "\n" BY <1>2, <1>5
    <3> QED BY <1>6, <1>7, <2>1, <3>1 DEF BlankOrComment
  <2>3. /\ q \in Seq(S) /\ Len(q) = n - a0 + 1
        /\ \A k \in 1..(n - a0 + 1) : q[k] = p[a0 + k - 1]
    <3>1. a0 \in 1..(Len(p) + 1) /\ n \in (a0 - 1)..Len(p) BY <1>1, <1>2, <1>5
    <3> QED BY <1>2, <3>1, Slice
  <2> HIDE DEF q
  <2>4. \A k \in 1..(n - a0 + 1) : q[k] \in Space BY <2>2, <2>3, TrimBlank
  <2>5. ASSUME NEW k \in a0..n PROVE s[k] \in Space
    <3>1. k - a0 + 1 \in 1..(n - a0 + 1) /\ a0 + (k - a0 + 1) - 1 = k /\ k \in 1..n
      BY <1>1, <1>5
    <3> QED BY <1>2, <2>3, <2>4, <3>1
  <2> QED BY <2>5
<1>9. PartAt(s, "\n", a0) = SubSeq(s, a0, N - 1)
  <2>1. a0 \in 1..(Len(s) + 1) /\ N \in a0..(Len(s) + 1) /\ s[N] = "\n"
    BY <1>1, <1>5 DEF At
  <2>2. ASSUME NEW k \in a0..(N - 1) PROVE s[k] # "\n"
    <3>1. CASE k <= n
      <4>1. k \in a0..n /\ k \in 1..n BY <1>1, <1>5, <3>1
      <4> QED BY <1>2, <1>5, <4>1
    <3>2. CASE k > n
      <4>1. k \in (n + 1)..(Len(s) - 1) BY <1>1, <1>5, <3>2
      <4> QED BY <4>1
    <3> QED BY <1>1, <1>5, <3>1, <3>2
  <2> HIDE DEF N
  <2> QED BY <2>1, <2>2, PartIs
<1>10. Line(a0) # <<>> /\ ~IsComment(Line(a0)) /\ IsDelimiterCommand(Line(a0))
  <2> DEFINE q == SubSeq(s, a0, N - 1)
             i == n + 2 - a0
             g == h - a0 + 1
  <2>1. /\ q \in Seq(S) /\ Len(q) = N - a0
        /\ \A k \in 1..(N - a0) : q[k] = s[a0 + k - 1]
    <3>1. a0 \in 1..(Len(s) + 1) /\ N - 1 \in (a0 - 1)..Len(s)
          /\ N - 1 - a0 + 1 = N - a0
      BY <1>1, <1>5
    <3> QED BY <3>1, Slice
  <2>2. /\ i \in 1..(N - a0) /\ i + 1 \in 1..(N - a0) /\ g \in (i + 2)..(N - a0)
        /\ g \in 1..(N - a0)
        /\ a0 + i - 1 = n + 1 /\ a0 + (i + 1) - 1 = n + 2 /\ a0 + g - 1 = h
    BY <1>1, <1>5
  <2>3. \A k \in 1..(i - 1) : k \in 1..(N - a0) /\ a0 + k - 1 \in a0..n
    BY <1>1, <1>5
  <2> HIDE DEF q, i, g, N
  <2>4. q[i] = s[n + 1] /\ q[i + 1] = s[n + 2] /\ q[g] = s[h] BY <2>1, <2>2
  <2>5. \A k \in 1..(i - 1) : q[k] \in Space BY <1>8, <2>1, <2>3
  <2>6. At(q, i, "DELIMITER") /\ At(q, i + 1, Blank) /\ q[g] \notin Space
    BY <2>4 DEF At
  <2> QED BY <1>9, <2>1, <2>2, <2>5, <2>6, CommandIndented DEF q
<1>11. PartStarts(s, "\n") \subseteq Nat /\ a0 \in PartStarts(s, "\n")
  <2>1. a0 = 1 \/ (a0 - 1 \in 1..N /\ s[a0 - 1] = "\n" /\ a0 - 1 + 1 = a0)
    BY <1>1, <1>2, <1>5
  <2> QED BY <1>1, <2>1 DEF PartStarts
<1>12. ASSUME NEW a \in PartStarts(s, "\n"), a < a0
       PROVE  Line(a) = <<>> \/ IsComment(Line(a))
  <2> DEFINE ends == {k \in a..n : p[k] = "\n"}
             b == Least(ends)
  <2>1. a \in Nat /\ a >= 1 /\ a <= n BY <1>1, <1>5, <1>12 DEF PartStarts
  <2>2. a \in starts
    <3>1. a = 1 \/ (a - 1 \in 1..N /\ s[a - 1] = "\n") BY <1>1, <1>12 DEF PartStarts
    <3>2. a = 1 \/ (a - 1 \in 1..n /\ p[a - 1] = "\n" /\ a - 1 + 1 = a)
      BY <1>1, <1>2, <2>1, <3>1
    <3> QED BY <1>2, <3>2 DEF PartStarts
  <2>3. b \in a..n /\ p[b] = "\n" /\ \A k \in a..(b - 1) : p[k] # "\n"
    <3>1. a0 - 1 \in ends BY <1>1, <1>5, <1>12, <2>1
    <3>2. ends \subseteq Nat /\ ends # {} BY <2>1, <3>1
    <3>3. b \in ends /\ \A k \in ends : b <= k
      <4> HIDE DEF ends
      <4> QED BY <3>2, HasLeast
    <3>4. b \in a..n /\ p[b] = "\n" BY <3>3
    <3>5. ASSUME NEW k \in a..(b - 1), p[k] = "\n" PROVE FALSE
      <4>1. k \in ends BY <1>1, <2>1, <3>4, <3>5
      <4>2. b <= k BY <3>3, <4>1
      <4> HIDE DEF b
      <4> QED BY <1>1, <2>1, <3>4, <4>2
    <3> QED BY <3>4, <3>5
  <2> HIDE DEF b, starts
  <2>4. PartAt(p, "\n", a) = SubSeq(p, a, b - 1)
    <3>1. a \in 1..(Len(p) + 1) /\ b \in a..(Len(p) + 1) BY <1>1, <1>2, <2>1, <2>3
    <3> QED BY <1>2, <2>3, <3>1, PartIs
  <2>5. PartAt(s, "\n", a) = SubSeq(s, a, b - 1)
    <3>1. a \in 1..(Len(s) + 1) /\ b \in a..(Len(s) + 1) /\ b \in 1..n
      BY <1>1, <2>1, <2>3
    <3>2. s[b] = "\n" BY <1>2, <2>3, <3>1
    <3>3. \A k \in a..(b - 1) : s[k] # "\n"
      <4>1. \A k \in a..(b - 1) : k \in 1..n BY <1>1, <2>1, <2>3
      <4> QED BY <1>2, <2>3, <4>1
    <3> QED BY <3>1, <3>2, <3>3, PartIs
  <2>6. SubSeq(p, a, b - 1) = SubSeq(s, a, b - 1)
    <3> DEFINE u == SubSeq(p, a, b - 1)
               v == SubSeq(s, a, b - 1)
    <3>1. /\ u \in Seq(S) /\ Len(u) = b - 1 - a + 1
          /\ \A k \in 1..(b - 1 - a + 1) : u[k] = p[a + k - 1]
      <4>1. a \in 1..(Len(p) + 1) /\ b - 1 \in (a - 1)..Len(p) BY <1>1, <1>2, <2>1, <2>3
      <4> QED BY <1>2, <4>1, Slice
    <3>2. /\ v \in Seq(S) /\ Len(v) = b - 1 - a + 1
          /\ \A k \in 1..(b - 1 - a + 1) : v[k] = s[a + k - 1]
      <4>1. a \in 1..(Len(s) + 1) /\ b - 1 \in (a - 1)..Len(s) BY <1>1, <2>1, <2>3
      <4> QED BY <4>1, Slice
    <3>3. \A k \in 1..(b - 1 - a + 1) : a + k - 1 \in 1..n BY <1>1, <2>1, <2>3
    <3> HIDE DEF u, v
    <3>4. \A k \in 1..Len(u) : u[k] = v[k] BY <1>2, <3>1, <3>2, <3>3
    <3> QED BY <3>1, <3>2, <3>4, SeqEqual DEF u, v
  <2>7. Line(a) = TrimSpace(PartAt(p, "\n", a)) BY <2>4, <2>5, <2>6
  <2> QED BY <1>6, <2>2, <2>7 DEF BlankOrComment, starts
<1>13. Least({a \in PartStarts(s, "\n") : Line(a) # <<>> /\ ~IsComment(Line(a))}) = a0
  <2> DEFINE solid == {a \in PartStarts(s, "\n") : Line(a) # <<>> /\ ~IsComment(Line(a))}
  <2>1. solid \subseteq Nat /\ a0 \in solid BY <1>10, <1>11
  <2>2. \A a \in solid : ~(a < a0) BY <1>12
  <2> HIDE DEF solid
  <2>3. solid # {} BY <2>1
  <2>4. Least(solid) \in solid /\ Least(solid) <= a0 BY <2>1, <2>3, HasLeast
  <2>5. ~(Least(solid) < a0) /\ Least(solid) \in Nat /\ a0 \in Nat BY <2>1, <2>2, <2>4
  <2>6. Least(solid) = a0
    <3> DEFINE m == Least(solid)
    <3>1. m <= a0 /\ ~(m < a0) /\ m \in Nat /\ a0 \in Nat BY <2>4, <2>5
    <3> HIDE DEF m
    <3>2. m = a0 BY <3>1
    <3> QED BY <3>2 DEF m
  <2> QED BY <2>6 DEF solid
<1>14. a0 \in {a \in PartStarts(s, "\n") : Line(a) # <<>> /\ ~IsComment(Line(a))}
  BY <1>10, <1>11
<1>15. DelimiterLine(s) = Line(a0)
  BY <1>10, <1>13, <1>14, ZenonT(30) DEF DelimiterLine
<1> QED BY <1>10, <1>15

------------------------------------------------------------------------------
(* What a buffer says about the lexer.  As long as only blanks, newlines   *)
(* and comment lines have come, and then symbols of one line that open     *)
(* nothing, the lexer is outside of all tokens, or has just opened a       *)
(* comment whose second symbol comes next; in a comment line it is in one. *)
Beginning(s, j) ==
  Opens(s, j - 1) /\ \A k \in j..Len(s) : s[k] # "\n" /\ PlainToken(s, k)
InComment(s) ==
  \E i \in 1..Len(s) :
    /\ Opens(s, i - 1)
    /\ Hashes(s, i) \/ Dashes(s, i)
    /\ \A k \in i..Len(s) : s[k] # "\n"

Coming(d, x) == IF x.i <= Len(d) THEN d[x.i] ELSE "none"
EndsIn(s, c) == Len(s) > 0 /\ s[Len(s)] = c
Ready(d, x) ==
  \/ x.st = Default /\ ~(EndsIn(x.buf, "-") /\ Coming(d, x) = "-")
  \/ x.st = LineComment /\ EndsIn(x.buf, "-") /\ Coming(d, x) = "-"
  \/ x.st \in {BlockComment, ExecComment} /\ EndsIn(x.buf, "/") /\ Coming(d, x) = "*"

Watchful(d, x) ==
  /\ \A j \in 1..(Len(x.buf) + 1) : Beginning(x.buf, j) => Ready(d, x)
  /\ InComment(x.buf) => x.st \in {LineComment, HashComment}

(* How a buffer that grows by a symbol comes to be one of these.           *)
LEMMA Lengthened ==
  ASSUME NEW S, NEW s \in Seq(S), NEW c \in S
  PROVE  LET t == Append(s, c)
         IN  /\ t \in Seq(S) /\ Len(s) \in Nat /\ Len(t) = Len(s) + 1
             /\ t[Len(s) + 1] = c /\ \A k \in 1..Len(s) : t[k] = s[k]
BY AppendProperties, LenProperties

LEMMA PlainBefore ==
  ASSUME NEW s, NEW t, Len(s) \in Nat, Len(t) = Len(s) + 1,
         \A k \in 1..Len(s) : t[k] = s[k], NEW k \in 1..Len(s), PlainToken(t, k)
  PROVE  PlainToken(s, k)
<1>1. t[k] = s[k] OBVIOUS
<1>2. CASE k < Len(s)
  <2>1. k + 1 \in 1..Len(s) /\ k < Len(t) BY <1>2
  <2> QED BY <1>1, <1>2, <2>1 DEF PlainToken
<1>3. CASE k = Len(s)
  <2>1. ~(k < Len(s)) BY <1>3
  <2>2. t[k] \notin {"'", "\"", "bq", "#"} BY DEF PlainToken
  <2> QED BY <1>1, <2>1, <2>2 DEF PlainToken
<1> QED BY <1>2, <1>3

LEMMA BeginningGrows ==
  ASSUME NEW S, NEW s \in Seq(S), NEW c \in S,
         NEW j \in 1..(Len(s) + 2), Beginning(Append(s, c), j)
  PROVE  \/ /\ j \in 1..(Len(s) + 1) /\ Beginning(s, j)
            /\ c \notin {"'", "\"", "bq", "#", "\n"}
            /\ j <= Len(s) => /\ ~(EndsIn(s, "-") /\ c = "-")
                              /\ ~(EndsIn(s, "/") /\ c = "*")
         \/ c \in Space /\ Beginning(s, Len(s) + 1)
         \/ c = "\n" /\ InComment(s)
<1> DEFINE t == Append(s, c)
           n == Len(s)
<1>1. /\ t \in Seq(S) /\ n \in Nat /\ Len(t) = n + 1 /\ t[n + 1] = c
      /\ \A k \in 1..n : t[k] = s[k]
  BY Lengthened
<1>2. Opens(t, j - 1) /\ \A k \in j..Len(t) : t[k] # "\n" /\ PlainToken(t, k)
  BY DEF Beginning
<1> HIDE DEF t
<1>3. ASSUME NEW m \in 0..n, Opens(t, m) PROVE Opens(s, m)
  <2>1. m \in Nat /\ m <= Len(t) /\ m <= Len(s) BY <1>1
  <2>2. \A k \in 1..m : s[k] = t[k] BY <1>1
  <2> QED BY <1>1, <1>3, <2>1, <2>2, OpensSame
<1>4. CASE j \in 1..(n + 1)
  <2>1. Opens(s, j - 1)
    <3>1. j - 1 \in 0..n BY <1>1, <1>4
    <3> QED BY <1>2, <1>3, <3>1
  <2>2. \A k \in j..n : s[k] # "\n" /\ PlainToken(s, k)
    <3> SUFFICES ASSUME NEW k \in j..n PROVE s[k] # "\n" /\ PlainToken(s, k)
      OBVIOUS
    <3>1. k \in 1..n /\ k \in j..Len(t) BY <1>1, <1>4
    <3>2. t[k] # "\n" /\ PlainToken(t, k) BY <1>2, <3>1
    <3> QED BY <1>1, <3>1, <3>2, PlainBefore
  <2>3. Beginning(s, j) BY <2>1, <2>2 DEF Beginning
  <2>4. c \notin {"'", "\"", "bq", "#", "\n"}
    <3>1. n + 1 \in j..Len(t) BY <1>1, <1>4
    <3>2. t[n + 1] # "\n" /\ PlainToken(t, n + 1) BY <1>2, <3>1
    <3> QED BY <1>1, <3>2 DEF PlainToken
  <2>5. ASSUME j <= n PROVE ~(EndsIn(s, "-") /\ c = "-") /\ ~(EndsIn(s, "/") /\ c = "*")
    <3>1. n \in j..Len(t) /\ n < Len(t) /\ n \in 1..n BY <1>1, <1>4, <2>5
    <3>2. PlainToken(t, n) /\ t[n] = s[n] BY <1>1, <1>2, <3>1
    <3> QED BY <1>1, <3>1, <3>2 DEF PlainToken, EndsIn
  <2> QED BY <1>4, <2>3, <2>4, <2>5
<1>5. CASE j = n + 2
  <2>1. Opens(t, n + 1)
    <3>1. j - 1 = n + 1 BY <1>1, <1>5
    <3> QED BY <1>2, <3>1
  <2>2. CASE t[n + 1] \in Space /\ Opens(t, n)
    <3>1. Opens(s, n) /\ n + 1 - 1 = n /\ (n + 1)..n = {} BY <1>1, <1>3, <2>2
    <3>2. Beginning(s, n + 1) BY <3>1 DEF Beginning
    <3> QED BY <1>1, <2>2, <3>2
  <2>3. ASSUME t[n + 1] = "\n",
               NEW i \in 1..n, Opens(t, i - 1), Hashes(t, i) \/ Dashes(t, i),
               \A k \in i..n : t[k] # "\n"
        PROVE  c = "\n" /\ InComment(s)
    <3>1. Opens(s, i - 1)
      <4>1. i - 1 \in 0..n BY <1>1
      <4> QED BY <1>3, <2>3, <4>1
    <3>2. \A k \in i..n : s[k] # "\n"
      <4>1. \A k \in i..n : k \in 1..n BY <1>1
      <4> QED BY <1>1, <2>3, <4>1
    <3>3. Hashes(s, i) \/ Dashes(s, i)
      <4>1. CASE Hashes(t, i) BY <1>1, <4>1 DEF Hashes
      <4>2. CASE Dashes(t, i)
        <5>1. i # n BY <1>1, <2>3, <4>2 DEF Dashes
        <5>2. i < n /\ i + 1 \in 1..n BY <1>1, <5>1
        <5> QED BY <1>1, <4>2, <5>2 DEF Dashes
      <4> QED BY <2>3, <4>1, <4>2
    <3> QED BY <1>1, <2>3, <3>1, <3>2, <3>3 DEF InComment
  <2>4. \/ t[n + 1] \in Space /\ Opens(t, n)
        \/ /\ t[n + 1] = "\n"
           /\ \E i \in 1..n : /\ Opens(t, i - 1)
                              /\ Hashes(t, i) \/ Dashes(t, i)
                              /\ \A k \in i..n : t[k] # "\n"
    BY <1>1, <2>1, OpensBefore
  <2> QED BY <2>2, <2>3, <2>4
<1>6. j \in 1..(n + 1) \/ j = n + 2 BY <1>1
<1> QED BY <1>4, <1>5, <1>6

LEMMA CommentGrows ==
  ASSUME NEW S, NEW s \in Seq(S), NEW c \in S, InComment(Append(s, c))
  PROVE  /\ c # "\n"
         /\ \/ InComment(s)
            \/ c = "#" /\ Beginning(s, Len(s) + 1)
            \/ c = "-" /\ EndsIn(s, "-") /\ Beginning(s, Len(s))
<1> DEFINE t == Append(s, c)
           n == Len(s)
<1>1. /\ t \in Seq(S) /\ n \in Nat /\ Len(t) = n + 1 /\ t[n + 1] = c
      /\ \A k \in 1..n : t[k] = s[k]
  BY Lengthened
<1>2. PICK i \in 1..Len(t) : /\ Opens(t, i - 1)
                             /\ Hashes(t, i) \/ Dashes(t, i)
                             /\ \A k \in i..Len(t) : t[k] # "\n"
  BY DEF InComment
<1> HIDE DEF t
<1>3. c # "\n"
  <2>1. n + 1 \in i..Len(t) BY <1>1
  <2> QED BY <1>1, <1>2, <2>1
<1>4. Opens(s, i - 1)
  <2> DEFINE m == i - 1
  <2>1. m \in Nat /\ m <= Len(t) /\ m <= Len(s) BY <1>1
  <2>2. \A k \in 1..m : s[k] = t[k] BY <1>1
  <2>3. Opens(t, m) BY <1>2
  <2> HIDE DEF m
  <2>4. Opens(s, m) BY <1>1, <2>1, <2>2, <2>3, OpensSame
  <2> QED BY <2>4 DEF m
<1>5. CASE i = n + 1
  <2>1. c = "#" BY <1>1, <1>2, <1>5 DEF Hashes, Dashes
  <2>2. (n + 1)..n = {} BY <1>1
  <2>3. Beginning(s, n + 1) BY <1>4, <1>5, <2>2 DEF Beginning
  <2> QED BY <1>3, <2>1, <2>3
<1>6. CASE i \in 1..n
  <2>1. \A k \in i..n : s[k] # "\n"
    <3>1. \A k \in i..n : k \in 1..n /\ k \in i..Len(t) BY <1>1, <1>6
    <3> QED BY <1>1, <1>2, <3>1
  <2>2. ASSUME Hashes(s, i) \/ Dashes(s, i) PROVE InComment(s)
    BY <1>4, <1>6, <2>1, <2>2 DEF InComment
  <2>3. CASE Hashes(t, i)
    <3>1. Hashes(s, i) BY <1>1, <1>6, <2>3 DEF Hashes
    <3> QED BY <1>3, <2>2, <3>1
  <2>4. CASE Dashes(t, i) /\ i < n
    <3>1. i + 1 \in 1..n BY <1>1, <1>6, <2>4
    <3>2. Dashes(s, i) BY <1>1, <1>6, <2>4, <3>1 DEF Dashes
    <3> QED BY <1>3, <2>2, <3>2
  <2>5. CASE Dashes(t, i) /\ i = n
    <3>1. s[n] = "-" /\ c = "-" /\ n > 0 BY <1>1, <1>6, <2>5 DEF Dashes
    <3>2. PlainToken(s, n) /\ s[n] # "\n" BY <1>1, <3>1 DEF PlainToken
    <3>3. \A k \in n..n : k = n BY <1>1
    <3>4. Beginning(s, n) BY <1>4, <2>5, <3>2, <3>3 DEF Beginning
    <3> QED BY <1>3, <3>1, <3>4 DEF EndsIn
  <2> QED BY <1>1, <1>2, <1>6, <2>3, <2>4, <2>5
<1> QED BY <1>1, <1>5, <1>6

(* A command is complete with its newline.                                 *)
LEMMA StandsIs ==
  ASSUME NEW s, NEW j, NEW e
  PROVE  CommandStands(s, j, e) <=>
           /\ j + 2 < e /\ Opens(s, j - 1)
           /\ At(s, j, "DELIMITER") /\ At(s, j + 1, Blank) /\ At(s, e, "\n")
           /\ \E k \in (j + 2)..(e - 1) : ~At(s, k, Blank)
           /\ \A k \in j..(e - 1) : ~At(s, k, "\n") /\ PlainToken(s, k)
BY Zenon DEF CommandStands, At, Blank

LEMMA CommandGrows ==
  ASSUME NEW S, NEW s \in Seq(S), NEW c \in S, HasCommand(Append(s, c)), ~HasCommand(s)
  PROVE  /\ c = "\n" /\ \E j \in 1..(Len(s) + 1) : Beginning(s, j)
         /\ DelimiterLine(Append(s, c)) # <<>>
<1> DEFINE t == Append(s, c)
           n == Len(s)
<1>1. /\ t \in Seq(S) /\ n \in Nat /\ Len(t) = n + 1 /\ t[n + 1] = c
      /\ \A k \in 1..n : t[k] = s[k] /\ DOMAIN t = 1..(n + 1) /\ DOMAIN s = 1..n
  <2>1. DOMAIN t = 1..Len(t) /\ DOMAIN s = 1..n BY Lengthened, LenProperties
  <2> QED BY <2>1, Lengthened
<1>2. PICK j \in DOMAIN t, e \in DOMAIN t : CommandStands(t, j, e)
  BY DEF HasCommand
<1> HIDE DEF t
<1>3. /\ j + 2 < e /\ Opens(t, j - 1)
      /\ At(t, j, "DELIMITER") /\ At(t, j + 1, Blank) /\ At(t, e, "\n")
      /\ \E k \in (j + 2)..(e - 1) : ~At(t, k, Blank)
      /\ \A k \in j..(e - 1) : ~At(t, k, "\n") /\ PlainToken(t, k)
  BY <1>2, StandsIs
<1>4. /\ DOMAIN t = 1..(n + 1) /\ j \in 1..n /\ e \in 1..(n + 1) /\ j + 1 \in 1..n
      /\ \A k \in j..(e - 1) : k \in 1..n
  <2>1. DOMAIN t = 1..(n + 1) BY <1>1, LenProperties
  <2>2. j \in 1..(n + 1) /\ e \in 1..(n + 1) BY <2>1
  <2> QED BY <1>1, <1>3, <2>1, <2>2
<1>5. Opens(s, j - 1)
  <2>1. j - 1 \in Nat /\ j - 1 <= Len(t) /\ j - 1 <= Len(s) BY <1>1, <1>4
  <2>2. \A k \in 1..(j - 1) : s[k] = t[k] BY <1>1, <1>4
  <2> QED BY <1>1, <1>3, <2>1, <2>2, OpensSame
<1>6. \A k \in j..(e - 1) : ~At(s, k, "\n") /\ PlainToken(s, k)
  BY <1>1, <1>3, <1>4, PlainBefore DEF At
<1>7. e = n + 1
  <2> SUFFICES ASSUME e \in 1..n PROVE FALSE BY <1>1, <1>4
  <2>1. At(s, j, "DELIMITER") /\ At(s, j + 1, Blank) /\ At(s, e, "\n")
    BY <1>1, <1>3, <1>4 DEF At
  <2>2. \E k \in (j + 2)..(e - 1) : ~At(s, k, Blank)
    <3>1. PICK k \in (j + 2)..(e - 1) : ~At(t, k, Blank) BY <1>3
    <3>2. k \in 1..n BY <1>1, <1>4
    <3> QED BY <1>1, <3>1, <3>2 DEF At
  <2>3. CommandStands(s, j, e) BY <1>3, <1>5, <1>6, <2>1, <2>2, StandsIs
  <2>4. DOMAIN s = 1..n BY LenProperties
  <2> QED BY <1>4, <2>3, <2>4 DEF HasCommand
<1>8. c = "\n" BY <1>1, <1>3, <1>7 DEF At
<1>9. Beginning(s, j)
  <2>1. e - 1 = n BY <1>1, <1>7
  <2> QED BY <1>5, <1>6, <2>1 DEF Beginning, At
<1>10. DelimiterLine(t) # <<>>
  <2> DEFINE m == j - 1
             p == SubSeq(t, 1, m)
  <2>1. m \in 0..Len(t) /\ m + 1 = j /\ m + 2 = j + 1 /\ m + 3 = j + 2
        /\ e - 1 = Len(t) - 1 /\ e = Len(t)
    BY <1>1, <1>4, <1>7
  <2>2. p \in Seq(S) /\ Len(p) = m /\ \A k \in 1..m : p[k] = t[k]
    <3>1. 1 \in 1..(Len(t) + 1) /\ m \in (1 - 1)..Len(t) /\ m - 1 + 1 = m
          /\ \A k \in 1..m : 1 + k - 1 = k
      BY <1>1, <2>1
    <3> QED BY <1>1, <3>1, Slice
  <2> HIDE DEF m, p
  <2>3. Opens(p, Len(p))
    <3>1. m \in Nat /\ m <= Len(t) /\ m <= Len(p) BY <1>1, <2>1, <2>2
    <3>2. Opens(t, m) BY <1>3 DEF m
    <3> QED BY <1>1, <2>2, <3>1, <3>2, OpensSame
  <2>4. BlankOrComment(p) BY <2>2, <2>3, OpensLines
  <2>5. PICK h \in (j + 2)..(e - 1) : ~At(t, h, Blank) BY <1>3
  <2>6. t[h] \notin Space
    <3>1. h \in j..(e - 1) BY <1>1, <1>4
    <3>2. ~At(t, h, "\n") BY <1>3, <3>1
    <3> QED BY <2>5, <3>2, Zenon DEF At, Space, Blank
  <2>7. \A k \in (m + 1)..(Len(t) - 1) : t[k] # "\n" BY <1>3, <2>1 DEF At
  <2>8. At(t, m + 1, "DELIMITER") /\ At(t, m + 2, Blank) /\ At(t, Len(t), "\n")
    BY <1>3, <2>1
  <2>9. h \in (m + 3)..(Len(t) - 1) BY <2>1
  <2> QED BY <1>1, <2>1, <2>4, <2>6, <2>7, <2>8, <2>9, CommandSeen DEF p
<1> QED BY <1>4, <1>8, <1>9, <1>10 DEF t

(* What a round does to the buffer and the state.                          *)
Grows(d, x, y) ==
  y.buf = Append(x.buf, d[x.i]) /\ y.i = x.i + 1

Into(d, x, st) == [Take(d, x) EXCEPT !.st = st]

LEMMA TakeEnters ==
  ASSUME NEW S, NEW d \in Seq(S), NEW x \in Lexers(S), NEW e \in 0..Len(d), x.i \in 1..e
  PROVE  /\ Grows(d, x, Take(d, x)) /\ Take(d, x).st = x.st
         /\ \A st : Grows(d, x, Into(d, x, st)) /\ Into(d, x, st).st = st
<1> DEFINE c == d[x.i]
           b == Append(x.buf, c)
           y == Take(d, x)
<1>1. y.buf = b /\ y.i = x.i + 1 /\ y.st = x.st
      /\ \A st : /\ [y EXCEPT !.st = st].buf = b /\ [y EXCEPT !.st = st].i = x.i + 1
                 /\ [y EXCEPT !.st = st].st = st
  <2> HIDE DEF b
  <2> QED BY DEF Take, Lexers, b, c
<1> HIDE DEF y
<1>2. Grows(d, x, y) BY <1>1 DEF Grows
<1>3. ASSUME NEW st PROVE Grows(d, x, Into(d, x, st)) /\ Into(d, x, st).st = st
  <2>1. Into(d, x, st) = [y EXCEPT !.st = st] BY DEF Into, y
  <2> QED BY <1>1, <2>1 DEF Grows
<1> QED BY <1>1, <1>2, <1>3 DEF y

LEMMA TakeHolds ==
  ASSUME NEW S, NEW d \in Seq(S), NEW x \in Lexers(S), NEW e \in 0..Len(d), x.i \in 1..e
  PROVE  LET y == Take(d, x)
         IN  /\ y \in Lexers(S) /\ y.i = x.i + 1 /\ y.st = x.st /\ y.mode = x.mode
             /\ y.out = x.out /\ y.buf = Append(x.buf, d[x.i]) /\ BufStart(y) = BufStart(x)
<1> DEFINE y == Take(d, x)
<1>1. y \in Lexers(S) /\ y.i = x.i + 1 /\ Taken(d, x, y) /\ y.buf = Append(x.buf, d[x.i])
  BY TakeRound
<1>2. y.st = x.st BY DEF Take, Lexers
<1>3. Len(d) \in Nat /\ x.i \in Nat /\ x.buf \in Seq(S) /\ Len(x.buf) \in Nat
  BY LenProperties DEF Lexers
<1>4. d[x.i] \in S BY <1>3, ElementOfSeq
<1>5. Len(Append(x.buf, d[x.i])) = Len(x.buf) + 1 BY <1>3, <1>4, AppendProperties
<1> HIDE DEF y
<1>6. BufStart(y) = BufStart(x) BY <1>1, <1>3, <1>5 DEF BufStart
<1> QED BY <1>1, <1>2, <1>6 DEF Taken, y

LEMMA DefaultWatches ==
  ASSUME NEW S, NEW d \in Seq(S), NEW x \in Lexers(S), NEW e \in 0..Len(d), x.i \in 1..e,
         x.st = Default, e < Len(d) => d[e] # "-"
  PROVE  LET y == Feed(d, x, e)
             b == d[x.i]
         IN  \/ y.buf = <<>> /\ y.st = Default
             \/ /\ Grows(d, x, y)
                /\ b \notin {"'", "\"", "bq", "#"} => Ready(d, y)
                /\ b = "#" => y.st = HashComment
                /\ b = "\n" => DelimiterLine(y.buf) = <<>>
<1> DEFINE y == Feed(d, x, e)
           b == d[x.i]
           u == Take(d, x)
<1>1. Len(d) \in Nat /\ x.buf \in Seq(S) /\ Len(x.buf) \in Nat /\ b \in S
  <2>1. x.i \in 1..Len(d) BY LenProperties
  <2> QED BY <2>1, LenProperties DEF Lexers
<1>2. Grows(d, x, u) /\ u.st = Default
  BY TakeEnters
<1>3. y = FeedDefault(d, x, e) BY States DEF Feed
<1>4. ASSUME NEW z, Grows(d, x, z)
      PROVE  /\ \A c : EndsIn(z.buf, c) <=> b = c
             /\ Coming(d, z) = IF x.i < Len(d) THEN d[x.i + 1] ELSE "none"
  <2>1. z.buf = Append(x.buf, b) /\ z.i = x.i + 1 BY <1>4 DEF Grows
  <2>2. Len(z.buf) = Len(x.buf) + 1 /\ z.buf[Len(x.buf) + 1] = b
    BY <1>1, <2>1, AppendProperties
  <2>3. x.i + 1 <= Len(d) <=> x.i < Len(d) BY <1>1
  <2> QED BY <1>1, <2>1, <2>2, <2>3 DEF EndsIn, Coming
<1> DEFINE coming == IF x.i < Len(d) THEN d[x.i + 1] ELSE "none"
<1>5. Next1(d, x, e) # "none" => Next1(d, x, e) = coming
  <2>1. x.i + 1 <= e => x.i < Len(d) BY <1>1
  <2> QED BY <2>1 DEF Next1
<1>6. b = "-" => Next1(d, x, e) = coming
  <2>1. CASE x.i + 1 <= e
    <3>1. x.i < Len(d) BY <1>1, <2>1
    <3> QED BY <2>1, <3>1 DEF Next1
  <2>2. CASE x.i = e
    <3>1. ~(x.i + 1 <= e) BY <2>2
    <3>2. CASE e < Len(d) BY <2>2, <3>2
    <3>3. CASE ~(x.i < Len(d)) BY <3>1, <3>3 DEF Next1
    <3> QED BY <2>2, <3>2, <3>3
  <2> QED BY <2>1, <2>2
<1> DEFINE Enter(st) == Into(d, x, st)
<1>8. \A st : Grows(d, x, Enter(st)) /\ Enter(st).st = st
  BY TakeEnters
<1> HIDE DEF coming, u
<1>7. \/ b \in {"'", "\"", "bq"} /\ \E st : y = Enter(st)
      \/ b = "#" /\ y = Enter(HashComment)
      \/ b = "-" /\ coming = "-" /\ y = Enter(LineComment)
      \/ b = "/" /\ coming = "*" /\ \E st \in {BlockComment, ExecComment} : y = Enter(st)
      \/ b = "\n" /\ y = AtNewline(u)
      \/ b \notin {"'", "\"", "bq", "#", "\n"} /\ ~(b = "-" /\ coming = "-")
         /\ (y = AtDelimiter(x) \/ y = u)
  <2>1. CASE b \in {"'", "\"", "bq"}
    <3>1. y = Enter(SingleQuote) \/ y = Enter(Backtick) \/ y = Enter(DoubleQuote)
      BY <1>3, <2>1 DEF FeedDefault, Into, u
    <3> QED BY <2>1, <3>1
  <2>2. CASE b = "#"
    BY <1>3, <2>2 DEF FeedDefault, Into, u
  <2>3. CASE b = "-" /\ Next1(d, x, e) = "-"
    BY <1>3, <1>6, <2>3 DEF FeedDefault, Into, u
  <2>4. CASE b = "/" /\ Next1(d, x, e) = "*"
    <3>1. y = Enter(ExecComment) \/ y = Enter(BlockComment)
      BY <1>3, <2>4 DEF FeedDefault, Into, u
    <3> QED BY <1>5, <2>4, <3>1
  <2>5. CASE b = "\n"
    BY <1>3, <2>5 DEF FeedDefault, Into, u
  <2>6. CASE /\ b \notin {"'", "\"", "bq", "#", "\n"}
             /\ ~(b = "-" /\ Next1(d, x, e) = "-") /\ ~(b = "/" /\ Next1(d, x, e) = "*")
    <3>1. y = AtDelimiter(x) \/ y = u BY <1>3, <2>6 DEF FeedDefault, Into, u
    <3> QED BY <1>6, <2>6, <3>1
  <2> QED BY <2>1, <2>2, <2>3, <2>4, <2>5, <2>6
<1>9. ASSUME NEW z, Grows(d, x, z) PROVE
        /\ z.st = Default /\ ~(b = "-" /\ coming = "-") => Ready(d, z)
        /\ z.st = LineComment /\ b = "-" /\ coming = "-" => Ready(d, z)
        /\ z.st \in {BlockComment, ExecComment} /\ b = "/" /\ coming = "*" => Ready(d, z)
  <2>1. (\A c : EndsIn(z.buf, c) <=> b = c) /\ Coming(d, z) = coming
    BY <1>4, <1>9 DEF coming
  <2> HIDE DEF b
  <2> QED BY <2>1 DEF Ready
<1> HIDE DEF y, b, Enter
<1>10. CASE b \in {"'", "\"", "bq"} /\ \E st : y = Enter(st)
  BY <1>8, <1>10 DEF y, b
<1>11. CASE b = "#" /\ y = Enter(HashComment)
  BY <1>8, <1>11 DEF y, b
<1>12. CASE b = "-" /\ coming = "-" /\ y = Enter(LineComment)
  BY <1>8, <1>9, <1>12 DEF y, b
<1>13. CASE b = "/" /\ coming = "*" /\ \E st \in {BlockComment, ExecComment} : y = Enter(st)
  BY <1>8, <1>9, <1>13 DEF y, b
<1>14. CASE b = "\n" /\ y = AtNewline(u)
  <2>1. CASE DelimiterLine(u.buf) = <<>>
    <3>1. y = u BY <1>14, <2>1 DEF AtNewline
    <3> QED BY <1>2, <1>9, <1>14, <2>1, <3>1 DEF y, b
  <2>2. CASE DelimiterLine(u.buf) # <<>>
    <3>1. y = [u EXCEPT !.mode = HandleDelimiterCommand(@, DelimiterLine(u.buf)), !.buf = <<>>]
      BY <1>14, <2>2 DEF AtNewline
    <3>2. u \in Lexers(S) BY TakeHolds DEF u
    <3>3. y.buf = <<>> /\ y.st = Default BY <1>2, <3>1, <3>2 DEF Lexers
    <3> QED BY <3>3 DEF y
  <2> QED BY <2>1, <2>2
<1>15. CASE /\ b \notin {"'", "\"", "bq", "#", "\n"} /\ ~(b = "-" /\ coming = "-")
            /\ (y = AtDelimiter(x) \/ y = u)
  <2>1. CASE y = AtDelimiter(x)
    <3>1. y.buf = <<>> /\ y.st = Default BY <2>1 DEF AtDelimiter, Lexers
    <3> QED BY <3>1 DEF y
  <2>2. CASE y = u
    BY <1>2, <1>9, <1>15, <2>2 DEF y, b
  <2> QED BY <1>15, <2>1, <2>2
<1> QED BY <1>7, <1>10, <1>11, <1>12, <1>13, <1>14, <1>15

LEMMA CommentWatches ==
  ASSUME NEW S, NEW d \in Seq(S), NEW x \in Lexers(S), NEW e \in 0..Len(d), x.i \in 1..e,
         x.st \in {LineComment, HashComment}
  PROVE  LET y == Feed(d, x, e)
         IN  /\ Grows(d, x, y)
             /\ y.st = IF d[x.i] = "\n" THEN Default ELSE x.st
<1> DEFINE to == IF d[x.i] = "\n" THEN Default ELSE x.st
           y == Into(d, x, to)
<1>1. Feed(d, x, e) = FeedLineComment(d, x) BY States DEF Feed
<1>2. Take(d, x).st = x.st BY TakeEnters
<1>3. FeedLineComment(d, x) = y BY <1>2 DEF FeedLineComment, Into
<1>4. Grows(d, x, y) /\ y.st = to
  <2> HIDE DEF to
  <2> QED BY TakeEnters
<1> HIDE DEF y
<1> QED BY <1>1, <1>3, <1>4

(* Elsewhere it is one symbol or two.                                      *)
GrowsBy(d, x, e, y) ==
  \/ y.buf = Append(x.buf, d[x.i])
  \/ x.i + 1 <= e /\ y.buf = x.buf \o <<d[x.i], d[x.i + 1]>>

LEMMA OtherGrows ==
  ASSUME NEW S, NEW d \in Seq(S), NEW x \in Lexers(S), NEW e \in 0..Len(d), x.i \in 1..e,
         x.st \notin {Default, LineComment, HashComment}
  PROVE  GrowsBy(d, x, e, Feed(d, x, e))
<1>1. \A st : Into(d, x, st).buf = Append(x.buf, d[x.i])
  BY TakeEnters DEF Grows
<1>2. Take(d, x).buf = Append(x.buf, d[x.i]) BY TakeEnters DEF Grows
<1>3. /\ Take2(d, x).buf = x.buf \o <<d[x.i], d[x.i + 1]>>
      /\ \A st : [Take2(d, x) EXCEPT !.st = st].buf = x.buf \o <<d[x.i], d[x.i + 1]>>
  <2> DEFINE b2 == x.buf \o <<d[x.i], d[x.i + 1]>>
  <2>1. /\ Take2(d, x).buf = b2 /\ \A st : [Take2(d, x) EXCEPT !.st = st].buf = b2
    <3> HIDE DEF b2
    <3> QED BY DEF Take2, Lexers, b2
  <2> QED BY <2>1
<1>4. ASSUME NEW q \in {"'", "\"", "bq"}, NEW esc PROVE GrowsBy(d, x, e, FeedQuoted(d, x, e, q, esc))
  <2>1. q # "none" OBVIOUS
  <2>2. \/ FeedQuoted(d, x, e, q, esc) = Take(d, x)
        \/ FeedQuoted(d, x, e, q, esc) = Take2(d, x) /\ x.i + 1 <= e
        \/ FeedQuoted(d, x, e, q, esc) = Into(d, x, Default)
    BY <2>1 DEF FeedQuoted, Into, Next1
  <2> QED BY <1>1, <1>2, <1>3, <2>2 DEF GrowsBy
<1>5. CASE x.st \in {SingleQuote, DoubleQuote, Backtick}
  <2>1. \/ Feed(d, x, e) = FeedQuoted(d, x, e, "'", TRUE)
        \/ Feed(d, x, e) = FeedQuoted(d, x, e, "\"", TRUE)
        \/ Feed(d, x, e) = FeedQuoted(d, x, e, "bq", FALSE)
    BY <1>5, States DEF Feed
  <2> QED BY <1>4, <2>1
<1>6. CASE x.st \in {BlockComment, ExecComment}
  <2>1. Feed(d, x, e) = FeedBlockComment(d, x, e) BY <1>6, States DEF Feed
  <2>2. \/ FeedBlockComment(d, x, e) = Take(d, x)
        \/ FeedBlockComment(d, x, e) = [Take2(d, x) EXCEPT !.st = Default] /\ x.i + 1 <= e
    BY DEF FeedBlockComment, Next1
  <2> QED BY <1>1, <1>2, <1>3, <2>1, <2>2 DEF GrowsBy
<1> QED BY <1>5, <1>6 DEF Lexers, LexStates

(* A buffer that says nothing will say nothing, until it is emptied.       *)
Shut(s) ==
  /\ ~\E j \in 1..(Len(s) + 1) : Beginning(s, j)
  /\ ~InComment(s) /\ ~HasCommand(s)

LEMMA StaysShut ==
  ASSUME NEW S, NEW s \in Seq(S), NEW c \in S, Shut(s)
  PROVE  Shut(Append(s, c))
<1> DEFINE t == Append(s, c)
<1>1. Len(s) \in Nat /\ Len(t) = Len(s) + 1 BY Lengthened
<1>2. Len(t) + 1 = Len(s) + 2 /\ Len(s) + 1 \in 1..(Len(s) + 1) BY <1>1
<1>3. ~Beginning(s, Len(s) + 1) BY <1>2 DEF Shut
<1>4. \A j \in 1..(Len(s) + 2) : ~Beginning(t, j)
  BY <1>3, BeginningGrows DEF Shut
<1>5. ~InComment(t)
  <2> SUFFICES ASSUME InComment(t) PROVE FALSE OBVIOUS
  <2>1. EndsIn(s, "-") /\ Beginning(s, Len(s)) BY <1>3, CommentGrows DEF Shut
  <2>2. Len(s) \in 1..(Len(s) + 1) BY <1>1, <2>1 DEF EndsIn
  <2> QED BY <2>1, <2>2 DEF Shut
<1>6. ~HasCommand(t) BY CommandGrows DEF Shut
<1> QED BY <1>2, <1>4, <1>5, <1>6 DEF Shut

LEMMA OpenEnd ==
  ASSUME NEW S, NEW s \in Seq(S), Beginning(s, Len(s) + 1)
  PROVE  ~EndsIn(s, "-") /\ ~EndsIn(s, "/")
<1>1. Len(s) \in Nat /\ Len(s) + 1 - 1 = Len(s) BY LenProperties
<1>2. ASSUME Len(s) > 0 PROVE s[Len(s)] \in Space
  <2>1. Len(s) \in Nat \ {0} /\ Opens(s, Len(s)) BY <1>1, <1>2 DEF Beginning
  <2> QED BY <2>1, OpensLast
<1> QED BY <1>2, Spaces DEF EndsIn

(* Every round leaves the lexer watchful and its buffer without a command. *)
LEMMA DefaultStays ==
  ASSUME NEW S, NEW d \in Seq(S), NEW x \in Lexers(S), NEW e \in 0..Len(d), x.i \in 1..e,
         x.st = Default, e < Len(d) => d[e] # "-", Watchful(d, x), ~HasCommand(x.buf)
  PROVE  Watchful(d, Feed(d, x, e)) /\ ~HasCommand(Feed(d, x, e).buf)
<1> DEFINE y == Feed(d, x, e)
           b == d[x.i]
           s == x.buf
<1>1. s \in Seq(S) /\ b \in S /\ Len(s) \in Nat
  <2>1. x.i \in 1..Len(d) BY LenProperties
  <2> QED BY <2>1, LenProperties DEF Lexers
<1>2. \/ y.buf = <<>> /\ y.st = Default
      \/ /\ Grows(d, x, y)
         /\ b \notin {"'", "\"", "bq", "#"} => Ready(d, y)
         /\ b = "#" => y.st = HashComment
         /\ b = "\n" => DelimiterLine(y.buf) = <<>>
  BY DefaultWatches
<1>3. Coming(d, x) = b
  <2>1. x.i <= Len(d) BY LenProperties
  <2> QED BY <2>1 DEF Coming
<1>4. \A j \in 1..(Len(s) + 1) : Beginning(s, j) => ~(EndsIn(s, "-") /\ b = "-")
  BY <1>3, States DEF Watchful, Ready
<1>5. ~InComment(s) BY States DEF Watchful
<1> HIDE DEF y, b
<1>6. CASE y.buf = <<>> /\ y.st = Default
  <2> DEFINE z == y.buf
  <2>1. Len(z) = 0 /\ 1..0 = {} /\ DOMAIN z = {} /\ z = y.buf BY <1>6
  <2> HIDE DEF z
  <2>2. Ready(d, y) BY <1>6, <2>1 DEF Ready, EndsIn
  <2>3. ~InComment(z) /\ ~HasCommand(z) BY <2>1 DEF InComment, HasCommand
  <2> QED BY <2>1, <2>2, <2>3 DEF Watchful, y
<1>7. CASE /\ Grows(d, x, y)
           /\ b \notin {"'", "\"", "bq", "#"} => Ready(d, y)
           /\ b = "#" => y.st = HashComment
           /\ b = "\n" => DelimiterLine(y.buf) = <<>>
  <2>1. y.buf = Append(s, b) BY <1>7 DEF Grows, b
  <2>2. Len(y.buf) = Len(s) + 1 BY <1>1, <2>1, Lengthened
  <2> HIDE DEF s
  <2>3. ASSUME NEW j \in 1..(Len(s) + 2), Beginning(Append(s, b), j) PROVE Ready(d, y)
    <3>1. b \notin {"'", "\"", "bq", "#"} BY <1>1, <2>3, BeginningGrows, Spaces
    <3> QED BY <1>7, <3>1
  <2>4. ASSUME InComment(Append(s, b)) PROVE y.st \in {LineComment, HashComment}
    <3>1. \/ b = "#"
          \/ b = "-" /\ EndsIn(s, "-") /\ Beginning(s, Len(s))
      BY <1>1, <1>5, <2>4, CommentGrows DEF s
    <3>2. CASE b = "-" /\ EndsIn(s, "-") /\ Beginning(s, Len(s))
      <4>1. Len(s) \in 1..(Len(s) + 1) BY <1>1, <3>2 DEF EndsIn
      <4> QED BY <1>4, <3>2, <4>1
    <3> QED BY <1>7, <3>1, <3>2
  <2>5. ~HasCommand(Append(s, b))
    BY <1>1, <1>7, <2>1, CommandGrows DEF s
  <2>6. Len(y.buf) + 1 = Len(s) + 2 BY <1>1, <2>2
  <2> QED BY <2>1, <2>3, <2>4, <2>5, <2>6 DEF Watchful, y
<1> QED BY <1>2, <1>6, <1>7

LEMMA CommentStays ==
  ASSUME NEW S, NEW d \in Seq(S), NEW x \in Lexers(S), NEW e \in 0..Len(d), x.i \in 1..e,
         x.st \in {LineComment, HashComment}, Watchful(d, x), ~HasCommand(x.buf)
  PROVE  Watchful(d, Feed(d, x, e)) /\ ~HasCommand(Feed(d, x, e).buf)
<1> DEFINE y == Feed(d, x, e)
           b == d[x.i]
           s == x.buf
<1>1. s \in Seq(S) /\ b \in S /\ Len(s) \in Nat
  <2>1. x.i \in 1..Len(d) BY LenProperties
  <2> QED BY <2>1, LenProperties DEF Lexers
<1>2. y.buf = Append(s, b) /\ y.st = IF b = "\n" THEN Default ELSE x.st
  BY CommentWatches DEF Grows
<1>3. Coming(d, x) = b
  <2>1. x.i <= Len(d) BY LenProperties
  <2> QED BY <2>1 DEF Coming
<1>4. \A j \in 1..(Len(s) + 1) : Beginning(s, j) => EndsIn(s, "-") /\ b = "-"
  BY <1>3, States DEF Watchful, Ready
<1>5. ~Beginning(s, Len(s) + 1)
  <2>1. Len(s) + 1 \in 1..(Len(s) + 1) BY <1>1
  <2> QED BY <1>1, <1>4, <2>1, OpenEnd
<1> HIDE DEF y, b, s
<1>6. Len(y.buf) + 1 = Len(s) + 2 /\ Len(y.buf) = Len(s) + 1
      /\ y.buf[Len(s) + 1] = b
  BY <1>1, <1>2, Lengthened
<1>7. ASSUME NEW j \in 1..(Len(s) + 2), Beginning(Append(s, b), j) PROVE Ready(d, y)
  <2>1. ASSUME NEW m \in 1..(Len(s) + 1), Beginning(s, m) PROVE m <= Len(s)
    BY <1>1, <1>5, <2>1
  <2>2. b = "\n"
    <3>1. \/ /\ j \in 1..(Len(s) + 1) /\ Beginning(s, j)
             /\ b \notin {"'", "\"", "bq", "#", "\n"}
             /\ j <= Len(s) => /\ ~(EndsIn(s, "-") /\ b = "-")
                               /\ ~(EndsIn(s, "/") /\ b = "*")
          \/ b \in Space /\ Beginning(s, Len(s) + 1)
          \/ b = "\n" /\ InComment(s)
      BY <1>1, <1>7, BeginningGrows, Zenon
    <3>2. CASE /\ j \in 1..(Len(s) + 1) /\ Beginning(s, j)
               /\ j <= Len(s) => ~(EndsIn(s, "-") /\ b = "-")
      <4>1. j <= Len(s) BY <2>1, <3>2
      <4> QED BY <1>4, <3>2, <4>1
    <3> QED BY <1>5, <3>1, <3>2
  <2>3. y.st = Default /\ ~EndsIn(y.buf, "-") BY <1>2, <1>6, <2>2 DEF EndsIn
  <2> QED BY <2>3 DEF Ready
<1>8. ASSUME InComment(Append(s, b)) PROVE y.st \in {LineComment, HashComment}
  <2>1. b # "\n" BY <1>1, <1>8, CommentGrows
  <2> QED BY <1>2, <2>1
<1>9. ~HasCommand(Append(s, b))
  <2>1. ASSUME HasCommand(Append(s, b)) PROVE FALSE
    <3>1. b = "\n" /\ \E j \in 1..(Len(s) + 1) : Beginning(s, j)
      BY <1>1, <2>1, CommandGrows DEF s
    <3> QED BY <1>4, <3>1
  <2> QED BY <2>1
<1> QED BY <1>2, <1>6, <1>7, <1>8, <1>9 DEF Watchful, y

LEMMA PairIsConcat ==
  ASSUME NEW T, NEW c0 \in T, NEW c1 \in T
  PROVE  <<c0, c1>> = <<c0>> \o <<c1>>
<1> DEFINE w == <<c0>>
           t == <<c0>> \o <<c1>>
           u == <<c0, c1>>
<1>1. u \in Seq(T) /\ Len(u) = 2 /\ u[1] = c0 /\ u[2] = c1 OBVIOUS
<1>2. w \in Seq(T) /\ Len(w) = 1 /\ w[1] = c0 OBVIOUS
<1>3. t = Append(w, c1)
  <2> HIDE DEF w
  <2>1. Append(w, c1) = w \o <<c1>> BY <1>2, AppendIsConcat
  <2> QED BY <2>1 DEF w
<1> HIDE DEF w, t, u
<1>4. /\ t \in Seq(T) /\ Len(t) = Len(w) + 1 /\ t[Len(w) + 1] = c1
      /\ \A k \in 1..Len(w) : t[k] = w[k]
  <2>1. w \in Seq(T) /\ c1 \in T BY <1>2
  <2> DEFINE v == Append(w, c1)
  <2>2. /\ v \in Seq(T) /\ Len(v) = Len(w) + 1 /\ v[Len(w) + 1] = c1
        /\ \A k \in 1..Len(w) : v[k] = w[k]
    BY <2>1, AppendProperties
  <2>3. t = v BY <1>3
  <2> HIDE DEF v
  <2> QED BY <2>2, <2>3
<1>5. Len(t) = 2 /\ t[1] = c0 /\ t[2] = c1
  <2>1. Len(t) = 2 /\ t[2] = c1 BY <1>2, <1>4
  <2>2. 1 \in 1..Len(w) BY <1>2
  <2> QED BY <1>2, <1>4, <2>1, <2>2
<1>6. \A k \in 1..Len(t) : t[k] = u[k]
  <2>1. \A k \in 1..2 : k = 1 \/ k = 2 OBVIOUS
  <2> QED BY <1>1, <1>5, <2>1
<1>7. t = u BY <1>1, <1>4, <1>5, <1>6, SeqEqual
<1> QED BY <1>7 DEF t, u

LEMMA PairAppended ==
  ASSUME NEW T, NEW s \in Seq(T), NEW b \in T, NEW c \in T
  PROVE  s \o <<b, c>> = Append(Append(s, b), c)
<1>1. <<b, c>> = <<b>> \o <<c>> BY PairIsConcat
<1>2. <<b>> \in Seq(T) /\ <<c>> \in Seq(T) OBVIOUS
<1>3. s \o (<<b>> \o <<c>>) = (s \o <<b>>) \o <<c>> BY <1>2, ConcatAssociative
<1>4. s \o <<b>> = Append(s, b) /\ Append(s, b) \in Seq(T)
  BY AppendIsConcat, AppendProperties
<1>5. Append(s, b) \o <<c>> = Append(Append(s, b), c) BY <1>4, AppendIsConcat
<1> QED BY <1>1, <1>3, <1>4, <1>5

LEMMA OtherStays ==
  ASSUME NEW S, NEW d \in Seq(S), NEW x \in Lexers(S), NEW e \in 0..Len(d), x.i \in 1..e,
         x.st \notin {Default, LineComment, HashComment}, Watchful(d, x), ~HasCommand(x.buf)
  PROVE  Watchful(d, Feed(d, x, e)) /\ ~HasCommand(Feed(d, x, e).buf)
<1> DEFINE y == Feed(d, x, e)
           b == d[x.i]
           b1 == d[x.i + 1]
           s == x.buf
<1>1. s \in Seq(S) /\ b \in S /\ Len(s) \in Nat
  <2>1. x.i \in 1..Len(d) BY LenProperties
  <2> QED BY <2>1, LenProperties DEF Lexers
<1>2. y.buf = Append(s, b) \/ (x.i + 1 <= e /\ y.buf = s \o <<b, b1>>)
  BY OtherGrows DEF GrowsBy
<1>3. Coming(d, x) = b
  <2>1. x.i <= Len(d) BY LenProperties
  <2> QED BY <2>1 DEF Coming
<1>4. \A j \in 1..(Len(s) + 1) : Beginning(s, j) => EndsIn(s, "/") /\ b = "*"
  BY <1>3 DEF Watchful, Ready
<1>5. ~InComment(s) BY DEF Watchful
<1>6. ~Beginning(s, Len(s) + 1)
  <2>1. Len(s) + 1 \in 1..(Len(s) + 1) BY <1>1
  <2> QED BY <1>1, <1>4, <2>1, OpenEnd
<1> HIDE DEF y, b, b1, s
<1>7. Shut(Append(s, b))
  <2>1. Len(Append(s, b)) + 1 = Len(s) + 2 BY <1>1, Lengthened
  <2>2. ASSUME NEW j \in 1..(Len(s) + 2), Beginning(Append(s, b), j) PROVE FALSE
    <3>1. ASSUME NEW m \in 1..(Len(s) + 1), Beginning(s, m) PROVE m <= Len(s)
      BY <1>1, <1>6, <3>1
    <3> QED BY <1>1, <1>4, <1>5, <1>6, <2>2, <3>1, BeginningGrows
  <2>3. ~InComment(Append(s, b))
    <3> SUFFICES ASSUME InComment(Append(s, b)) PROVE FALSE OBVIOUS
    <3>1. b = "-" /\ EndsIn(s, "-") /\ Beginning(s, Len(s))
      BY <1>1, <1>5, <1>6, CommentGrows
    <3>2. Len(s) \in 1..(Len(s) + 1) BY <1>1, <3>1 DEF EndsIn
    <3> QED BY <1>4, <3>1, <3>2
  <2>4. ~HasCommand(Append(s, b))
    <3> SUFFICES ASSUME HasCommand(Append(s, b)) PROVE FALSE OBVIOUS
    <3>1. b = "\n" /\ \E j \in 1..(Len(s) + 1) : Beginning(s, j)
      BY <1>1, CommandGrows DEF s
    <3> QED BY <1>4, <3>1
  <2> QED BY <2>1, <2>2, <2>3, <2>4 DEF Shut
<1>8. Shut(y.buf)
  <2>1. CASE y.buf = Append(s, b) BY <1>7, <2>1
  <2>2. CASE x.i + 1 <= e /\ y.buf = s \o <<b, b1>>
    <3>1. b1 \in S
      <4>1. x.i + 1 \in 1..Len(d) BY <2>2, LenProperties
      <4> QED BY <4>1 DEF b1
    <3>2. s \o <<b, b1>> = Append(Append(s, b), b1) BY <1>1, <3>1, PairAppended
    <3>3. Append(s, b) \in Seq(S) BY <1>1, Lengthened
    <3> QED BY <1>7, <2>2, <3>1, <3>2, <3>3, StaysShut
  <2> QED BY <1>2, <2>1, <2>2
<1> QED BY <1>8 DEF Watchful, Shut, y


CleanOut(x) == \A k \in DOMAIN x.out : ~HasCommand(x.out[k].text)

LEMMA AppendedClean ==
  ASSUME NEW S, NEW x \in Lexers(S), CleanOut(x), ~HasCommand(x.buf),
         NEW y, NEW o, o.text = x.buf, y.out = Append(x.out, o)
  PROVE  CleanOut(y)
<1> DEFINE T == Statements(S) \cup {o}
<1>1. x.out \in Seq(T)
  <2>1. x.out \in Seq(Statements(S)) BY DEF Lexers
  <2> QED BY <2>1, SeqMonotonic
<1>2. o \in T OBVIOUS
<1> HIDE DEF T
<1>3. /\ DOMAIN x.out = 1..Len(x.out) /\ Len(x.out) \in Nat
      /\ DOMAIN y.out = 1..(Len(x.out) + 1)
      /\ y.out[Len(x.out) + 1] = o /\ \A k \in 1..Len(x.out) : y.out[k] = x.out[k]
  BY <1>1, <1>2, AppendProperties, LenProperties
<1>4. ASSUME NEW k \in DOMAIN y.out PROVE ~HasCommand(y.out[k].text)
  <2>1. k \in 1..Len(x.out) \/ k = Len(x.out) + 1 BY <1>3
  <2>2. CASE k \in 1..Len(x.out) BY <1>3, <2>2 DEF CleanOut
  <2>3. CASE k = Len(x.out) + 1 BY <1>3, <2>3
  <2> QED BY <2>1, <2>2, <2>3
<1> QED BY <1>4 DEF CleanOut

LEMMA RoundClean ==
  ASSUME NEW S, NEW d, NEW e, NEW x \in Lexers(S), NEW y, Round(S, d, x, y, e),
         CleanOut(x), ~HasCommand(x.buf)
  PROVE  CleanOut(y)
<1>1. CASE y.out = x.out BY <1>1 DEF CleanOut
<1>2. CASE Emitted(d, x, y)
  <2> DEFINE o == [text |-> x.buf, next |-> y.i,
                   delim |-> SubSeq(d, x.i, y.i - 1), mode |-> y.mode]
  <2>1. o.text = x.buf /\ y.out = Append(x.out, o) BY <1>2 DEF Emitted
  <2> HIDE DEF o
  <2> QED BY <2>1, AppendedClean
<1> QED BY <1>1, <1>2 DEF Round, Taken, Dropped

(* Nothing emitted or held has a command, and the lexer is watchful, until *)
(* the dump ends.                                                          *)
Consuming ==
  /\ CleanOut(l) /\ ~HasCommand(l.buf)
  /\ ended = "no" => Watchful(data, l)

LEMMA EmptySaysNothing ==
  ASSUME NEW s, s = <<>>
  PROVE  ~InComment(s) /\ ~HasCommand(s) /\ \A c : ~EndsIn(s, c)
<1>1. Len(s) = 0 /\ 1..0 = {} /\ DOMAIN s = {} OBVIOUS
<1> QED BY <1>1 DEF InComment, HasCommand, EndsIn

LEMMA ConsumingInit == Init => Consuming
<1> SUFFICES ASSUME Init PROVE Consuming OBVIOUS
<1>1. l.buf = <<>> /\ l.out = <<>> /\ l.st = Default BY DEF Init, NewLexer
<1>2. DOMAIN l.out = {} BY <1>1
<1>3. Ready(data, l) BY <1>1, EmptySaysNothing DEF Ready
<1> QED BY <1>1, <1>2, <1>3, EmptySaysNothing DEF Consuming, CleanOut, Watchful

LEMMA ConsumingNext == TypeOK /\ HarmlessChunks /\ Consuming /\ [Next]_vars => Consuming'
<1> SUFFICES ASSUME TypeOK, HarmlessChunks, Consuming, [Next]_vars PROVE Consuming' OBVIOUS
<1>0. data \in Seq(Symbols) /\ l \in Lexers(Symbols) /\ upto \in 0..Len(data)
      /\ l.i \in 1..(upto + 1) /\ Len(data) \in Nat
  BY LenProperties DEF TypeOK
<1>1. ASSUME data' = data, l' = l, ended' = "no" => ended = "no" PROVE Consuming'
  BY <1>1 DEF Consuming, CleanOut
<1>2. ASSUME NEW st \in LexStates, FeedIn(st) PROVE Consuming'
  <2>1. l.i \in 1..upto BY <1>0, <1>2 DEF FeedIn, ChunkConsumed
  <2>2. l' = Feed(data, l, upto) /\ data' = data /\ ended = "no"
    BY <1>2 DEF FeedIn, Running
  <2>3. Watchful(data, l) /\ ~HasCommand(l.buf) /\ CleanOut(l) BY <2>2 DEF Consuming
  <2>4. upto < Len(data) => data[upto] # "-"
    <3>1. upto < Len(data) => upto \in 1..(Len(data) - 1) BY <1>0, <2>1
    <3> QED BY <3>1 DEF HarmlessChunks, Harmless
  <2>5. Watchful(data, l') /\ ~HasCommand(l'.buf)
    <3>1. CASE l.st = Default BY <1>0, <2>1, <2>2, <2>3, <2>4, <3>1, DefaultStays
    <3>2. CASE l.st \in {LineComment, HashComment}
      BY <1>0, <2>1, <2>2, <2>3, <3>2, CommentStays
    <3>3. CASE l.st \notin {Default, LineComment, HashComment}
      BY <1>0, <2>1, <2>2, <2>3, <3>3, OtherStays
    <3> QED BY <3>1, <3>2, <3>3
  <2>6. Round(Symbols, data, l, l', upto) BY <1>0, <2>1, <2>2, FeedRound
  <2>7. CleanOut(l') BY <1>0, <2>3, <2>6, RoundClean
  <2> QED BY <2>2, <2>5, <2>7 DEF Consuming, CleanOut
<1>3. CASE Eof
  <2>1. l' = AtEOF(l) /\ data' = data /\ ended' = "eof" BY <1>3 DEF Eof
  <2>2. CASE l.buf = <<>>
    <3>1. l' = l BY <2>1, <2>2 DEF AtEOF
    <3> QED BY <1>1, <2>1, <3>1
  <2>3. CASE l.buf # <<>>
    <3> DEFINE o == [text |-> l.buf, next |-> l.i, delim |-> <<>>, mode |-> l.mode]
    <3>1. l'.out = Append(l.out, o) /\ l'.buf = <<>> /\ o.text = l.buf
      BY <1>0, <2>1, <2>3 DEF AtEOF, Lexers
    <3> HIDE DEF o
    <3>2. CleanOut(l') BY <1>0, <3>1, AppendedClean DEF Consuming
    <3>3. ~HasCommand(l'.buf) BY <3>1, EmptySaysNothing
    <3> QED BY <2>1, <3>2, <3>3 DEF Consuming, CleanOut
  <2> QED BY <2>2, <2>3
<1>4. CASE Read \/ ReadFails \/ UNCHANGED vars
  BY <1>1, <1>4 DEF Read, ReadFails, vars, Running
<1> QED BY <1>2, <1>3, <1>4 DEF Next

(* Whatever dump it is and wherever the lexer is in it, a DELIMITER        *)
(* command that stands on a line of its own, with an argument and no token *)
(* opening in it, behind blank lines and lines beginning with "--" or "#", *)
(* never gets into a statement's text: extractDelimiterLine consumes it.   *)
(* No chunk ends where the lexer would have looked ahead.                  *)
THEOREM CommandsAreConsumed == Spec /\ []HarmlessChunks => []DelimiterConsumed
<1>1. Consuming => DelimiterConsumed
  BY DEF Consuming, CleanOut, DelimiterConsumed
<1> QED BY <1>1, ConsumingInit, ConsumingNext, LexerTyped, PTL DEF Spec
=============================================================================

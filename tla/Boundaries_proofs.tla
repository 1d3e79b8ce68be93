-------------------------- MODULE Boundaries_proofs --------------------------
(***************************************************************************)
(* Where statements end: the lexer's states against the grammar of the     *)
(* tokens, from which Splitter defines it.  More theorems about Splitter.  *)
(***************************************************************************)
EXTENDS Splitter_proofs
------------------------------------------------------------------------------
(* The reference grammar.  Its recursive functions are well defined, which *)
(* is shown by induction on how far they reach.                            *)

Reached(s, m, f, k) == k = 0 \/ \E j \in 0..(k - 1) : f[j] /\ Token(s, j, k, m)

LEMMA ReachedExists ==
  ASSUME NEW s, NEW m, NEW end \in Nat
  PROVE  \E f : f = [k \in 0..end |-> Reached(s, m, f, k)]
<1> DEFINE T == {n \in Nat : \E f : f = [k \in 0..n |-> Reached(s, m, f, k)]}
<1>1. 0 \in T
  <2> DEFINE none == <<>>
             f == [k \in 0..0 |-> Reached(s, m, none, k)]
  <2>1. ASSUME NEW k \in 0..0 PROVE f[k] = Reached(s, m, f, k)
    <3>1. f[k] = Reached(s, m, none, k) OBVIOUS
    <3>2. \A j \in 0..(k - 1) : FALSE OBVIOUS
    <3> HIDE DEF f, none
    <3> QED BY <3>1, <3>2 DEF Reached
  <2>2. f = [k \in 0..0 |-> Reached(s, m, f, k)] BY <2>1
  <2> HIDE DEF f
  <2> QED BY <2>2
<1>2. ASSUME NEW n \in Nat, n \in T PROVE n + 1 \in T
  <2>1. PICK f : f = [k \in 0..n |-> Reached(s, m, f, k)] BY <1>2
  <2> DEFINE h == [k \in 0..(n + 1) |-> IF k <= n THEN f[k] ELSE Reached(s, m, f, k)]
  <2>2. ASSUME NEW k \in 0..(n + 1) PROVE h[k] = Reached(s, m, h, k)
    <3>1. h[k] = Reached(s, m, f, k)
      <4>1. CASE k <= n
        <5>1. k \in 0..n BY <4>1
        <5>2. f[k] = Reached(s, m, f, k) BY <2>1, <5>1
        <5> QED BY <4>1, <5>2
      <4>2. CASE ~(k <= n) BY <4>2
      <4> QED BY <4>1, <4>2
    <3>2. ASSUME NEW j \in 0..(k - 1) PROVE h[j] = f[j]
      <4>1. j \in 0..(n + 1) /\ j <= n OBVIOUS
      <4> QED BY <4>1
    <3> HIDE DEF h
    <3> QED BY <3>1, <3>2 DEF Reached
  <2>3. h = [k \in 0..(n + 1) |-> Reached(s, m, h, k)]
    BY <2>2
  <2> HIDE DEF h
  <2>4. n + 1 \in Nat BY <1>2
  <2> QED BY <2>3, <2>4
<1>3. Nat \subseteq T
  <2> HIDE DEF T
  <2> QED BY <1>1, <1>2, Induction
<1> QED BY <1>3

(* The function of BetweenTokens satisfies its equation. *)
LEMMA BetweenIs ==
  ASSUME NEW S, NEW s \in Seq(S), NEW m
  PROVE  /\ BetweenTokens(s, m) \subseteq 0..Len(s)
         /\ \A k \in 0..Len(s) :
              k \in BetweenTokens(s, m)
                <=> k = 0 \/ \E j \in 0..(k - 1) : j \in BetweenTokens(s, m) /\ Token(s, j, k, m)
<1> DEFINE f == CHOOSE g : g = [k \in 0..Len(s) |-> Reached(s, m, g, k)]
<1>1. Len(s) \in Nat BY LenProperties
<1>2. BetweenTokens(s, m) = {k \in 0..Len(s) : f[k]} BY DEF BetweenTokens, Reached
<1>3. f = [k \in 0..Len(s) |-> Reached(s, m, f, k)] BY <1>1, ReachedExists
<1> HIDE DEF f
<1>4. \A k \in 0..Len(s) : f[k] <=> Reached(s, m, f, k) BY <1>3
<1>5. ASSUME NEW k \in 0..Len(s), NEW j \in 0..(k - 1) PROVE j \in 0..Len(s)
  BY <1>1
<1>6. ASSUME NEW k \in 0..Len(s)
      PROVE  k \in BetweenTokens(s, m)
              <=> k = 0 \/ \E j \in 0..(k - 1) : j \in BetweenTokens(s, m) /\ Token(s, j, k, m)
  BY <1>2, <1>4, <1>5 DEF Reached
<1> QED BY <1>2, <1>6

Unit(t, q, esc, f, k) ==
  \/ k = 1
  \/ /\ t[k] # q /\ (t[k] # "\\" \/ ~esc)
     /\ f[k - 1]
  \/ /\ k > 2
     /\ (t[k - 1] = q /\ t[k] = q) \/ (t[k - 1] = "\\" /\ esc)
     /\ f[k - 2]

LEMMA UnitsExist ==
  ASSUME NEW t, NEW q, NEW esc, NEW end \in Nat
  PROVE  \E f : f = [k \in 1..end |-> Unit(t, q, esc, f, k)]
<1> DEFINE T == {n \in Nat : \E f : f = [k \in 1..n |-> Unit(t, q, esc, f, k)]}
<1>1. 0 \in T
  <2> DEFINE f == [k \in 1..0 |-> TRUE]
  <2>1. f = [k \in 1..0 |-> Unit(t, q, esc, f, k)] OBVIOUS
  <2> HIDE DEF f
  <2> QED BY <2>1
<1>2. ASSUME NEW n \in Nat, n \in T PROVE n + 1 \in T
  <2>1. PICK f : f = [k \in 1..n |-> Unit(t, q, esc, f, k)] BY <1>2
  <2> DEFINE h == [k \in 1..(n + 1) |-> IF k <= n THEN f[k] ELSE Unit(t, q, esc, f, k)]
  <2>2. ASSUME NEW k \in 1..(n + 1) PROVE h[k] = Unit(t, q, esc, h, k)
    <3>1. h[k] = Unit(t, q, esc, f, k)
      <4>1. CASE k <= n
        <5>1. k \in 1..n BY <4>1
        <5>2. f[k] = Unit(t, q, esc, f, k) BY <2>1, <5>1
        <5> QED BY <4>1, <5>2
      <4>2. CASE ~(k <= n) BY <4>2
      <4> QED BY <4>1, <4>2
    <3>2. CASE k = 1 BY <3>1, <3>2 DEF Unit
    <3>3. CASE k = 2
      <4>1. h[k - 1] = f[k - 1] BY <3>3
      <4> HIDE DEF h
      <4> QED BY <3>1, <3>3, <4>1 DEF Unit
    <3>4. CASE k > 2
      <4>1. k - 1 \in 1..(n + 1) /\ k - 1 <= n /\ k - 2 \in 1..(n + 1) /\ k - 2 <= n
        BY <3>4
      <4>2. h[k - 1] = f[k - 1] /\ h[k - 2] = f[k - 2] BY <4>1
      <4> HIDE DEF h
      <4> QED BY <3>1, <4>2 DEF Unit
    <3> QED BY <3>2, <3>3, <3>4
  <2>3. h = [k \in 1..(n + 1) |-> Unit(t, q, esc, h, k)]
    BY <2>2
  <2> HIDE DEF h
  <2>4. n + 1 \in Nat BY <1>2
  <2> QED BY <2>3, <2>4
<1>3. Nat \subseteq T
  <2> HIDE DEF T
  <2> QED BY <1>1, <1>2, Induction
<1> QED BY <1>3

(* The positions of a quoted token behind a plain symbol or a pair.        *)
Units(t, q, esc, U) ==
  \A k \in 1..Len(t) :
    k \in U <=> \/ k = 1
                \/ /\ t[k] # q /\ (t[k] # "\\" \/ ~esc)
                   /\ k - 1 \in U
                \/ /\ k > 2
                   /\ (t[k - 1] = q /\ t[k] = q) \/ (t[k - 1] = "\\" /\ esc)
                   /\ k - 2 \in U

LEMMA QuotedIs ==
  ASSUME NEW S, NEW t \in Seq(S), NEW q, NEW esc
  PROVE  \E U \in SUBSET (1..Len(t)) :
           /\ Units(t, q, esc, U)
           /\ Quoted(t, q, esc)
                <=> Len(t) > 1 /\ t[1] = q /\ t[Len(t)] = q /\ Len(t) - 1 \in U
<1> DEFINE f == CHOOSE g : g = [k \in 1..Len(t) |-> Unit(t, q, esc, g, k)]
           U == {k \in 1..Len(t) : f[k]}
<1>1. Len(t) \in Nat BY LenProperties
<1>2. Quoted(t, q, esc)
        <=> Len(t) > 1 /\ t[1] = q /\ t[Len(t)] = q /\ f[Len(t) - 1]
  BY DEF Quoted, Unit
<1>3. f = [k \in 1..Len(t) |-> Unit(t, q, esc, f, k)] BY <1>1, UnitsExist
<1> HIDE DEF f
<1>4. \A k \in 1..Len(t) : f[k] <=> Unit(t, q, esc, f, k) BY <1>3
<1>5. Len(t) > 1 => Len(t) - 1 \in 1..Len(t) BY <1>1
<1>6. Quoted(t, q, esc)
        <=> Len(t) > 1 /\ t[1] = q /\ t[Len(t)] = q /\ Len(t) - 1 \in U
  BY <1>2, <1>5
<1>7. ASSUME NEW k \in 1..Len(t)
      PROVE  k \in U <=> \/ k = 1
                         \/ /\ t[k] # q /\ (t[k] # "\\" \/ ~esc)
                            /\ k - 1 \in U
                         \/ /\ k > 2
                            /\ (t[k - 1] = q /\ t[k] = q) \/ (t[k - 1] = "\\" /\ esc)
                            /\ k - 2 \in U
  <2>1. k \in U <=> Unit(t, q, esc, f, k) BY <1>4
  <2>2. k # 1 => (k - 1 \in U <=> f[k - 1]) BY <1>1
  <2>3. k > 2 => (k - 2 \in U <=> f[k - 2]) BY <1>1
  <2> HIDE DEF U
  <2> QED BY <2>1, <2>2, <2>3 DEF Unit
<1>8. U \in SUBSET (1..Len(t)) OBVIOUS
<1> HIDE DEF U
<1> QED BY <1>6, <1>7, <1>8 DEF Units
------------------------------------------------------------------------------
(* A reading of a text: where each of its positions lies, as the lexer      *)
(* sees it that takes two symbols at once where it can.  Both kinds of      *)
(* line comment are one, and both kinds of block comment; Inner is between  *)
(* two symbols taken at once.                                               *)

Inner == "inner"
Quotes == {SingleQuote, DoubleQuote, Backtick}
Places == Quotes \cup {Default, LineComment, BlockComment, Inner}
Mark(p) == IF p = SingleQuote THEN "'" ELSE IF p = DoubleQuote THEN "\"" ELSE "bq"

Opened(b, c) ==
  IF b = "'" THEN SingleQuote
  ELSE IF b = "\"" THEN DoubleQuote
  ELSE IF b = "bq" THEN Backtick
  ELSE IF b = "#" \/ (b = "-" /\ c = "-") THEN LineComment
  ELSE IF b = "/" /\ c = "*" THEN BlockComment
  ELSE Default
Within(p, nobs, b, c) ==
  IF b = "\\" /\ p # Backtick /\ ~nobs THEN Inner
  ELSE IF b # Mark(p) THEN p
  ELSE IF c = b THEN Inner ELSE Default

(* h says where the positions up to k lie; b and c are the symbols after k. *)
Moves(nobs, h, k, b, c) ==
  /\ h[k] = Default => h[k + 1] = Opened(b, c)
  /\ h[k] \in Quotes => h[k + 1] = Within(h[k], nobs, b, c)
  /\ h[k] = LineComment => h[k + 1] = IF b = "\n" THEN Default ELSE LineComment
  /\ h[k] = BlockComment => h[k + 1] = IF b = "*" /\ c = "/" THEN Inner ELSE BlockComment
  /\ h[k] = Inner => /\ k > 0 /\ h[k - 1] \in Quotes \cup {BlockComment}
                     /\ h[k + 1] = IF h[k - 1] = BlockComment THEN Default ELSE h[k - 1]
Reading(s, nobs, h, n) ==
  /\ h \in [0..n -> Places] /\ h[0] = Default
  /\ \A k \in 0..(n - 1) : Moves(nobs, h, k, s[k + 1], s[k + 2])

(* k lies in the middle of a doubled quote. *)
Doubled(s, h, k) ==
  /\ k > 0 /\ h[k] = Inner /\ h[k - 1] \in Quotes
  /\ s[k] = Mark(h[k - 1]) /\ s[k + 1] = s[k]
Free(s, h, k) == h[k] = Default \/ Doubled(s, h, k)

LEMMA PlacesDiffer ==
  /\ Inner \notin Quotes \cup {Default, LineComment, BlockComment}
  /\ Default \notin Quotes \cup {LineComment, BlockComment}
  /\ LineComment \notin Quotes /\ BlockComment \notin Quotes /\ LineComment # BlockComment
BY DEF Inner, Quotes, Default, LineComment, BlockComment, SingleQuote, DoubleQuote, Backtick

LEMMA MarksDiffer ==
  /\ \A p \in Quotes : /\ Mark(p) \in {"'", "\"", "bq"}
                       /\ Mark(p) \notin {"\\", "-", "#", "/", "\n", "*"}
                       /\ \A c : Opened(Mark(p), c) = p
                       /\ \A q \in Quotes : Mark(p) = Mark(q) => p = q
  /\ Mark(SingleQuote) = "'" /\ Mark(DoubleQuote) = "\"" /\ Mark(Backtick) = "bq"
BY DEF Mark, Opened, Quotes, SingleQuote, DoubleQuote, Backtick

(* A token's symbols. *)
LEMMA TokenAt ==
  ASSUME NEW S, NEW s \in Seq(S), NEW k \in 1..Len(s), NEW j \in 0..(k - 1)
  PROVE  LET t == SubSeq(s, j + 1, k)
         IN  /\ t \in Seq(S) /\ Len(t) = k - j /\ k - j \in Nat \ {0}
             /\ \A i \in 1..(k - j) : t[i] = s[j + i]
<1>1. Len(s) \in Nat BY LenProperties
<1>2. j + 1 \in 1..(Len(s) + 1) /\ k \in (j + 1 - 1)..Len(s) /\ k - (j + 1) + 1 = k - j
      /\ k - j \in Nat \ {0}
  BY <1>1
<1>3. \A i \in 1..(k - j) : j + 1 + i - 1 = j + i BY <1>1
<1> DEFINE t == SubSeq(s, j + 1, k)
<1>4. /\ t \in Seq(S) /\ Len(t) = k - (j + 1) + 1
      /\ \A i \in 1..(k - (j + 1) + 1) : t[i] = s[j + 1 + i - 1]
  BY <1>2, Slice
<1> HIDE DEF t
<1>5. \A i \in 1..(k - j) : t[i] = s[j + i] BY <1>2, <1>3, <1>4
<1>6. t \in Seq(S) /\ Len(t) = k - j BY <1>2, <1>4
<1> QED BY <1>2, <1>5, <1>6 DEF t

------------------------------------------------------------------------------
(* What a token that begins at j opens ends where the lexer leaves it.      *)
LEMMA QuotedEnds ==
  ASSUME NEW S, NEW s \in Seq(S), NEW nobs, NEW h, NEW n \in Nat, n + 1 <= Len(s),
         Reading(s, nobs, h, n), NEW k \in 1..n, NEW j \in 0..(k - 1), NEW p \in Quotes,
         h[j + 1] = p, NEW esc, esc <=> p # Backtick /\ ~nobs,
         Quoted(SubSeq(s, j + 1, k), Mark(p), esc)
  PROVE  Free(s, h, k)
<1> DEFINE t == SubSeq(s, j + 1, k)
           m == k - j
<1>1. Len(s) \in Nat /\ k \in 1..Len(s) BY LenProperties
<1>2. /\ t \in Seq(S) /\ Len(t) = m /\ m \in Nat \ {0}
      /\ \A i \in 1..m : t[i] = s[j + i]
  BY <1>1, TokenAt
<1>3. PICK U \in SUBSET (1..Len(t)) :
        /\ Units(t, Mark(p), esc, U)
        /\ Quoted(t, Mark(p), esc)
             <=> Len(t) > 1 /\ t[1] = Mark(p) /\ t[Len(t)] = Mark(p) /\ Len(t) - 1 \in U
  BY <1>2, QuotedIs
<1>4. m > 1 /\ t[1] = Mark(p) /\ t[m] = Mark(p) /\ m - 1 \in U BY <1>2, <1>3
<1> HIDE DEF t
<1>5. ASSUME NEW i \in 1..m
      PROVE  i \in U <=> \/ i = 1
                         \/ /\ s[j + i] # Mark(p)
                            /\ s[j + i] # "\\" \/ ~(p # Backtick /\ ~nobs)
                            /\ i - 1 \in U
                         \/ /\ i > 2
                            /\ \/ s[j + i - 1] = Mark(p) /\ s[j + i] = Mark(p)
                               \/ s[j + i - 1] = "\\" /\ p # Backtick /\ ~nobs
                            /\ i - 2 \in U
  <2>1. t[i] = s[j + i] BY <1>2
  <2>2. i > 2 => t[i - 1] = s[j + i - 1]
    <3> SUFFICES ASSUME i > 2 PROVE t[i - 1] = s[j + i - 1] OBVIOUS
    <3>1. i - 1 \in 1..m /\ j + (i - 1) = j + i - 1 BY <1>2
    <3> QED BY <1>2, <3>1
  <2> QED BY <1>2, <1>3, <2>1, <2>2 DEF Units
<1>6. ASSUME NEW i \in 1..(m - 1) 
      PROVE  /\ j + i \in 0..(n - 1) /\ j + i + 1 = j + (i + 1) /\ j + i + 2 = j + (i + 2)
             /\ Moves(nobs, h, j + i, s[j + i + 1], s[j + i + 2])
  <2>1. j + i \in 0..(n - 1) BY <1>2
  <2> QED BY <2>1 DEF Reading
<1> DEFINE T == {i \in Nat : \A a \in 1..i : a \in U /\ a < m => h[j + a] = p}
<1>7. ASSUME NEW i \in Nat, i \in T, i + 1 \in U, i + 1 < m PROVE h[j + (i + 1)] = p
  <2>1. CASE i = 0 BY <2>1
  <2>2. CASE /\ i > 0 /\ s[j + (i + 1)] # Mark(p)
             /\ s[j + (i + 1)] # "\\" \/ ~(p # Backtick /\ ~nobs)
             /\ i \in U
    <3>1. h[j + i] = p BY <1>7, <2>2
    <3>m. i \in 1..(m - 1) BY <1>2, <1>7, <2>2
    <3>a. Moves(nobs, h, j + i, s[j + i + 1], s[j + i + 2]) BY <1>6, <3>m
    <3>2. h[j + i + 1] = Within(p, nobs, s[j + i + 1], s[j + i + 2])
      BY <3>1, <3>a DEF Moves
    <3>3. j + i + 1 = j + (i + 1) BY <1>6, <1>7, <2>2
    <3> QED BY <2>2, <3>2, <3>3 DEF Within
  <2>3. CASE /\ i + 1 > 2
             /\ \/ s[j + i] = Mark(p) /\ s[j + (i + 1)] = Mark(p)
                \/ s[j + i] = "\\" /\ p # Backtick /\ ~nobs
             /\ i - 1 \in U
    <3>1. i - 1 \in 1..(m - 1) /\ i \in 1..(m - 1) BY <1>2, <1>7, <2>3
    <3>2. h[j + (i - 1)] = p BY <1>7, <2>3, <3>1
    <3>3. j + (i - 1) + 1 = j + i /\ j + (i - 1) + 2 = j + (i + 1) /\ j + i + 1 = j + (i + 1)
          /\ j + i - 1 = j + (i - 1)
      OBVIOUS
    <3>4. h[j + i] = Within(p, nobs, s[j + i], s[j + (i + 1)])
      BY <1>6, <3>1, <3>2, <3>3 DEF Moves
    <3>5. h[j + i] = Inner BY <2>3, <3>4 DEF Within
    <3>a. Moves(nobs, h, j + i, s[j + i + 1], s[j + i + 2]) BY <1>6, <3>1
    <3>6. h[j + i + 1] = IF h[j + i - 1] = BlockComment THEN Default ELSE h[j + i - 1]
      BY <3>5, <3>a DEF Moves
    <3>7. h[j + i + 1] = p BY <3>2, <3>3, <3>6, PlacesDiffer
    <3> QED BY <3>3, <3>7
  <2>4. i + 1 \in 1..m /\ j + (i + 1) - 1 = j + i /\ i + 1 - 1 = i /\ i + 1 - 2 = i - 1
    BY <1>2, <1>7
  <2>5. i + 1 = 1 => i = 0 OBVIOUS
  <2>6. i \in U => i > 0 BY <1>2, <1>3
  <2> QED BY <1>5, <1>7, <2>1, <2>2, <2>3, <2>4, <2>5, <2>6
<1>8. Nat \subseteq T
  <2>1. 0 \in T OBVIOUS
  <2>2. ASSUME NEW i \in Nat, i \in T PROVE i + 1 \in T
    <3>1. ASSUME NEW a \in 1..(i + 1), a \in U, a < m PROVE h[j + a] = p
      <4>1. CASE a \in 1..i BY <2>2, <3>1, <4>1
      <4>2. CASE a = i + 1
        <5> HIDE DEF T
        <5> QED BY <1>7, <2>2, <3>1, <4>2
      <4> QED BY <4>1, <4>2
    <3> QED BY <3>1
  <2> HIDE DEF T
  <2> QED BY <2>1, <2>2, Induction
<1>9. m - 1 \in Nat /\ m - 1 \in 1..(m - 1) /\ m - 1 < m BY <1>2, <1>4
<1>10. h[j + (m - 1)] = p BY <1>4, <1>8, <1>9
<1>11. j + (m - 1) + 1 = k /\ j + (m - 1) + 2 = k + 1 /\ j + (m - 1) = k - 1 /\ j + m = k
  OBVIOUS
<1>12. h[k] = Within(p, nobs, s[k], s[k + 1])
  BY <1>6, <1>9, <1>10, <1>11 DEF Moves
<1>13. s[k] = Mark(p) BY <1>2, <1>4, <1>11
<1>14. k > 0 /\ h[k - 1] = p BY <1>10, <1>11
<1> HIDE DEF m
<1> QED BY <1>12, <1>13, <1>14, MarksDiffer DEF Within, Free, Doubled

(* Induction over a range. *)
LEMMA Along ==
  ASSUME NEW a \in Nat, NEW b \in Nat, NEW T, a \in T,
         \A i \in a..(b - 1) : i \in T => i + 1 \in T
  PROVE  a..b \subseteq T
<1> DEFINE U == {i \in Nat : a + i <= b => a + i \in T}
<1>1. 0 \in U OBVIOUS
<1>2. ASSUME NEW i \in Nat, i \in U PROVE i + 1 \in U
  <2> SUFFICES ASSUME a + (i + 1) <= b PROVE a + (i + 1) \in T OBVIOUS
  <2>1. a + i \in a..(b - 1) /\ a + i + 1 = a + (i + 1) OBVIOUS
  <2>2. a + i \in T BY <1>2, <2>1
  <2> QED BY <2>1, <2>2
<1>3. Nat \subseteq U
  <2> HIDE DEF U
  <2> QED BY <1>1, <1>2, Induction
<1>4. ASSUME NEW i \in a..b PROVE i \in T
  <2>1. i - a \in Nat /\ a + (i - a) = i OBVIOUS
  <2> QED BY <1>3, <2>1
<1> QED BY <1>4

LEMMA CommentIs ==
  ASSUME NEW S, NEW t \in Seq(S), t # <<>>
  PROVE  IsComment(t) <=> t[1] = "#" \/ (Len(t) > 1 /\ t[1] = "-" /\ t[2] = "-")
<1>1. Len(t) \in Nat \ {0} BY LenProperties, EmptySeq
<1>2. IsPrefix(<<"#">>, t) <=> t[1] = "#"
  <2>1. SubSeq(t, 1, 1) = <<t[1]>> BY <1>1, SliceOne
  <2>2. 1 <= Len(t) BY <1>1
  <2> QED BY <2>1, <2>2 DEF IsPrefix
<1>3. IsPrefix(<<"-", "-">>, t) <=> Len(t) > 1 /\ t[1] = "-" /\ t[2] = "-"
  <2>1. CASE Len(t) > 1
    <3>1. 1 \in 1..Len(t) /\ 1 + 1 <= Len(t) /\ 1 + 1 = 2 BY <1>1, <2>1
    <3>2. SubSeq(t, 1, 2) = <<t[1], t[2]>> BY <3>1, SliceTwo
    <3> QED BY <2>1, <3>1, <3>2 DEF IsPrefix
  <2>2. CASE ~(Len(t) > 1)
    <3>1. ~(2 <= Len(t)) BY <1>1, <2>2
    <3> QED BY <2>2, <3>1 DEF IsPrefix
  <2> QED BY <2>1, <2>2
<1> QED BY <1>2, <1>3 DEF IsComment

LEMMA LineEnds ==
  ASSUME NEW S, NEW s \in Seq(S), NEW nobs, NEW h, NEW n \in Nat, n + 1 <= Len(s),
         Reading(s, nobs, h, n), NEW k \in 1..n, NEW j \in 0..(k - 1),
         h[j + 1] = LineComment, LineCommentToken(SubSeq(s, j + 1, k))
  PROVE  h[k] = Default
<1> DEFINE t == SubSeq(s, j + 1, k)
           m == k - j
<1>1. Len(s) \in Nat /\ k \in 1..Len(s) BY LenProperties
<1>2. /\ t \in Seq(S) /\ Len(t) = m /\ m \in Nat \ {0}
      /\ \A i \in 1..m : t[i] = s[j + i]
  BY <1>1, TokenAt
<1>3. /\ IsComment(t) /\ t[m] = "\n" /\ \A i \in 1..(m - 1) : t[i] # "\n"
  BY <1>2 DEF LineCommentToken
<1>4. t[1] # "\n"
  <2>1. t # <<>> BY <1>2
  <2> HIDE DEF t
  <2> QED BY <1>2, <1>3, <2>1, CommentIs
<1> HIDE DEF t
<1>5. m > 1 BY <1>2, <1>3, <1>4
<1>6. s[k] = "\n"
  <2>1. m \in 1..m /\ j + m = k BY <1>2
  <2> QED BY <1>2, <1>3, <2>1
<1>7. ASSUME NEW i \in (j + 1)..(k - 1) PROVE s[i] # "\n"
  <2>1. i - j \in 1..(m - 1) /\ i - j \in 1..m /\ j + (i - j) = i OBVIOUS
  <2> QED BY <1>2, <1>3, <2>1
<1> DEFINE T == {i \in Nat : h[i] = LineComment}
<1>8. (j + 1)..(k - 1) \subseteq T
  <2>1. j + 1 \in Nat /\ k - 1 \in Nat /\ j + 1 \in T OBVIOUS
  <2>2. ASSUME NEW i \in (j + 1)..(k - 1 - 1), i \in T PROVE i + 1 \in T
    <3>1. i \in 0..(n - 1) /\ i + 1 \in (j + 1)..(k - 1) /\ i + 1 \in Nat OBVIOUS
    <3>2. Moves(nobs, h, i, s[i + 1], s[i + 2]) BY <3>1 DEF Reading
    <3>3. s[i + 1] # "\n" BY <1>7, <3>1
    <3> QED BY <2>2, <3>1, <3>2, <3>3 DEF Moves
  <2> DEFINE a == j + 1
             b == k - 1
  <2>3. a \in Nat /\ b \in Nat /\ a \in T /\ \A i \in a..(b - 1) : i \in T => i + 1 \in T
    BY <2>1, <2>2
  <2> HIDE DEF T, a, b
  <2>4. a..b \subseteq T BY <2>3, Along
  <2> QED BY <2>4 DEF a, b
<1>9. k - 1 \in 0..(n - 1) /\ k - 1 \in (j + 1)..(k - 1) /\ k - 1 + 1 = k BY <1>5
<1>10. h[k - 1] = LineComment BY <1>8, <1>9
<1>11. Moves(nobs, h, k - 1, s[k], s[k - 1 + 2]) BY <1>9 DEF Reading
<1> QED BY <1>6, <1>9, <1>10, <1>11 DEF Moves

LEMMA BlockEnds ==
  ASSUME NEW S, NEW s \in Seq(S), NEW nobs, NEW h, NEW n \in Nat, n + 1 <= Len(s),
         Reading(s, nobs, h, n), NEW k \in 1..n, NEW j \in 0..(k - 1),
         h[j + 1] = BlockComment, BlockCommentToken(SubSeq(s, j + 1, k))
  PROVE  h[k] = Default
<1> DEFINE t == SubSeq(s, j + 1, k)
           m == k - j
<1>1. Len(s) \in Nat /\ k \in 1..Len(s) BY LenProperties
<1>2. /\ t \in Seq(S) /\ Len(t) = m /\ m \in Nat \ {0}
      /\ \A i \in 1..m : t[i] = s[j + i]
  BY <1>1, TokenAt
<1>3. /\ m > 2
      /\ \A i \in 3..m : (t[i - 1] = "*" /\ t[i] = "/") <=> i = m
  BY <1>2 DEF BlockCommentToken
<1> HIDE DEF t
<1>4. ASSUME NEW i \in (j + 3)..k PROVE (s[i - 1] = "*" /\ s[i] = "/") <=> i = k
  <2>1. /\ i - j \in 3..m /\ i - j \in 1..m /\ i - j - 1 \in 1..m
        /\ j + (i - j) = i /\ j + (i - j - 1) = i - 1 /\ (i - j = m <=> i = k)
    OBVIOUS
  <2>2. t[i - j] = s[i] /\ t[i - j - 1] = s[i - 1] BY <1>2, <2>1
  <2> HIDE DEF m
  <2> QED BY <1>3, <2>1, <2>2
<1> DEFINE T == {i \in Nat : h[i] = BlockComment}
<1>5. (j + 1)..(k - 2) \subseteq T
  <2>1. j + 1 \in Nat /\ k - 2 \in Nat /\ j + 1 \in T BY <1>3
  <2>2. ASSUME NEW i \in (j + 1)..(k - 2 - 1), i \in T PROVE i + 1 \in T
    <3>1. i \in 0..(n - 1) /\ i + 2 \in (j + 3)..k /\ i + 2 # k /\ i + 1 \in Nat
          /\ i + 2 - 1 = i + 1
      OBVIOUS
    <3>2. Moves(nobs, h, i, s[i + 1], s[i + 2]) BY <3>1 DEF Reading
    <3>3. ~(s[i + 1] = "*" /\ s[i + 2] = "/") BY <1>4, <3>1
    <3> QED BY <2>2, <3>1, <3>2, <3>3 DEF Moves
  <2> DEFINE a == j + 1
             b == k - 2
  <2>3. a \in Nat /\ b \in Nat /\ a \in T /\ \A i \in a..(b - 1) : i \in T => i + 1 \in T
    BY <2>1, <2>2
  <2> HIDE DEF T, a, b
  <2>4. a..b \subseteq T BY <2>3, Along
  <2> QED BY <2>4 DEF a, b
<1>6. /\ k - 2 \in 0..(n - 1) /\ k - 2 \in (j + 1)..(k - 2) /\ k - 2 + 1 = k - 1
      /\ k - 2 + 2 = k /\ k \in (j + 3)..k /\ k - 1 \in 0..(n - 1) /\ k - 1 + 1 = k
      /\ k - 1 - 1 = k - 2
  BY <1>3
<1>7. h[k - 2] = BlockComment BY <1>5, <1>6
<1>8. Moves(nobs, h, k - 2, s[k - 1], s[k]) /\ Moves(nobs, h, k - 1, s[k], s[k - 1 + 2])
  BY <1>6 DEF Reading
<1>9. s[k - 1] = "*" /\ s[k] = "/" BY <1>4, <1>6
<1>10. h[k - 1] = Inner BY <1>6, <1>7, <1>8, <1>9 DEF Moves
<1>11. h[k - 1 + 1] = IF h[k - 1 - 1] = BlockComment THEN Default ELSE h[k - 1 - 1]
  BY <1>8, <1>10 DEF Moves
<1> QED BY <1>6, <1>7, <1>11

(* Where the grammar is between two tokens, the lexer is outside of all,   *)
(* or has just taken a doubled quote.                                      *)
LEMMA TokenEnds ==
  ASSUME NEW S, NEW s \in Seq(S), NEW m, ~m.ansi, NEW h, NEW n \in Nat, n + 1 <= Len(s),
         Reading(s, m.nobs, h, n), NEW k \in 1..n, NEW j \in 0..(k - 1), Free(s, h, j),
         Token(s, j, k, m)
  PROVE  Free(s, h, k)
<1> DEFINE t == SubSeq(s, j + 1, k)
           a == s[j + 1]
           b == s[j + 2]
<1>1. Len(s) \in Nat /\ k \in 1..Len(s) /\ j \in 0..(n - 1) /\ j + 1 < Len(s)
  BY LenProperties
<1>2. /\ t \in Seq(S) /\ Len(t) = k - j /\ k - j \in Nat \ {0}
      /\ \A i \in 1..(k - j) : t[i] = s[j + i]
  BY <1>1, TokenAt
<1>3. t[1] = a /\ (Len(t) > 1 => t[2] = b) BY <1>2
<1>4. Moves(m.nobs, h, j, a, b) BY <1>1 DEF Reading
<1>6. \A p \in Quotes : a = Mark(p) => h[j + 1] = p
  <2> SUFFICES ASSUME NEW p \in Quotes, a = Mark(p) PROVE h[j + 1] = p OBVIOUS
  <2>1. CASE h[j] = Default BY <1>4, <2>1, MarksDiffer DEF Moves
  <2>2. CASE Doubled(s, h, j)
    <3>1. h[j] = Inner /\ h[j - 1] \in Quotes /\ s[j] = Mark(h[j - 1]) /\ a = s[j]
      BY <2>2 DEF Doubled
    <3>2. h[j - 1] = p BY <3>1, MarksDiffer
    <3>3. h[j + 1] = IF h[j - 1] = BlockComment THEN Default ELSE h[j - 1]
      BY <1>4, <3>1 DEF Moves
    <3> QED BY <3>1, <3>2, <3>3, PlacesDiffer
  <2> QED BY <2>1, <2>2 DEF Free
<1>7. a \notin {"'", "\"", "bq"} => h[j + 1] = Opened(a, b)
  <2> SUFFICES ASSUME a \notin {"'", "\"", "bq"} PROVE h[j + 1] = Opened(a, b) OBVIOUS
  <2>1. ~Doubled(s, h, j) BY MarksDiffer DEF Doubled
  <2> QED BY <1>4, <2>1 DEF Moves, Free
<1>q. ASSUME NEW p \in Quotes, h[j + 1] = p, NEW esc, esc <=> p # Backtick /\ ~m.nobs,
             Quoted(SubSeq(s, j + 1, k), Mark(p), esc)
      PROVE  Free(s, h, k)
  <2> HIDE DEF a, b, t
  <2> QED BY <1>q, QuotedEnds
<1>8. CASE Quoted(t, "'", ~m.nobs)
  <2>1. SingleQuote \in Quotes /\ Mark(SingleQuote) = "'" /\ SingleQuote # Backtick
    BY MarksDiffer DEF Quotes, SingleQuote, Backtick
  <2>2. a = "'" BY <1>3, <1>8 DEF Quoted
  <2>3. h[j + 1] = SingleQuote BY <1>6, <2>1, <2>2
  <2> DEFINE esc == ~m.nobs
  <2>4. Quoted(SubSeq(s, j + 1, k), Mark(SingleQuote), esc) BY <1>8, <2>1
  <2>5. esc <=> SingleQuote # Backtick /\ ~m.nobs BY <2>1
  <2> HIDE DEF esc, a, b, t
  <2> QED BY <2>1, <2>3, <2>4, <2>5, <1>q
<1>9. CASE Quoted(t, "\"", ~m.nobs /\ ~m.ansi)
  <2>1. DoubleQuote \in Quotes /\ Mark(DoubleQuote) = "\"" /\ DoubleQuote # Backtick
    BY MarksDiffer DEF Quotes, DoubleQuote, Backtick
  <2>2. a = "\"" BY <1>3, <1>9 DEF Quoted
  <2>3. h[j + 1] = DoubleQuote BY <1>6, <2>1, <2>2
  <2> DEFINE esc == ~m.nobs /\ ~m.ansi
  <2>4. Quoted(SubSeq(s, j + 1, k), Mark(DoubleQuote), esc) BY <1>9, <2>1
  <2>5. esc <=> DoubleQuote # Backtick /\ ~m.nobs BY <2>1
  <2> HIDE DEF esc, a, b, t
  <2> QED BY <2>1, <2>3, <2>4, <2>5, <1>q
<1>10. CASE Quoted(t, "bq", FALSE)
  <2>1. Backtick \in Quotes /\ Mark(Backtick) = "bq" BY MarksDiffer DEF Quotes
  <2>2. a = "bq" BY <1>3, <1>10 DEF Quoted
  <2>3. h[j + 1] = Backtick BY <1>6, <2>1, <2>2
  <2> DEFINE esc == FALSE
  <2>4. Quoted(SubSeq(s, j + 1, k), Mark(Backtick), esc) BY <1>10, <2>1
  <2>5. esc <=> Backtick # Backtick /\ ~m.nobs OBVIOUS
  <2> HIDE DEF esc, a, b, t
  <2> QED BY <2>1, <2>3, <2>4, <2>5, <1>q
<1>11. CASE LineCommentToken(t)
  <2>1. IsComment(t) /\ t # <<>> BY <1>2, <1>11 DEF LineCommentToken
  <2>2. a = "#" \/ (a = "-" /\ b = "-")
    <3> HIDE DEF t, a, b
    <3> QED BY <1>2, <1>3, <2>1, CommentIs
  <2>3. h[j + 1] = LineComment
    <3> HIDE DEF a, b
    <3> QED BY <1>7, <2>2 DEF Opened
  <2>4. h[k] = Default BY <1>11, <2>3, LineEnds
  <2> QED BY <2>4 DEF Free
<1>12. CASE BlockCommentToken(t)
  <2>1. a = "/" /\ b = "*"
    <3> HIDE DEF t, a, b
    <3>1. Len(t) > 2 /\ t[1] = "/" /\ t[2] = "*" BY <1>12 DEF BlockCommentToken
    <3>2. Len(t) > 1 BY <1>2, <3>1
    <3> QED BY <1>3, <3>1, <3>2
  <2>2. h[j + 1] = BlockComment
    <3> HIDE DEF a, b
    <3> QED BY <1>7, <2>1 DEF Opened
  <2>3. h[k] = Default BY <1>12, <2>2, BlockEnds
  <2> QED BY <2>3 DEF Free
<1>13. CASE k = j + 1 /\ PlainToken(s, k)
  <2>1. k < Len(s) /\ s[k] = a /\ s[k + 1] = b BY <1>1, <1>13
  <2>2. /\ a \notin {"'", "\"", "bq", "#"} /\ ~(a = "-" /\ b = "-") /\ ~(a = "/" /\ b = "*")
    BY <1>13, <2>1 DEF PlainToken
  <2> HIDE DEF a, b
  <2>3. Opened(a, b) = Default BY <2>2 DEF Opened
  <2> QED BY <1>7, <1>13, <2>2, <2>3 DEF Free
<1>14. Quoted(t, "'", ~m.nobs) \/ Quoted(t, "\"", ~m.nobs /\ ~m.ansi) \/ Quoted(t, "bq", FALSE)
       \/ LineCommentToken(t) \/ BlockCommentToken(t) \/ (k = j + 1 /\ PlainToken(s, k))
  BY DEF Token
<1> HIDE DEF t
<1> QED BY <1>8, <1>9, <1>10, <1>11, <1>12, <1>13, <1>14

LEMMA BetweenIsFree ==
  ASSUME NEW S, NEW s \in Seq(S), NEW m, ~m.ansi, NEW h, NEW n \in Nat, n + 1 <= Len(s),
         Reading(s, m.nobs, h, n), NEW k \in 0..n, k \in BetweenTokens(s, m)
  PROVE  Free(s, h, k)
<1> DEFINE B == BetweenTokens(s, m)
           T == {i \in Nat : \A a \in 0..i : a <= n /\ a \in B => Free(s, h, a)}
<1>1. Len(s) \in Nat BY LenProperties
<1>2. \A i \in 0..Len(s) :
        i \in B <=> i = 0 \/ \E j \in 0..(i - 1) : j \in B /\ Token(s, j, i, m)
  BY BetweenIs
<1> HIDE DEF B
<1>3. Free(s, h, 0) BY DEF Free, Reading
<1>4. ASSUME NEW i \in Nat, i \in T, i + 1 <= n, i + 1 \in B PROVE Free(s, h, i + 1)
  <2>1. i + 1 \in 0..Len(s) /\ i + 1 # 0 /\ i + 1 \in 1..n BY <1>1, <1>4
  <2>2. PICK j \in 0..(i + 1 - 1) : j \in B /\ Token(s, j, i + 1, m) BY <1>2, <1>4, <2>1
  <2>3. j \in 0..i /\ j <= n BY <1>4
  <2>4. Free(s, h, j) BY <1>4, <2>2, <2>3
  <2> HIDE DEF T
  <2> QED BY <2>1, <2>2, <2>4, TokenEnds
<1>5. Nat \subseteq T
  <2>1. 0 \in T BY <1>3
  <2>2. ASSUME NEW i \in Nat, i \in T PROVE i + 1 \in T
    <3>1. ASSUME NEW a \in 0..(i + 1), a <= n, a \in B PROVE Free(s, h, a)
      <4>1. CASE a \in 0..i BY <2>2, <3>1, <4>1
      <4>2. CASE a = i + 1
        <5> HIDE DEF T
        <5> QED BY <1>4, <2>2, <3>1, <4>2
      <4> QED BY <4>1, <4>2
    <3> QED BY <3>1
  <2> HIDE DEF T
  <2> QED BY <2>1, <2>2, Induction
<1> QED BY <1>5 DEF B

------------------------------------------------------------------------------
(* Conversely: what the lexer reads between two positions where it is       *)
(* outside of all tokens is a token of the grammar.                        *)
LEMMA QuotedFrom ==
  ASSUME NEW S, NEW s \in Seq(S), NEW nobs, NEW h, NEW n \in Nat, n + 1 <= Len(s),
         Reading(s, nobs, h, n), NEW k \in 1..n, NEW j \in 0..(k - 1), NEW p \in Quotes,
         h[j + 1] = p, s[j + 1] = Mark(p), NEW esc, esc <=> p # Backtick /\ ~nobs,
         h[k] = Default, \A i \in (j + 1)..(k - 1) : h[i] # Default
  PROVE  Quoted(SubSeq(s, j + 1, k), Mark(p), esc)
<1> DEFINE t == SubSeq(s, j + 1, k)
           m == k - j
<1>1. Len(s) \in Nat /\ k \in 1..Len(s) BY LenProperties
<1>2. /\ t \in Seq(S) /\ Len(t) = m /\ m \in Nat \ {0}
      /\ \A i \in 1..m : t[i] = s[j + i]
  BY <1>1, TokenAt
<1>3. PICK U \in SUBSET (1..Len(t)) :
        /\ Units(t, Mark(p), esc, U)
        /\ Quoted(t, Mark(p), esc)
             <=> Len(t) > 1 /\ t[1] = Mark(p) /\ t[Len(t)] = Mark(p) /\ Len(t) - 1 \in U
  BY <1>2, QuotedIs
<1> HIDE DEF t
<1>4. j + 1 # k BY PlacesDiffer
<1>5. ASSUME NEW i \in 0..(n - 1) PROVE Moves(nobs, h, i, s[i + 1], s[i + 2])
  BY DEF Reading
<1>6. \A b, c : /\ Within(p, nobs, b, c) \in {Inner, p, Default}
                /\ Within(p, nobs, b, c) = p => b # Mark(p) /\ (b # "\\" \/ ~esc)
                /\ Within(p, nobs, b, c) = Inner => (b = Mark(p) /\ c = Mark(p)) \/ (b = "\\" /\ esc)
                /\ Within(p, nobs, b, c) = Default => b = Mark(p)
  BY PlacesDiffer DEF Within
<1> DEFINE T == {i \in Nat : h[i] = p \/ (h[i] = Inner /\ h[i - 1] = p)}
           a == j + 1
           b == k - 1
<1>7. a..b \subseteq T
  <2>1. a \in Nat /\ b \in Nat /\ a \in T OBVIOUS
  <2>2. ASSUME NEW i \in a..(b - 1), i \in T PROVE i + 1 \in T
    <3>1. i \in 0..(n - 1) /\ i + 1 \in (j + 1)..(k - 1) /\ i + 1 \in Nat /\ i + 1 - 1 = i
      OBVIOUS
    <3>2. Moves(nobs, h, i, s[i + 1], s[i + 2]) /\ h[i + 1] # Default BY <1>5, <3>1
    <3>3. CASE h[i] = p
      <4>1. h[i + 1] = Within(p, nobs, s[i + 1], s[i + 2]) BY <3>2, <3>3 DEF Moves
      <4> QED BY <1>6, <3>1, <3>2, <3>3, <4>1
    <3>4. CASE h[i] = Inner /\ h[i - 1] = p
      <4>1. h[i + 1] = p BY <3>2, <3>4, PlacesDiffer DEF Moves
      <4> QED BY <3>1, <4>1
    <3> QED BY <2>2, <3>3, <3>4
  <2> HIDE DEF T, a, b
  <2> QED BY <2>1, <2>2, Along
<1>8. /\ b \in a..b /\ b \in 0..(n - 1) /\ b + 1 = k /\ b + 2 = k + 1
  BY <1>4
<1>9. Moves(nobs, h, b, s[k], s[k + 1]) BY <1>5, <1>8
<1>10. h[b] = p
  <2>1. b \in T BY <1>7, <1>8
  <2>2. h[b] = Inner /\ h[b - 1] = p => h[b + 1] = p BY <1>9, PlacesDiffer DEF Moves
  <2> QED BY <1>8, <2>1, <2>2, PlacesDiffer
<1>11. s[k] = Mark(p)
  <2>1. h[b + 1] = Within(p, nobs, s[k], s[k + 1]) BY <1>9, <1>10 DEF Moves
  <2> QED BY <1>6, <1>8, <2>1
<1> DEFINE V == {i \in Nat : \A c \in 1..i : c < m /\ h[j + c] = p => c \in U}
<1>u. ASSUME NEW i \in 1..m
      PROVE  /\ i = 1 => i \in U
             /\ s[j + i] # Mark(p) /\ (s[j + i] # "\\" \/ ~esc) /\ i - 1 \in U => i \in U
             /\ /\ i > 2 /\ i - 2 \in U
                /\ \/ s[j + i - 1] = Mark(p) /\ s[j + i] = Mark(p)
                   \/ s[j + i - 1] = "\\" /\ esc
                => i \in U
  <2>1. t[i] = s[j + i] BY <1>2
  <2>2. i > 2 => t[i - 1] = s[j + i - 1]
    <3> SUFFICES ASSUME i > 2 PROVE t[i - 1] = s[j + i - 1] OBVIOUS
    <3>1. i - 1 \in 1..m /\ j + (i - 1) = j + i - 1 BY <1>2
    <3> QED BY <1>2, <3>1
  <2> QED BY <1>2, <1>3, <2>1, <2>2 DEF Units
<1>12. ASSUME NEW i \in Nat, i \in V, i + 1 < m, h[j + (i + 1)] = p PROVE i + 1 \in U
  <2>0. i + 1 \in 1..m /\ i + 1 - 1 = i /\ i + 1 - 2 = i - 1 /\ j + (i + 1) - 1 = j + i
        /\ j + i + 1 = j + (i + 1) /\ j + i + 2 = j + (i + 2) /\ j + i - 1 = j + (i - 1)
        /\ j + (i - 1) + 1 = j + i /\ j + (i - 1) + 2 = j + (i + 1)
    BY <1>2, <1>12
  <2>1. CASE i = 0 BY <1>u, <2>0, <2>1
  <2>2. CASE i > 0
    <3>1. j + i \in a..b /\ j + i \in 0..(n - 1) /\ i < m BY <1>12, <2>2
    <3>2. j + i \in T BY <1>7, <3>1
    <3>3. Moves(nobs, h, j + i, s[j + (i + 1)], s[j + i + 2]) BY <1>5, <2>0, <3>1
    <3>4. CASE h[j + i] = p
      <4>1. i \in U BY <1>12, <2>2, <3>1, <3>4
      <4>2. h[j + i + 1] = Within(p, nobs, s[j + (i + 1)], s[j + i + 2])
        BY <3>3, <3>4 DEF Moves
      <4>3. s[j + (i + 1)] # Mark(p) /\ (s[j + (i + 1)] # "\\" \/ ~esc)
        BY <1>6, <1>12, <2>0, <4>2
      <4> QED BY <1>u, <2>0, <4>1, <4>3
    <3>5. CASE h[j + i] = Inner /\ h[j + i - 1] = p
      <4>1. i # 1 BY <3>5, PlacesDiffer
      <4>2. i - 1 \in 1..i /\ i - 1 < m /\ j + (i - 1) \in 0..(n - 1) BY <2>2, <3>1, <4>1
      <4>3. i - 1 \in U BY <1>12, <2>0, <3>5, <4>2
      <4>4. Moves(nobs, h, j + (i - 1), s[j + i], s[j + (i + 1)]) BY <1>5, <2>0, <4>2
      <4>5. h[j + i] = Within(p, nobs, s[j + i], s[j + (i + 1)])
        BY <2>0, <3>5, <4>4 DEF Moves
      <4>6. \/ s[j + i] = Mark(p) /\ s[j + (i + 1)] = Mark(p)
            \/ s[j + i] = "\\" /\ esc
        BY <1>6, <3>5, <4>5
      <4>7. i + 1 > 2 BY <2>2, <4>1
      <4> QED BY <1>u, <2>0, <4>3, <4>6, <4>7
    <3> QED BY <3>2, <3>4, <3>5
  <2> QED BY <2>1, <2>2
<1>13. Nat \subseteq V
  <2>1. 0 \in V OBVIOUS
  <2>2. ASSUME NEW i \in Nat, i \in V PROVE i + 1 \in V
    <3>1. ASSUME NEW c \in 1..(i + 1), c < m, h[j + c] = p PROVE c \in U
      <4>1. CASE c \in 1..i BY <2>2, <3>1, <4>1
      <4>2. CASE c = i + 1
        <5> HIDE DEF V
        <5> QED BY <1>12, <2>2, <3>1, <4>2
      <4> QED BY <4>1, <4>2
    <3> QED BY <3>1
  <2> HIDE DEF V
  <2> QED BY <2>1, <2>2, Induction
<1>14. m > 1 /\ m - 1 \in 1..(m - 1) /\ m - 1 \in Nat /\ m - 1 < m /\ j + (m - 1) = b
       /\ 1 \in 1..m /\ m \in 1..m /\ j + m = k
  BY <1>4
<1>15. m - 1 \in U BY <1>10, <1>13, <1>14
<1>16. t[1] = Mark(p) /\ t[m] = Mark(p) BY <1>2, <1>11, <1>14
<1>17. Quoted(t, Mark(p), esc) BY <1>2, <1>3, <1>14, <1>15, <1>16
<1> QED BY <1>17 DEF t

LEMMA LineFrom ==
  ASSUME NEW S, NEW s \in Seq(S), NEW nobs, NEW h, NEW n \in Nat, n + 1 <= Len(s),
         Reading(s, nobs, h, n), NEW k \in 1..n, NEW j \in 0..(k - 1),
         h[j + 1] = LineComment, s[j + 1] = "#" \/ (s[j + 1] = "-" /\ s[j + 2] = "-"),
         h[k] = Default, \A i \in (j + 1)..(k - 1) : h[i] # Default
  PROVE  LineCommentToken(SubSeq(s, j + 1, k))
<1> DEFINE t == SubSeq(s, j + 1, k)
           m == k - j
<1>1. Len(s) \in Nat /\ k \in 1..Len(s) BY LenProperties
<1>2. /\ t \in Seq(S) /\ Len(t) = m /\ m \in Nat \ {0}
      /\ \A i \in 1..m : t[i] = s[j + i]
  BY <1>1, TokenAt
<1> HIDE DEF t
<1>3. j + 1 # k BY PlacesDiffer
<1>4. ASSUME NEW i \in 0..(n - 1) PROVE Moves(nobs, h, i, s[i + 1], s[i + 2])
  BY DEF Reading
<1> DEFINE T == {i \in Nat : h[i] = LineComment}
           a == j + 1
           b == k - 1
<1>5. a..b \subseteq T
  <2>1. a \in Nat /\ b \in Nat /\ a \in T OBVIOUS
  <2>2. ASSUME NEW i \in a..(b - 1), i \in T PROVE i + 1 \in T
    <3>1. i \in 0..(n - 1) /\ i + 1 \in (j + 1)..(k - 1) /\ i + 1 \in Nat OBVIOUS
    <3>2. Moves(nobs, h, i, s[i + 1], s[i + 2]) /\ h[i + 1] # Default BY <1>4, <3>1
    <3> QED BY <2>2, <3>1, <3>2 DEF Moves
  <2> HIDE DEF T, a, b
  <2> QED BY <2>1, <2>2, Along
<1>6. ASSUME NEW i \in a..b PROVE s[i] # "\n"
  <2>1. CASE i = a BY <2>1
  <2>2. CASE i # a
    <3>1. i - 1 \in a..b /\ i - 1 \in 0..(n - 1) /\ i - 1 + 1 = i BY <2>2
    <3>2. h[i - 1] = LineComment /\ h[i] = LineComment BY <1>5, <3>1
    <3>3. Moves(nobs, h, i - 1, s[i], s[i - 1 + 2]) BY <1>4, <3>1
    <3> QED BY <3>1, <3>2, <3>3, PlacesDiffer DEF Moves
  <2> QED BY <2>1, <2>2
<1>7. s[k] = "\n"
  <2>1. b \in a..b /\ b \in 0..(n - 1) /\ b + 1 = k BY <1>3
  <2>2. h[b] = LineComment BY <1>5, <2>1
  <2>3. Moves(nobs, h, b, s[k], s[b + 2]) BY <1>4, <2>1
  <2>4. h[k] = IF s[k] = "\n" THEN Default ELSE LineComment BY <2>1, <2>2, <2>3 DEF Moves
  <2> QED BY <2>4, PlacesDiffer
<1>8. m > 1 /\ 1 \in 1..m /\ 2 \in 1..m /\ m \in 1..m /\ j + m = k BY <1>2, <1>3
<1>9. t # <<>> BY <1>2, <1>8
<1>10. t[1] = s[j + 1] /\ t[2] = s[j + 2] BY <1>2, <1>8
<1>11. IsComment(t) BY <1>2, <1>8, <1>9, <1>10, CommentIs
<1>12. t[m] = "\n" BY <1>2, <1>7, <1>8
<1>13. \A i \in 1..(m - 1) : t[i] # "\n"
  <2> SUFFICES ASSUME NEW i \in 1..(m - 1) PROVE t[i] # "\n" OBVIOUS
  <2>1. j + i \in a..b /\ i \in 1..m BY <1>8
  <2> QED BY <1>2, <1>6, <2>1
<1>14. LineCommentToken(t) BY <1>2, <1>11, <1>12, <1>13 DEF LineCommentToken
<1> QED BY <1>14 DEF t

LEMMA BlockFrom ==
  ASSUME NEW S, NEW s \in Seq(S), NEW nobs, NEW h, NEW n \in Nat, n + 1 <= Len(s),
         Reading(s, nobs, h, n), NEW k \in 1..n, NEW j \in 0..(k - 1),
         h[j + 1] = BlockComment, s[j + 1] = "/" /\ s[j + 2] = "*",
         h[k] = Default, \A i \in (j + 1)..(k - 1) : h[i] # Default
  PROVE  BlockCommentToken(SubSeq(s, j + 1, k))
<1> DEFINE t == SubSeq(s, j + 1, k)
           m == k - j
<1>1. Len(s) \in Nat /\ k \in 1..Len(s) BY LenProperties
<1>2. /\ t \in Seq(S) /\ Len(t) = m /\ m \in Nat \ {0}
      /\ \A i \in 1..m : t[i] = s[j + i]
  BY <1>1, TokenAt
<1> HIDE DEF t
<1>3. j + 1 # k BY PlacesDiffer
<1>4. ASSUME NEW i \in 0..(n - 1) PROVE Moves(nobs, h, i, s[i + 1], s[i + 2])
  BY DEF Reading
<1> DEFINE T == {i \in Nat : h[i] = BlockComment \/ (h[i] = Inner /\ i = k - 1)}
           a == j + 1
           b == k - 1
<1>5. a..b \subseteq T
  <2>1. a \in Nat /\ b \in Nat /\ a \in T OBVIOUS
  <2>2. ASSUME NEW i \in a..(b - 1), i \in T PROVE i + 1 \in T
    <3>1. i \in 0..(n - 1) /\ i + 1 \in 0..(n - 1) /\ i + 1 \in Nat /\ i # k - 1
          /\ i + 1 + 1 = i + 2 /\ i + 1 - 1 = i
      OBVIOUS
    <3>2. Moves(nobs, h, i, s[i + 1], s[i + 2]) BY <1>4, <3>1
    <3>3. h[i] = BlockComment BY <2>2, <3>1
    <3>4. h[i + 1] \in {Inner, BlockComment} BY <3>2, <3>3 DEF Moves
    <3>5. CASE h[i + 1] = Inner
      <4>1. Moves(nobs, h, i + 1, s[i + 1 + 1], s[i + 1 + 2]) BY <1>4, <3>1
      <4>2. h[i + 1 + 1] = Default BY <3>1, <3>3, <3>5, <4>1 DEF Moves
      <4>3. i + 2 \notin (j + 1)..(k - 1) BY <3>1, <4>2
      <4>4. i + 1 = k - 1 BY <4>3
      <4> QED BY <3>1, <3>5, <4>4
    <3> QED BY <3>1, <3>4, <3>5
  <2> HIDE DEF T, a, b
  <2> QED BY <2>1, <2>2, Along
<1>6. b \in a..b /\ b \in 0..(n - 1) /\ b + 1 = k BY <1>3
<1>7. Moves(nobs, h, b, s[k], s[b + 2]) BY <1>4, <1>6
<1>8. h[b] = Inner
  <2>1. h[b] = BlockComment => h[k] \in {Inner, BlockComment} BY <1>6, <1>7 DEF Moves
  <2>2. b \in T BY <1>5, <1>6
  <2> QED BY <2>1, <2>2, PlacesDiffer
<1>9. b # a BY <1>8, PlacesDiffer
<1>10. /\ b - 1 \in a..b /\ b - 1 \in 0..(n - 1) /\ b - 1 + 1 = b /\ b - 1 + 2 = k
       /\ b - 1 # k - 1 /\ m > 2
  BY <1>3, <1>9
<1>11. h[b - 1] = BlockComment BY <1>5, <1>10
<1>12. Moves(nobs, h, b - 1, s[b], s[k]) BY <1>4, <1>10
<1>13. s[b] = "*" /\ s[k] = "/"
  <2>1. h[b] = IF s[b] = "*" /\ s[k] = "/" THEN Inner ELSE BlockComment
    BY <1>10, <1>11, <1>12 DEF Moves
  <2> QED BY <1>8, <2>1, PlacesDiffer
<1>14. ASSUME NEW i \in (j + 3)..b PROVE ~(s[i - 1] = "*" /\ s[i] = "/")
  <2>1. /\ i - 2 \in a..b /\ i - 1 \in a..b /\ i - 2 # k - 1 /\ i - 1 # k - 1
        /\ i - 2 \in 0..(n - 1) /\ i - 2 + 1 = i - 1 /\ i - 2 + 2 = i
    OBVIOUS
  <2>2. h[i - 2] = BlockComment /\ h[i - 1] = BlockComment BY <1>5, <2>1
  <2>3. Moves(nobs, h, i - 2, s[i - 1], s[i]) BY <1>4, <2>1
  <2> QED BY <2>1, <2>2, <2>3, PlacesDiffer DEF Moves
<1>15. ASSUME NEW i \in 3..m PROVE (t[i - 1] = "*" /\ t[i] = "/") <=> i = m
  <2>1. /\ i \in 1..m /\ i - 1 \in 1..m /\ j + (i - 1) = j + i - 1
        /\ i = m => j + i = k /\ j + i - 1 = b
        /\ i # m => j + i \in (j + 3)..b
    OBVIOUS
  <2>2. t[i - 1] = s[j + i - 1] /\ t[i] = s[j + i] BY <1>2, <2>1
  <2> HIDE DEF a, b, m
  <2> QED BY <1>13, <1>14, <2>1, <2>2
<1>16. t[1] = "/" /\ t[2] = "*"
  <2>1. 1 \in 1..m /\ 2 \in 1..m BY <1>10
  <2> QED BY <1>2, <2>1
<1>17. BlockCommentToken(t) BY <1>2, <1>10, <1>15, <1>16 DEF BlockCommentToken
<1> QED BY <1>17 DEF t

LEMMA TokenFrom ==
  ASSUME NEW S, NEW s \in Seq(S), NEW m, ~m.ansi, NEW h, NEW n \in Nat, n + 1 <= Len(s),
         Reading(s, m.nobs, h, n), NEW k \in 1..n, NEW j \in 0..(k - 1),
         h[j] = Default, h[k] = Default, \A i \in (j + 1)..(k - 1) : h[i] # Default
  PROVE  Token(s, j, k, m)
<1> DEFINE t == SubSeq(s, j + 1, k)
           a == s[j + 1]
           b == s[j + 2]
<1>1. Len(s) \in Nat /\ k \in 1..Len(s) /\ j \in 0..(n - 1) /\ k < Len(s)
  BY LenProperties
<1>2. Moves(m.nobs, h, j, a, b) BY <1>1 DEF Reading
<1>3. h[j + 1] = Opened(a, b) BY <1>2 DEF Moves
<1>q. ASSUME NEW p \in Quotes, a = Mark(p), NEW esc, esc <=> p # Backtick /\ ~m.nobs
      PROVE  Quoted(t, Mark(p), esc)
  <2>1. h[j + 1] = p /\ s[j + 1] = Mark(p) BY <1>3, <1>q, MarksDiffer
  <2> HIDE DEF a, b
  <2> QED BY <1>q, <2>1, QuotedFrom
<1>4. CASE a = "'"
  <2>1. SingleQuote \in Quotes /\ Mark(SingleQuote) = "'" /\ SingleQuote # Backtick
    BY MarksDiffer DEF Quotes, SingleQuote, Backtick
  <2> DEFINE esc == ~m.nobs
  <2>2. esc <=> SingleQuote # Backtick /\ ~m.nobs BY <2>1
  <2> HIDE DEF esc, a, b, t
  <2>3. Quoted(t, Mark(SingleQuote), esc) BY <1>4, <1>q, <2>1, <2>2
  <2>4. Quoted(t, "'", esc) BY <2>1, <2>3
  <2> QED BY <2>4 DEF Token, esc, t
<1>5. CASE a = "\""
  <2>1. DoubleQuote \in Quotes /\ Mark(DoubleQuote) = "\"" /\ DoubleQuote # Backtick
    BY MarksDiffer DEF Quotes, DoubleQuote, Backtick
  <2> DEFINE esc == ~m.nobs /\ ~m.ansi
  <2>2. esc <=> DoubleQuote # Backtick /\ ~m.nobs BY <2>1
  <2> HIDE DEF esc, a, b, t
  <2>3. Quoted(t, Mark(DoubleQuote), esc) BY <1>5, <1>q, <2>1, <2>2
  <2>4. Quoted(t, "\"", esc) BY <2>1, <2>3
  <2> QED BY <2>4 DEF Token, esc, t
<1>6. CASE a = "bq"
  <2>1. Backtick \in Quotes /\ Mark(Backtick) = "bq" BY MarksDiffer DEF Quotes
  <2> DEFINE esc == FALSE
  <2>2. esc <=> Backtick # Backtick /\ ~m.nobs OBVIOUS
  <2> HIDE DEF esc, a, b, t
  <2>3. Quoted(t, Mark(Backtick), esc) BY <1>6, <1>q, <2>1, <2>2
  <2>4. Quoted(t, "bq", esc) BY <2>1, <2>3
  <2> QED BY <2>4 DEF Token, esc, t
<1>7. CASE a = "#" \/ (a = "-" /\ b = "-")
  <2>1. h[j + 1] = LineComment
    <3> HIDE DEF a, b
    <3> QED BY <1>3, <1>7 DEF Opened
  <2>2. LineCommentToken(t) BY <1>7, <2>1, LineFrom
  <2> HIDE DEF t
  <2> QED BY <2>2 DEF Token, t
<1>8. CASE a = "/" /\ b = "*"
  <2>1. h[j + 1] = BlockComment
    <3> HIDE DEF a, b
    <3> QED BY <1>3, <1>8 DEF Opened
  <2>2. BlockCommentToken(t) BY <1>8, <2>1, BlockFrom
  <2> HIDE DEF t
  <2> QED BY <2>2 DEF Token, t
<1>9. CASE /\ a \notin {"'", "\"", "bq", "#"} /\ ~(a = "-" /\ b = "-")
           /\ ~(a = "/" /\ b = "*")
  <2>1. h[j + 1] = Default
    <3> HIDE DEF a, b
    <3> QED BY <1>3, <1>9 DEF Opened
  <2>2. j + 1 \notin (j + 1)..(k - 1) BY <2>1
  <2>3. k = j + 1 BY <2>2
  <2>4. s[k] = a /\ s[k + 1] = b BY <2>3
  <2> HIDE DEF a, b
  <2>5. PlainToken(s, k) BY <1>1, <1>9, <2>4 DEF PlainToken
  <2> QED BY <2>3, <2>5 DEF Token
<1> QED BY <1>4, <1>5, <1>6, <1>7, <1>8, <1>9

LEMMA FreeIsBetween ==
  ASSUME NEW S, NEW s \in Seq(S), NEW m, ~m.ansi, NEW h, NEW n \in Nat, n + 1 <= Len(s),
         Reading(s, m.nobs, h, n), NEW k \in 0..n, h[k] = Default
  PROVE  k \in BetweenTokens(s, m)
<1> DEFINE B == BetweenTokens(s, m)
           T == {i \in Nat : \A a \in 0..i : a <= n /\ h[a] = Default => a \in B}
<1>1. Len(s) \in Nat BY LenProperties
<1>2. \A i \in 0..Len(s) :
        i \in B <=> i = 0 \/ \E j \in 0..(i - 1) : j \in B /\ Token(s, j, i, m)
  BY BetweenIs
<1> HIDE DEF B
<1>3. 0 \in B BY <1>1, <1>2
<1>4. ASSUME NEW i \in Nat, i \in T, i + 1 <= n, h[i + 1] = Default PROVE i + 1 \in B
  <2> DEFINE D == {j \in 0..i : h[j] = Default}
             g == Greatest(D)
  <2>1. 0 \in D BY DEF Reading
  <2>2. D \subseteq 0..i /\ D # {} BY <2>1
  <2>3. g \in D /\ \A j \in D : g >= j BY <2>2, HasGreatest
  <2>4. g \in 0..i /\ h[g] = Default BY <2>3
  <2>5. ASSUME NEW c \in (g + 1)..(i + 1 - 1) PROVE h[c] # Default
    <3>1. c \in 0..i /\ ~(g >= c) BY <2>4
    <3> QED BY <2>3, <3>1
  <2>6. g \in B BY <1>4, <2>4
  <2> HIDE DEF g, D, T
  <2> DEFINE c == i + 1
  <2>7. c \in 1..n /\ g \in 0..(c - 1) /\ h[c] = Default /\ c \in 0..Len(s) BY <1>1, <1>4, <2>4
  <2>8. \A x \in (g + 1)..(c - 1) : h[x] # Default BY <2>5
  <2> HIDE DEF c
  <2>9. Token(s, g, c, m) BY <2>4, <2>7, <2>8, TokenFrom
  <2>10. c \in B BY <1>2, <2>6, <2>7, <2>9
  <2> QED BY <2>10 DEF c
<1>5. Nat \subseteq T
  <2>1. 0 \in T BY <1>3
  <2>2. ASSUME NEW i \in Nat, i \in T PROVE i + 1 \in T
    <3>1. ASSUME NEW a \in 0..(i + 1), a <= n, h[a] = Default PROVE a \in B
      <4>1. CASE a \in 0..i BY <2>2, <3>1, <4>1
      <4>2. CASE a = i + 1
        <5> HIDE DEF T
        <5> QED BY <1>4, <2>2, <3>1, <4>2
      <4> QED BY <4>1, <4>2
    <3> QED BY <3>1
  <2> HIDE DEF T
  <2> QED BY <2>1, <2>2, Induction
<1> QED BY <1>5 DEF B

------------------------------------------------------------------------------
(* The place of a state: what the lexer distinguishes beyond it makes no   *)
(* difference to where a statement ends.                                   *)
PlaceOf(st) ==
  IF st = HashComment THEN LineComment
  ELSE IF st = ExecComment THEN BlockComment ELSE st

DelimAt(d, i, delim) ==
  i + Len(delim) - 1 <= Len(d) /\ SubSeq(d, i, i + Len(delim) - 1) = delim

(* A reading of the dump from position a on. *)
ReadAt(d, a, nobs, h, n) ==
  /\ h \in [0..n -> Places] /\ h[0] = Default
  /\ \A k \in 0..(n - 1) : Moves(nobs, h, k, d[a + k], d[a + k + 1])

(* The lexer's buffer has a reading that ends where the lexer is, and no   *)
(* delimiter has been passed over outside of all tokens.                   *)
Traced(d, y) ==
  y.i <= Len(d) =>
    \E h : /\ ReadAt(d, BufStart(y), y.mode.nobs, h, Len(y.buf))
           /\ h[Len(y.buf)] = PlaceOf(y.st)
           /\ \A k \in 0..(Len(y.buf) - 1) :
                h[k] = Default => ~DelimAt(d, BufStart(y) + k, y.mode.delim)

LEMMA PlacesOfStates ==
  /\ PlaceOf(Default) = Default
  /\ \A p \in Quotes : PlaceOf(p) = p
  /\ PlaceOf(LineComment) = LineComment /\ PlaceOf(HashComment) = LineComment
  /\ PlaceOf(BlockComment) = BlockComment /\ PlaceOf(ExecComment) = BlockComment
  /\ \A st \in LexStates : /\ PlaceOf(st) \in Places /\ PlaceOf(st) # Inner
                           /\ PlaceOf(st) = Default => st = Default
BY DEF PlaceOf, LexStates, Places, Quotes, Inner, Default, SingleQuote, DoubleQuote,
       Backtick, LineComment, HashComment, BlockComment, ExecComment

(* Going on by one symbol. *)
GoesOn(nobs, p, q, b, c) ==
  /\ p = Default => q = Opened(b, c)
  /\ p \in Quotes => q = Within(p, nobs, b, c)
  /\ p = LineComment => q = IF b = "\n" THEN Default ELSE LineComment
  /\ p = BlockComment => q = IF b = "*" /\ c = "/" THEN Inner ELSE BlockComment

ComesOut(h, n, q) ==
  h[n] = Inner => /\ n > 0 /\ h[n - 1] \in Quotes \cup {BlockComment}
                  /\ q = IF h[n - 1] = BlockComment THEN Default ELSE h[n - 1]
Longer(d, a, nobs, h, n, q) ==
  \E g : /\ ReadAt(d, a, nobs, g, n + 1) /\ g[n + 1] = q
         /\ \A k \in 0..n : g[k] = h[k]

LEMMA Extended ==
  ASSUME NEW d, NEW a \in Nat, NEW nobs, NEW h, NEW n \in Nat, ReadAt(d, a, nobs, h, n),
         NEW q \in Places, GoesOn(nobs, h[n], q, d[a + n], d[a + n + 1]), ComesOut(h, n, q)
  PROVE  Longer(d, a, nobs, h, n, q)
<1> DEFINE g == [k \in 0..(n + 1) |-> IF k = n + 1 THEN q ELSE h[k]]
<1>1. g[n + 1] = q /\ \A k \in 0..n : g[k] = h[k]
  <2>1. ASSUME NEW k \in 0..n PROVE g[k] = h[k]
    <3>1. k \in 0..(n + 1) /\ k # n + 1 OBVIOUS
    <3> QED BY <3>1
  <2>2. n + 1 \in 0..(n + 1) OBVIOUS
  <2> QED BY <2>1, <2>2
<1>2. g \in [0..(n + 1) -> Places]
  <2>1. ASSUME NEW k \in 0..(n + 1), k # n + 1 PROVE h[k] \in Places
    <3>1. k \in 0..n BY <2>1
    <3> QED BY <3>1 DEF ReadAt
  <2> QED BY <2>1
<1> HIDE DEF g
<1>3. g[0] = Default BY <1>1 DEF ReadAt
<1>4. ASSUME NEW k \in 0..n PROVE Moves(nobs, g, k, d[a + k], d[a + k + 1])
  <2>1. CASE k = n
    <3>1. g[k] = h[n] /\ g[k + 1] = q /\ (n > 0 => g[k - 1] = h[n - 1])
      <4>1. n > 0 => n - 1 \in 0..n OBVIOUS
      <4> QED BY <1>1, <2>1, <4>1
    <3> QED BY <2>1, <3>1 DEF Moves, GoesOn, ComesOut
  <2>2. CASE k # n
    <3>1. k \in 0..(n - 1) /\ k + 1 \in 0..n /\ k \in 0..n BY <2>2
    <3>2. Moves(nobs, h, k, d[a + k], d[a + k + 1]) BY <3>1 DEF ReadAt
    <3>3. g[k] = h[k] /\ g[k + 1] = h[k + 1] BY <1>1, <3>1
    <3>4. k > 0 => g[k - 1] = h[k - 1]
      <4>1. k > 0 => k - 1 \in 0..n OBVIOUS
      <4> QED BY <1>1, <4>1
    <3> QED BY <3>2, <3>3, <3>4 DEF Moves
  <2> QED BY <2>1, <2>2
<1>5. n + 1 - 1 = n OBVIOUS
<1>6. ReadAt(d, a, nobs, g, n + 1) BY <1>2, <1>3, <1>4, <1>5 DEF ReadAt
<1> QED BY <1>1, <1>6 DEF Longer

(* One symbol more in the buffer. *)
LEMMA TracedTake ==
  ASSUME NEW S, NEW d \in Seq(S), NEW y \in Lexers(S), NEW y1 \in Lexers(S),
         y.i \in 1..Len(d), BufStart(y) \in 1..y.i, Traced(d, y),
         y1.i = y.i + 1, y1.buf = Append(y.buf, d[y.i]), y1.mode = y.mode,
         y1.i <= Len(d) => GoesOn(y.mode.nobs, PlaceOf(y.st), PlaceOf(y1.st), d[y.i], d[y.i + 1]),
         y1.i <= Len(d) /\ y.st = Default => ~DelimAt(d, y.i, y.mode.delim)
  PROVE  Traced(d, y1)
<1> DEFINE a == BufStart(y)
           n == Len(y.buf)
           nobs == y.mode.nobs
           q == PlaceOf(y1.st)
<1> SUFFICES ASSUME y1.i <= Len(d) PROVE Traced(d, y1) BY DEF Traced
<1>1. /\ Len(d) \in Nat /\ n \in Nat /\ y.i \in Nat /\ a \in Nat /\ a + n = y.i
      /\ y.buf \in Seq(S) /\ d[y.i] \in S /\ y.i <= Len(d)
  <2>1. y.buf \in Seq(S) /\ y.i \in Nat /\ Len(d) \in Nat BY LenProperties DEF Lexers
  <2>2. Len(y.buf) \in Nat BY <2>1, LenProperties
  <2> QED BY <2>1, <2>2, ElementOfSeq DEF BufStart
<1>2. Len(y1.buf) = n + 1 BY <1>1, AppendProperties
<1>3. BufStart(y1) = a
  <2> HIDE DEF n
  <2> QED BY <1>1, <1>2 DEF BufStart, n
<1>4. PICK h : /\ ReadAt(d, a, nobs, h, n) /\ h[n] = PlaceOf(y.st)
               /\ \A k \in 0..(n - 1) : h[k] = Default => ~DelimAt(d, a + k, y.mode.delim)
  BY <1>1 DEF Traced
<1>5. q \in Places /\ h[n] # Inner /\ (h[n] = Default => y.st = Default)
  BY <1>4, PlacesOfStates DEF Lexers
<1>6. GoesOn(nobs, h[n], q, d[a + n], d[a + n + 1]) BY <1>1, <1>4
<1> HIDE DEF a, n, nobs, q
<1>7. PICK g : /\ ReadAt(d, a, nobs, g, n + 1) /\ g[n + 1] = q
               /\ \A k \in 0..n : g[k] = h[k]
  <2>1. ComesOut(h, n, q) BY <1>5 DEF ComesOut
  <2>2. Longer(d, a, nobs, h, n, q) BY <1>1, <1>4, <1>5, <1>6, <2>1, Extended
  <2> QED BY <2>2 DEF Longer
<1>8. ASSUME NEW k \in 0..(n + 1 - 1), g[k] = Default PROVE ~DelimAt(d, a + k, y.mode.delim)
  <2>1. k \in 0..n BY <1>1
  <2>2. h[k] = Default BY <1>7, <1>8, <2>1
  <2>3. CASE k = n BY <1>1, <1>5, <2>2, <2>3
  <2>4. CASE k # n
    <3>1. k \in 0..(n - 1) BY <1>1, <2>1, <2>4
    <3> QED BY <1>4, <2>2, <3>1
  <2> QED BY <2>3, <2>4
<1>9. ReadAt(d, BufStart(y1), y1.mode.nobs, g, Len(y1.buf))
  BY <1>2, <1>3, <1>7 DEF nobs
<1>9a. g[Len(y1.buf)] = PlaceOf(y1.st) BY <1>2, <1>7 DEF q
<1>9b. ASSUME NEW k \in 0..(Len(y1.buf) - 1), g[k] = Default
      PROVE  ~DelimAt(d, BufStart(y1) + k, y1.mode.delim)
  <2>1. k \in 0..(n + 1 - 1) BY <1>1, <1>2
  <2>2. ~DelimAt(d, a + k, y.mode.delim) BY <1>8, <1>9b, <2>1
  <2> QED BY <1>3, <2>2
<1> QED BY <1>9, <1>9a, <1>9b DEF Traced

(* Two symbols more, taken at once inside a token. *)
LEMMA TracedTake2 ==
  ASSUME NEW S, NEW d \in Seq(S), NEW y \in Lexers(S), NEW y1 \in Lexers(S),
         y.i \in 1..Len(d), BufStart(y) \in 1..y.i, Traced(d, y),
         y1.i = y.i + 2, y1.buf = y.buf \o <<d[y.i], d[y.i + 1]>>, y1.mode = y.mode,
         NEW p \in Quotes \cup {BlockComment}, PlaceOf(y.st) = p,
         y1.i <= Len(d) => GoesOn(y.mode.nobs, p, Inner, d[y.i], d[y.i + 1]),
         PlaceOf(y1.st) = IF p = BlockComment THEN Default ELSE p
  PROVE  Traced(d, y1)
<1> DEFINE a == BufStart(y)
           n == Len(y.buf)
           nobs == y.mode.nobs
           q == PlaceOf(y1.st)
           m == n + 1
<1> SUFFICES ASSUME y1.i <= Len(d) PROVE Traced(d, y1) BY DEF Traced
<1>1. /\ Len(d) \in Nat /\ n \in Nat /\ y.i \in Nat /\ a \in Nat /\ a + n = y.i
      /\ y.buf \in Seq(S) /\ y.i + 1 \in 1..Len(d) /\ y.i <= Len(d)
  <2>1. y.buf \in Seq(S) /\ y.i \in Nat /\ Len(d) \in Nat BY LenProperties DEF Lexers
  <2>2. Len(y.buf) \in Nat BY <2>1, LenProperties
  <2> QED BY <2>1, <2>2 DEF BufStart
<1>2. Len(y1.buf) = m + 1
  <2> DEFINE pair == <<d[y.i], d[y.i + 1]>>
  <2>1. d[y.i] \in S /\ d[y.i + 1] \in S BY <1>1, ElementOfSeq
  <2>2. pair \in Seq(S) /\ Len(pair) = 2 BY <2>1
  <2> HIDE DEF pair
  <2>3. y1.buf = y.buf \o pair BY DEF pair
  <2>4. Len(y1.buf) = Len(y.buf) + Len(pair) BY <1>1, <2>2, <2>3, ConcatProperties
  <2> QED BY <1>1, <2>2, <2>4
<1>3. BufStart(y1) = a
  <2> HIDE DEF n
  <2> QED BY <1>1, <1>2 DEF BufStart, n
<1>4. PICK h : /\ ReadAt(d, a, nobs, h, n) /\ h[n] = PlaceOf(y.st)
               /\ \A k \in 0..(n - 1) : h[k] = Default => ~DelimAt(d, a + k, y.mode.delim)
  BY <1>1 DEF Traced
<1>5. q \in Places /\ Inner \in Places /\ p # Inner /\ p # Default
  BY PlacesOfStates, PlacesDiffer DEF Lexers, Places
<1>6. GoesOn(nobs, h[n], Inner, d[a + n], d[a + n + 1]) /\ h[n] # Inner
  BY <1>1, <1>4, <1>5
<1>0. /\ m \in Nat /\ m = n + 1 /\ m > 0 /\ m - 1 = n
      /\ m \in 0..m /\ n \in 0..n /\ n \in 0..m
  <2>1. n \in Nat BY <1>1
  <2> HIDE DEF n
  <2> QED BY <2>1
<1> HIDE DEF a, n, nobs, q, m
<1>7. PICK f : /\ ReadAt(d, a, nobs, f, n + 1) /\ f[n + 1] = Inner
               /\ \A k \in 0..n : f[k] = h[k]
  <2> DEFINE r == Inner
  <2>1. r \in Places /\ GoesOn(nobs, h[n], r, d[a + n], d[a + n + 1]) BY <1>5, <1>6
  <2>2. ReadAt(d, a, nobs, h, n) BY <1>4
  <2> HIDE DEF r
  <2>3. ComesOut(h, n, r) BY <1>6 DEF ComesOut
  <2>4. Longer(d, a, nobs, h, n, r) BY <1>1, <2>1, <2>2, <2>3, Extended
  <2> QED BY <2>4 DEF r, Longer
<1>8. f[m] = Inner /\ f[m - 1] = p BY <1>0, <1>4, <1>7
<1>9. GoesOn(nobs, f[m], q, d[a + m], d[a + m + 1])
  BY <1>8, PlacesDiffer DEF GoesOn
<1>m. ReadAt(d, a, nobs, f, m) BY <1>0, <1>7
<1>q. ComesOut(f, m, q) BY <1>0, <1>8 DEF q, ComesOut
<1>10. PICK g : /\ ReadAt(d, a, nobs, g, m + 1) /\ g[m + 1] = q
                /\ \A k \in 0..m : g[k] = f[k]
  <2>1. Longer(d, a, nobs, f, m, q) BY <1>0, <1>1, <1>5, <1>9, <1>m, <1>q, Extended
  <2> QED BY <2>1 DEF Longer
<1>11. ASSUME NEW k \in 0..(m + 1 - 1), g[k] = Default PROVE ~DelimAt(d, a + k, y.mode.delim)
  <2>1. k \in 0..m BY <1>0
  <2>2. f[k] = Default BY <1>10, <1>11, <2>1
  <2>3. k # m /\ k # n BY <1>0, <1>5, <1>8, <2>2, PlacesDiffer
  <2>4. k \in 0..(n - 1) /\ k \in 0..n BY <1>0, <1>1, <2>1, <2>3
  <2>5. h[k] = Default BY <1>7, <2>2, <2>4
  <2> QED BY <1>4, <2>4, <2>5
<1>12. ReadAt(d, BufStart(y1), y1.mode.nobs, g, Len(y1.buf))
  BY <1>2, <1>3, <1>10 DEF nobs
<1>12a. g[Len(y1.buf)] = PlaceOf(y1.st) BY <1>2, <1>10 DEF q
<1>12b. ASSUME NEW k \in 0..(Len(y1.buf) - 1), g[k] = Default
      PROVE  ~DelimAt(d, BufStart(y1) + k, y1.mode.delim)
  <2>1. k \in 0..(m + 1 - 1) BY <1>0, <1>2
  <2>2. ~DelimAt(d, a + k, y.mode.delim) BY <1>11, <1>12b, <2>1
  <2> QED BY <1>3, <2>2
<1> QED BY <1>12, <1>12a, <1>12b DEF Traced

(* An empty buffer. *)
LEMMA TracedEmpty ==
  ASSUME NEW d, NEW y, y.buf = <<>>, y.st = Default
  PROVE  Traced(d, y)
<1> DEFINE h == [k \in 0..0 |-> Default]
<1>1. Len(y.buf) = 0 BY EmptySeq
<1>2. h \in [0..0 -> Places] /\ h[0] = Default BY DEF Places
<1> HIDE DEF h
<1>3. ReadAt(d, BufStart(y), y.mode.nobs, h, 0) BY <1>2 DEF ReadAt
<1>4. h[0] = PlaceOf(y.st) BY <1>2, PlacesOfStates
<1>5. \A k \in 0..(0 - 1) : FALSE OBVIOUS
<1> QED BY <1>1, <1>3, <1>4, <1>5 DEF Traced

LEMMA OpensNothingIs ==
  ASSUME NEW S, NEW delim \in Seq(S), delim # <<>>, OpensNothing(delim)
  PROVE  /\ delim[1] \notin {"'", "\"", "bq", "#"}
         /\ delim[1] = "-" => Len(delim) > 1 /\ delim[2] # "-"
         /\ delim[1] = "/" => Len(delim) > 1 /\ delim[2] # "*"
<1>1. Len(delim) \in Nat \ {0} BY LenProperties, EmptySeq
<1>2. ASSUME NEW a, NEW b, ~IsPrefix(<<a, b>>, delim), ~IsPrefix(delim, <<a, b>>),
             delim[1] = a
      PROVE  Len(delim) > 1 /\ delim[2] # b
  <2> DEFINE c == <<a, b>>
  <2>0. /\ c \in Seq({a, b}) /\ Len(c) = 2 /\ c[1] = a /\ c[2] = b
        /\ SubSeq(c, 1, 1) = <<a>> /\ SubSeq(c, 1, 2) = c
    <3>1. c \in Seq({a, b}) /\ Len(c) = 2 /\ c[1] = a /\ c[2] = b OBVIOUS
    <3> HIDE DEF c
    <3>2. 1 \in 1..Len(c) /\ 1 + 1 <= Len(c) /\ 1 + 1 = 2 BY <3>1
    <3>3. SubSeq(c, 1, 1) = <<c[1]>> BY <3>1, <3>2, SliceOne
    <3>4. SubSeq(c, 1, 2) = <<c[1], c[2]>> BY <3>1, <3>2, SliceTwo
    <3>5. <<c[1], c[2]>> = c BY <3>1 DEF c
    <3> QED BY <3>1, <3>3, <3>4, <3>5
  <2>1. Len(delim) > 1
    <3>1. CASE Len(delim) = 1
      <4>1. SubSeq(delim, 1, 1) = <<a>> BY <1>1, <1>2, <3>1, SliceOne
      <4>2. 1 <= Len(c) BY <2>0
      <4> HIDE DEF c
      <4>3. IsPrefix(delim, c) BY <2>0, <3>1, <4>1, <4>2 DEF IsPrefix
      <4> QED BY <1>2, <4>3 DEF c
    <3>2. CASE Len(delim) # 1
      <4> DEFINE k == Len(delim)
      <4>1. k \in Nat \ {0} /\ k # 1 BY <1>1, <3>2
      <4>2. k > 1
        <5> HIDE DEF k
        <5> QED BY <4>1
      <4> QED BY <4>2
    <3> QED BY <3>1, <3>2
  <2>2. delim[2] # b
    <3> SUFFICES ASSUME delim[2] = b PROVE FALSE OBVIOUS
    <3>1. 1 \in 1..Len(delim) /\ 1 + 1 <= Len(delim) /\ 1 + 1 = 2 /\ 2 <= Len(delim)
      BY <1>1, <2>1
    <3>2. SubSeq(delim, 1, 2) = <<delim[1], delim[2]>> BY <3>1, SliceTwo
    <3>3. SubSeq(delim, 1, 2) = c BY <1>2, <3>2
    <3> HIDE DEF c
    <3>4. IsPrefix(c, delim) BY <2>0, <3>1, <3>3 DEF IsPrefix
    <3> QED BY <1>2, <3>4 DEF c
  <2> QED BY <2>1, <2>2
<1>3. /\ ~IsPrefix(<<"-", "-">>, delim) /\ ~IsPrefix(delim, <<"-", "-">>)
      /\ ~IsPrefix(<<"/", "*">>, delim) /\ ~IsPrefix(delim, <<"/", "*">>)
      /\ delim[1] \notin {"'", "\"", "bq", "#"}
  BY DEF OpensNothing
<1>4. delim[1] = "-" => Len(delim) > 1 /\ delim[2] # "-" BY <1>2, <1>3
<1>5. delim[1] = "/" => Len(delim) > 1 /\ delim[2] # "*" BY <1>2, <1>3
<1> QED BY <1>3, <1>4, <1>5

LEMMA DelimStarts ==
  ASSUME NEW S, NEW d \in Seq(S), NEW i \in Nat \ {0}, NEW delim \in Seq(S), delim # <<>>,
         DelimAt(d, i, delim)
  PROVE  /\ Len(delim) \in Nat \ {0} /\ i \in 1..Len(d)
         /\ \A k \in 1..Len(delim) : delim[k] = d[i + k - 1]
         /\ delim[1] = d[i]
         /\ Len(delim) > 1 => i + 1 <= Len(d) /\ delim[2] = d[i + 1]
<1> DEFINE j == i + Len(delim) - 1
<1>1. Len(delim) \in Nat \ {0} /\ Len(d) \in Nat BY LenProperties, EmptySeq
<1>2. j <= Len(d) /\ SubSeq(d, i, j) = delim BY DEF DelimAt
<1>3. /\ i \in 1..Len(d) /\ i \in 1..(Len(d) + 1) /\ j \in (i - 1)..Len(d)
      /\ j - i + 1 = Len(delim)
  BY <1>1, <1>2
<1> HIDE DEF j
<1>4. \A k \in 1..(j - i + 1) : SubSeq(d, i, j)[k] = d[i + k - 1] BY <1>3, Slice
<1>5. \A k \in 1..Len(delim) : delim[k] = d[i + k - 1] BY <1>2, <1>3, <1>4
<1>6. 1 \in 1..Len(delim) /\ i + 1 - 1 = i BY <1>1
<1>7. Len(delim) > 1 => /\ 2 \in 1..Len(delim) /\ i + 2 - 1 = i + 1 /\ i + 1 <= Len(d)
  BY <1>1, <1>2 DEF j
<1> QED BY <1>1, <1>3, <1>5, <1>6, <1>7

LEMMA DelimFirst ==
  ASSUME NEW S, NEW d \in Seq(S), NEW i \in Nat \ {0}, NEW delim \in Seq(S), delim # <<>>,
         DelimAt(d, i, delim)
  PROVE  delim[1] = d[i] /\ (Len(delim) > 1 => delim[2] = d[i + 1])
BY DelimStarts

(* Where a token opens, no delimiter begins. *)
LEMMA NoDelim ==
  ASSUME NEW S, NEW d \in Seq(S), NEW i \in Nat \ {0}, NEW delim \in Seq(S), delim # <<>>,
         OpensNothing(delim),
         \/ d[i] \in {"'", "\"", "bq", "#"}
         \/ d[i] = "-" /\ d[i + 1] = "-"
         \/ d[i] = "/" /\ d[i + 1] = "*"
  PROVE  ~DelimAt(d, i, delim)
<1> SUFFICES ASSUME DelimAt(d, i, delim) PROVE FALSE OBVIOUS
<1>1. delim[1] = d[i] /\ (Len(delim) > 1 => delim[2] = d[i + 1]) BY DelimFirst
<1>2. /\ delim[1] \notin {"'", "\"", "bq", "#"}
      /\ delim[1] = "-" => Len(delim) > 1 /\ delim[2] # "-"
      /\ delim[1] = "/" => Len(delim) > 1 /\ delim[2] # "*"
  BY OpensNothingIs
<1> QED BY <1>1, <1>2

LEMMA TracedEnter ==
  ASSUME NEW S, NEW d \in Seq(S), NEW y \in Lexers(S),
         y.i \in 1..Len(d), BufStart(y) \in 1..y.i, Traced(d, y), NEW st \in LexStates,
         y.i + 1 <= Len(d) => GoesOn(y.mode.nobs, PlaceOf(y.st), PlaceOf(st), d[y.i], d[y.i + 1]),
         y.i + 1 <= Len(d) /\ y.st = Default => ~DelimAt(d, y.i, y.mode.delim)
  PROVE  /\ Traced(d, [Take(d, y) EXCEPT !.st = st])
         /\ st = y.st => Traced(d, Take(d, y))
<1>1. ASSUME NEW y1 \in Lexers(S), y1.i = y.i + 1, y1.buf = Append(y.buf, d[y.i]),
             y1.mode = y.mode, y1.st = st
      PROVE  Traced(d, y1)
  BY <1>1, TracedTake
<1>2. Len(d) \in 0..Len(d) BY LenProperties
<1> DEFINE z == [Take(d, y) EXCEPT !.st = st]
           u == Take(d, y)
<1>3. z \in Lexers(S) /\ u \in Lexers(S) BY <1>2, OneRound DEF Round
<1>4. /\ z.i = y.i + 1 /\ z.buf = Append(y.buf, d[y.i]) /\ z.mode = y.mode /\ z.st = st
      /\ u.i = y.i + 1 /\ u.buf = Append(y.buf, d[y.i]) /\ u.mode = y.mode /\ u.st = y.st
  BY TakeFields
<1> HIDE DEF z, u
<1>5. Traced(d, z) BY <1>1, <1>3, <1>4
<1>6. st = y.st => Traced(d, u) BY <1>1, <1>3, <1>4
<1> QED BY <1>5, <1>6 DEF z, u

LEMMA TracedEnter2 ==
  ASSUME NEW S, NEW d \in Seq(S), NEW y \in Lexers(S),
         y.i \in 1..Len(d), y.i + 1 <= Len(d), BufStart(y) \in 1..y.i, Traced(d, y),
         NEW p \in Quotes \cup {BlockComment}, PlaceOf(y.st) = p,
         GoesOn(y.mode.nobs, p, Inner, d[y.i], d[y.i + 1])
  PROVE  /\ p = BlockComment => Traced(d, [Take2(d, y) EXCEPT !.st = Default])
         /\ p # BlockComment => Traced(d, Take2(d, y))
<1>1. ASSUME NEW y1 \in Lexers(S), y1.i = y.i + 2, y1.mode = y.mode,
             y1.buf = y.buf \o <<d[y.i], d[y.i + 1]>>,
             PlaceOf(y1.st) = IF p = BlockComment THEN Default ELSE p
      PROVE  Traced(d, y1)
  BY <1>1, TracedTake2
<1>2. Len(d) \in 0..Len(d) /\ Default \in LexStates BY LenProperties DEF LexStates
<1> DEFINE z == [Take2(d, y) EXCEPT !.st = Default]
           u == Take2(d, y)
<1>3. z \in Lexers(S) /\ u \in Lexers(S) BY <1>2, TwoRound DEF Round
<1>4. /\ z.i = y.i + 2 /\ z.buf = y.buf \o <<d[y.i], d[y.i + 1]>> /\ z.mode = y.mode
      /\ z.st = Default
      /\ u.i = y.i + 2 /\ u.buf = y.buf \o <<d[y.i], d[y.i + 1]>> /\ u.mode = y.mode
      /\ u.st = y.st
  BY Take2Fields
<1> HIDE DEF z, u
<1>5. p = BlockComment => Traced(d, z) BY <1>1, <1>3, <1>4, PlacesOfStates
<1>6. p # BlockComment => Traced(d, u) BY <1>1, <1>3, <1>4
<1> QED BY <1>5, <1>6 DEF z, u

------------------------------------------------------------------------------
(* One round with the whole dump in sight: the reading goes on, and        *)
(* neither the mode nor the statements change, or a DELIMITER command is   *)
(* consumed, or a statement is emitted at the delimiter.                   *)
Commanded(y, y1) ==
  /\ y1.out = y.out
  /\ y1.mode.nobs = y.mode.nobs /\ y1.mode.ansi = y.mode.ansi
  /\ y1.mode.delim[1] # "\n" \/ y1.mode.delim = y.mode.delim
Delivered(d, y, y1) ==
  /\ y.st = Default /\ DelimAt(d, y.i, y.mode.delim)
  /\ y1.out = Append(y.out, [text |-> y.buf, next |-> y1.i,
                             delim |-> y.mode.delim, mode |-> y1.mode])
  /\ y1.mode.delim = y.mode.delim
Onward(d, y, y1) ==
  /\ Traced(d, y1)
  /\ \/ y1.mode = y.mode /\ y1.out = y.out
     \/ Commanded(y, y1)
     \/ Delivered(d, y, y1)

(* The word after DELIMITER holds no newline. *)
LEMMA WordStarts ==
  ASSUME NEW S, NEW s \in Seq(S), FirstWord(s) # <<>>
  PROVE  FirstWord(s)[1] \notin Space
<1> DEFINE ends == {k \in DOMAIN s : s[k] \in Space}
           word == FirstWord(s)
<1>1. word = IF ends = {} THEN s ELSE SubSeq(s, 1, Least(ends) - 1) BY DEF FirstWord
<1>2. Len(s) \in Nat /\ DOMAIN s = 1..Len(s) BY LenProperties
<1>3. CASE ends = {}
  <2>1. Len(s) # 0 BY <1>1, <1>3, EmptySeq
  <2>2. 1 \in DOMAIN s BY <1>2, <2>1
  <2> QED BY <1>1, <1>3, <2>2
<1>4. CASE ends # {}
  <2> DEFINE j == Least(ends)
  <2>1. ends \subseteq Nat BY <1>2
  <2>2. j \in ends /\ \A k \in ends : j <= k BY <1>4, <2>1, HasLeast
  <2>3. j \in 1..Len(s) BY <1>2, <2>2
  <2> HIDE DEF j, word, ends
  <2>4. word = SubSeq(s, 1, j - 1) BY <1>1, <1>4 DEF j
  <2>5. j # 1
    <3>1. j = 1 => word = <<>>
      <4>1. 1 \in Nat \ {0} OBVIOUS
      <4>2. <<>> = SubSeq(s, 1, 1 - 1) BY <4>1, EmptySlice
      <4> QED BY <2>4, <4>2
    <3> QED BY <3>1 DEF word
  <2>6. 1 \in 1..(Len(s) + 1) /\ j - 1 \in (1 - 1)..Len(s) /\ 1 \in 1..(j - 1 - 1 + 1)
        /\ 1 + 1 - 1 = 1 /\ 1 \in 1..Len(s)
    BY <1>2, <2>3, <2>5
  <2>7. word[1] = s[1]
    <3> DEFINE a == 1
               e == j - 1
    <3>1. a \in 1..(Len(s) + 1) /\ e \in (a - 1)..Len(s) /\ 1 \in 1..(e - a + 1)
          /\ a + 1 - 1 = 1 /\ word = SubSeq(s, a, e)
      BY <2>4, <2>6
    <3> HIDE DEF a, e
    <3> QED BY <3>1, Slice
  <2>8. 1 \notin ends BY <2>2, <2>3, <2>5
  <2> QED BY <1>2, <2>6, <2>7, <2>8 DEF ends, word
<1> QED BY <1>3, <1>4

LEMMA CommandKeeps ==
  ASSUME NEW S, NEW s \in Seq(S), IsDelimiterCommand(s), NEW mode \in SplitterConfigs(S),
         NEW m, m = HandleDelimiterCommand(mode, s)
  PROVE  /\ m.nobs = mode.nobs /\ m.ansi = mode.ansi
         /\ m.delim[1] # "\n" \/ m.delim = mode.delim
<1> DEFINE t == TrimSpace(s)
           r == TrimSpace(Tail(t))
           word == FirstWord(r)
<1>1. t \in Seq(S) /\ t # <<>> BY CommandTrimmed
<1>2. Tail(t) \in Seq(S) BY <1>1, HeadTailProperties
<1>3. r \in Seq(S) BY <1>2, TrimSpaceFrom
<1>4. m = IF word = <<>> THEN mode ELSE [mode EXCEPT !.delim = word]
  BY DEF HandleDelimiterCommand
<1> HIDE DEF r
<1>5. word # <<>> => word[1] # "\n" BY <1>3, WordStarts DEF Space
<1> HIDE DEF word
<1> QED BY <1>4, <1>5 DEF SplitterConfigs

LEMMA SetKeeps ==
  ASSUME NEW S, NEW s, NEW mode \in SplitterConfigs(S)
  PROVE  ObserveSet(mode, s).delim = mode.delim
BY DEF ObserveSet, SplitterConfigs

LEMMA EnterOnward ==
  ASSUME NEW S, NEW d \in Seq(S), NEW y \in Lexers(S),
         y.i \in 1..Len(d), BufStart(y) \in 1..y.i, Traced(d, y), NEW st \in LexStates,
         y.i + 1 <= Len(d) => GoesOn(y.mode.nobs, PlaceOf(y.st), PlaceOf(st), d[y.i], d[y.i + 1]),
         y.i + 1 <= Len(d) /\ y.st = Default => ~DelimAt(d, y.i, y.mode.delim)
  PROVE  /\ Onward(d, y, [Take(d, y) EXCEPT !.st = st])
         /\ st = y.st => Onward(d, y, Take(d, y))
<1> DEFINE z == [Take(d, y) EXCEPT !.st = st]
           u == Take(d, y)
<1>1. z.mode = y.mode /\ z.out = y.out /\ u.mode = y.mode /\ u.out = y.out BY TakeFields
<1>2. Traced(d, z) /\ (st = y.st => Traced(d, u)) BY TracedEnter
<1> HIDE DEF z, u
<1>3. Onward(d, y, z) /\ (st = y.st => Onward(d, y, u)) BY <1>1, <1>2 DEF Onward
<1> QED BY <1>3 DEF z, u

LEMMA Enter2Onward ==
  ASSUME NEW S, NEW d \in Seq(S), NEW y \in Lexers(S),
         y.i \in 1..Len(d), y.i + 1 <= Len(d), BufStart(y) \in 1..y.i, Traced(d, y),
         NEW p \in Quotes \cup {BlockComment}, PlaceOf(y.st) = p,
         GoesOn(y.mode.nobs, p, Inner, d[y.i], d[y.i + 1])
  PROVE  /\ p = BlockComment => Onward(d, y, [Take2(d, y) EXCEPT !.st = Default])
         /\ p # BlockComment => Onward(d, y, Take2(d, y))
<1> DEFINE z == [Take2(d, y) EXCEPT !.st = Default]
           u == Take2(d, y)
<1>1. z.mode = y.mode /\ z.out = y.out /\ u.mode = y.mode /\ u.out = y.out
  BY DEF Take2, Lexers
<1>2. (p = BlockComment => Traced(d, z)) /\ (p # BlockComment => Traced(d, u))
  BY TracedEnter2
<1> HIDE DEF z, u
<1>3. (p = BlockComment => Onward(d, y, z)) /\ (p # BlockComment => Onward(d, y, u))
  BY <1>1, <1>2 DEF Onward
<1> QED BY <1>3 DEF z, u

LEMMA NewlineOnward ==
  ASSUME NEW S, NEW d, NEW y \in Lexers(S), NEW u \in Lexers(S),
         u.mode = y.mode, u.out = y.out, u.st = Default, Onward(d, y, u)
  PROVE  Onward(d, y, AtNewline(u))
<1> DEFINE line == DelimiterLine(u.buf)
           m == HandleDelimiterCommand(u.mode, line)
           z == AtNewline(u)
<1>1. CASE line = <<>>
  <2>1. z = u BY <1>1 DEF AtNewline
  <2> HIDE DEF z
  <2> QED BY <2>1 DEF z
<1>2. CASE line # <<>>
  <2>1. z = [u EXCEPT !.mode = m, !.buf = <<>>] BY <1>2 DEF AtNewline
  <2>m. /\ m.nobs = y.mode.nobs /\ m.ansi = y.mode.ansi
        /\ m.delim[1] # "\n" \/ m.delim = y.mode.delim
    <3>1. u.buf \in Seq(S) /\ u.mode \in SplitterConfigs(S) BY DEF Lexers
    <3>2. line \in Seq(S) /\ IsDelimiterCommand(line) BY <1>2, <3>1, LineHasWord
    <3>3. m = HandleDelimiterCommand(u.mode, line) OBVIOUS
    <3> HIDE DEF m, line
    <3> QED BY <3>1, <3>2, <3>3, CommandKeeps
  <2> HIDE DEF z, m, line
  <2>2. z.mode = m /\ z.buf = <<>> /\ z.out = u.out /\ z.st = u.st BY <2>1 DEF Lexers
  <2>3. Traced(d, z) BY <2>2, TracedEmpty
  <2>4. Commanded(y, z) BY <2>2, <2>m DEF Commanded
  <2> QED BY <2>3, <2>4 DEF Onward, z
<1> QED BY <1>1, <1>2

LEMMA DelimiterOnward ==
  ASSUME NEW S, NEW d \in Seq(S), NEW y \in Lexers(S), y.st = Default, DelimAt(d, y.i, y.mode.delim)
  PROVE  Onward(d, y, AtDelimiter(y))
<1> DEFINE j == y.i + Len(y.mode.delim)
           mode == IF IsSetStatement(y.buf) THEN ObserveSet(y.mode, y.buf) ELSE y.mode
           cmd == HandleDelimiterCommand(y.mode, y.buf)
           out == Append(y.out, [text |-> y.buf, next |-> j,
                                 delim |-> y.mode.delim, mode |-> mode])
           z == AtDelimiter(y)
<1>1. CASE IsDelimiterCommand(y.buf)
  <2>1. z = [y EXCEPT !.i = j, !.buf = <<>>, !.mode = cmd]
    BY <1>1 DEF AtDelimiter, Lexers
  <2>m. /\ cmd.nobs = y.mode.nobs /\ cmd.ansi = y.mode.ansi
        /\ cmd.delim[1] # "\n" \/ cmd.delim = y.mode.delim
    <3>1. y.buf \in Seq(S) /\ y.mode \in SplitterConfigs(S) BY DEF Lexers
    <3>2. cmd = HandleDelimiterCommand(y.mode, y.buf) OBVIOUS
    <3> HIDE DEF cmd
    <3> QED BY <1>1, <3>1, <3>2, CommandKeeps
  <2> HIDE DEF z, cmd, j
  <2>2. z.buf = <<>> /\ z.st = Default /\ z.out = y.out /\ z.mode = cmd
    BY <2>1 DEF Lexers
  <2>3. Traced(d, z) BY <2>2, TracedEmpty
  <2>4. Commanded(y, z) BY <2>2, <2>m DEF Commanded
  <2> QED BY <2>3, <2>4 DEF Onward, z
<1>2. CASE ~IsDelimiterCommand(y.buf)
  <2>1. z = [y EXCEPT !.i = j, !.buf = <<>>, !.mode = mode, !.out = out]
    BY <1>2 DEF AtDelimiter, Lexers
  <2>m. mode.delim = y.mode.delim
    <3>1. y.mode \in SplitterConfigs(S) BY DEF Lexers
    <3> QED BY <3>1, SetKeeps
  <2> HIDE DEF z, mode, j, out
  <2>2. z.i = j /\ z.buf = <<>> /\ z.st = Default /\ z.out = out /\ z.mode = mode
    BY <2>1 DEF Lexers
  <2>3. Traced(d, z) BY <2>2, TracedEmpty
  <2>4. z.out = Append(y.out, [text |-> y.buf, next |-> z.i,
                               delim |-> y.mode.delim, mode |-> z.mode])
    BY <2>2 DEF out
  <2>5. Delivered(d, y, z) BY <2>2, <2>4, <2>m DEF Delivered
  <2> QED BY <2>3, <2>5 DEF Onward, z
<1> QED BY <1>1, <1>2

LEMMA DefaultOnward ==
  ASSUME NEW S, NEW d \in Seq(S), NEW y \in Lexers(S), y.st = Default,
         y.i \in 1..Len(d), BufStart(y) \in 1..y.i, Traced(d, y),
         ~y.mode.ansi, OpensNothing(y.mode.delim), y.mode.delim[1] # "\n"
  PROVE  Onward(d, y, FeedDefault(d, y, Len(d)))
<1> DEFINE b == d[y.i]
           c == d[y.i + 1]
           z == FeedDefault(d, y, Len(d))
           u == Take(d, y)
<1>1. /\ Len(d) \in Nat /\ y.i \in Nat \ {0} /\ y.mode.delim \in Seq(S)
      /\ y.mode.delim # <<>>
  BY LenProperties DEF Lexers, SplitterConfigs
<1>2. ASSUME NEW st \in LexStates,
             y.i + 1 <= Len(d) => PlaceOf(st) = Opened(b, c) /\ ~DelimAt(d, y.i, y.mode.delim)
      PROVE  /\ Onward(d, y, [u EXCEPT !.st = st])
             /\ st = Default => Onward(d, y, u)
  <2>1. y.i + 1 <= Len(d) => GoesOn(y.mode.nobs, PlaceOf(y.st), PlaceOf(st), b, c)
    BY <1>2, PlacesDiffer, PlacesOfStates DEF GoesOn
  <2> HIDE DEF u, b, c
  <2> QED BY <1>2, <2>1, EnterOnward DEF u, b, c
<1>3. ASSUME \/ b \in {"'", "\"", "bq", "#"} \/ (b = "-" /\ c = "-") \/ (b = "/" /\ c = "*")
      PROVE  ~DelimAt(d, y.i, y.mode.delim)
  BY <1>1, <1>3, NoDelim
<1>4. Next1(d, y, Len(d)) = IF y.i + 1 <= Len(d) THEN c ELSE "none" BY DEF Next1
<1>q. ASSUME NEW p \in Quotes, b = Mark(p) PROVE Onward(d, y, [u EXCEPT !.st = p])
  <2>1. p \in LexStates /\ PlaceOf(p) = p BY PlacesOfStates DEF Quotes, LexStates
  <2>2. Opened(b, c) = p /\ b \in {"'", "\"", "bq"} BY <1>q, MarksDiffer
  <2> QED BY <1>2, <1>3, <2>1, <2>2
<1>5. CASE b = "'"
  <2>1. z = [u EXCEPT !.st = SingleQuote] BY <1>5 DEF FeedDefault
  <2> QED BY <1>5, <1>q, <2>1, MarksDiffer DEF Quotes
<1>6. CASE b = "\""
  <2>1. z = [u EXCEPT !.st = DoubleQuote] BY <1>6 DEF FeedDefault
  <2> QED BY <1>6, <1>q, <2>1, MarksDiffer DEF Quotes
<1>7. CASE b = "bq"
  <2>1. z = [u EXCEPT !.st = Backtick] BY <1>7 DEF FeedDefault
  <2> QED BY <1>7, <1>q, <2>1, MarksDiffer DEF Quotes
<1>8. CASE b = "#" \/ (b = "-" /\ Next1(d, y, Len(d)) = "-")
  <2>1. \E st \in {LineComment, HashComment} : z = [u EXCEPT !.st = st]
    BY <1>8 DEF FeedDefault
  <2>2. b = "#" \/ (b = "-" /\ c = "-")
    <3> HIDE DEF b, c
    <3> QED BY <1>4, <1>8
  <2>3. Opened(b, c) = LineComment
    <3> HIDE DEF b, c
    <3> QED BY <2>2 DEF Opened
  <2>4. \A st \in {LineComment, HashComment} : st \in LexStates /\ PlaceOf(st) = LineComment
    BY PlacesOfStates DEF LexStates
  <2>5. ~DelimAt(d, y.i, y.mode.delim) BY <1>3, <2>2
  <2> HIDE DEF z, u, b, c
  <2> QED BY <1>2, <2>1, <2>3, <2>4, <2>5 DEF z
<1>9. CASE b = "/" /\ Next1(d, y, Len(d)) = "*"
  <2>1. \E st \in {BlockComment, ExecComment} : z = [u EXCEPT !.st = st]
    BY <1>9 DEF FeedDefault
  <2>2. b = "/" /\ c = "*"
    <3> HIDE DEF b, c
    <3> QED BY <1>4, <1>9
  <2>3. Opened(b, c) = BlockComment
    <3> HIDE DEF b, c
    <3> QED BY <2>2 DEF Opened
  <2>4. \A st \in {BlockComment, ExecComment} : st \in LexStates /\ PlaceOf(st) = BlockComment
    BY PlacesOfStates DEF LexStates
  <2>5. ~DelimAt(d, y.i, y.mode.delim) BY <1>3, <2>2
  <2> HIDE DEF z, u, b, c
  <2> QED BY <1>2, <2>1, <2>3, <2>4, <2>5 DEF z
<1>d. Default \in LexStates /\ PlaceOf(Default) = Default BY PlacesOfStates DEF LexStates
<1>10. CASE b = "\n"
  <2>1. z = AtNewline(u) BY <1>10 DEF FeedDefault
  <2>2. Opened(b, c) = Default BY <1>10 DEF Opened
  <2>3. ~DelimAt(d, y.i, y.mode.delim) BY <1>1, <1>10, DelimFirst
  <2>4. Onward(d, y, u) BY <1>2, <1>d, <2>2, <2>3
  <2>5. u \in Lexers(S)
    <3>1. Len(d) \in 0..Len(d) BY <1>1
    <3> QED BY <3>1, OneRound DEF Round
  <2>6. u.mode = y.mode /\ u.out = y.out /\ u.st = Default BY TakeFields
  <2> HIDE DEF u
  <2> QED BY <2>1, <2>4, <2>5, <2>6, NewlineOnward
<1>11. CASE /\ b \notin {"'", "\"", "bq", "#", "\n"}
            /\ ~(b = "-" /\ Next1(d, y, Len(d)) = "-")
            /\ ~(b = "/" /\ Next1(d, y, Len(d)) = "*")
  <2>1. z = IF DelimiterMatch(d, y, Len(d)) THEN AtDelimiter(y) ELSE u
    BY <1>11 DEF FeedDefault
  <2>2. DelimiterMatch(d, y, Len(d)) <=> DelimAt(d, y.i, y.mode.delim)
    BY DEF DelimiterMatch, DelimAt
  <2>3. CASE DelimAt(d, y.i, y.mode.delim) BY <2>1, <2>2, <2>3, DelimiterOnward
  <2>4. CASE ~DelimAt(d, y.i, y.mode.delim)
    <3>1. z = u BY <2>1, <2>2, <2>4
    <3>2. y.i + 1 <= Len(d) => Opened(b, c) = Default
      <4> HIDE DEF b, c
      <4> QED BY <1>4, <1>11 DEF Opened
    <3>3. Onward(d, y, u) BY <1>2, <1>d, <2>4, <3>2
    <3> HIDE DEF z, u
    <3> QED BY <3>1, <3>3 DEF z
  <2> QED BY <2>3, <2>4
<1> QED BY <1>5, <1>6, <1>7, <1>8, <1>9, <1>10, <1>11

LEMMA QuotedOnward ==
  ASSUME NEW S, NEW d \in Seq(S), NEW y \in Lexers(S),
         y.i \in 1..Len(d), BufStart(y) \in 1..y.i, Traced(d, y),
         NEW p \in Quotes, y.st = p, NEW escapes, escapes <=> p # Backtick
  PROVE  Onward(d, y, FeedQuoted(d, y, Len(d), Mark(p), escapes))
<1> DEFINE b == d[y.i]
           c == d[y.i + 1]
           z == FeedQuoted(d, y, Len(d), Mark(p), escapes)
           u == Take(d, y)
           next == y.i + 1 <= Len(d)
<1>1. /\ p \in LexStates /\ Default \in LexStates /\ PlaceOf(p) = p /\ p # Default
      /\ PlaceOf(Default) = Default
  BY PlacesOfStates, PlacesDiffer DEF Quotes, LexStates
<1>2. \A q : GoesOn(y.mode.nobs, p, q, b, c) <=> q = Within(p, y.mode.nobs, b, c)
  BY PlacesDiffer DEF GoesOn
<1>3. ASSUME NEW st \in LexStates,
             next => PlaceOf(st) = Within(p, y.mode.nobs, b, c)
      PROVE  /\ Onward(d, y, [u EXCEPT !.st = st])
             /\ st = p => Onward(d, y, u)
  <2>1. next => GoesOn(y.mode.nobs, PlaceOf(y.st), PlaceOf(st), b, c) BY <1>1, <1>2, <1>3
  <2> HIDE DEF u, b, c
  <2> QED BY <1>1, <2>1, EnterOnward DEF u, b, c
<1>4. ASSUME next, Within(p, y.mode.nobs, b, c) = Inner
      PROVE  Onward(d, y, Take2(d, y))
  <2>1. GoesOn(y.mode.nobs, p, Inner, b, c) BY <1>2, <1>4
  <2>2. p # BlockComment /\ PlaceOf(y.st) = p BY <1>1, PlacesDiffer
  <2> QED BY <1>4, <2>1, <2>2, Enter2Onward
<1>5. Next1(d, y, Len(d)) = (IF next THEN c ELSE "none") /\ Mark(p) \notin {"none", "\\"}
  BY MarksDiffer DEF Next1
<1>6. CASE b = "\\" /\ escapes /\ ~y.mode.nobs
  <2>1. z = IF next THEN Take2(d, y) ELSE u BY <1>6 DEF FeedQuoted
  <2>2. Within(p, y.mode.nobs, b, c) = Inner
    <3> HIDE DEF b, c
    <3> QED BY <1>6 DEF Within
  <2> HIDE DEF z, u
  <2> QED BY <1>1, <1>3, <1>4, <2>1, <2>2 DEF z
<1>7. CASE ~(b = "\\" /\ escapes /\ ~y.mode.nobs) /\ b # Mark(p)
  <2>1. z = u BY <1>7 DEF FeedQuoted
  <2>2. Within(p, y.mode.nobs, b, c) = p
    <3> HIDE DEF b, c
    <3> QED BY <1>7 DEF Within
  <2> HIDE DEF z, u
  <2> QED BY <1>1, <1>3, <2>1, <2>2 DEF z
<1>8. CASE b = Mark(p) /\ Next1(d, y, Len(d)) = Mark(p)
  <2>1. z = Take2(d, y) BY <1>5, <1>8 DEF FeedQuoted
  <2>2. next /\ c = b
    <3> HIDE DEF b, c, next
    <3> QED BY <1>5, <1>8
  <2>3. Within(p, y.mode.nobs, b, c) = Inner
    <3> HIDE DEF b, c
    <3> QED BY <1>5, <1>8, <2>2 DEF Within
  <2> HIDE DEF z
  <2> QED BY <1>4, <2>1, <2>2, <2>3 DEF z
<1>9. CASE b = Mark(p) /\ Next1(d, y, Len(d)) # Mark(p)
  <2>1. z = [u EXCEPT !.st = Default] BY <1>5, <1>9 DEF FeedQuoted
  <2>2. next => c # b
    <3> HIDE DEF b, c, next
    <3> QED BY <1>5, <1>9
  <2>3. next => Within(p, y.mode.nobs, b, c) = Default
    <3> HIDE DEF b, c
    <3> QED BY <1>5, <1>9, <2>2 DEF Within
  <2> HIDE DEF z, u, next
  <2> QED BY <1>1, <1>3, <2>1, <2>3 DEF z
<1>10. b = "\\" => b # Mark(p) BY <1>5
<1> QED BY <1>6, <1>7, <1>8, <1>9, <1>10

LEMMA LineOnward ==
  ASSUME NEW S, NEW d \in Seq(S), NEW y \in Lexers(S),
         y.i \in 1..Len(d), BufStart(y) \in 1..y.i, Traced(d, y),
         y.st \in {LineComment, HashComment}
  PROVE  Onward(d, y, FeedLineComment(d, y))
<1> DEFINE st == IF d[y.i] = "\n" THEN Default ELSE y.st
           z == FeedLineComment(d, y)
<1>1. z = [Take(d, y) EXCEPT !.st = st]
  <2>1. Take(d, y).st = y.st BY TakeFields
  <2> QED BY <2>1 DEF FeedLineComment
<1>2. st \in LexStates /\ y.st # Default /\ PlaceOf(y.st) = LineComment
      /\ PlaceOf(st) = IF d[y.i] = "\n" THEN Default ELSE LineComment
  BY PlacesOfStates, States DEF LexStates
<1>3. GoesOn(y.mode.nobs, PlaceOf(y.st), PlaceOf(st), d[y.i], d[y.i + 1])
  BY <1>2, PlacesDiffer DEF GoesOn
<1> HIDE DEF st, z
<1>4. Onward(d, y, [Take(d, y) EXCEPT !.st = st]) BY <1>2, <1>3, EnterOnward
<1> QED BY <1>1, <1>4 DEF z

LEMMA BlockOnward ==
  ASSUME NEW S, NEW d \in Seq(S), NEW y \in Lexers(S),
         y.i \in 1..Len(d), BufStart(y) \in 1..y.i, Traced(d, y), y.st \in BlockComments
  PROVE  Onward(d, y, FeedBlockComment(d, y, Len(d)))
<1> DEFINE b == d[y.i]
           c == d[y.i + 1]
           z == FeedBlockComment(d, y, Len(d))
           next == y.i + 1 <= Len(d)
<1>1. /\ y.st \in LexStates /\ y.st # Default /\ PlaceOf(y.st) = BlockComment
  BY PlacesOfStates, States DEF LexStates, BlockComments
<1>2. \A q : GoesOn(y.mode.nobs, BlockComment, q, b, c)
               <=> q = IF b = "*" /\ c = "/" THEN Inner ELSE BlockComment
  BY PlacesDiffer DEF GoesOn
<1>3. Next1(d, y, Len(d)) = IF next THEN c ELSE "none" BY DEF Next1
<1>4. CASE b = "*" /\ Next1(d, y, Len(d)) = "/"
  <2>1. z = [Take2(d, y) EXCEPT !.st = Default] BY <1>4 DEF FeedBlockComment
  <2>2. next /\ c = "/"
    <3> HIDE DEF b, c, next
    <3> QED BY <1>3, <1>4
  <2>3. GoesOn(y.mode.nobs, BlockComment, Inner, b, c) BY <1>2, <1>4, <2>2
  <2>4. Onward(d, y, [Take2(d, y) EXCEPT !.st = Default])
    BY <1>1, <2>2, <2>3, Enter2Onward
  <2> QED BY <2>1, <2>4
<1>5. CASE ~(b = "*" /\ Next1(d, y, Len(d)) = "/")
  <2>1. z = Take(d, y) BY <1>5 DEF FeedBlockComment
  <2>2. next => ~(b = "*" /\ c = "/")
    <3> HIDE DEF b, c, next
    <3> QED BY <1>3, <1>5
  <2>3. next => GoesOn(y.mode.nobs, BlockComment, BlockComment, b, c) BY <1>2, <2>2
  <2>4. Onward(d, y, Take(d, y)) BY <1>1, <2>3, EnterOnward
  <2> QED BY <2>1, <2>4
<1> QED BY <1>4, <1>5

(* One round of Feed, in any state. *)
LEMMA FeedOnward ==
  ASSUME NEW S, NEW d \in Seq(S), NEW y \in Lexers(S),
         y.i \in 1..Len(d), BufStart(y) \in 1..y.i, Traced(d, y),
         ~y.mode.ansi, OpensNothing(y.mode.delim), y.mode.delim[1] # "\n"
  PROVE  Onward(d, y, Feed(d, y, Len(d)))
<1>1. CASE y.st = Default
  <2>1. Feed(d, y, Len(d)) = FeedDefault(d, y, Len(d)) BY <1>1, States DEF Feed
  <2> QED BY <1>1, <2>1, DefaultOnward
<1>q. ASSUME NEW p \in Quotes, y.st = p, NEW escapes, escapes <=> p # Backtick
      PROVE  Onward(d, y, FeedQuoted(d, y, Len(d), Mark(p), escapes))
  BY <1>q, QuotedOnward
<1>2. CASE y.st = SingleQuote
  <2> DEFINE yes == TRUE
  <2>1. yes <=> SingleQuote # Backtick BY States
  <2>2. Feed(d, y, Len(d)) = FeedQuoted(d, y, Len(d), Mark(SingleQuote), yes)
    BY <1>2, States, MarksDiffer DEF Feed
  <2> HIDE DEF yes
  <2> QED BY <1>2, <1>q, <2>1, <2>2 DEF Quotes
<1>3. CASE y.st = DoubleQuote
  <2> DEFINE yes == TRUE
  <2>1. yes <=> DoubleQuote # Backtick BY States
  <2>2. Feed(d, y, Len(d)) = FeedQuoted(d, y, Len(d), Mark(DoubleQuote), yes)
    BY <1>3, States, MarksDiffer DEF Feed
  <2> HIDE DEF yes
  <2> QED BY <1>3, <1>q, <2>1, <2>2 DEF Quotes
<1>4. CASE y.st = Backtick
  <2> DEFINE no == FALSE
  <2>1. no <=> Backtick # Backtick OBVIOUS
  <2>2. Feed(d, y, Len(d)) = FeedQuoted(d, y, Len(d), Mark(Backtick), no)
    BY <1>4, States, MarksDiffer DEF Feed
  <2> HIDE DEF no
  <2> QED BY <1>4, <1>q, <2>1, <2>2 DEF Quotes
<1>5. CASE y.st \in {LineComment, HashComment}
  <2>1. Feed(d, y, Len(d)) = FeedLineComment(d, y) BY <1>5, States DEF Feed
  <2> QED BY <1>5, <2>1, LineOnward
<1>6. CASE y.st \in BlockComments
  <2>1. Feed(d, y, Len(d)) = FeedBlockComment(d, y, Len(d))
    BY <1>6, States DEF Feed, BlockComments
  <2> QED BY <1>6, <2>1, BlockOnward
<1>7. y.st \in LexStates BY DEF Lexers
<1> QED BY <1>1, <1>2, <1>3, <1>4, <1>5, <1>6, <1>7 DEF LexStates, BlockComments

------------------------------------------------------------------------------
(* Where a statement is emitted. *)

LEMMA PrefixAt ==
  ASSUME NEW S, NEW d \in Seq(S), NEW a \in 1..Len(d), NEW e \in a..Len(d),
         NEW p \in 0..(e - a), NEW delim \in Seq(S), delim # <<>>,
         IsPrefix(delim, SubSeq(SubSeq(d, a, e), p + 1, e - a + 1))
  PROVE  DelimAt(d, a + p, delim)
<1> DEFINE w == Len(delim)
           s == SubSeq(d, a, e)
           r == SubSeq(s, p + 1, e - a + 1)
           i == a + p
<1>1. Len(d) \in Nat /\ w \in Nat \ {0} BY LenProperties, EmptySeq
<1>2. r = SubSeq(d, i, e)
  <2>1. /\ e \in 1..Len(d) /\ p + 1 \in 1..(e - a + 1) /\ e - a + 1 \in 1..(e - a + 1)
        /\ a + (p + 1) - 1 = i /\ a + (e - a + 1) - 1 = e
    BY <1>1
  <2> DEFINE m == p + 1
             n == e - a + 1
  <2>2. m \in 1..n /\ n \in 1..n /\ a + m - 1 = i /\ a + n - 1 = e BY <2>1
  <2>3. SubSeq(SubSeq(d, a, e), m, n) = SubSeq(d, a + m - 1, a + n - 1)
    <3> HIDE DEF m
    <3> QED BY <2>1, <2>2, SubSeqOfSubSeq
  <2> QED BY <2>2, <2>3
<1>3. i \in 1..Len(d) /\ i \in 1..(Len(d) + 1) /\ e \in (i - 1)..Len(d) BY <1>1
<1>4. Len(r) = e - i + 1 BY <1>2, <1>3, Slice
<1>5. w <= Len(r) /\ SubSeq(delim, 1, w) = SubSeq(r, 1, w) BY DEF IsPrefix
<1>6. SubSeq(delim, 1, w) = delim BY SubSeqFull
<1> HIDE DEF r, w, i
<1>7. /\ i + w - 1 <= Len(d) /\ e \in 1..Len(d) /\ 1 \in 1..(e - i + 1)
      /\ w \in 1..(e - i + 1) /\ i + 1 - 1 = i
  BY <1>1, <1>3, <1>4, <1>5
<1>8. SubSeq(SubSeq(d, i, e), 1, w) = SubSeq(d, i + 1 - 1, i + w - 1)
  BY <1>3, <1>7, SubSeqOfSubSeq
<1>9. SubSeq(d, i, i + w - 1) = delim BY <1>2, <1>5, <1>6, <1>7, <1>8
<1> QED BY <1>7, <1>9 DEF DelimAt, w, i

LEMMA Shifted ==
  ASSUME NEW a \in Nat \ {0}, NEW n \in Nat, NEW w \in Nat \ {0}, NEW k \in 0..(n - 1)
  PROVE  /\ k + 1 \in 1..(n + w) /\ k + 2 \in 1..(n + w)
         /\ a + (k + 1) - 1 = a + k /\ a + (k + 2) - 1 = a + k + 1
OBVIOUS

(* At a delimiter outside of all tokens a statement ends, and it is the    *)
(* first such delimiter.                                                   *)
LEMMA EndsHere ==
  ASSUME NEW S, NEW d \in Seq(S), NEW y \in Lexers(S), y.i \in 1..Len(d),
         BufStart(y) \in 1..y.i, y.buf = SubSeq(d, BufStart(y), y.i - 1),
         Traced(d, y), y.st = Default, DelimAt(d, y.i, y.mode.delim),
         OpensNothing(y.mode.delim), NEW m, m.nobs = y.mode.nobs, ~m.ansi
  PROVE  LET s == y.buf \o y.mode.delim
             B == BetweenTokens(s, m)
         IN  /\ Len(y.buf) \in B
             /\ \A p \in B : p < Len(y.buf) =>
                  ~IsPrefix(y.mode.delim, SubSeq(s, p + 1, Len(s)))
<1> DEFINE a == BufStart(y)
           n == Len(y.buf)
           delim == y.mode.delim
           w == Len(delim)
           e == y.i + w - 1
           s == y.buf \o delim
           B == BetweenTokens(s, m)
<1>1. /\ Len(d) \in Nat /\ y.i \in Nat \ {0} /\ y.buf \in Seq(S) /\ n \in Nat
      /\ delim \in Seq(S) /\ delim # <<>> /\ w \in Nat \ {0}
  <2>1. y.buf \in Seq(S) /\ delim \in Seq(S) /\ delim # <<>>
    BY DEF Lexers, SplitterConfigs
  <2>2. w \in Nat \ {0} BY <2>1, EmptySeq
  <2> HIDE DEF delim, w
  <2> QED BY <2>1, <2>2, LenProperties
<1>2. e <= Len(d) /\ delim = SubSeq(d, y.i, e) BY DEF DelimAt
<1>3. a + n = y.i /\ a \in Nat \ {0}
  <2> HIDE DEF w, delim
  <2> QED BY <1>1 DEF BufStart
<1> HIDE DEF a, n, w, delim
<1>0. e = y.i + w - 1 OBVIOUS
<1> HIDE DEF e
<1> DEFINE i == y.i
           N == Len(d)
<1>3a. /\ N \in Nat /\ i \in Nat \ {0} /\ n \in Nat /\ w \in Nat \ {0} /\ a \in Nat \ {0}
       /\ e <= N /\ a + n = i /\ e = i + w - 1
  BY <1>0, <1>1, <1>2, <1>3
<1> HIDE DEF i, N
<1>4a. e \in Nat /\ a <= i /\ i <= e /\ a <= e BY <1>3a
<1>4b. /\ a \in 1..N /\ e \in a..N /\ e \in i..N /\ e - a + 1 = n + w
       /\ a \in 1..(N + 1) /\ i - 1 \in (a - 1)..N /\ e \in (i - 1)..N
       /\ i - 1 + 1 = i /\ e \in (a - 1)..N
  BY <1>3a, <1>4a
<1>4. /\ a \in 1..Len(d) /\ e \in a..Len(d) /\ e \in y.i..Len(d) /\ e = y.i + w - 1
      /\ e - a + 1 = n + w
  BY <1>0, <1>4b DEF i, N
<1>5. s = SubSeq(d, a, e)
  <2>1. /\ a \in 1..(Len(d) + 1) /\ y.i - 1 \in (a - 1)..Len(d) /\ e \in (y.i - 1)..Len(d)
        /\ y.i - 1 + 1 = y.i
    BY <1>4b DEF i, N
  <2>2. SubSeq(d, a, y.i - 1) \o SubSeq(d, y.i - 1 + 1, e) = SubSeq(d, a, e)
    BY <2>1, ConcatAdjacentSubSeq
  <2> QED BY <1>2, <2>1, <2>2 DEF a
<1> HIDE DEF s
<1>6. s \in Seq(S) /\ Len(s) = e - a + 1 /\ \A k \in 1..(e - a + 1) : s[k] = d[a + k - 1]
  <2>1. a \in 1..(Len(d) + 1) /\ e \in (a - 1)..Len(d) BY <1>4b DEF N
  <2> QED BY <1>5, <2>1, Slice
<1>7. n + 1 <= Len(s) /\ Len(s) = n + w BY <1>1, <1>4, <1>6
<1>8. PICK h : /\ ReadAt(d, a, m.nobs, h, n) /\ h[n] = PlaceOf(Default)
               /\ \A k \in 0..(n - 1) : h[k] = Default => ~DelimAt(d, a + k, delim)
  BY <1>1 DEF Traced, a, n, delim
<1>9. h[n] = Default BY <1>8, PlacesOfStates
<1>10. Reading(s, m.nobs, h, n)
  <2>1. ASSUME NEW k \in 0..(n - 1) PROVE Moves(m.nobs, h, k, s[k + 1], s[k + 2])
    <3>1. /\ k + 1 \in 1..(e - a + 1) /\ k + 2 \in 1..(e - a + 1)
          /\ a + (k + 1) - 1 = a + k /\ a + (k + 2) - 1 = a + k + 1
      <4>1. /\ k + 1 \in 1..(n + w) /\ k + 2 \in 1..(n + w)
            /\ a + (k + 1) - 1 = a + k /\ a + (k + 2) - 1 = a + k + 1
        BY <1>3a, Shifted
      <4> QED BY <1>4b, <4>1
    <3>2. s[k + 1] = d[a + k] /\ s[k + 2] = d[a + k + 1] BY <1>6, <3>1
    <3> QED BY <1>8, <3>2 DEF ReadAt
  <2> QED BY <1>8, <2>1 DEF ReadAt, Reading
<1>11. n \in B
  <2>1. n \in 0..n BY <1>1
  <2> QED BY <1>1, <1>6, <1>7, <1>9, <1>10, <2>1, FreeIsBetween
<1>12. ASSUME NEW p \in B, p < n PROVE ~IsPrefix(delim, SubSeq(s, p + 1, Len(s)))
  <2>1. p \in 0..Len(s) BY <1>6, BetweenIs
  <2>2. p \in 0..n /\ p \in 0..(n - 1) /\ p \in 0..(e - a)
    BY <1>1, <1>4, <1>7, <1>12, <2>1
  <2>3. Free(s, h, p) BY <1>1, <1>6, <1>7, <1>10, <2>2, BetweenIsFree
  <2> SUFFICES ASSUME IsPrefix(delim, SubSeq(s, p + 1, Len(s))) PROVE FALSE OBVIOUS
  <2>4. DelimAt(d, a + p, delim)
    <3>1. IsPrefix(delim, SubSeq(SubSeq(d, a, e), p + 1, e - a + 1))
      BY <1>5, <1>6
    <3> HIDE DEF B
    <3> QED BY <1>1, <1>4, <2>2, <3>1, PrefixAt
  <2>5. CASE h[p] = Default BY <1>8, <2>2, <2>4, <2>5
  <2>6. CASE Doubled(s, h, p)
    <3>1. s[p + 1] \in {"'", "\"", "bq"} BY <2>6, MarksDiffer DEF Doubled
    <3>2. p + 1 \in 1..(e - a + 1) /\ a + (p + 1) - 1 = a + p /\ a + p \in Nat \ {0}
      <4> DEFINE j == p
      <4>1. j \in 0..(e - a) BY <2>2
      <4> HIDE DEF j
      <4>2. j + 1 \in 1..(e - a + 1) /\ a + (j + 1) - 1 = a + j /\ a + j \in Nat \ {0}
        BY <1>3a, <1>4a, <4>1
      <4> QED BY <4>2 DEF j
    <3>3. s[p + 1] = d[a + p] BY <1>6, <3>2
    <3>4. delim[1] = d[a + p] BY <1>1, <2>4, <3>2, DelimFirst
    <3>5. delim[1] \notin {"'", "\"", "bq"} BY <1>1, OpensNothingIs DEF delim
    <3> QED BY <3>1, <3>3, <3>4, <3>5
  <2> QED BY <2>3, <2>5, <2>6 DEF Free
<1> QED BY <1>11, <1>12 DEF n, s, delim

------------------------------------------------------------------------------
(* What Split's lexer keeps while it reads. *)
Ruled(d, y) ==
  /\ Traced(d, y) /\ y.mode.delim[1] # "\n"
  /\ y.mode.nobs = ModeBefore(y.out, Len(y.out) + 1).nobs
  /\ y.mode.ansi = ModeBefore(y.out, Len(y.out) + 1).ansi
  /\ \A k \in DOMAIN y.out : EndsAtFirst(y.out, k)

(* One statement more changes nothing of the ones before. *)
OneMore(out, o, out1) ==
  /\ Len(out) \in Nat /\ Len(out1) = Len(out) + 1 /\ out1[Len(out) + 1] = o
  /\ DOMAIN out1 = DOMAIN out \cup {Len(out) + 1}
  /\ ModeBefore(out1, Len(out) + 1) = ModeBefore(out, Len(out) + 1)
  /\ ModeBefore(out1, Len(out1) + 1) = o.mode
  /\ \A k \in DOMAIN out : EndsAtFirst(out, k) => EndsAtFirst(out1, k)

LEMMA AppendEnds ==
  ASSUME NEW T, NEW out \in Seq(T), NEW o \in T
  PROVE  OneMore(out, o, Append(out, o))
<1> DEFINE out1 == Append(out, o)
<1> DEFINE n == Len(out)
<1>1. n \in Nat /\ DOMAIN out = 1..n BY LenProperties
<1>2. /\ Len(out1) = n + 1 /\ out1[n + 1] = o /\ out1 \in Seq(T)
      /\ \A k \in 1..n : out1[k] = out[k]
  BY AppendProperties
<1>3. DOMAIN out1 = 1..(n + 1)
  <2> HIDE DEF n
  <2> QED BY <1>2, LenProperties
<1> HIDE DEF n, out1
<1>4. DOMAIN out1 = DOMAIN out \cup {n + 1} BY <1>1, <1>3
<1>5. ASSUME NEW k \in 1..(n + 1) PROVE ModeBefore(out1, k) = ModeBefore(out, k)
  <2>1. k # 1 => k - 1 \in 1..n BY <1>1
  <2> QED BY <1>2, <2>1 DEF ModeBefore
<1>6. ModeBefore(out1, n + 2) = o.mode
  <2> DEFINE j == n + 2
  <2>1. j # 1 /\ j - 1 = n + 1 BY <1>1
  <2> HIDE DEF j
  <2>2. ModeBefore(out1, j) = out1[n + 1].mode BY <2>1 DEF ModeBefore
  <2> QED BY <1>2, <2>2 DEF j
<1>7. ASSUME NEW k \in DOMAIN out, EndsAtFirst(out, k) PROVE EndsAtFirst(out1, k)
  <2>1. k \in 1..n /\ k \in 1..(n + 1) BY <1>1
  <2>2. out1[k] = out[k] /\ ModeBefore(out1, k) = ModeBefore(out, k) BY <1>2, <1>5, <2>1
  <2> QED BY <1>7, <2>2 DEF EndsAtFirst
<1>8. n + 1 \in 1..(n + 1) /\ n + 1 + 1 = n + 2 BY <1>1
<1>9. OneMore(out, o, out1)
  BY <1>1, <1>2, <1>4, <1>5, <1>6, <1>7, <1>8 DEF n, OneMore
<1> QED BY <1>9 DEF out1

(* A round of Split's lexer keeps Ruled. *)
LEMMA RuledRound ==
  ASSUME NEW S, NEW d \in Seq(S), NEW y \in Lexers(S), y.i \in 1..Len(d),
         Sliced(d, 1, y), Ruled(d, y), ~y.mode.ansi, OpensNothing(y.mode.delim)
  PROVE  Ruled(d, Feed(d, y, Len(d)))
<1> DEFINE y1 == Feed(d, y, Len(d))
           n == Len(y.out)
           o == [text |-> y.buf, next |-> y1.i, delim |-> y.mode.delim, mode |-> y1.mode]
           m == ModeBefore(y.out, n + 1)
<1>1. Len(d) \in Nat /\ Len(d) \in 0..Len(d) /\ y.i \in 1..(Len(d) + 1) /\ 1 \in Nat \ {0}
  BY LenProperties
<1>2. BufStart(y) \in 1..y.i BY <1>1, BufAt
<1>3. Onward(d, y, y1) BY <1>2, FeedOnward DEF Ruled
<1>4. y1 \in Lexers(S)
  <2>1. Round(S, d, y, y1, Len(d)) BY <1>1, FeedRound
  <2> QED BY <2>1 DEF Round
<1> HIDE DEF y1
<1>5. CASE y1.mode = y.mode /\ y1.out = y.out
  BY <1>3, <1>5 DEF Onward, Ruled, y1
<1>6. CASE Commanded(y, y1)
  <2>1. y1.mode.delim[1] # "\n" BY <1>6 DEF Commanded, Ruled
  <2> QED BY <1>3, <1>6, <2>1 DEF Onward, Commanded, Ruled, y1
<1>7. CASE Delivered(d, y, y1)
  <2>1. /\ y.out \in Seq(Statements(S)) /\ o \in Statements(S) /\ y1.out = Append(y.out, o)
        /\ y1.mode.delim = y.mode.delim /\ y.st = Default /\ DelimAt(d, y.i, y.mode.delim)
    <3>1. y1.i \in Nat /\ y1.i > y.i
      <4>1. Round(S, d, y, y1, Len(d)) BY <1>1, FeedRound DEF y1
      <4> QED BY <4>1 DEF Round, Lexers
    <3>2. y1.i \in Nat \ {0} BY <3>1 DEF Lexers
    <3>3. /\ y.buf \in Seq(S) /\ y.mode.delim \in Seq(S)
          /\ y1.mode \in SplitterConfigs(S) /\ y.out \in Seq(Statements(S))
      BY <1>4 DEF Lexers, SplitterConfigs
    <3> QED BY <1>7, <3>2, <3>3 DEF Delivered, Statements
  <2>2. o.text = y.buf /\ o.delim = y.mode.delim /\ o.mode = y1.mode OBVIOUS
  <2> HIDE DEF o
  <2>3. /\ n \in Nat /\ Len(y1.out) = n + 1 /\ y1.out[n + 1] = o
        /\ DOMAIN y1.out = DOMAIN y.out \cup {n + 1}
        /\ ModeBefore(y1.out, n + 1) = m /\ ModeBefore(y1.out, Len(y1.out) + 1) = o.mode
        /\ \A k \in DOMAIN y.out : EndsAtFirst(y.out, k) => EndsAtFirst(y1.out, k)
    <3>1. OneMore(y.out, o, y1.out) BY <2>1, AppendEnds
    <3> QED BY <3>1 DEF OneMore
  <2> HIDE DEF m, n
  <2>4. EndsAtFirst(y1.out, n + 1)
    <3> DEFINE s == y.buf \o y.mode.delim
               B == BetweenTokens(s, m)
    <3>1. m.nobs = y.mode.nobs /\ ~m.ansi BY DEF Ruled, m, n
    <3>2. y.buf = SubSeq(d, BufStart(y), y.i - 1) BY DEF Sliced
    <3>3. Traced(d, y) BY DEF Ruled
    <3>4. /\ Len(y.buf) \in B
          /\ \A p \in B : p < Len(y.buf) =>
               ~IsPrefix(y.mode.delim, SubSeq(s, p + 1, Len(s)))
      BY <1>2, <2>1, <3>1, <3>2, <3>3, EndsHere
    <3> HIDE DEF s, B
    <3>5. B = BetweenTokens(s, m) /\ s = o.text \o o.delim BY <2>2 DEF s, B
    <3> QED BY <2>2, <2>3, <3>4, <3>5 DEF EndsAtFirst
  <2>5. \A k \in DOMAIN y1.out : EndsAtFirst(y1.out, k) BY <2>3, <2>4 DEF Ruled
  <2>6. Traced(d, y1) BY <1>3 DEF Onward
  <2>7. y1.mode.delim[1] # "\n" BY <2>1 DEF Ruled
  <2>8. Ruled(d, y1) BY <2>2, <2>3, <2>5, <2>6, <2>7 DEF Ruled
  <2> QED BY <2>8 DEF y1
<1> QED BY <1>3, <1>5, <1>6, <1>7 DEF Onward

(* The lexer that Run follows has read slices, and has handed on the same. *)
LEMMA FollowsSliced ==
  ASSUME NEW S, NEW d \in Seq(S), DefaultSplitterConfig \in SplitterConfigs(S),
         NEW x, NEW k \in 0..Len(d), NEW y \in Lexers(S), Follows(d, x, k, y)
  PROVE  Sliced(d, 1, y) /\ y.mode = x.mode /\ y.out = x.out
<1>1. Len(d) \in Nat /\ 1 \in 1..(Len(d) + 1) BY LenProperties
<1>2. PICK z \in Lexers(S) : Fed(d, 1, DefaultSplitterConfig)[k] = {z} /\ Sliced(d, 1, z)
  <2> DEFINE from == 1
             mode == DefaultSplitterConfig
  <2>1. from \in 1..(Len(d) + 1) /\ mode \in SplitterConfigs(S) BY <1>1
  <2> HIDE DEF from, mode
  <2>2. \E z \in Lexers(S) : Fed(d, from, mode)[k] = {z} /\ Sliced(d, from, z)
    BY <2>1, FedSliced
  <2> QED BY <2>2 DEF from, mode
<1>3. z = y BY <1>2 DEF Follows
<1>4. CASE Agree(x, y) BY <1>2, <1>3, <1>4 DEF Agree
<1>5. CASE Half(d, x, y)
  <2>1. x.mode = y.mode /\ x.out = y.out BY <1>5, TakeFields DEF Half
  <2> QED BY <1>2, <1>3, <2>1
<1> QED BY <1>4, <1>5 DEF Follows

(* While it runs, Run keeps Ruled; what it has emitted, it has emitted.    *)
Ruling ==
  ended = "no" => \E k \in 0..Len(data), y \in Lexers(Symbols) :
                    Follows(data, l, k, y) /\ Ruled(data, y)
CutRight == Ruling /\ TrueBoundaries

LEMMA CutRightInit == Init => CutRight
<1> SUFFICES ASSUME Init PROVE CutRight OBVIOUS
<1>1. /\ l = NewLexer(1, DefaultSplitterConfig) /\ ended = "no"
      /\ data \in Seq(Symbols) /\ l \in Lexers(Symbols)
  BY InitHolds DEF Init, TypeOK
<1>2. /\ l.buf = <<>> /\ l.st = Default /\ l.out = <<>> /\ l.i = 1
      /\ l.mode = DefaultSplitterConfig
  BY <1>1 DEF NewLexer
<1>3. Ruled(data, l)
  <2>1. Traced(data, l) BY <1>2, TracedEmpty
  <2>2. l.mode.delim[1] # "\n"
    <3> DEFINE delim == <<";">>
    <3>1. delim[1] # "\n" OBVIOUS
    <3> HIDE DEF delim
    <3>2. DefaultSplitterConfig = [delim |-> delim, nobs |-> FALSE, ansi |-> FALSE]
      BY DEF DefaultSplitterConfig, delim
    <3>3. l.mode.delim = delim BY <1>2, <3>2
    <3> QED BY <3>1, <3>3
  <2>3. Len(l.out) = 0 /\ DOMAIN l.out = {} BY <1>2, EmptySeq
  <2>4. ModeBefore(l.out, Len(l.out) + 1) = l.mode BY <1>2, <2>3 DEF ModeBefore
  <2> QED BY <2>1, <2>2, <2>3, <2>4 DEF Ruled
<1>4. \E k \in 0..Len(data) : Follows(data, l, k, l) BY FollowsInit
<1> QED BY <1>1, <1>3, <1>4 DEF CutRight, Ruling, TrueBoundaries

LEMMA CutRightNext ==
  TypeOK /\ HarmlessChunks /\ TokensAsRead /\ CutRight /\ [Next]_vars => CutRight'
<1> SUFFICES ASSUME TypeOK, HarmlessChunks, TokensAsRead, CutRight, [Next]_vars
             PROVE  CutRight'
  OBVIOUS
<1>0. data \in Seq(Symbols) /\ l \in Lexers(Symbols) /\ upto \in 0..Len(data)
      /\ l.i \in 1..(upto + 1) /\ Len(data) \in Nat
  BY LenProperties DEF TypeOK
<1>1. CASE Read
  BY <1>1 DEF Read, Running, CutRight, Ruling, TrueBoundaries, Symbols
<1>2. ASSUME NEW st \in LexStates, FeedIn(st) PROVE CutRight'
  <2>1. l.i \in 1..upto BY <1>0, <1>2 DEF FeedIn, ChunkConsumed
  <2>2. /\ l' = Feed(data, l, upto) /\ ended = "no"
        /\ data' = data /\ ended' = ended /\ Symbols' = Symbols
    BY <1>2 DEF FeedIn, Running, Symbols
  <2>3. PICK k \in 0..Len(data), y \in Lexers(Symbols) :
          Follows(data, l, k, y) /\ Ruled(data, y)
    BY <2>2 DEF CutRight, Ruling
  <2>4. PICK m \in 0..Len(data), z \in Lexers(Symbols) :
          /\ Follows(data, l', m, z)
          /\ z = y \/ (y.i \in 1..Len(data) /\ z = Feed(data, y, Len(data)))
    BY <1>0, <2>1, <2>2, <2>3, FollowsOn DEF HarmlessChunks
  <2>5. Sliced(data, 1, y) /\ y.mode = l.mode BY <1>0, <2>3, DefaultType, FollowsSliced
  <2>6. Ruled(data, z)
    <3>1. CASE z = y BY <2>3, <3>1
    <3>2. CASE y.i \in 1..Len(data) /\ z = Feed(data, y, Len(data))
      <4>1. ~y.mode.ansi /\ OpensNothing(y.mode.delim) BY <2>5 DEF TokensAsRead
      <4> QED BY <1>0, <2>3, <2>5, <3>2, <4>1, RuledRound
    <3> QED BY <2>4, <3>1, <3>2
  <2> QED BY <2>2, <2>4, <2>6 DEF CutRight, Ruling, TrueBoundaries
<1>3. ASSUME ended = "no" PROVE \A k \in DOMAIN l.out : EndsAtFirst(l.out, k)
  <2>1. PICK k \in 0..Len(data), y \in Lexers(Symbols) :
          Follows(data, l, k, y) /\ Ruled(data, y)
    BY <1>3 DEF CutRight, Ruling
  <2>2. y.out = l.out BY <1>0, <2>1, DefaultType, FollowsSliced
  <2> QED BY <2>1, <2>2 DEF Ruled
<1>4. CASE Eof
  <2>1. l' = AtEOF(l) /\ ended = "no" /\ ended' = "eof" BY <1>4 DEF Eof, Running
  <2>2. CASE l.buf = <<>> BY <1>3, <2>1, <2>2 DEF AtEOF, CutRight, Ruling, TrueBoundaries
  <2>3. CASE l.buf # <<>>
    <3> DEFINE o == [text |-> l.buf, next |-> l.i, delim |-> <<>>, mode |-> l.mode]
               n == Len(l.out)
    <3>1. l'.out = Append(l.out, o) BY <2>1, <2>3 DEF AtEOF, Lexers
    <3>2. l.out \in Seq(Statements(Symbols)) /\ o \in Statements(Symbols)
      BY <1>0, EmptySeq DEF Lexers, Statements
    <3>3. o.delim = <<>> OBVIOUS
    <3> HIDE DEF o
    <3>4. /\ DOMAIN l'.out = DOMAIN l.out \cup {n + 1} /\ l'.out[n + 1] = o
          /\ \A k \in DOMAIN l.out : EndsAtFirst(l.out, k) => EndsAtFirst(l'.out, k)
      <4>1. OneMore(l.out, o, l'.out) BY <3>1, <3>2, AppendEnds
      <4> QED BY <4>1 DEF OneMore
    <3>5. EndsAtFirst(l'.out, n + 1) BY <3>3, <3>4 DEF EndsAtFirst
    <3> QED BY <1>3, <2>1, <3>4, <3>5 DEF CutRight, Ruling, TrueBoundaries
  <2> QED BY <2>2, <2>3
<1>5. CASE ReadFails
  BY <1>3, <1>5 DEF ReadFails, Running, CutRight, Ruling, TrueBoundaries
<1>6. CASE UNCHANGED vars
  BY <1>6 DEF vars, CutRight, Ruling, TrueBoundaries, Symbols
<1> QED BY <1>1, <1>2, <1>4, <1>5, <1>6 DEF Next

(* Every statement the callback gets ends at the first delimiter that      *)
(* stands between two tokens of the grammar, and never inside a string, an *)
(* identifier or a comment: for every dump and any chunks that end         *)
(* harmlessly, in either escape mode, as long as a token cannot begin with *)
(* the delimiter and double quotes delimit strings.                        *)
THEOREM StatementsEndWell == Spec /\ []HarmlessChunks /\ []TokensAsRead => []TrueBoundaries
<1>1. CutRight => TrueBoundaries BY DEF CutRight
<1> QED BY <1>1, CutRightInit, CutRightNext, LexerTyped, PTL DEF Spec
=============================================================================

------------------------- MODULE ListScreens_proofs -------------------------
(***************************************************************************)
(* Theorems about ListScreens, for any finite set of items.                *)
(***************************************************************************)
EXTENDS ListScreens, FiniteSetTheorems, SequenceTheorems, TLAPS

------------------------------------------------------------------------------
(* Tables: what a row that comes or goes leaves of one. *)

(* A table has at most one row for each item.                              *)
LEMMA TableLength ==
  ASSUME NEW s, IsTable(s)
  PROVE  Len(s) \in Nat /\ Len(s) <= Cardinality(Items) /\ Cardinality(Items) \in Nat
<1>1. s \in Seq(Items) /\ Len(s) \in Nat /\ DOMAIN s = 1..Len(s)
  BY LenProperties DEF IsTable
<1>2. s \in [1..Len(s) -> Items] BY <1>1
<1>3. s \in Injection(1..Len(s), Items)
  BY <1>1, <1>2 DEF Injection, IsTable, IsInjective
<1>4. Cardinality(1..Len(s)) <= Cardinality(Items)
  BY <1>3, ItemsAssumption, FS_Injection
<1>5. Cardinality(1..Len(s)) = Len(s) BY <1>1, FS_Interval
<1>6. Cardinality(Items) \in Nat BY ItemsAssumption, FS_CardinalityType
<1> QED BY <1>1, <1>4, <1>5, <1>6

LEMMA EmptyTable == IsTable(<<>>)
BY EmptySeq DEF IsTable, IsInjective

LEMMA FullTable ==
  IsTable(SetToSeq(Items)) /\ Len(SetToSeq(Items)) = Cardinality(Items)
<1> DEFINE n == Cardinality(Items)
<1>1. n \in Nat /\ ExistsBijection(1..n, Items)
  BY ItemsAssumption, FS_CardinalityType
<1>2. \E f \in [1..n -> Items] : IsInjective(f)
  BY <1>1 DEF ExistsBijection, Bijection, Injection, IsInjective
<1>3. SetToSeq(Items) \in [1..n -> Items] /\ IsInjective(SetToSeq(Items))
  BY <1>2 DEF SetToSeq
<1> HIDE DEF n
<1>4. SetToSeq(Items) \in Seq(Items) /\ Len(SetToSeq(Items)) = n
  BY <1>1, <1>3
<1> QED BY <1>3, <1>4 DEF IsTable, n

LEMMA RowRemoved ==
  ASSUME NEW s, IsTable(s), NEW i \in DOMAIN s
  PROVE  IsTable(RemoveAt(s, i)) /\ Len(RemoveAt(s, i)) = Len(s) - 1
<1> DEFINE a == SubSeq(s, 1, i - 1)
           b == SubSeq(s, i + 1, Len(s))
           t == RemoveAt(s, i)
<1>1. s \in Seq(Items) /\ Len(s) \in Nat /\ i \in 1..Len(s) /\ DOMAIN s = 1..Len(s)
  BY LenProperties DEF IsTable
<1>2. \A k \in 1..Len(s) : s[k] \in Items BY <1>1, ElementOfSeq
<1>3. /\ a \in Seq(Items) /\ Len(a) = i - 1
      /\ \A k \in 1..(i - 1) : a[k] = s[k]
  <2>1. 1 \in Int /\ i - 1 \in Int /\ \A k \in 1..(i - 1) : s[k] \in Items BY <1>1, <1>2
  <2> QED BY <1>1, <2>1, SubSeqProperties
<1>4. /\ b \in Seq(Items) /\ Len(b) = Len(s) - i
      /\ \A k \in 1..(Len(s) - i) : b[k] = s[i + k]
  <2>1. i + 1 \in Int /\ Len(s) \in Int /\ \A k \in (i + 1)..Len(s) : s[k] \in Items
    BY <1>1, <1>2
  <2>2. /\ b \in Seq(Items) /\ Len(b) = IF i + 1 <= Len(s) THEN Len(s) - (i + 1) + 1 ELSE 0
        /\ \A k \in 1..(Len(s) - (i + 1) + 1) : b[k] = s[i + 1 + k - 1]
    BY <2>1, SubSeqProperties
  <2> QED BY <1>1, <2>2
<1>5. t = a \o b BY DEF RemoveAt
<1> HIDE DEF a, b, t
<1>6. /\ t \in Seq(Items) /\ Len(t) = Len(s) - 1
      /\ \A k \in 1..(Len(s) - 1) : t[k] = IF k < i THEN s[k] ELSE s[k + 1]
  <2>1. /\ t \in Seq(Items) /\ Len(t) = Len(a) + Len(b)
        /\ \A k \in 1..(Len(a) + Len(b)) :
             t[k] = IF k <= Len(a) THEN a[k] ELSE b[k - Len(a)]
    BY <1>3, <1>4, <1>5, ConcatProperties
  <2>2. ASSUME NEW k \in 1..(Len(s) - 1)
        PROVE  t[k] = IF k < i THEN s[k] ELSE s[k + 1]
    <3>1. CASE k < i BY <1>1, <1>3, <1>4, <2>1, <3>1
    <3>2. CASE ~(k < i)
      <4>1. k - (i - 1) \in 1..(Len(s) - i) /\ i + (k - (i - 1)) = k + 1
        BY <1>1, <3>2
      <4>2. b[k - (i - 1)] = s[k + 1] BY <1>4, <4>1
      <4> QED BY <1>1, <1>3, <1>4, <2>1, <3>2, <4>2
    <3> QED BY <3>1, <3>2
  <2> QED BY <1>1, <1>3, <1>4, <2>1, <2>2
<1>7. IsInjective(t)
  <2>1. DOMAIN t = 1..(Len(s) - 1) BY <1>6, LenProperties
  <2>2. ASSUME NEW j \in 1..(Len(s) - 1), NEW k \in 1..(Len(s) - 1), t[j] = t[k]
        PROVE  j = k
    <3> DEFINE at(n) == IF n < i THEN n ELSE n + 1
    <3>1. at(j) \in DOMAIN s /\ at(k) \in DOMAIN s BY <1>1
    <3>2. t[j] = s[at(j)] /\ t[k] = s[at(k)] BY <1>6
    <3>3. at(j) = at(k) BY <2>2, <3>1, <3>2 DEF IsTable, IsInjective
    <3> QED BY <1>1, <3>3
  <2> QED BY <2>1, <2>2 DEF IsInjective
<1> QED BY <1>6, <1>7 DEF IsTable, t

LEMMA RowInserted ==
  ASSUME NEW s, IsTable(s), NEW x \in Items \ ToSet(s), NEW i \in 1..(Len(s) + 1)
  PROVE  IsTable(InsertAt(s, i, x)) /\ Len(InsertAt(s, i, x)) = Len(s) + 1
<1> DEFINE a == SubSeq(s, 1, i - 1)
           b == SubSeq(s, i, Len(s))
           t == InsertAt(s, i, x)
<1>1. s \in Seq(Items) /\ Len(s) \in Nat /\ DOMAIN s = 1..Len(s) /\ i \in Nat
  BY LenProperties DEF IsTable
<1>2. \A k \in 1..Len(s) : s[k] \in Items BY <1>1, ElementOfSeq
<1>3. /\ a \in Seq(Items) /\ Len(a) = i - 1
      /\ \A k \in 1..(i - 1) : a[k] = s[k]
  <2>1. 1 \in Int /\ i - 1 \in Int /\ \A k \in 1..(i - 1) : s[k] \in Items BY <1>1, <1>2
  <2> QED BY <1>1, <2>1, SubSeqProperties
<1>4. /\ b \in Seq(Items) /\ Len(b) = Len(s) - i + 1
      /\ \A k \in 1..(Len(s) - i + 1) : b[k] = s[i + k - 1]
  <2>1. i \in Int /\ Len(s) \in Int /\ \A k \in i..Len(s) : s[k] \in Items BY <1>1, <1>2
  <2> QED BY <1>1, <2>1, SubSeqProperties
<1>5. t = (a \o <<x>>) \o b BY DEF InsertAt
<1>6. <<x>> \in Seq(Items) /\ Len(<<x>>) = 1 /\ <<x>>[1] = x OBVIOUS
<1> DEFINE c == a \o <<x>>
<1>7. /\ c \in Seq(Items) /\ Len(c) = i
      /\ \A k \in 1..i : c[k] = IF k < i THEN s[k] ELSE x
  <2> HIDE DEF a
  <2>1. /\ c \in Seq(Items) /\ Len(c) = Len(a) + 1
        /\ \A k \in 1..(Len(a) + 1) : c[k] = IF k <= Len(a) THEN a[k] ELSE <<x>>[k - Len(a)]
    BY <1>3, <1>6, ConcatProperties
  <2> HIDE DEF c
  <2>2. ASSUME NEW k \in 1..i PROVE c[k] = IF k < i THEN s[k] ELSE x
    <3>1. CASE k < i BY <1>1, <1>3, <2>1, <3>1
    <3>2. CASE k = i
      <4>1. k - Len(a) = 1 /\ ~(k <= Len(a)) /\ k \in 1..(Len(a) + 1) BY <1>1, <1>3, <3>2
      <4> QED BY <1>6, <2>1, <3>2, <4>1
    <3> QED BY <1>1, <3>1, <3>2
  <2> QED BY <1>1, <1>3, <2>1, <2>2
<1>c. t = c \o b BY <1>5
<1> HIDE DEF a, b, c, t
<1>8. /\ t \in Seq(Items) /\ Len(t) = Len(s) + 1
      /\ \A k \in 1..(Len(s) + 1) :
           t[k] = IF k < i THEN s[k] ELSE IF k = i THEN x ELSE s[k - 1]
  <2>1. /\ t \in Seq(Items) /\ Len(t) = Len(c) + Len(b)
        /\ \A k \in 1..(Len(c) + Len(b)) :
             t[k] = IF k <= Len(c) THEN c[k] ELSE b[k - Len(c)]
    BY <1>4, <1>7, <1>c, ConcatProperties
  <2>2. ASSUME NEW k \in 1..(Len(s) + 1)
        PROVE  t[k] = IF k < i THEN s[k] ELSE IF k = i THEN x ELSE s[k - 1]
    <3>1. CASE k <= i BY <1>1, <1>4, <1>7, <2>1, <3>1
    <3>2. CASE ~(k <= i)
      <4>1. k - i \in 1..(Len(s) - i + 1) /\ i + (k - i) - 1 = k - 1 BY <1>1, <3>2
      <4>2. b[k - i] = s[k - 1] BY <1>4, <4>1
      <4> QED BY <1>1, <1>4, <1>7, <2>1, <3>2, <4>2
    <3> QED BY <3>1, <3>2
  <2> QED BY <1>1, <1>4, <1>7, <2>1, <2>2
<1>9. IsInjective(t)
  <2>1. DOMAIN t = 1..(Len(s) + 1) BY <1>1, <1>8, LenProperties
  <2>2. \A k \in 1..Len(s) : s[k] # x BY <1>1 DEF ToSet
  <2>3. ASSUME NEW j \in 1..(Len(s) + 1), NEW k \in 1..(Len(s) + 1), t[j] = t[k]
        PROVE  j = k
    <3> DEFINE at(n) == IF n < i THEN n ELSE n - 1
    <3>1. \A n \in {j, k} : n # i => at(n) \in DOMAIN s /\ t[n] = s[at(n)] BY <1>1, <1>8
    <3>2. \A n \in {j, k} : n = i => t[n] = x BY <1>1, <1>8
    <3>3. j = i <=> k = i BY <1>1, <2>2, <2>3, <3>1, <3>2
    <3>4. CASE j # i
      <4>1. at(j) = at(k) BY <2>3, <3>1, <3>3, <3>4 DEF IsTable, IsInjective
      <4> QED BY <1>1, <3>3, <3>4, <4>1
    <3> QED BY <3>3, <3>4
  <2> QED BY <2>1, <2>3 DEF IsInjective
<1> QED BY <1>8, <1>9 DEF IsTable, t

LEMMA RowDeleted ==
  ASSUME NEW s, IsTable(s), NEW x
  PROVE  IsTable(Without(s, x)) /\ Len(Without(s, x)) <= Len(s)
<1>1. CASE x \in ToSet(s)
  <2> DEFINE i == CHOOSE i \in DOMAIN s : s[i] = x
  <2>1. i \in DOMAIN s BY <1>1 DEF ToSet
  <2>2. Without(s, x) = RemoveAt(s, i) BY <1>1 DEF Without
  <2> HIDE DEF i
  <2>3. Len(s) \in Nat BY TableLength
  <2> QED BY <2>1, <2>2, <2>3, RowRemoved
<1>2. CASE x \notin ToSet(s) BY <1>2, TableLength DEF Without
<1> QED BY <1>1, <1>2

------------------------------------------------------------------------------
(* Messages in flight *)

(* What is in flight was, or has just been sent.                           *)
LEMMA InFlightAfter ==
  /\ \A m, others : Replace(m, others) => InFlight' \subseteq InFlight \cup others
  /\ \A m : Issue(m) => InFlight' \subseteq InFlight \cup {m}
<1>1. \A S : DOMAIN SetToBag(S) = S BY DEF SetToBag
<1>2. \A A, B : DOMAIN (A (+) B) = DOMAIN A \cup DOMAIN B BY DEF (+)
<1>3. \A A, B : DOMAIN (A (-) B) \subseteq DOMAIN A BY DEF (-)
<1>4. ASSUME NEW m, NEW others, Replace(m, others)
      PROVE  InFlight' \subseteq InFlight \cup others
  <2> DEFINE kept == pending (-) SetToBag({m})
  <2>1. pending' = kept (+) SetToBag(others) BY <1>4 DEF Replace
  <2>2. DOMAIN kept \subseteq DOMAIN pending BY <1>3
  <2> HIDE DEF kept
  <2>3. DOMAIN SetToBag(others) = others BY <1>1
  <2>4. DOMAIN (kept (+) SetToBag(others)) = DOMAIN kept \cup DOMAIN SetToBag(others)
    BY <1>2
  <2>5. DOMAIN pending' = DOMAIN kept \cup others BY <2>1, <2>3, <2>4
  <2> QED BY <2>2, <2>5 DEF InFlight, BagToSet
<1>5. ASSUME NEW m, Issue(m) PROVE InFlight' \subseteq InFlight \cup {m}
  <2>1. pending' = pending (+) SetToBag({m}) BY <1>5 DEF Issue
  <2>2. DOMAIN SetToBag({m}) = {m} BY <1>1
  <2>3. DOMAIN (pending (+) SetToBag({m})) = DOMAIN pending \cup DOMAIN SetToBag({m})
    BY <1>2
  <2>4. DOMAIN pending' = DOMAIN pending \cup {m}
    BY <2>1, <2>2, <2>3
  <2> QED BY <2>4 DEF InFlight, BagToSet
<1> QED BY <1>4, <1>5

One(m) == SetToBag({m})

LEMMA OneInFlight ==
  ASSUME NEW m
  PROVE  /\ pending = One(m) => InFlight = {m} /\ pending # EmptyBag
         /\ pending = EmptyBag => InFlight = {}
         /\ One(m) # EmptyBag
<1>1. DOMAIN One(m) = {m} /\ DOMAIN EmptyBag = {}
  BY DEF One, SetToBag, EmptyBag
<1> QED BY <1>1 DEF InFlight, BagToSet

LEMMA ReplaceOne ==
  ASSUME NEW m, pending = One(m)
  PROVE  /\ Replace(m, {}) => pending' = EmptyBag
         /\ \A n : Replace(m, {n}) => pending' = One(n)
<1>1. One(m) (-) One(m) = EmptyBag
  BY DEF One, SetToBag, EmptyBag, (-)
<1>2. EmptyBag (+) EmptyBag = EmptyBag
  BY DEF SetToBag, EmptyBag, (+)
<1>3. \A n : EmptyBag (+) One(n) = One(n)
  BY DEF One, SetToBag, EmptyBag, (+)
<1> QED BY <1>1, <1>2, <1>3 DEF Replace, EmptyBag, One

LEMMA IssueOne ==
  ASSUME NEW m, pending = EmptyBag, Issue(m)
  PROVE  pending' = One(m)
<1>1. EmptyBag (+) One(m) = One(m)
  BY DEF One, SetToBag, EmptyBag, (+)
<1> QED BY <1>1 DEF Issue, One

(* Which message has which kind.                                           *)
AllMessages == Commands \cup {Loaded(s) : s \in {t \in Seq(Items) : IsTable(t)}}

LEMMA MessageShape ==
  ASSUME NEW m
  PROVE  /\ m \in AllMessages <=>
              IF m.k = "rows" THEN m = Loaded(m.rows) /\ IsTable(m.rows) ELSE m \in Commands
         /\ m \in AllMessages /\ m.k = "load" => m = Load
BY DEF AllMessages, Commands, Loaded, Load, DeleteSelected, Launch, IsTable

------------------------------------------------------------------------------
(* Types *)

LEMMA SelectedType ==
  ASSUME TypeOK
  PROVE  /\ Selected \in Items \cup {Nothing} /\ Shown \in {Nothing, Selected}
         /\ Len(list) \in Nat /\ Len(list) <= Cardinality(Items)
         /\ Cardinality(Items) \in Nat
<1>1. list \in Seq(Items) /\ selected \in Int BY TableLength DEF TypeOK, IsTable
<1>2. InRange => selected + 1 \in 1..Len(list) BY <1>1 DEF InRange, Count
<1>3. Selected \in Items \cup {Nothing} BY <1>1, <1>2, ElementOfSeq DEF Selected
<1> QED BY <1>3, TableLength DEF Shown, TypeOK

LEMMA StoredTable ==
  ASSUME TypeOK PROVE IsTable(Stored)
BY FullTable DEF Stored, TypeOK

LEMMA TypeInit == Init => TypeOK
<1> SUFFICES ASSUME Init PROVE TypeOK OBVIOUS
<1>1. InFlight = {Load} BY OneInFlight DEF Init, One
<1>2. Load.k # "rows" /\ Load \in Commands BY DEF Load, Commands
<1>3. Cardinality(Items) \in Nat BY ItemsAssumption, FS_CardinalityType
<1>4. IsTable(rows) /\ IsTable(list) BY EmptyTable, FullTable DEF Init
<1>5. acted.item = Nothing /\ acted.meant = Nothing BY DEF Init, NoItem
<1>6. {demo, loaded, covered, dirty, panicked} \subseteq BOOLEAN BY Zenon DEF Init
<1>7. /\ kind \in {"home", "profiles", "launcher"} /\ selected \in -1..Cardinality(Items)
      /\ visible \subseteq Items /\ happened \subseteq {"hasty", "removed", "emptied"}
      /\ faults \in 0..MaxFaults
  BY <1>3, BoundsAssumption DEF Init, BoundsAssumption
<1>8. \A m \in InFlight : m.k # "rows" /\ m \in Commands BY <1>1, <1>2
<1>9. \A x \in {acted.item, acted.meant} : x \in Items \cup {Nothing} BY <1>5
<1> QED BY <1>4, <1>6, <1>7, <1>8, <1>9 DEF TypeOK

LEMMA KeyTyped == TypeOK /\ Key => TypeOK'
<1> SUFFICES ASSUME TypeOK, Key PROVE TypeOK' OBVIOUS
<1>0. /\ Selected \in Items \cup {Nothing} /\ Shown \in Items \cup {Nothing}
      /\ Len(list) \in Nat /\ Len(list) <= Cardinality(Items) /\ Cardinality(Items) \in Nat
  BY SelectedType
<1>1. CASE MoveCursor
  BY <1>0, <1>1 DEF MoveCursor, OnScreen, Pressed, TypeOK, Count, InFlight, fixed, NoItem
<1>2. CASE HomeEnter
  BY <1>0, <1>2 DEF HomeEnter, Cover, OnScreen, Pressed, TypeOK, InFlight, fixed, screen
<1>3. CASE ProfilesEnter
  BY <1>0, <1>3 DEF ProfilesEnter, Cover, OnScreen, Pressed, TypeOK, InFlight, fixed, screen, InRange
<1>4. CASE OpenOther
  BY <1>0, <1>4 DEF OpenOther, Cover, OnScreen, Pressed, TypeOK, InFlight, fixed, screen
<1>5. CASE HomeDelete
  <2>1. InFlight' \subseteq InFlight \cup {DeleteSelected(Shown)}
    BY <1>5, InFlightAfter DEF HomeDelete
  <2>2. DeleteSelected(Shown) \in Commands /\ DeleteSelected(Shown).k # "rows"
    BY <1>0 DEF Commands, DeleteSelected
  <2> QED BY <1>5, <2>1, <2>2 DEF HomeDelete, OnScreen, Pressed, TypeOK, fixed, screen, NoItem
<1>6. CASE HomeDeleteDemo
  <2>1. IsTable(list')
    <3>1. InRange => selected + 1 \in DOMAIN list
      BY <1>0, LenProperties DEF InRange, Count, TypeOK, IsTable
    <3> QED BY <1>6, <3>1, RowRemoved DEF HomeDeleteDemo, TypeOK
  <2>2. selected' \in -1..Cardinality(Items)
    BY <1>0, <1>6 DEF HomeDeleteDemo, TypeOK, Count
  <2> QED BY <1>6, <2>1, <2>2
      DEF HomeDeleteDemo, Pressed, TypeOK, fixed, InFlight, NoItem, InRange
<1>7. CASE LauncherEnter
  <2>1. InFlight' \subseteq InFlight \cup {Launch(Shown)}
    BY <1>7, InFlightAfter DEF LauncherEnter
  <2>2. Launch(Shown) \in Commands /\ Launch(Shown).k # "rows"
    BY <1>0 DEF Commands, Launch
  <2> QED BY <1>7, <2>1, <2>2 DEF LauncherEnter, OnScreen, Pressed, TypeOK, fixed, screen, NoItem
<1>8. CASE Search
  BY <1>8 DEF Search, OnScreen, Pressed, TypeOK, InFlight, fixed, NoItem
<1>9. CASE Uncover
  <2>1. InFlight' \subseteq InFlight \cup {Load}
    BY <1>9, InFlightAfter DEF Uncover
  <2>2. Load \in Commands /\ Load.k # "rows" BY DEF Commands, Load
  <2> QED BY <1>9, <2>1, <2>2 DEF Uncover, Pressed, TypeOK, fixed, screen, NoItem
<1> QED BY <1>1, <1>2, <1>3, <1>4, <1>5, <1>6, <1>7, <1>8, <1>9 DEF Key

LEMMA PerformTyped == TypeOK /\ Perform => TypeOK'
<1> SUFFICES ASSUME TypeOK, Perform PROVE TypeOK' OBVIOUS
<1>0. /\ Selected \in Items \cup {Nothing} /\ Cardinality(Items) \in Nat
      /\ IsTable(Without(rows, Selected))
  BY SelectedType, RowDeleted DEF TypeOK
<1>1. ASSUME NEW s, IsTable(s)
      PROVE  Loaded(s) = Loaded(Loaded(s).rows) /\ IsTable(Loaded(s).rows)
             /\ Loaded(s).k = "rows"
  BY <1>1 DEF Loaded
<1>2. CASE PerformLoad
  <2>1. InFlight' \subseteq InFlight \cup {Loaded(Stored)}
    BY <1>2, InFlightAfter DEF PerformLoad
  <2>2. IsTable(Stored) BY StoredTable
  <2> QED BY <1>1, <1>2, <2>1, <2>2 DEF PerformLoad, Unmoved, TypeOK, fixed, screen
<1>3. CASE PerformLauncherLoad
  <2>1. InFlight' \subseteq InFlight
    BY <1>3, InFlightAfter DEF PerformLauncherLoad
  <2>2. IsTable(list') BY <1>3, StoredTable DEF PerformLauncherLoad, TypeOK
  <2> QED BY <1>3, <2>1, <2>2 DEF PerformLauncherLoad, Unmoved, TypeOK, fixed
<1>4. ASSUME NEW m \in InFlight, CommandFails(m) PROVE TypeOK'
  <2>1. InFlight' \subseteq InFlight
    BY <1>4, InFlightAfter DEF CommandFails
  <2> QED BY <1>4, <2>1, BoundsAssumption DEF CommandFails, Fault, Unmoved, TypeOK, fixed
<1>5. ASSUME NEW m \in InFlight, PerformDelete(m) PROVE TypeOK'
  <2>0. m.meant \in Items \cup {Nothing}
    BY <1>5 DEF PerformDelete, TypeOK, Commands, DeleteSelected, Load, Launch
  <2> DEFINE left == Without(rows, Selected)
  <2>1. CASE InRange
    <3>1. /\ rows' = left /\ selected' = 0 /\ Replace(m, {Loaded(left)})
          /\ acted' = [item |-> Selected, meant |-> m.meant]
      BY <1>5, <2>1 DEF PerformDelete
    <3>2. InFlight' \subseteq InFlight \cup {Loaded(left)} BY <3>1, InFlightAfter
    <3>3. UNCHANGED <<fixed, visible, covered, happened, panicked, list, loaded, dirty, faults>>
      BY <1>5 DEF PerformDelete, Unmoved
    <3> HIDE DEF left
    <3> QED BY <1>0, <1>1, <2>0, <3>1, <3>2, <3>3 DEF TypeOK, fixed, left
  <2>2. CASE ~InRange
    <3>1. Replace(m, {}) /\ UNCHANGED <<rows, selected, acted>>
      BY <1>5, <2>2 DEF PerformDelete
    <3>2. InFlight' \subseteq InFlight BY <3>1, InFlightAfter
    <3>3. UNCHANGED <<fixed, visible, covered, happened, panicked, list, loaded, dirty, faults>>
      BY <1>5 DEF PerformDelete, Unmoved
    <3> QED BY <3>1, <3>2, <3>3 DEF TypeOK, fixed
  <2> QED BY <2>1, <2>2
<1>6. ASSUME NEW m \in InFlight, DeletedNotListed(m) PROVE TypeOK'
  <2>0. m.meant \in Items \cup {Nothing}
    BY <1>6 DEF DeletedNotListed, TypeOK, Commands, DeleteSelected, Load, Launch
  <2>1. InFlight' \subseteq InFlight
    BY <1>6, InFlightAfter DEF DeletedNotListed
  <2> QED BY <1>0, <1>6, <2>0, <2>1, BoundsAssumption
      DEF DeletedNotListed, Fault, TypeOK, fixed, screen
<1>7. ASSUME NEW m \in InFlight, PerformLaunch(m) PROVE TypeOK'
  <2>0. m.meant \in Items \cup {Nothing}
    BY <1>7 DEF PerformLaunch, TypeOK, Commands, DeleteSelected, Load, Launch
  <2>1. InFlight' \subseteq InFlight
    BY <1>7, InFlightAfter DEF PerformLaunch
  <2> QED BY <1>0, <1>7, <2>0, <2>1 DEF PerformLaunch, TypeOK, fixed, screen, InRange
<1>8. ASSUME NEW m \in InFlight, DeliverRows(m) PROVE TypeOK'
  <2>1. InFlight' \subseteq InFlight
    BY <1>8, InFlightAfter DEF DeliverRows
  <2> QED BY <1>8, <2>1 DEF DeliverRows, Unmoved, TypeOK, fixed
<1> QED BY <1>2, <1>3, <1>4, <1>5, <1>6, <1>7, <1>8 DEF Perform

LEMMA TableTyped == TypeOK /\ (RowAppears \/ RowVanishes) => TypeOK'
<1> SUFFICES ASSUME TypeOK, RowAppears \/ RowVanishes PROVE TypeOK' OBVIOUS
<1>1. CASE RowAppears
  <2>1. IsTable(rows') BY <1>1, RowInserted DEF RowAppears, TypeOK
  <2> QED BY <1>1, <2>1 DEF RowAppears, TypeOK, fixed, screen, InFlight
<1>2. CASE RowVanishes
  <2>1. IsTable(rows') BY <1>2, RowRemoved DEF RowVanishes, TypeOK
  <2> QED BY <1>2, <2>1 DEF RowVanishes, TypeOK, fixed, screen, InFlight
<1> QED BY <1>1, <1>2

LEMMA TypeStep == TypeOK /\ [Next]_vars => TypeOK'
<1>1. TypeOK /\ UNCHANGED vars => TypeOK'
  BY DEF TypeOK, vars, fixed, screen, InFlight
<1> QED BY <1>1, KeyTyped, PerformTyped, TableTyped DEF Next

(* For any finite set of items, and however hasty the operator: every       *)
(* variable keeps its type, no list ever shows an item twice, and the      *)
(* cursor is at most one before and never beyond what a list can hold.     *)
THEOREM ListScreensTyped == Spec => []TypeOK
<1> QED BY TypeInit, TypeStep, PTL DEF Spec

------------------------------------------------------------------------------
(* An operator who lets a key take effect before the next.  Then at most   *)
(* one message is in flight, none under another screen, and a command acts *)
(* on what the cursor was on when its key was pressed.                     *)

Patient == "hasty" \notin happened
Settling ==
  Patient =>
    /\ pending = EmptyBag \/ (~covered /\ \E m : pending = One(m))
    /\ \A m \in InFlight : m.k \in {"delete", "launch"} => m.meant \in {Nothing, Selected}
    /\ acted.meant # Nothing => acted.item = acted.meant

(* What a key does then.                                                   *)
KeyIssues(m) ==
  /\ pending' = One(m) /\ ~covered'
  /\ UNCHANGED <<list, selected>>
  /\ \/ m = Load /\ dirty' = FALSE
     \/ /\ m = DeleteSelected(Shown) /\ kind = "home" /\ ~demo
        /\ UNCHANGED <<covered, dirty>>
     \/ m = Launch(Shown) /\ kind = "launcher" /\ UNCHANGED <<covered, dirty>>

LEMMA PatientKey ==
  ASSUME TypeOK, Key, Patient'
  PROVE  /\ Patient /\ pending = EmptyBag /\ happened \subseteq happened'
         /\ pending' = EmptyBag \/ \E m : KeyIssues(m)
         /\ acted' \in {NoItem, [item |-> Selected, meant |-> Shown]}
         /\ UNCHANGED <<fixed, rows>>
<1>1. \A also : Pressed(also) => pending = EmptyBag /\ Patient /\ happened \subseteq happened'
  BY DEF Pressed, Patient
<1>2. CASE MoveCursor \/ Search
  BY <1>1, <1>2 DEF MoveCursor, Search, OnScreen, fixed
<1>3. CASE HomeEnter \/ ProfilesEnter \/ OpenOther
  BY <1>1, <1>3 DEF HomeEnter, ProfilesEnter, OpenOther, OnScreen, Cover, NoItem, fixed
<1>4. CASE HomeDeleteDemo
  BY <1>1, <1>4 DEF HomeDeleteDemo, fixed
<1>5. CASE HomeDelete
  <2>1. pending = EmptyBag /\ Patient /\ happened \subseteq happened' /\ ~covered
    BY <1>1, <1>5 DEF HomeDelete, OnScreen
  <2>2. pending' = One(DeleteSelected(Shown)) BY <1>5, <2>1, IssueOne DEF HomeDelete
  <2>3. KeyIssues(DeleteSelected(Shown))
    BY <1>5, <2>1, <2>2 DEF HomeDelete, KeyIssues, screen
  <2> QED BY <1>5, <2>1, <2>3 DEF HomeDelete
<1>6. CASE LauncherEnter
  <2>1. pending = EmptyBag /\ Patient /\ happened \subseteq happened' /\ ~covered
    BY <1>1, <1>6 DEF LauncherEnter, OnScreen
  <2>2. pending' = One(Launch(Shown)) BY <1>6, <2>1, IssueOne DEF LauncherEnter
  <2>3. KeyIssues(Launch(Shown))
    BY <1>6, <2>1, <2>2 DEF LauncherEnter, KeyIssues, screen
  <2> QED BY <1>6, <2>1, <2>3 DEF LauncherEnter
<1>7. CASE Uncover
  <2>1. pending = EmptyBag /\ Patient /\ happened \subseteq happened'
    BY <1>1, <1>7 DEF Uncover
  <2>2. pending' = One(Load) BY <1>7, <2>1, IssueOne DEF Uncover
  <2>3. KeyIssues(Load) BY <1>7, <2>2 DEF Uncover, KeyIssues, screen
  <2> QED BY <1>7, <2>1, <2>3 DEF Uncover
<1> QED BY <1>2, <1>3, <1>4, <1>5, <1>6, <1>7 DEF Key

LEMMA PatientPerform ==
  ASSUME TypeOK, Settling, Patient, NEW m \in InFlight
  PROVE  /\ pending = One(m) /\ ~covered
         /\ m.k \in {"load", "delete", "launch", "rows"}
         /\ m.k = "load" => m = Load
         /\ Replace(m, {}) => pending' = EmptyBag
         /\ \A n : Replace(m, {n}) => pending' = One(n)
<1>1. PICK n : pending = One(n) /\ ~covered BY OneInFlight DEF Settling
<1>2. m = n BY <1>1, OneInFlight
<1>3. pending = One(m) BY <1>1, <1>2
<1>4. m.k \in {"load", "delete", "launch", "rows"} /\ (m.k = "load" => m = Load)
  BY DEF TypeOK, Commands, Load, DeleteSelected, Launch
<1> QED BY <1>1, <1>3, <1>4, ReplaceOne

LEMMA SettlingInit == Init => Settling
<1> SUFFICES ASSUME Init PROVE Settling OBVIOUS
<1>1. pending = One(Load) /\ ~covered BY DEF Init, One
<1>2. InFlight = {Load} /\ Load.k = "load" BY <1>1, OneInFlight DEF Load
<1>3. acted.meant = Nothing BY DEF Init, NoItem
<1> QED BY <1>1, <1>2, <1>3 DEF Settling

LEMMA SettlingStep == TypeOK /\ Settling /\ [Next]_vars => Settling'
<1> SUFFICES ASSUME TypeOK, Settling, [Next]_vars, Patient' PROVE Settling'
  BY DEF Settling
<1>0. /\ Shown \in {Nothing, Selected} /\ NoItem.meant = Nothing
      /\ UNCHANGED <<list, selected>> => Selected' = Selected
  BY SelectedType DEF NoItem, Selected, InRange, Count
<1>1. CASE Key
  <2>1. pending' = EmptyBag \/ \E m : KeyIssues(m) BY <1>1, PatientKey
  <2>2. acted'.meant # Nothing => acted'.item = acted'.meant BY <1>0, <1>1, PatientKey
  <2>3. CASE pending' = EmptyBag
    <3>1. InFlight' = {} BY <2>3 DEF InFlight, BagToSet, EmptyBag, SetToBag
    <3> QED BY <2>2, <2>3, <3>1 DEF Settling
  <2>4. ASSUME NEW m, KeyIssues(m) PROVE Settling'
    <3>1. InFlight' = {m} BY <2>4, OneInFlight DEF KeyIssues, InFlight, BagToSet, One, SetToBag
    <3>2. m.k \in {"delete", "launch"} => m.meant \in {Nothing, Selected'}
      BY <1>0, <2>4 DEF KeyIssues, Load, DeleteSelected, Launch
    <3> QED BY <2>2, <2>4, <3>1, <3>2 DEF Settling, KeyIssues
  <2> QED BY <2>1, <2>3, <2>4
<1>2. CASE Perform
  <2>1. Patient BY <1>2 DEF Perform, PerformLoad, PerformLauncherLoad, CommandFails,
          PerformDelete, DeletedNotListed, PerformLaunch, DeliverRows, Unmoved, Patient
  <2>2. PICK m \in InFlight : \/ m = Load /\ (PerformLoad \/ PerformLauncherLoad)
                             \/ CommandFails(m) \/ PerformDelete(m) \/ DeletedNotListed(m)
                             \/ PerformLaunch(m) \/ DeliverRows(m)
    BY <1>2 DEF Perform, PerformLoad, PerformLauncherLoad, Performs
  <2>3. /\ pending = One(m) /\ ~covered
        /\ Replace(m, {}) => pending' = EmptyBag
        /\ \A n : Replace(m, {n}) => pending' = One(n)
    BY <2>1, PatientPerform
  <2>4. \A s : pending' = One(Loaded(s)) => \A n \in InFlight' : n.k = "rows"
    BY DEF InFlight, BagToSet, One, SetToBag, Loaded
  <2>5. pending' = EmptyBag => InFlight' = {}
    BY DEF InFlight, BagToSet, EmptyBag, SetToBag
  <2>6. acted' = acted \/ (acted' = [item |-> Selected, meant |-> m.meant]
                            /\ m.k \in {"delete", "launch"})
    BY <2>2 DEF PerformLoad, PerformLauncherLoad, CommandFails,
          PerformDelete, DeletedNotListed, PerformLaunch, DeliverRows
  <2>7. acted'.meant # Nothing => acted'.item = acted'.meant
    BY <2>1, <2>6 DEF Settling
  <2>8. pending' = EmptyBag \/ (covered' = covered /\ \E s : pending' = One(Loaded(s)))
    BY <2>2, <2>3 DEF PerformLoad, PerformLauncherLoad, CommandFails,
          PerformDelete, DeletedNotListed, PerformLaunch, DeliverRows, Unmoved
  <2> QED BY <2>3, <2>4, <2>5, <2>7, <2>8 DEF Settling
<1>3. CASE RowAppears \/ RowVanishes \/ UNCHANGED vars
  <2>1. UNCHANGED <<list, selected, covered, pending, acted>> /\ Patient
    BY <1>3 DEF RowAppears, RowVanishes, vars, screen, Patient
  <2> QED BY <1>0, <2>1 DEF Settling, InFlight
<1> QED BY <1>1, <1>2, <1>3 DEF Next

(* Whatever happens to the table, whichever calls fail, and whichever      *)
(* screen it is: a patient operator's key acts on the very item the cursor *)
(* was seen on, also where the command looks at the cursor only later.     *)
THEOREM KeysActOnShown == Spec => []ActsOnShown
<1>1. Settling => ActsOnShown BY DEF Settling, ActsOnShown, Patient
<1> QED BY <1>1, TypeInit, TypeStep, SettlingInit, SettlingStep, PTL DEF Spec

------------------------------------------------------------------------------
(* A settled list is fresh: until then a load or its answer is in flight.  *)

FreshOnTheWay ==
  Patient /\ ~covered /\ ~dirty /\ ~demo /\ kind # "launcher" =>
    /\ \A m \in InFlight : m.k = "rows" => m.rows = rows
    /\ (\A m \in InFlight : m.k \notin {"load", "rows"}) => list = rows

LEMMA NoneInFlight == pending = EmptyBag => InFlight = {}
BY DEF InFlight, BagToSet, EmptyBag, SetToBag

LEMMA FreshInit == Init => FreshOnTheWay
<1> SUFFICES ASSUME Init PROVE FreshOnTheWay OBVIOUS
<1>1. InFlight = {Load} /\ Load.k = "load" BY OneInFlight DEF Init, One, Load
<1> QED BY <1>1 DEF FreshOnTheWay

LEMMA FreshStep == TypeOK /\ Settling /\ FreshOnTheWay /\ [Next]_vars => FreshOnTheWay'
<1> SUFFICES ASSUME TypeOK, Settling, FreshOnTheWay, [Next]_vars,
                    Patient', ~covered', ~dirty', ~demo', kind' # "launcher"
             PROVE  FreshOnTheWay'
  BY DEF FreshOnTheWay
<1>0. \A n : pending' = One(n) => InFlight' = {n}
  BY DEF InFlight, BagToSet, One, SetToBag
<1>1. CASE Key
  <2>1. /\ Patient /\ InFlight = {} /\ ~demo /\ kind # "launcher" /\ rows' = rows
        /\ pending' = EmptyBag \/ \E m : KeyIssues(m)
    BY <1>1, PatientKey, NoneInFlight DEF fixed
  <2>2. ASSUME NEW m, KeyIssues(m) PROVE FreshOnTheWay'
    <3>1. InFlight' = {m} BY <1>0, <2>2 DEF KeyIssues
    <3>2. CASE m = Load
      BY <3>1, <3>2 DEF FreshOnTheWay, Load
    <3>3. CASE m # Load
      <4>1. UNCHANGED <<list, covered, dirty>> /\ m.k = "delete"
        BY <2>1, <2>2, <3>3 DEF KeyIssues, DeleteSelected
      <4>2. list = rows BY <2>1, <4>1 DEF FreshOnTheWay
      <4> QED BY <2>1, <3>1, <4>1, <4>2 DEF FreshOnTheWay
    <3> QED BY <3>2, <3>3
  <2>3. CASE pending' = EmptyBag
    <3>1. InFlight' = {} BY <2>3 DEF InFlight, BagToSet, EmptyBag, SetToBag
    <3>2. UNCHANGED <<list, covered, dirty>>
      <4>1. \A m : Issue(m) => m \in InFlight'
        BY DEF Issue, InFlight, BagToSet, SetToBag, (+)
      <4>2. \A m : ~Issue(m) BY <3>1, <4>1
      <4> QED BY <1>1, <2>1, <4>2
          DEF Key, MoveCursor, HomeEnter, ProfilesEnter, OpenOther, HomeDelete, HomeDeleteDemo,
              LauncherEnter, Search, Uncover, Cover, OnScreen, screen
    <3>3. list = rows BY <2>1, <3>2 DEF FreshOnTheWay
    <3> QED BY <2>1, <3>1, <3>2, <3>3 DEF FreshOnTheWay
  <2> QED BY <2>1, <2>2, <2>3
<1>2. CASE Perform
  <2>1. Patient /\ ~demo /\ kind # "launcher"
    BY <1>2 DEF Perform, PerformLoad, PerformLauncherLoad, CommandFails,
          PerformDelete, DeletedNotListed, PerformLaunch, DeliverRows, Unmoved, Patient, fixed
  <2>2. PICK m \in InFlight : \/ m = Load /\ PerformLoad
                             \/ CommandFails(m) \/ PerformDelete(m) \/ DeletedNotListed(m)
                             \/ PerformLaunch(m) \/ DeliverRows(m)
    BY <1>2, <2>1 DEF Perform, PerformLoad, PerformLauncherLoad, Performs
  <2>3. /\ pending = One(m) /\ ~covered
        /\ Replace(m, {}) => pending' = EmptyBag
        /\ \A n : Replace(m, {n}) => pending' = One(n)
    BY <2>1, PatientPerform
  <2>4. InFlight = {m} BY <2>3, OneInFlight
  <2>5. pending' = EmptyBag => InFlight' = {}
    BY DEF InFlight, BagToSet, EmptyBag, SetToBag
  <2>6. ~dirty BY <2>2 DEF PerformLoad, CommandFails, Fault,
          PerformDelete, DeletedNotListed, PerformLaunch, DeliverRows
  <2>7. CASE PerformLoad /\ m = Load
    <3>1. InFlight' = {Loaded(rows)} /\ rows' = rows
      BY <1>0, <2>1, <2>3, <2>7 DEF PerformLoad, Stored
    <3> QED BY <3>1 DEF FreshOnTheWay, Loaded
  <2>8. CASE PerformDelete(m)
    <3>1. m.k = "delete" /\ list' = list BY <2>8 DEF PerformDelete
    <3>2. list = rows BY <2>1, <2>3, <2>4, <2>6, <3>1 DEF FreshOnTheWay
    <3>3. CASE InRange
      <4>1. InFlight' = {Loaded(rows')} BY <1>0, <2>3, <2>8, <3>3 DEF PerformDelete
      <4> QED BY <4>1 DEF FreshOnTheWay, Loaded
    <3>4. CASE ~InRange
      <4>1. InFlight' = {} /\ rows' = rows BY <2>3, <2>5, <2>8, <3>4 DEF PerformDelete
      <4> QED BY <3>1, <3>2, <4>1 DEF FreshOnTheWay
    <3> QED BY <3>3, <3>4
  <2>9. CASE PerformLaunch(m)
    <3>1. m.k = "launch" /\ InFlight' = {} /\ UNCHANGED <<list, rows>>
      BY <2>3, <2>5, <2>9 DEF PerformLaunch, screen
    <3>2. list = rows BY <2>1, <2>3, <2>4, <2>6, <3>1 DEF FreshOnTheWay
    <3> QED BY <3>1, <3>2 DEF FreshOnTheWay
  <2>10. CASE DeliverRows(m)
    <3>1. m.k = "rows" /\ InFlight' = {} /\ list' = m.rows /\ rows' = rows
      BY <2>3, <2>5, <2>10 DEF DeliverRows
    <3>2. m.rows = rows BY <2>1, <2>3, <2>4, <2>6, <3>1 DEF FreshOnTheWay
    <3> QED BY <3>1, <3>2 DEF FreshOnTheWay
  <2>11. CASE CommandFails(m) \/ DeletedNotListed(m)
    BY <2>11 DEF CommandFails, DeletedNotListed, Fault
  <2> QED BY <2>2, <2>7, <2>8, <2>9, <2>10, <2>11
<1>3. CASE RowAppears \/ RowVanishes
  <2>1. covered' = covered /\ dirty' = (dirty \/ ~covered)
    BY Zenon, <1>3 DEF RowAppears, RowVanishes
  <2> QED BY Zenon, <2>1
<1>4. CASE UNCHANGED vars
  BY <1>4 DEF vars, screen, fixed, FreshOnTheWay, InFlight, Patient
<1> QED BY <1>1, <1>2, <1>3, <1>4 DEF Next

(* Home and the profile list, for any table and any patient operator: once *)
(* everything in flight has been handled, the list is the table, unless    *)
(* the table was changed elsewhere since the screen was last started.      *)
THEOREM SettledListIsFresh == Spec => []FreshWhenSettled
<1>1. FreshOnTheWay => FreshWhenSettled
  BY NoneInFlight DEF FreshOnTheWay, FreshWhenSettled, Patient
<1> QED BY <1>1, TypeInit, TypeStep, SettlingInit, SettlingStep, FreshInit, FreshStep, PTL
    DEF Spec

------------------------------------------------------------------------------
(* The cursor stays on the list as long as no row goes from under it.      *)

Up(s) == selected = 0 \/ selected < Len(s)
Kept ==
  happened = {} =>
    /\ ~panicked /\ selected >= 0 /\ Up(list)
    /\ \/ Len(list) <= Len(Stored)
       \/ selected = 0 /\ \E m \in InFlight : m.k = "rows"
    /\ \A m \in InFlight : m.k = "rows" =>
         Len(m.rows) <= Len(Stored) /\ (selected = 0 \/ Len(list) <= Len(m.rows))
    /\ demo => \A m \in InFlight : m.k # "delete"

LEMMA KeptInit == Init => Kept
<1> SUFFICES ASSUME Init PROVE Kept OBVIOUS
<1>1. InFlight = {Load} /\ Load.k = "load" BY OneInFlight DEF Init, One, Load
<1>2. Len(list) = 0 /\ Len(Stored) \in Nat
  BY TypeInit, StoredTable, TableLength DEF Init
<1> QED BY <1>1, <1>2 DEF Init, Kept, Up

LEMMA KeptStep == TypeOK /\ Settling /\ Kept /\ [Next]_vars => Kept'
<1> SUFFICES ASSUME TypeOK, Settling, Kept, [Next]_vars, happened' = {} PROVE Kept'
  BY DEF Kept
<1>0. /\ Len(list) \in Nat /\ Len(list') \in Nat /\ Len(Stored) \in Nat /\ Len(Stored') \in Nat
      /\ selected \in Int /\ Len(list) <= Cardinality(Items) /\ IsTable(list)
  <2>1. TypeOK' BY TypeStep
  <2>2. IsTable(Stored) /\ IsTable(Stored') /\ IsTable(list) /\ IsTable(list')
    BY <2>1, StoredTable, FullTable DEF Stored, TypeOK
  <2> QED BY <2>2, TableLength DEF TypeOK
<1>a. /\ pending' = EmptyBag => InFlight' = {}
      /\ \A n : pending' = One(n) => InFlight' = {n}
  BY DEF InFlight, BagToSet, EmptyBag, One, SetToBag
<1>1. CASE Key
  <2>1. /\ happened = {} /\ InFlight = {} /\ Stored' = Stored /\ demo' = demo
        /\ pending' = EmptyBag \/ \E m : KeyIssues(m)
    BY <1>1, PatientKey, NoneInFlight DEF Patient, Stored, fixed
  <2>2. ~panicked /\ selected >= 0 /\ Up(list) /\ Len(list) <= Len(Stored)
    BY <2>1 DEF Kept
  <2>3. \A m \in InFlight' : m.k # "rows" /\ (demo' => m.k # "delete")
    <3>1. ASSUME NEW m, KeyIssues(m) PROVE m.k # "rows" /\ (demo => m.k # "delete")
      BY <3>1 DEF KeyIssues, Load, DeleteSelected, Launch
    <3>2. ASSUME NEW m, KeyIssues(m) PROVE InFlight' = {m}
      BY <1>a, <3>2 DEF KeyIssues
    <3>3. CASE pending' = EmptyBag BY <1>a, <3>3
    <3>4. CASE \E m : KeyIssues(m)
      <4>1. PICK m : KeyIssues(m) BY <3>4
      <4> QED BY <2>1, <3>1, <3>2, <4>1
    <3> QED BY <2>1, <3>3, <3>4
  <2>4. ~panicked' /\ selected' >= 0 /\ Up(list)' /\ Len(list') <= Len(Stored)
    <3>1. CASE MoveCursor
      BY <1>0, <2>2, <3>1 DEF MoveCursor, Up, Count
    <3>2. CASE HomeEnter \/ OpenOther \/ HomeDelete \/ LauncherEnter \/ Uncover
      BY <2>2, <3>2 DEF HomeEnter, OpenOther, HomeDelete, LauncherEnter, Uncover, Cover, screen, Up
    <3>3. CASE ProfilesEnter
      <4>1. InRange BY <1>0, <2>2, <3>3 DEF ProfilesEnter, InRange, Count, Up
      <4> QED BY <2>2, <3>3, <4>1 DEF ProfilesEnter, Cover, screen, Up
    <3>4. CASE HomeDeleteDemo
      <4>1. Count > 1
        <5>1. (IF Count = 1 THEN {"emptied"} ELSE {}) \subseteq happened' /\ Count > 0
          BY <3>4 DEF HomeDeleteDemo, Pressed
        <5>2. Count # 1 BY <5>1
        <5> QED BY <1>0, <5>1, <5>2 DEF Count
      <4>2. InRange BY <1>0, <2>2, <4>1 DEF InRange, Count, Up
      <4>3. ~panicked' /\ list' = RemoveAt(list, selected + 1)
        BY <3>4, <4>2 DEF HomeDeleteDemo
      <4>4. selected + 1 \in DOMAIN list
        BY <1>0, <4>2, LenProperties DEF InRange, Count, IsTable
      <4>5. Len(list') = Len(list) - 1 BY <1>0, <4>3, <4>4, RowRemoved
      <4>6. selected' = IF selected >= Count - 1 THEN Count - 2 ELSE selected
        BY <3>4 DEF HomeDeleteDemo
      <4> QED BY <1>0, <2>2, <4>1, <4>2, <4>3, <4>5, <4>6 DEF InRange, Count, Up
    <3>5. CASE Search
      BY <2>2, <3>5 DEF Search, Up
    <3> QED BY <1>1, <3>1, <3>2, <3>3, <3>4, <3>5 DEF Key
  <2> QED BY <2>1, <2>3, <2>4 DEF Kept
<1>2. CASE Perform
  <2>0. happened = {} /\ Patient
    BY <1>2 DEF Perform, PerformLoad, PerformLauncherLoad, CommandFails,
          PerformDelete, DeletedNotListed, PerformLaunch, DeliverRows, Unmoved, Patient
  <2>1. /\ ~panicked /\ selected >= 0 /\ Up(list)
        /\ \/ Len(list) <= Len(Stored)
           \/ selected = 0 /\ \E m \in InFlight : m.k = "rows"
        /\ \A m \in InFlight : m.k = "rows" =>
             Len(m.rows) <= Len(Stored) /\ (selected = 0 \/ Len(list) <= Len(m.rows))
        /\ demo => \A m \in InFlight : m.k # "delete"
    BY <2>0 DEF Kept
  <2>2. PICK m \in InFlight : \/ m = Load /\ (PerformLoad \/ PerformLauncherLoad)
                             \/ CommandFails(m) \/ PerformDelete(m) \/ DeletedNotListed(m)
                             \/ PerformLaunch(m) \/ DeliverRows(m)
    BY <1>2 DEF Perform, PerformLoad, PerformLauncherLoad, Performs
  <2>3. /\ pending = One(m) /\ ~covered
        /\ Replace(m, {}) => pending' = EmptyBag
        /\ \A n : Replace(m, {n}) => pending' = One(n)
    BY <2>0, PatientPerform
  <2>4. InFlight = {m} BY <2>3, OneInFlight
  <2>5. m.k # "rows" => Len(list) <= Len(Stored) BY <2>1, <2>4
  <2>6. CASE PerformLoad /\ m = Load
    <3>1. InFlight' = {Loaded(Stored)} /\ Stored' = Stored /\ m.k # "rows"
      BY <1>a, <2>3, <2>6 DEF PerformLoad, Stored, Unmoved, fixed, Load
    <3>2. UNCHANGED <<panicked, selected, list>> BY <2>6 DEF PerformLoad, Unmoved, screen
    <3>3. \A n \in InFlight' : n.k = "rows" /\ n.rows = Stored' BY <3>1 DEF Loaded
    <3>4. Up(list)' BY <2>1, <3>2 DEF Up
    <3> QED BY <1>0, <2>1, <2>5, <3>1, <3>2, <3>3, <3>4 DEF Kept
  <2>7. CASE PerformLauncherLoad /\ m = Load
    <3>1. InFlight' = {} /\ Stored' = Stored /\ m.k # "rows"
      BY <1>a, <2>3, <2>7 DEF PerformLauncherLoad, Stored, Unmoved, fixed, Load
    <3>2. UNCHANGED <<panicked, selected>> /\ list' \in {list, Stored}
      BY <2>7 DEF PerformLauncherLoad, Unmoved
    <3>3. Up(list)' BY <1>0, <2>1, <2>5, <3>1, <3>2 DEF Up
    <3> QED BY <1>0, <2>1, <2>5, <3>1, <3>2, <3>3 DEF Kept
  <2>8. ASSUME m.k # "rows", Replace(m, {}), UNCHANGED <<panicked, selected, list, rows, demo>>
        PROVE  Kept'
    <3>1. InFlight' = {} /\ Stored' = Stored BY <1>a, <2>3, <2>8 DEF Stored
    <3>2. Up(list)' BY <2>1, <2>8 DEF Up
    <3> QED BY <2>1, <2>5, <2>8, <3>1, <3>2 DEF Kept
  <2>9. CASE CommandFails(m)
    BY <2>8, <2>9 DEF CommandFails, Unmoved, fixed
  <2>10. CASE PerformLaunch(m)
    BY <2>8, <2>10 DEF PerformLaunch, fixed, screen
  <2>11. CASE PerformDelete(m)
    <3>1. CASE ~InRange
      BY <2>8, <2>11, <3>1 DEF PerformDelete, Unmoved, fixed
    <3>2. CASE InRange
      <4>1. m.k = "delete" /\ UNCHANGED <<panicked, list, demo>> /\ selected' = 0
            /\ InFlight' = {Loaded(rows')}
        BY <1>a, <2>3, <2>11, <3>2 DEF PerformDelete, Unmoved, fixed
      <4>2. ~demo BY <2>1, <4>1
      <4>3. Stored' = rows' BY <4>1, <4>2 DEF Stored
      <4>4. \A n \in InFlight' : n.k = "rows" /\ n.rows = Stored' BY <4>1, <4>3 DEF Loaded
      <4>5. Up(list)' BY <4>1 DEF Up
      <4>6. \E n \in InFlight' : n.k = "rows" BY <4>1, <4>4
      <4> QED BY <1>0, <2>1, <4>1, <4>2, <4>4, <4>5, <4>6 DEF Kept
    <3> QED BY <3>1, <3>2
  <2>12. CASE DeletedNotListed(m)
    BY <2>12 DEF DeletedNotListed
  <2>13. CASE DeliverRows(m)
    <3>1. m.k = "rows" /\ list' = m.rows /\ UNCHANGED <<panicked, selected, demo>>
          /\ InFlight' = {} /\ Stored' = Stored
      BY <1>a, <2>3, <2>13 DEF DeliverRows, Unmoved, fixed, Stored
    <3>2. Len(m.rows) <= Len(Stored) /\ (selected = 0 \/ Len(list) <= Len(m.rows))
      BY <2>1, <2>4, <3>1
    <3>3. Up(list)' BY <1>0, <2>1, <3>1, <3>2 DEF Up
    <3> QED BY <2>1, <3>1, <3>2, <3>3 DEF Kept
  <2> QED BY <2>2, <2>6, <2>7, <2>9, <2>10, <2>11, <2>12, <2>13
<1>3. CASE RowAppears
  <2>1. /\ UNCHANGED <<panicked, selected, list, demo>> /\ InFlight' = InFlight
        /\ happened = {} /\ ~demo
    BY <1>3 DEF RowAppears, fixed, screen, InFlight
  <2>2. Len(rows') = Len(rows) + 1 BY <1>3, RowInserted DEF RowAppears, TypeOK
  <2>3. Stored = rows /\ Stored' = rows' BY <2>1 DEF Stored
  <2>4. \A m \in InFlight : m.k = "rows" => Len(m.rows) \in Nat
    BY TableLength DEF TypeOK
  <2>5. Up(list)' BY <2>1 DEF Up, Kept
  <2> QED BY <1>0, <2>1, <2>2, <2>3, <2>4, <2>5 DEF Kept
<1>4. CASE RowVanishes
  BY <1>4 DEF RowVanishes
<1>5. CASE UNCHANGED vars
  BY <1>5 DEF vars, fixed, screen, Kept, Up, InFlight, Stored
<1> QED BY <1>1, <1>2, <1>3, <1>4, <1>5 DEF Next

(* As long as rows are only added behind the screen's back and the operator *)
(* is patient: no reload and no deletion leaves the cursor beyond the end   *)
(* of the list, and no key indexes the list there.                         *)
THEOREM CursorStaysOnList == Spec => []CursorOnList
<1>1. TypeOK /\ Kept => CursorOnList
  <2> SUFFICES ASSUME TypeOK, Kept, happened = {} PROVE ~panicked /\ (Count = 0 \/ InRange)
    BY DEF CursorOnList
  <2>1. Len(list) \in Nat BY SelectedType
  <2> QED BY <2>1 DEF Kept, Up, InRange, Count
<1> QED BY <1>1, TypeInit, TypeStep, SettlingInit, SettlingStep, KeptInit, KeptStep, PTL
    DEF Spec
=============================================================================

--------------------------- MODULE Profiles_proofs ---------------------------
(***************************************************************************)
(* Theorems about Profiles, for any names, settings, passwords and         *)
(* passphrases, any number of other instances, and any faults.             *)
(***************************************************************************)
EXTENDS Profiles, TLAPS

Rows == {NoProfile} \cup [settings : Settings, seal : SealsOf]
Forms == [orig : Names \cup {""}, hasPwd : BOOLEAN, clear : BOOLEAN]
Jobs == [name : Names \cup {""}, settings : Settings \cup {""},
         pwd : Passwords \cup {""}, passphrase : Phrases \cup {""},
         want : SealsOf]

(* A row that is there has settings and a seal. *)
LEMMA RowType ==
  ASSUME NEW table \in Tables, NEW n \in Names, Has(table, n)
  PROVE  table[n] \in [settings : Settings, seal : SealsOf]
BY DEF Tables, Has

(* Sealing makes a seal. *)
LEMMA SealType ==
  /\ NoSeal \in SealsOf
  /\ \A p \in Passwords, ph \in Phrases, n \in Names : Seal(p, ph, n) \in SealsOf
BY DEF SealsOf, Seals, Seal

(* INSERT keeps a table a table. *)
LEMMA InsertType ==
  ASSUME NEW table \in Tables, NEW n \in Names, NEW s \in Settings
  PROVE  Insert(table, n, s) \in Tables
<1>1. Profile(s, NoSeal) \in Rows BY SealType DEF Profile, Rows
<1> QED BY <1>1 DEF Insert, Tables, Rows

(* DELETE keeps a table a table. *)
LEMMA DeleteType ==
  ASSUME NEW table \in Tables, NEW n \in Names
  PROVE  Delete(table, n) \in Tables
BY DEF Delete, Tables

(* UPDATE of the settings does, whether or not it finds the row. *)
LEMMA UpdateType ==
  ASSUME NEW table \in Tables, NEW n \in Names, NEW s \in Settings
  PROVE  UpdateSettings(table, n, s) \in Tables
<1>1. CASE ~Has(table, n) BY <1>1 DEF UpdateSettings
<1>2. CASE Has(table, n)
  <2>1. [table[n] EXCEPT !.settings = s] \in Rows
    BY <1>2, RowType DEF Rows
  <2> QED BY <1>2, <2>1 DEF UpdateSettings, Tables, Rows
<1> QED BY <1>1, <1>2

(* UPDATE of the sealed password of a row does. *)
LEMMA SetPasswordType ==
  ASSUME NEW table \in Tables, NEW n \in Names, Has(table, n),
         NEW seal \in SealsOf
  PROVE  SetPassword(table, n, seal) \in Tables
<1>1. [table[n] EXCEPT !.seal = seal] \in Rows
  BY RowType DEF Rows
<1> QED BY <1>1 DEF SetPassword, Tables, Rows

(* The first UPDATE of a row that is there keeps its seal. *)
LEMMA UpdatedRow ==
  ASSUME NEW table \in Tables, NEW n \in Names, Has(table, n), NEW s
  PROVE  UpdateSettings(table, n, s)[n] = Profile(s, table[n].seal)
<1>1. UpdateSettings(table, n, s)[n] = [table[n] EXCEPT !.settings = s]
  BY DEF UpdateSettings, Tables
<1>2. table[n] \in [settings : Settings, seal : SealsOf] BY RowType
<1>3. [table[n] EXCEPT !.settings = s] = Profile(s, table[n].seal)
  BY <1>2 DEF Profile
<1> QED BY <1>1, <1>3

(* The UPDATE of its seal keeps the settings. *)
LEMMA SealedRow ==
  ASSUME NEW table \in Tables, NEW n \in Names, Has(table, n), NEW seal
  PROVE  SetPassword(table, n, seal)[n] = Profile(table[n].settings, seal)
<1>1. SetPassword(table, n, seal)[n] = [table[n] EXCEPT !.seal = seal]
  BY DEF SetPassword, Tables
<1>2. table[n] \in [settings : Settings, seal : SealsOf] BY RowType
<1>3. [table[n] EXCEPT !.seal = seal] = Profile(table[n].settings, seal)
  BY <1>2 DEF Profile
<1> QED BY <1>1, <1>3

(* No rows are a table. *)
LEMMA EmptyType == NoTable \in Tables
BY DEF NoTable, EmptyTable, Tables

(* The editor of a new profile is an editor. *)
LEMMA NewFormType == NewForm \in Forms
BY DEF NewForm, Forms

(* No save is a save. *)
LEMMA NoJobType == NoJob \in Jobs
BY SealType DEF NoJob, Jobs

(* A row that is there is not the missing row. *)
LEMMA ProfileSaved ==
  ASSUME NEW s, NEW seal
  PROVE  Profile(s, seal) # NoProfile
<1>1. "settings" \in DOMAIN Profile(s, seal) BY DEF Profile
<1>2. "settings" \notin DOMAIN NoProfile BY DEF NoProfile
<1> QED BY <1>1, <1>2

(* The seal a save asks for is a seal. *)
LEMMA AskedType ==
  ASSUME TypeOK, NEW n \in Names, NEW p \in Passwords \cup {""},
         NEW ph \in Phrases \cup {""}
  PROVE  SealAskedFor(n, p, ph) \in SealsOf
<1>1. CASE p # "" /\ ph # ""
  BY <1>1, SealType, RowType DEF SealAskedFor, TypeOK
<1>2. CASE ~(p # "" /\ ph # "")
  BY <1>2, SealType, RowType DEF SealAskedFor, TypeOK
<1> QED BY <1>1, <1>2

(* What one statement leaves is a table. *)
LEMMA StatementsType ==
  ASSUME TypeOK, NEW n \in Names, NEW t \in Statements(n)
  PROVE  t \in Tables
<1> USE DEF TypeOK
<1>1. CASE t = Delete(profiles, n) BY <1>1, DeleteType
<1>2. ASSUME NEW s \in Settings, t = UpdateSettings(profiles, n, s)
      PROVE  t \in Tables
  BY <1>2, UpdateType
<1>3. ASSUME NEW seal \in SealsOf, Has(profiles, n),
             t = SetPassword(profiles, n, seal)
      PROVE  t \in Tables
  BY <1>3, SetPasswordType
<1>4. ASSUME NEW s \in Settings, t = Insert(profiles, n, s)
      PROVE  t \in Tables
  BY <1>4, InsertType
<1> QED BY <1>1, <1>2, <1>3, <1>4 DEF Statements

(* A step of save() is one statement on the row of one name: of the old    *)
(* name, or of the new one with a seal that is bound to it.                *)
LEMMA SavingStatement ==
  ASSUME TypeOK, SaveOnTrack, Saving
  PROVE  \/ profiles' = profiles
         \/ \E n \in Names : profiles' \in Statements(n)
<1>1. CASE DeleteOld
  BY <1>1 DEF DeleteOld, SaveOnTrack, At, Statements
<1>2. CASE Update
  BY <1>2 DEF Update, SaveOnTrack, At, Statements
<1>3. CASE InsertNew
  BY <1>3 DEF InsertNew, SaveOnTrack, At, Statements
<1>4. CASE ClearSeal
  <2>1. job.name \in Names BY <1>4 DEF ClearSeal, SaveOnTrack, At
  <2> QED BY <1>4, <2>1, SealType DEF ClearSeal, Statements
<1>5. CASE SealPassword
  <2>1. job.name \in Names BY <1>5 DEF SealPassword, SaveOnTrack, At
  <2>2. job.pwd \in Passwords /\ job.passphrase \in Phrases
    BY <1>5 DEF SealPassword, Sealable, TypeOK
  <2> DEFINE seal == Seal(job.pwd, job.passphrase, job.name)
  <2>3. seal \in SealsOf /\ seal.aad = job.name
    BY <2>1, <2>2, SealType DEF Seal
  <2>4. SetPassword(profiles, job.name, seal) \in Statements(job.name)
    <3> HIDE DEF seal
    <3> QED BY <1>5, <2>3 DEF SealPassword, Statements
  <2> QED BY <1>5, <2>1, <2>4 DEF SealPassword
<1>6. CASE KeepPassword BY <1>6 DEF KeepPassword
<1>7. CASE InsertRefused BY <1>7 DEF InsertRefused, Refuse
<1>8. CASE PasswordRefused BY <1>8 DEF PasswordRefused, Refuse
<1>9. CASE StatementFails BY <1>9 DEF StatementFails, Refuse
<1> QED BY <1>1, <1>2, <1>3, <1>4, <1>5, <1>6, <1>7, <1>8, <1>9 DEF Saving

(* And so is every step of the program and of the others. *)
LEMMA OneStatement ==
  ASSUME TypeOK, SaveOnTrack, Next
  PROVE  profiles' = profiles \/ \E n \in Names : profiles' \in Statements(n)
<1>1. CASE Saving BY <1>1, SavingStatement
<1>2. CASE Key
  BY <1>2 DEF Key, Open, Edit, GoHome, ClearPassword, Leave, Save, Launch
<1>3. CASE Load BY <1>3 DEF Load
<1>4. CASE Crash BY <1>4 DEF Crash
<1>5. CASE Elsewhere BY <1>5 DEF Elsewhere
<1> QED BY <1>1, <1>2, <1>3, <1>4, <1>5 DEF Next, Own

(* A fault is counted. *)
LEMMA FaultType == ASSUME TypeOK, Fault PROVE faults' \in Nat
<1>1. faults \in Nat BY DEF TypeOK
<1>2. faults' = faults + 1 BY DEF Fault
<1> QED BY <1>1, <1>2

(* Types are preserved. *)
LEMMA TypeStep == TypeOK /\ SaveOnTrack /\ [Next]_vars => TypeOK'
<1> SUFFICES ASSUME TypeOK, SaveOnTrack, [Next]_vars PROVE TypeOK'
  OBVIOUS
<1>0. profiles' \in Tables
  <2>1. CASE UNCHANGED vars BY <2>1 DEF vars, TypeOK
  <2>2. CASE Next BY <2>2, OneStatement, StatementsType DEF TypeOK
  <2> QED BY <2>1, <2>2
<1> USE EmptyType, <1>0 DEF TypeOK, ui, editor, Show
<1>1. ASSUME NEW s \in {"list", "launcher"}, Open(s) PROVE TypeOK'
  BY <1>1, SealType DEF Open, NoLaunch, Typed
<1>2. ASSUME NEW n \in Names \cup {""}, Edit(n) PROVE TypeOK'
  <2>1. form' \in Forms
    BY <1>2, NewFormType DEF Edit, Forms, Vaulted
  <2> QED BY <1>2, <2>1 DEF Edit, Forms
<1>3. CASE GoHome BY <1>3 DEF GoHome
<1>4. CASE ClearPassword
  BY <1>4 DEF ClearPassword
<1>5. CASE Leave
  BY <1>5, NewFormType, NoJobType DEF Leave, CloseEditor, Forms, Jobs
<1>6. CASE Save
  <2>1. PICK n \in Names, s \in Settings, p \in Passwords \cup {""},
             ph \in Phrases \cup {""} :
          /\ job' = [name |-> n, settings |-> s, pwd |-> p, passphrase |-> ph,
                     want |-> SealAskedFor(n, p, ph)]
          /\ pc' = IF form.orig \in {"", n} THEN "update" ELSE "delete"
    BY <1>6 DEF Save
  <2>2. SealAskedFor(n, p, ph) \in SealsOf BY AskedType
  <2>3. job' \in Jobs BY <2>1, <2>2 DEF Jobs
  <2> QED BY <1>6, <2>1, <2>3 DEF Save, Jobs
<1>7. ASSUME NEW n \in Names, NEW typed \in Passwords \cup Phrases \cup {""},
             Launch(n, typed)
      PROVE  TypeOK'
  <2>1. copy[n] \in [settings : Settings, seal : SealsOf]
    BY <1>7, RowType DEF Launch
  <2>2. ResolvePassword(copy[n].seal, n, typed) \in Typed
    BY <2>1 DEF ResolvePassword, UnsealPassword, Opens, SealsOf, Seals, Typed
  <2>3. sent' \in [seal : SealsOf, typed : Typed, pwd : Typed]
    BY <1>7, <2>1, <2>2 DEF Launch, Typed
  <2> QED BY <1>7, <2>3 DEF Launch
<1>8. CASE Load
  <2>1. copy' \in Tables BY <1>8 DEF Load
  <2>2. faults' \in Nat BY <1>8, FaultType DEF Load
  <2> QED BY <1>8, <2>1, <2>2 DEF Load
<1>9. CASE DeleteOld BY <1>9, FaultType DEF DeleteOld
<1>10. CASE Update BY <1>10 DEF Update
<1>11. CASE InsertNew BY <1>11 DEF InsertNew
<1>12. CASE ClearSeal BY <1>12 DEF ClearSeal
<1>13. CASE SealPassword BY <1>13 DEF SealPassword
<1>14. CASE KeepPassword BY <1>14 DEF KeepPassword
<1>15. CASE InsertRefused
  BY <1>15, NoJobType DEF InsertRefused, Refuse, Jobs
<1>16. CASE PasswordRefused
  BY <1>16, NoJobType DEF PasswordRefused, Refuse, Jobs
<1>17. CASE StatementFails
  BY <1>17, FaultType, NoJobType DEF StatementFails, Refuse, Jobs
<1>18. CASE Crash
  BY <1>18, FaultType, NewFormType, NoJobType DEF Crash, CloseEditor, Forms, Jobs
<1>19. CASE Elsewhere BY <1>19 DEF Elsewhere
<1>20. CASE UNCHANGED vars
  <2>1. /\ profiles' = profiles /\ copy' = copy /\ screen' = screen /\ loading' = loading
        /\ alone' = alone /\ form' = form /\ pc' = pc /\ job' = job /\ sent' = sent
        /\ faults' = faults
    BY <1>20 DEF vars
  <2> QED BY <2>1
<1>21. CASE Key
  BY <1>21, <1>1, <1>2, <1>3, <1>4, <1>5, <1>6, <1>7 DEF Key
<1>22. CASE Saving
  BY <1>22, <1>9, <1>10, <1>11, <1>12, <1>13, <1>14, <1>15, <1>16, <1>17
     DEF Saving
<1> QED BY <1>8, <1>18, <1>19, <1>20, <1>21, <1>22 DEF Next, Own

(* The initial state. *)
LEMMA InitHolds == Init => TypeOK /\ SaveOnTrack /\ SealsOpen /\ LaunchUnlocks
<1> SUFFICES ASSUME Init
             PROVE  TypeOK /\ SaveOnTrack /\ SealsOpen /\ LaunchUnlocks
  OBVIOUS
<1> USE DEF Init
<1>1. TypeOK
  BY EmptyType, NewFormType, NoJobType, SealType
     DEF TypeOK, Forms, Jobs, NoLaunch, Typed
<1>2. SaveOnTrack BY DEF SaveOnTrack
<1>3. SealsOpen
  BY DEF SealsOpen, Bound, Vaulted, Has, NoTable, EmptyTable
<1>4. LaunchUnlocks BY DEF LaunchUnlocks, NoLaunch
<1> QED BY <1>1, <1>2, <1>3, <1>4

------------------------------------------------------------------------------
(* Seals and the launcher *)

(* One statement leaves every seal bound to the name of its row. *)
LEMMA BoundStatement ==
  ASSUME TypeOK, Bound(profiles), NEW n \in Names, NEW t \in Statements(n)
  PROVE  Bound(t)
<1> SUFFICES ASSUME NEW m \in Names, Vaulted(t, m)
             PROVE  t[m].seal.aad = m
  BY DEF Bound
<1>0. t \in Tables BY StatementsType
<1>1. CASE t[m] = profiles[m]
  BY <1>1 DEF Bound, Vaulted, Has
<1>2. CASE t = Delete(profiles, n)
  <2>1. t[m] = profiles[m] \/ t[m] = NoProfile
    BY <1>2 DEF Delete, TypeOK, Tables
  <2> QED BY <2>1, <1>1 DEF Vaulted, Has
<1>3. ASSUME NEW s \in Settings, t = UpdateSettings(profiles, n, s)
      PROVE  t[m].seal.aad = m
  <2>1. CASE m # n \/ ~Has(profiles, n)
    BY <1>1, <1>3, <2>1 DEF UpdateSettings, TypeOK, Tables
  <2>2. CASE m = n /\ Has(profiles, n)
    <3>1. t[m] = Profile(s, profiles[m].seal)
      BY <1>3, <2>2, UpdatedRow DEF TypeOK
    <3>2. t[m].seal = profiles[m].seal BY <3>1 DEF Profile
    <3> QED BY <2>2, <3>2 DEF Bound, Vaulted
  <2> QED BY <2>1, <2>2
<1>4. ASSUME NEW seal \in {x \in SealsOf : x = NoSeal \/ x.aad = n},
             Has(profiles, n), t = SetPassword(profiles, n, seal)
      PROVE  t[m].seal.aad = m
  <2>1. CASE m # n
    BY <1>1, <1>4, <2>1 DEF SetPassword, TypeOK, Tables
  <2>2. CASE m = n
    <3>1. t[m] = Profile(profiles[m].settings, seal)
      BY <1>4, <2>2, SealedRow DEF TypeOK
    <3>2. t[m].seal = seal BY <3>1 DEF Profile
    <3> QED BY <1>4, <2>2, <3>2 DEF Vaulted
  <2> QED BY <2>1, <2>2
<1>5. ASSUME NEW s \in Settings, t = Insert(profiles, n, s)
      PROVE  t[m].seal.aad = m
  <2>1. t[m] = profiles[m] \/ t[m].seal = NoSeal
    BY <1>5 DEF Insert, Profile, TypeOK, Tables
  <2> QED BY <2>1, <1>1 DEF Vaulted
<1> QED BY <1>2, <1>3, <1>4, <1>5 DEF Statements

(* An empty table binds nothing. *)
LEMMA EmptyBound == Bound(NoTable)
BY DEF Bound, Vaulted, Has, NoTable, EmptyTable

(* Every step keeps the seals bound: a copy is only taken of the table. *)
LEMMA SealsStep ==
  TypeOK /\ SaveOnTrack /\ SealsOpen /\ [Next]_vars => SealsOpen'
<1> SUFFICES ASSUME TypeOK, SaveOnTrack, SealsOpen, [Next]_vars
             PROVE  SealsOpen'
  OBVIOUS
<1>1. Bound(profiles')
  <2>1. CASE profiles' = profiles BY <2>1 DEF SealsOpen
  <2>2. ASSUME NEW n \in Names, profiles' \in Statements(n)
        PROVE  Bound(profiles')
    BY <2>2, BoundStatement DEF SealsOpen
  <2> QED BY <2>1, <2>2, OneStatement DEF vars
<1>2. copy' \in {copy, profiles, NoTable}
  <2>1. CASE Key
    BY <2>1 DEF Key, Open, Edit, GoHome, ClearPassword, Leave, Save, Launch,
                Show, ui
  <2>2. CASE Load BY <2>2 DEF Load
  <2>3. CASE Saving
    BY <2>3 DEF Saving, DeleteOld, Update, InsertNew, InsertRefused, ClearSeal,
                SealPassword, KeepPassword, PasswordRefused, StatementFails,
                Refuse, ui
  <2>4. CASE Crash BY <2>4 DEF Crash, Show
  <2>5. CASE Elsewhere BY <2>5 DEF Elsewhere, ui
  <2>6. CASE UNCHANGED vars BY <2>6 DEF vars, ui
  <2> QED BY <2>1, <2>2, <2>3, <2>4, <2>5, <2>6 DEF Next, Own
<1> QED BY <1>1, <1>2, EmptyBound DEF SealsOpen, Bound, Vaulted, Has

(* What a launch sends, given that the seal of its copy is bound. *)
LEMMA Resolved ==
  ASSUME NEW seal \in SealsOf, NEW n, NEW typed, seal # NoSeal, seal.aad = n
  PROVE  ResolvePassword(seal, n, typed)
           = IF typed = seal.passphrase THEN seal.pwd ELSE ""
<1>1. seal \in [pwd : Passwords, passphrase : Phrases, aad : Names]
  BY DEF SealsOf, Seals
<1>2. seal.passphrase # "" BY <1>1, EmptyAssumption DEF EmptyAssumption
<1> QED BY <1>2 DEF ResolvePassword, UnsealPassword, Opens

(* Every step keeps the last launch true to the seal it copied. *)
LEMMA LaunchStep ==
  TypeOK /\ SealsOpen /\ LaunchUnlocks /\ [Next]_vars => LaunchUnlocks'
<1> SUFFICES ASSUME TypeOK, SealsOpen, LaunchUnlocks, [Next]_vars
             PROVE  LaunchUnlocks'
  OBVIOUS
<1>1. ASSUME NEW n \in Names, NEW typed \in Typed, Launch(n, typed)
      PROVE  LaunchUnlocks'
  <2>1. copy[n].seal \in SealsOf
    BY <1>1, RowType DEF Launch, TypeOK
  <2>2. copy[n].seal # NoSeal => copy[n].seal.aad = n
    BY <1>1 DEF Launch, SealsOpen, Bound, Vaulted
  <2>3. sent' = [seal |-> copy[n].seal, typed |-> typed,
                 pwd |-> ResolvePassword(copy[n].seal, n, typed)]
    BY <1>1 DEF Launch
  <2> QED BY <2>1, <2>2, <2>3, Resolved DEF LaunchUnlocks
<1>2. ASSUME NEW s, Open(s) PROVE LaunchUnlocks'
  BY <1>2 DEF Open, NoLaunch, LaunchUnlocks
<1>3. CASE UNCHANGED sent BY <1>3 DEF LaunchUnlocks
<1>4. CASE Key
  BY <1>1, <1>2, <1>3, <1>4
     DEF Key, Typed, Edit, GoHome, ClearPassword, Leave, Save
<1>5. CASE Saving
  BY <1>3, <1>5 DEF Saving, DeleteOld, Update, InsertNew, InsertRefused, ClearSeal,
                SealPassword, KeepPassword, PasswordRefused, StatementFails, Refuse
<1> QED BY <1>3, <1>4, <1>5 DEF Next, Own, Load, Crash, Elsewhere, vars

------------------------------------------------------------------------------
(* save() *)

(* Every step keeps a save on its track, or ends it. *)
LEMMA TrackStep == TypeOK /\ SaveOnTrack /\ [Next]_vars => SaveOnTrack'
<1> SUFFICES ASSUME TypeOK, SaveOnTrack, [Next]_vars PROVE SaveOnTrack'
  OBVIOUS
<1> DEFINE want == SealAskedFor(job.name, job.pwd, job.passphrase)
(* Steps outside save(). *)
<1>1. ASSUME pc = "typing", pc' = "typing" PROVE SaveOnTrack'
  BY <1>1 DEF SaveOnTrack
<1>2. ASSUME NEW s, Open(s) PROVE SaveOnTrack'
  BY <1>1, <1>2 DEF Open, SaveOnTrack, editor
<1>3. CASE GoHome BY <1>1, <1>3 DEF GoHome, SaveOnTrack, editor
<1>4. ASSUME NEW n, Edit(n) PROVE SaveOnTrack'
  BY <1>1, <1>4 DEF Edit, SaveOnTrack
<1>5. CASE ClearPassword BY <1>1, <1>5 DEF ClearPassword, At
<1>6. CASE Leave BY <1>6 DEF Leave, CloseEditor, SaveOnTrack
<1>7. ASSUME NEW n, NEW typed, Launch(n, typed) PROVE SaveOnTrack'
  BY <1>1, <1>7 DEF Launch, SaveOnTrack, editor
<1>8. CASE Crash BY <1>8 DEF Crash, CloseEditor, SaveOnTrack
<1>9. CASE Refuse BY <1>9 DEF Refuse, SaveOnTrack
(* Save promises what the fields ask for. *)
<1>10. CASE Save
  <2>1. PICK n \in Names, s \in Settings, p \in Passwords \cup {""},
             ph \in Phrases \cup {""} :
          /\ job' = [name |-> n, settings |-> s, pwd |-> p, passphrase |-> ph,
                     want |-> SealAskedFor(n, p, ph)]
          /\ pc' = IF form.orig \in {"", n} THEN "update" ELSE "delete"
    BY <1>10 DEF Save
  <2>2. UNCHANGED <<profiles, form, screen>> /\ screen = "editor"
    BY <1>10 DEF Save, At, ui
  <2>3. SealAskedFor(n, p, ph)' = SealAskedFor(n, p, ph)
    BY <2>2 DEF SealAskedFor
  <2>4. form.orig \in Names \cup {""} BY DEF TypeOK
  <2>5. job'.want = SealAskedFor(job.name, job.pwd, job.passphrase)'
    BY <2>1, <2>2 DEF SealAskedFor
  <2> QED BY <2>1, <2>2, <2>4, <2>5 DEF SaveOnTrack
(* The statements of save(): job stays, and so does the row until written. *)
<1>11. CASE DeleteOld
  <2>1. job.name \in Names /\ form.orig \in Names \ {job.name} /\ job.settings \in Settings
    BY <1>11 DEF DeleteOld, At, SaveOnTrack
  <2>2. UNCHANGED <<job, form, screen, alone>> /\ pc' = "update" /\ screen = "editor"
    BY <1>11 DEF DeleteOld, At, ui
  <2>3. profiles'[job.name] = profiles[job.name]
    BY <1>11, <2>1 DEF DeleteOld, Delete, TypeOK, Tables
  <2>4. want' = want BY <2>2, <2>3 DEF SealAskedFor, Has
  <2>5. alone => job.want = want BY <1>11 DEF DeleteOld, At, SaveOnTrack
  <2> QED BY <2>1, <2>2, <2>4, <2>5 DEF SaveOnTrack
<1>12. CASE Update
  <2>1. job.name \in Names /\ job.settings \in Settings
    BY <1>12 DEF Update, At, SaveOnTrack
  <2>2. /\ UNCHANGED <<job, form, screen, alone>> /\ screen = "editor"
        /\ pc' = IF Has(profiles, job.name) THEN "password" ELSE "insert"
        /\ profiles' = UpdateSettings(profiles, job.name, job.settings)
    BY <1>12 DEF Update, At, ui
  <2>3. alone => job.want = want BY <1>12 DEF Update, At, SaveOnTrack
  <2>4. CASE Has(profiles, job.name)
    <3>1. profiles'[job.name] = Profile(job.settings, profiles[job.name].seal)
      BY <2>1, <2>2, <2>4, UpdatedRow DEF TypeOK
    <3>2. /\ Has(profiles', job.name)
          /\ profiles'[job.name].settings = job.settings
          /\ profiles'[job.name].seal = profiles[job.name].seal
      BY <3>1, ProfileSaved DEF Has, Profile
    <3>3. want' = want BY <2>2, <2>4, <3>2 DEF SealAskedFor
    <3> QED BY <2>1, <2>2, <2>3, <2>4, <3>2, <3>3 DEF SaveOnTrack, Has
  <2>5. CASE ~Has(profiles, job.name)
    <3>1. profiles' = profiles BY <2>2, <2>5 DEF UpdateSettings
    <3>2. want' = want BY <2>2, <3>1 DEF SealAskedFor
    <3> QED BY <2>1, <2>2, <2>3, <2>5, <3>1, <3>2 DEF SaveOnTrack, Has
  <2> QED BY <2>4, <2>5
<1>13. CASE InsertNew
  <2>1. job.name \in Names /\ job.settings \in Settings
    BY <1>13 DEF InsertNew, At, SaveOnTrack
  <2>2. /\ UNCHANGED <<job, form, screen, alone>> /\ screen = "editor"
        /\ pc' = "password" /\ ~Has(profiles, job.name)
    BY <1>13 DEF InsertNew, At, ui
  <2>3. alone => job.want = want BY <1>13 DEF InsertNew, At, SaveOnTrack
  <2>4. profiles'[job.name] = Profile(job.settings, NoSeal)
    BY <1>13, <2>1 DEF InsertNew, Insert, TypeOK, Tables
  <2>5. /\ Has(profiles', job.name)
        /\ profiles'[job.name].settings = job.settings
        /\ profiles'[job.name].seal = NoSeal
    BY <2>4, ProfileSaved DEF Has, Profile
  <2>6. want' = want BY <2>2, <2>5 DEF SealAskedFor
  <2> QED BY <2>1, <2>2, <2>3, <2>5, <2>6 DEF SaveOnTrack, Has
(* The last statement leaves what was asked. *)
<1>14. ASSUME pc = "password", screen = "editor", pc' = "saved",
              UNCHANGED <<job, screen, alone>>,
              alone => profiles'[job.name] = Profile(job.settings, job.want)
       PROVE  SaveOnTrack'
  BY <1>14 DEF SaveOnTrack
<1>15. CASE ClearSeal
  <2>1. pc = "password" /\ job.name \in Names /\ Has(profiles, job.name)
    BY <1>15 DEF ClearSeal, At, SaveOnTrack
  <2>2. profiles'[job.name] = Profile(profiles[job.name].settings, NoSeal)
    BY <1>15, <2>1, SealedRow DEF ClearSeal, TypeOK
  <2>3. alone => job.want = NoSeal /\ profiles[job.name].settings = job.settings
    BY <1>15, <2>1 DEF ClearSeal, SaveOnTrack, SealAskedFor
  <2> QED BY <1>14, <1>15, <2>1, <2>2, <2>3 DEF ClearSeal, At, ui
<1>16. CASE SealPassword
  <2>1. pc = "password" /\ job.name \in Names /\ Has(profiles, job.name)
    BY <1>16 DEF SealPassword, At, SaveOnTrack
  <2> DEFINE seal == Seal(job.pwd, job.passphrase, job.name)
  <2>2. profiles'[job.name] = Profile(profiles[job.name].settings, seal)
    BY <1>16, <2>1, SealedRow DEF SealPassword, TypeOK
  <2>3. alone => job.want = seal /\ profiles[job.name].settings = job.settings
    BY <1>16, <2>1 DEF SealPassword, Sealable, SaveOnTrack, SealAskedFor
  <2> QED BY <1>14, <1>16, <2>1, <2>2, <2>3 DEF SealPassword, At, ui
<1>17. CASE KeepPassword
  <2>1. pc = "password" /\ job.name \in Names
    BY <1>17 DEF KeepPassword, At, SaveOnTrack
  <2>2. alone => /\ Has(profiles, job.name)
                 /\ job.want = profiles[job.name].seal
                 /\ profiles[job.name].settings = job.settings
    BY <1>17, <2>1 DEF KeepPassword, Unsealed, SaveOnTrack, SealAskedFor
  <2>3. Has(profiles, job.name) =>
          profiles[job.name] = Profile(profiles[job.name].settings,
                                       profiles[job.name].seal)
    BY <2>1, RowType DEF TypeOK, Profile
  <2> QED BY <1>14, <1>17, <2>1, <2>2, <2>3 DEF KeepPassword, At, ui
(* Loading, other instances, and steps that change nothing here. *)
<1>18. CASE Load
  BY <1>18 DEF Load, SaveOnTrack, editor, SealAskedFor, Has
<1>19. CASE Elsewhere BY <1>19 DEF Elsewhere, SaveOnTrack, ui
<1>20. CASE UNCHANGED vars
  BY <1>20 DEF vars, ui, editor, SaveOnTrack, SealAskedFor, Has
<1>21. CASE Key
  BY <1>21, <1>2, <1>3, <1>4, <1>5, <1>6, <1>7, <1>10 DEF Key
<1>22. CASE Saving
  BY <1>22, <1>9, <1>11, <1>12, <1>13, <1>15, <1>16, <1>17
     DEF Saving, InsertRefused, PasswordRefused, StatementFails
<1> QED BY <1>8, <1>18, <1>19, <1>20, <1>21, <1>22 DEF Next, Own

------------------------------------------------------------------------------
(* Theorems *)

(* Every variable keeps its type, and save() stays on the track of what    *)
(* was asked, whatever other instances write and whatever fails.           *)
THEOREM SavesStayOnTrack == Spec => [](TypeOK /\ SaveOnTrack)
<1>1. Init => TypeOK /\ SaveOnTrack BY InitHolds
<1>2. TypeOK /\ SaveOnTrack /\ [Next]_vars => (TypeOK /\ SaveOnTrack)'
  BY TypeStep, TrackStep
<1> QED BY <1>1, <1>2, PTL DEF Spec

(* Whatever is typed, saved, refused or written by another instance, the   *)
(* screens and the table keep their types: no row is left half written.    *)
THEOREM ProfilesTyped == Spec => []TypeOK
<1> QED BY SavesStayOnTrack, PTL

(* A save that reports success has left the profile as asked, unless       *)
(* another instance wrote meanwhile.                                       *)
THEOREM SavesAreAsAsked == Spec => []SavedAsAsked
<1>1. SaveOnTrack => SavedAsAsked BY DEF SaveOnTrack, SavedAsAsked, At
<1> QED BY <1>1, SavesStayOnTrack, PTL

(* A sealed password is bound to the name of its row, in the table and in  *)
(* every copy of it, for any number of instances.                          *)
THEOREM SealsStayBound == Spec => []SealsOpen
<1>1. Init => SealsOpen BY InitHolds
<1>2. TypeOK /\ SaveOnTrack /\ SealsOpen /\ [Next]_vars => SealsOpen'
  BY SealsStep
<1> QED BY <1>1, <1>2, SavesStayOnTrack, PTL DEF Spec

(* The launcher sends the password that was sealed to whoever typed its    *)
(* passphrase, and nothing to whoever did not.                             *)
THEOREM LaunchesUnlock == Spec => []LaunchUnlocks
<1>1. Init => LaunchUnlocks BY InitHolds
<1>2. TypeOK /\ SealsOpen /\ LaunchUnlocks /\ [Next]_vars => LaunchUnlocks'
  BY LaunchStep
<1> QED BY <1>1, <1>2, SavesStayOnTrack, SealsStayBound, PTL DEF Spec

(* What the model lets the other instances do to the table is all that an  *)
(* instance does to it: with this rely and guarantee, the theorems hold of *)
(* each of any number of instances.                                        *)
THEOREM InstancesAreAlike == Spec => OneStatementAtATime
<1>1. TypeOK /\ SaveOnTrack /\ [Next]_vars
      => [profiles' # profiles => \E n \in Names : profiles' \in Statements(n)]_vars
  BY OneStatement DEF vars
<1> QED BY <1>1, SavesStayOnTrack, PTL DEF Spec, OneStatementAtATime

(* Only whoever saves a profile with both password fields, or clears its   *)
(* password, changes its seal.                                             *)
THEOREM SettingsKeepSeals == Spec => SettingsKeepSeal
<1> DEFINE Kept ==
      \A n \in Names :
        /\ pc' # pc /\ Has(profiles, n) /\ Has(profiles', n)
        /\ profiles'[n].seal # profiles[n].seal
        => job.name = n /\ (form.clear \/ Sealable)
<1>1. ASSUME TypeOK, SaveOnTrack, [Next]_vars PROVE Kept
  <2> SUFFICES ASSUME NEW n \in Names, pc' # pc, Has(profiles, n),
                      Has(profiles', n), profiles'[n].seal # profiles[n].seal
               PROVE  job.name = n /\ (form.clear \/ Sealable)
    OBVIOUS
  <2> USE <1>1
  <2>1. CASE DeleteOld
    <3>1. profiles' = profiles \/ profiles' = Delete(profiles, form.orig)
      BY <2>1 DEF DeleteOld
    <3>2. profiles'[n] = profiles[n] \/ profiles'[n] = NoProfile
      BY <3>1 DEF Delete, TypeOK, Tables
    <3> QED BY <3>2 DEF Has
  <2>2. CASE Update
    <3>1. CASE n # job.name \/ ~Has(profiles, job.name)
      BY <2>2, <3>1 DEF Update, UpdateSettings, TypeOK, Tables
    <3>2. CASE n = job.name /\ Has(profiles, job.name)
      <4>1. profiles'[n] = Profile(job.settings, profiles[n].seal)
        <5>1. profiles' = UpdateSettings(profiles, n, job.settings)
          BY <2>2, <3>2 DEF Update
        <5>2. profiles \in Tables BY DEF TypeOK
        <5> QED BY <3>2, <5>1, <5>2, UpdatedRow
      <4> QED BY <4>1 DEF Profile
    <3> QED BY <3>1, <3>2
  <2>3. CASE InsertNew
    BY <2>3 DEF InsertNew, Insert, TypeOK, Tables
  <2>4. CASE ClearSeal
    BY <2>4 DEF ClearSeal, SetPassword, TypeOK, Tables
  <2>5. CASE SealPassword
    BY <2>5 DEF SealPassword, SetPassword, TypeOK, Tables
  <2>6. CASE KeepPassword BY <2>6 DEF KeepPassword
  <2>7. CASE Refuse BY <2>7 DEF Refuse
  <2>8. CASE Saving
    BY <2>1, <2>2, <2>3, <2>4, <2>5, <2>6, <2>7, <2>8
       DEF Saving, InsertRefused, PasswordRefused, StatementFails
  <2>9. CASE Key
    BY <2>9 DEF Key, Open, Edit, GoHome, ClearPassword, Leave, Save, Launch
  <2>10. CASE Load \/ Crash BY <2>10 DEF Load, Crash
  <2>11. CASE Elsewhere BY <2>11 DEF Elsewhere
  <2>12. CASE UNCHANGED vars BY <2>12 DEF vars
  <2> QED BY <2>8, <2>9, <2>10, <2>11, <2>12 DEF Next, Own
<1>2. TypeOK /\ SaveOnTrack /\ [Next]_vars => [Kept]_vars BY <1>1
<1> QED BY <1>2, SavesStayOnTrack, PTL DEF Spec, SettingsKeepSeal
==============================================================================

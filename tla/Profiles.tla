------------------------------ MODULE Profiles ------------------------------
(***************************************************************************)
(* Connection profiles: the list, the editor and its save, and the         *)
(* launcher that unseals a password to start a restore, in one instance of *)
(* the program next to any number of others on the same Data Directory.    *)
(*                                                                         *)
(* save() is one call inside Update, so the instance does nothing else     *)
(* meanwhile, but it is up to four statements on the table: between two of *)
(* them another instance may write, a statement may fail, the process may  *)
(* die.  A screen acts on the copy of the table it loaded when it was last *)
(* shown.                                                                  *)
(***************************************************************************)
EXTENDS Naturals, CredentialVault

CONSTANTS
  Names,      \* profile names
  Settings,   \* host, port, user and database, as one value
  Passwords,
  Phrases,    \* master passphrases
  Others,     \* do other instances write to the table?
  MaxFaults   \* bound on the failing calls and crashes explored

ASSUME FaultsAssumption == MaxFaults \in Nat /\ Others \in BOOLEAN

(* An input field may be left empty. *)
ASSUME EmptyAssumption == "" \notin Names \cup Passwords \cup Phrases

VARIABLES
  profiles,  \* the table
  screen,    \* the active screen
  copy,      \* the profiles that the list or launcher has loaded
  loading,   \* the screen's load command is still to be answered
  form,      \* origName, hasPwd and clearPwd of the editor
  pc,        \* the next statement of save()
  job,       \* the fields save() has read, and the seal they ask for
  sent,      \* the last launch: the seal copied, what was typed and sent
  alone,     \* no other instance has written since save() began
  faults

ui == <<screen, copy, loading>>
editor == <<form, pc, job, alone>>
vars == <<profiles, ui, editor, sent, faults>>

SealsOf == Seals(Names, Passwords, Phrases)
NoTable == EmptyTable(Names)
NewForm == [orig |-> "", hasPwd |-> FALSE, clear |-> FALSE]
NoJob == [name |-> "", settings |-> "", pwd |-> "", passphrase |-> "",
          want |-> NoSeal]
NoLaunch == [seal |-> NoSeal, typed |-> "", pwd |-> ""]

At(label) == screen = "editor" /\ pc = label

Show(s) ==
  /\ screen' = s
  /\ copy' = NoTable
  /\ loading' = (s # "home")

Fault == faults < MaxFaults /\ faults' = faults + 1

------------------------------------------------------------------------------
(* Screens *)

(* From Home to a new list or launcher screen, which starts empty. *)
Open(s) ==
  /\ screen = "home"
  /\ Show(s)
  /\ sent' = NoLaunch
  /\ UNCHANGED <<profiles, editor, faults>>

(* The load command of either screen.  The launcher marks itself loaded    *)
(* before it reads the table and does not try again after an error.        *)
Load ==
  /\ loading
  /\ loading' = FALSE
  /\ \/ copy' = profiles /\ UNCHANGED faults
     \/ Fault /\ UNCHANGED copy
  /\ UNCHANGED <<profiles, screen, editor, sent>>

GoHome ==
  /\ screen \in {"list", "launcher"}
  /\ Show("home")
  /\ UNCHANGED <<profiles, editor, sent, faults>>

(* NewEditorScreen, for a new profile or for one of the list's copies.  An *)
(* answer to the list's load command would now reach the editor: it is     *)
(* lost.                                                                   *)
Edit(name) ==
  /\ screen = "list"
  /\ screen' = "editor"
  /\ loading' = FALSE
  /\ \/ name = "" /\ form' = NewForm
     \/ /\ name \in Names /\ Has(copy, name)
        /\ form' = [NewForm EXCEPT !.orig = name, !.hasPwd = Vaulted(copy, name)]
  /\ UNCHANGED <<profiles, copy, pc, job, alone, sent, faults>>

(* Ctrl-X. *)
ClearPassword ==
  /\ At("typing") /\ form.hasPwd
  /\ form' = [form EXCEPT !.hasPwd = FALSE, !.clear = TRUE]
  /\ UNCHANGED <<profiles, ui, pc, job, alone, sent, faults>>

CloseEditor ==
  /\ form' = NewForm /\ pc' = "typing" /\ job' = NoJob /\ alone' = FALSE

(* Esc, or any message after a successful save: back to the list, which    *)
(* keeps showing what it had until it has loaded again.                    *)
Leave ==
  /\ At("typing") \/ At("saved")
  /\ screen' = "list" /\ loading' = TRUE
  /\ CloseEditor
  /\ UNCHANGED <<profiles, copy, sent, faults>>

------------------------------------------------------------------------------
(* save() *)

Sealable == job.pwd # "" /\ job.passphrase # ""
Unsealed == job.pwd = "" /\ job.passphrase = ""

(* The sealed password a save with these fields is to leave. *)
SealAskedFor(name, pwd, passphrase) ==
  IF form.clear THEN NoSeal
  ELSE IF pwd # "" /\ passphrase # "" THEN Seal(pwd, passphrase, name)
  ELSE IF Has(profiles, name) THEN profiles[name].seal ELSE NoSeal

(* Enter, with any contents of the fields; an empty name or a bad port     *)
(* changes nothing.  Only another name makes save() delete the old row.    *)
Save ==
  /\ At("typing")
  /\ \E n \in Names, s \in Settings,
        p \in Passwords \cup {""}, ph \in Phrases \cup {""} :
       /\ job' = [name |-> n, settings |-> s, pwd |-> p, passphrase |-> ph,
                  want |-> SealAskedFor(n, p, ph)]
       /\ pc' = IF form.orig \in {"", n} THEN "update" ELSE "delete"
  /\ alone' = TRUE
  /\ UNCHANGED <<profiles, ui, form, sent, faults>>

(* An error is shown, and the fields keep their contents. *)
Refuse ==
  /\ pc' = "typing" /\ job' = NoJob /\ alone' = FALSE
  /\ UNCHANGED <<profiles, ui, form, sent>>

(* `_ = store.Delete(e.origName)`. *)
DeleteOld ==
  /\ At("delete")
  /\ pc' = "update"
  /\ \/ profiles' = Delete(profiles, form.orig) /\ UNCHANGED faults
     \/ Fault /\ UNCHANGED profiles
  /\ UNCHANGED <<ui, form, job, alone, sent>>

(* Mutant: nobody asks how many rows the UPDATE found.                     *)
UpdateBlindly ==
  /\ At("update")
  /\ pc' = "password"
  /\ profiles' = UpdateSettings(profiles, job.name, job.settings)
  /\ UNCHANGED <<ui, form, job, alone, sent, faults>>

Update ==
  /\ At("update")
  /\ pc' = IF Has(profiles, job.name) THEN "password" ELSE "insert"
  /\ profiles' = UpdateSettings(profiles, job.name, job.settings)
  /\ UNCHANGED <<ui, form, job, alone, sent, faults>>

InsertNew ==
  /\ At("insert") /\ ~Has(profiles, job.name)
  /\ pc' = "password"
  /\ profiles' = Insert(profiles, job.name, job.settings)
  /\ UNCHANGED <<ui, form, job, alone, sent, faults>>

(* Another instance has inserted the row since the UPDATE. *)
InsertRefused ==
  /\ At("insert") /\ Has(profiles, job.name)
  /\ Refuse /\ UNCHANGED faults

(* The password fields are looked at last, when the row is written. *)
ClearSeal ==
  /\ At("password") /\ form.clear /\ Has(profiles, job.name)
  /\ pc' = "saved"
  /\ profiles' = SetPassword(profiles, job.name, NoSeal)
  /\ form' = [form EXCEPT !.clear = FALSE]
  /\ UNCHANGED <<ui, job, alone, sent, faults>>

(* Mutant: sealed for the name the profile had. *)
SealForOldName ==
  /\ At("password") /\ ~form.clear /\ Sealable /\ Has(profiles, job.name)
  /\ pc' = "saved"
  /\ profiles' = SetPassword(profiles, job.name,
                             Seal(job.pwd, job.passphrase, form.orig))
  /\ UNCHANGED <<ui, form, job, alone, sent, faults>>

SealPassword ==
  /\ At("password") /\ ~form.clear /\ Sealable /\ Has(profiles, job.name)
  /\ pc' = "saved"
  /\ profiles' = SetPassword(profiles, job.name,
                             Seal(job.pwd, job.passphrase, job.name))
  /\ UNCHANGED <<ui, form, job, alone, sent, faults>>

KeepPassword ==
  /\ At("password") /\ ~form.clear /\ Unsealed
  /\ pc' = "saved"
  /\ UNCHANGED <<profiles, ui, form, job, alone, sent, faults>>

(* One field without the other, or the row is gone. *)
PasswordRefused ==
  /\ At("password")
  /\ IF form.clear \/ Sealable THEN ~Has(profiles, job.name) ELSE ~Unsealed
  /\ Refuse /\ UNCHANGED faults

(* A statement of Save or SetPassword fails. *)
StatementFails ==
  /\ \/ At("update") \/ At("insert")
     \/ At("password") /\ (form.clear \/ Sealable)
  /\ Fault
  /\ Refuse

(* The process ends, and is started again. *)
Crash ==
  /\ screen = "editor" /\ pc # "typing"
  /\ Fault
  /\ Show("home")
  /\ CloseEditor
  /\ UNCHANGED <<profiles, sent>>

------------------------------------------------------------------------------
(* resolvePassword: what was typed unseals a vaulted password, or is the   *)
(* password.  A wrong passphrase, and none, send an empty one.  Mutant: a  *)
(* wrong passphrase is sent.                                               *)
ResolveAnyway(seal, name, typed) ==
  IF Opens(seal, typed, name) THEN seal.pwd ELSE typed
ResolvePassword(seal, name, typed) ==
  IF seal # NoSeal /\ typed # "" THEN UnsealPassword(seal, typed, name)
  ELSE typed

(* launch, whose restore is TuiRestore's and which ends on Home.  Without  *)
(* a profile it only complains.                                            *)
Launch(name, typed) ==
  /\ screen = "launcher" /\ Has(copy, name)
  /\ sent' = [seal |-> copy[name].seal, typed |-> typed,
              pwd |-> ResolvePassword(copy[name].seal, name, typed)]
  /\ Show("home")
  /\ UNCHANGED <<profiles, editor, faults>>

------------------------------------------------------------------------------
(* The tables one statement of a save() may leave: all that an instance    *)
(* needs to know of the others.                                            *)
Statements(name) ==
  {Delete(profiles, name)}
  \cup {UpdateSettings(profiles, name, s) : s \in Settings}
  \cup (IF Has(profiles, name)
        THEN {SetPassword(profiles, name, seal) :
                seal \in {x \in SealsOf : x = NoSeal \/ x.aad = name}}
        ELSE {Insert(profiles, name, s) : s \in Settings})

Elsewhere ==
  /\ Others
  /\ \E n \in Names : profiles' \in Statements(n)
  /\ alone' = FALSE
  /\ UNCHANGED <<ui, form, pc, job, sent, faults>>

------------------------------------------------------------------------------
Init ==
  /\ profiles = NoTable
  /\ screen = "home" /\ copy = NoTable /\ loading = FALSE
  /\ form = NewForm /\ pc = "typing" /\ job = NoJob /\ alone = FALSE
  /\ sent = NoLaunch
  /\ faults = 0

Saving ==
  \/ DeleteOld \/ Update \/ InsertNew \/ InsertRefused
  \/ ClearSeal \/ SealPassword \/ KeepPassword
  \/ PasswordRefused \/ StatementFails

Key ==
  \/ \E s \in {"list", "launcher"} : Open(s)
  \/ \E n \in Names \cup {""} : Edit(n)
  \/ GoHome \/ ClearPassword \/ Leave \/ Save
  \/ \E n \in Names, typed \in Passwords \cup Phrases \cup {""} :
       Launch(n, typed)

Own == Key \/ Load \/ Saving \/ Crash
Next == Own \/ Elsewhere

Spec == Init /\ [][Next]_vars

------------------------------------------------------------------------------
(* Properties *)

Tables == [Names -> {NoProfile} \cup [settings : Settings, seal : SealsOf]]
Typed == Passwords \cup Phrases \cup {""}

(* Every variable has its type. *)
TypeOK ==
  /\ profiles \in Tables /\ copy \in Tables
  /\ screen \in {"home", "list", "editor", "launcher"}
  /\ loading \in BOOLEAN /\ alone \in BOOLEAN
  /\ form \in [orig : Names \cup {""}, hasPwd : BOOLEAN, clear : BOOLEAN]
  /\ pc \in {"typing", "delete", "update", "insert", "password", "saved"}
  /\ job \in [name : Names \cup {""}, settings : Settings \cup {""},
              pwd : Passwords \cup {""}, passphrase : Phrases \cup {""},
              want : SealsOf]
  /\ sent \in [seal : SealsOf, typed : Typed, pwd : Typed]
  /\ faults \in Nat

Bound(table) ==
  \A n \in Names : Vaulted(table, n) => table[n].seal.aad = n

(* A sealed password is always bound to the name of the row it is in, in   *)
(* the table and in every copy, whatever was renamed, whoever wrote in     *)
(* between, whichever statement failed: its passphrase opens it there.     *)
SealsOpen == Bound(profiles) /\ Bound(copy)

(* The launcher sends for a vaulted profile the password that was sealed,  *)
(* if its passphrase was typed, and otherwise none: never the passphrase.  *)
LaunchUnlocks ==
  sent.seal # NoSeal =>
    sent.pwd = IF sent.typed = sent.seal.passphrase THEN sent.seal.pwd ELSE ""

(* A save that reports success has left the profile as asked, unless       *)
(* another instance wrote meanwhile: the settings typed, and the password  *)
(* of that name sealed, cleared or kept.                                   *)
SavedAsAsked ==
  At("saved") /\ alone =>
    profiles[job.name] = Profile(job.settings, job.want)

(* Why: what save() has still to do is what was asked, seen from the table *)
(* as it is before each statement.                                         *)
SaveOnTrack ==
  /\ screen # "editor" => pc = "typing"
  /\ pc # "typing" => job.name \in Names /\ job.settings \in Settings
  /\ pc = "delete" => form.orig \in Names \ {job.name}
  /\ alone =>
       /\ pc \in {"delete", "update", "insert", "password"} =>
            job.want = SealAskedFor(job.name, job.pwd, job.passphrase)
       /\ pc = "insert" => ~Has(profiles, job.name)
       /\ pc = "password" =>
            /\ Has(profiles, job.name)
            /\ profiles[job.name].settings = job.settings
       /\ pc = "saved" => profiles[job.name] = Profile(job.settings, job.want)

(* A sealed password only changes when the operator who saves its profile  *)
(* asked for it, with both fields or with Ctrl-X: a save of other settings *)
(* keeps it, even next to other instances and after a failure.             *)
SettingsKeepSeal ==
  [][\A n \in Names :
       /\ pc' # pc /\ Has(profiles, n) /\ Has(profiles', n)
       /\ profiles'[n].seal # profiles[n].seal
       => job.name = n /\ (form.clear \/ Sealable)]_vars

(* An instance does nothing to the table but what the model lets the       *)
(* others do, so that any number of instances is covered.                  *)
OneStatementAtATime ==
  [][profiles' # profiles => \E n \in Names : profiles' \in Statements(n)]_vars

(* A save that was refused leaves the profile being edited in the table    *)
(* (rename is atomic).                                                     *)
RefusedSaveKeepsProfile ==
  At("typing") /\ form.orig # "" => Has(profiles, form.orig)
==============================================================================

------------------------------ MODULE DropGuard ------------------------------
(***************************************************************************)
(* Executor.Exec for the statements that define stored programs: the guard *)
(* it puts before them so that a resumed restore may run them again, read  *)
(* off the text of the statement (executor.go).                            *)
(*                                                                         *)
(* A text is a sequence of symbols: words that matter as a whole, in       *)
(* whatever case, blanks, and the characters an identifier may end with.   *)
(* What a statement does to the schema depends on nothing but the stored   *)
(* programs that are there, so the model executes one statement, again and *)
(* again as resumed restores do, in a schema that anything may have left.  *)
(***************************************************************************)
EXTENDS Naturals, SequencesExt

CONSTANT MaxFaults  \* bound on the refused statements explored
ASSUME FaultsAssumption == MaxFaults \in Nat

VARIABLES
  statement,  \* the statement of the dump
  programs,   \* the stored programs of the target schema: <<kind, name>>
  outcome,    \* how the last execution ended
  faults

vars == <<statement, programs, outcome, faults>>

(* In the order the guard looks for them. *)
KindList == <<"PROCEDURE", "FUNCTION", "TRIGGER", "EVENT">>
ProgramKinds == ToSet(KindList)
Before(k) == {KindList[i] : i \in 1..(SelectInSeq(KindList, LAMBDA x : x = k) - 1)}

------------------------------------------------------------------------------
(* dropGuardStmt *)

NoGuard == <<>>
CreateWords == {"CREATE", "created_at"}
Delimiters == {" ", "(", "\n", "\t", "."}

StartsAt(text, i, words) ==
  i + Len(words) - 1 <= Len(text) /\ SubSeq(text, i, i + Len(words) - 1) = words
Occurs(text, words) == {i \in DOMAIN text : StartsAt(text, i, words)}

UpToFirst(text, ends) ==
  IF ends = {} THEN text ELSE SubSeq(text, 1, Min(ends) - 1)
Unquoted(text) == UpToFirst(text, {i \in DOMAIN text : text[i] \in Delimiters})

(* A backtick closes a quoted identifier unless it is one of a pair.       *)
(* Mutant: the first one closes it.                                        *)
TicksBefore(text, i) ==
  i - 1 - Max({0} \cup {j \in 1..(i - 1) : text[j] # "bq"})
QuotedToFirst(text) == UpToFirst(text, {i \in DOMAIN text : text[i] = "bq"})
Quoted(text) ==
  UpToFirst(text, {i \in DOMAIN text :
                     /\ text[i] = "bq" /\ TicksBefore(text, i) % 2 = 0
                     /\ i < Len(text) => text[i + 1] # "bq"})

TrimLeft(text) ==
  LET solid == {i \in DOMAIN text : text[i] \notin {" ", "\n", "\t"}}
  IN  IF solid = {} THEN <<>> ELSE SubSeq(text, Min(solid), Len(text))
ExtractFirstIdentifier(untrimmed) ==
  LET text == TrimLeft(untrimmed)
  IN  IF text = <<>> THEN <<>>
      ELSE IF text[1] = "bq" THEN Quoted(Tail(text)) ELSE Unquoted(text)

(* The identifier behind the first such kind in the text, if there is one. *)
NameAfter(text, kind) ==
  LET at == Occurs(text, <<" ", kind, " ">>)
  IN  IF at = {} THEN <<>>
      ELSE ExtractFirstIdentifier(SubSeq(text, Min(at) + 3, Len(text)))

(* Mutant: a kind without a name is taken as well. *)
GuardNameless(text) ==
  LET kinds == {k \in ProgramKinds : Occurs(text, <<" ", k, " ">>) # {}}
      kind == CHOOSE k \in kinds : Before(k) \cap kinds = {}
  IN  IF kinds = {} THEN NoGuard ELSE <<kind, NameAfter(text, kind)>>
GuardIn(text) ==
  LET kinds == {k \in ProgramKinds : NameAfter(text, k) # <<>>}
      kind == CHOOSE k \in kinds : Before(k) \cap kinds = {}
  IN  IF kinds = {} THEN NoGuard ELSE <<kind, NameAfter(text, kind)>>

(* The kind is looked for behind the first CREATE, wherever that is.       *)
(* Mutant: anywhere.                                                       *)
Guarded(text) == {"IF NOT EXISTS", "OR REPLACE"} \cap ToSet(text) # {}
DropGuardAnywhere(text) == IF Guarded(text) THEN NoGuard ELSE GuardIn(text)
DropGuard(text) ==
  LET created == {i \in DOMAIN text : text[i] \in CreateWords}
  IN  IF created = {} \/ Guarded(text) THEN NoGuard
      ELSE GuardIn(SubSeq(text, Min(created), Len(text)))

------------------------------------------------------------------------------
(* The statements of a dump, in the forms mariadb-dump and people write.   *)
(* The name of a program is what its guard has to put between backticks.   *)
Names == {<<"a">>, <<"a", "bq", "bq", "b">>}
Headers == {"plain", "definer", "versioned", "wrapped", "commented", "replace",
            "unless"}
Bodies ==
  {<<"(", ")", "\n", "BEGIN">>, <<"\n", "IF NOT EXISTS", " ", "x">>}
  \cup {<<" ", "ON", " ", k, " ", n, " ">> : k \in ProgramKinds, n \in {"a", "("}}
Data ==
  {<<"INSERT", " ", w, " ", k, " ", n, " ", "x">> :
     w \in {"t", "created_at"}, k \in {"x"} \cup ProgramKinds, n \in {"a", "("}}
  \cup {<<"CREATE", " ", "TABLE", " ", "a", "(", "EVENT", " ", "x">>}
ProgramStatements ==
  {[kind |-> k, header |-> h, name |-> n, body |-> b] :
     k \in ProgramKinds, h \in Headers, n \in Names, b \in Bodies}
DataStatements == {[kind |-> "none", body |-> b] : b \in Data}
Statements == ProgramStatements \cup DataStatements

HeaderText(h, k) ==
  CASE h = "plain"     -> <<"CREATE", " ", k, " ">>
    [] h = "definer"   -> <<"CREATE", " ", "DEFINER", " ", k, " ">>
    [] h = "versioned" -> <<"/*!50003", " ", "CREATE", "*/", " ", "/*!50020", " ",
                            "DEFINER", "*/", " ", "/*!50003", " ", k, " ">>
    [] h = "wrapped"   -> <<"/*!50003", " ", "CREATE", " ", k, " ">>
    [] h = "commented" -> <<"/*", " ", "PROCEDURE", " ", "z", "*/", " ",
                            "CREATE", " ", k, " ">>
    [] h = "replace"   -> <<"CREATE", " ", "OR REPLACE", " ", k, " ">>
    [] h = "unless"    -> <<"CREATE", " ", k, " ", "IF NOT EXISTS", " ">>

NameText(n) == IF Len(n) = 1 THEN n ELSE <<"bq">> \o n \o <<"bq">>

Text(s) ==
  IF s.kind = "none" THEN s.body
  ELSE HeaderText(s.header, s.kind) \o NameText(s.name) \o s.body

Defined(s) == IF s.kind = "none" THEN {} ELSE {<<s.kind, s.name>>}

(* Words of the body that the guard takes for the statement's own: a kind  *)
(* it looks for earlier and what could be a name, or a guard.              *)
Misleads(s) ==
  LET body == {k \in ProgramKinds : Occurs(s.body, <<" ", k, " ", "a">>) # {}}
  IN  \/ Guarded(s.body)
      \/ IF s.kind = "none" THEN body # {} /\ "created_at" \in ToSet(s.body)
         ELSE body \cap Before(s.kind) # {}

------------------------------------------------------------------------------
(* Exec *)

Guards == [s \in Statements |-> DropGuard(Text(s))]
Unguarded == programs \ {Guards[statement]}

(* MariaDB's Error 1304 for a program that is there already. *)
AlreadyExists ==
  /\ statement.kind # "none" /\ statement.header \notin {"replace", "unless"}
  /\ Defined(statement) \cap Unguarded # {}

ExecOk ==
  /\ ~AlreadyExists
  /\ programs' = Unguarded \cup Defined(statement)
  /\ outcome' = "ok"
  /\ UNCHANGED <<statement, faults>>

ExecDuplicate ==
  /\ AlreadyExists
  /\ programs' = Unguarded
  /\ outcome' = "1304"
  /\ UNCHANGED <<statement, faults>>

Fault == faults < MaxFaults /\ faults' = faults + 1

(* The statement is refused for another reason: the guard went before it. *)
ExecRefused ==
  /\ Fault
  /\ programs' = Unguarded
  /\ outcome' = "refused"
  /\ UNCHANGED statement

(* Its connection is lost under the guard, whose error nobody looks at.    *)
GuardFails ==
  /\ Fault
  /\ Guards[statement] # NoGuard
  /\ outcome' = "refused"
  /\ UNCHANGED <<statement, programs>>

Init ==
  /\ statement \in Statements
  /\ programs \in SUBSET (ProgramKinds \X {<<"a">>})
  /\ outcome = "ok"
  /\ faults = 0

Next == ExecOk \/ ExecDuplicate \/ ExecRefused \/ GuardFails
Spec == Init /\ [][Next]_vars

------------------------------------------------------------------------------
(* Properties *)

(* The schema holds programs by kind and name, and what is put between the *)
(* backticks of a guard is never empty, whatever the statement.            *)
TypeOK ==
  /\ statement \in Statements
  /\ programs \subseteq ProgramKinds \X Names
  /\ outcome \in {"ok", "1304", "refused"} /\ faults \in 0..MaxFaults
  /\ LET guard == Guards[statement]
     IN  guard # NoGuard => guard[1] \in ProgramKinds /\ guard[2] # <<>>

(* A definition that does not mislead is never refused as a duplicate,     *)
(* whatever was executed before and whatever failed: a restore may run it  *)
(* again.                                                                  *)
ReplayAccepted == ~Misleads(statement) => outcome # "1304"

(* It drops no program but the one it defines, and a statement that        *)
(* defines none drops none.                                                *)
BystandersStay ==
  [][~Misleads(statement) => programs \ programs' \subseteq Defined(statement)]_vars
==============================================================================

---------------------------- MODULE TuiInvariants ----------------------------
(***************************************************************************)
(* The inductive invariants behind the theorems of TuiRestore_proofs: the  *)
(* terminal UI under an operator who presses a key only after the last one *)
(* took effect.  TLC checks them on the small instances.                   *)
(***************************************************************************)
EXTENDS TuiRestore

(* The types of all but pending.                                           *)
Shaped ==
  /\ stack \in Seq(Screens) /\ stack # <<>> /\ stack[1] = Home
  /\ fatal \in BOOLEAN
  /\ quit \in {"no", "ctrl+c", "ctrl+q", "fatal"}
  /\ shown \in Rows /\ row \in Rows
  /\ phase \in [Runs -> Src!Phases]
  /\ chan \in [Runs -> Seq({"progress"} \cup Src!Verdicts)]
  /\ verifying \subseteq Runs
  /\ verdict \in [Runs -> {"none"} \cup Src!Verdicts]

AllMessages == Messages \cup {Loaded(s) : s \in Rows}

(* Then one command or message at most is in flight.  A progress screen is *)
(* only ever the active one, and it alone is what the messages about runs  *)
(* are in flight for.                                                      *)
Alone(m) == pending = One(m)
AboutRuns == {"read", "progress", "done"}

InPlace(m) ==
  /\ m.k \in AboutRuns => Active = ProgressOf(m.run)
  /\ Active.id = "progress" => m.k \in AboutRuns
  /\ m.k = "push" /\ m.screen.id = "report" => m.screen.run = NoRun

Patience ==
  /\ \A i \in DOMAIN stack : i # Len(stack) => stack[i].id # "progress"
  /\ \/ pending = EmptyBag /\ Active.id # "progress"
     \/ \E m \in AllMessages : Alone(m) /\ InPlace(m)

(* A run that has not reported is waited for, and so is a report that is   *)
(* still in the channel: whoever reads stops at the first one.             *)
Awaited(r) == Alone(Push(ProgressOf(r))) \/ Alone(Read(r)) \/ Alone(ProgressMsg(r))

Followed(r) ==
  /\ Writes(r) => verdict[r] = "none"
  /\ phase[r] = "failing" => verdict[r] \in {"none", "error"}
  /\ phase[r] = "ended" => verdict[r] # "none"
  /\ phase[r] # "idle" /\ verdict[r] = "none" => Awaited(r)
  /\ Awaited(r) /\ verdict[r] # "none" =>
       \E i \in DOMAIN chan[r] : chan[r][i] = verdict[r]
  /\ \A i \in DOMAIN chan[r] : chan[r][i] \in {"progress", verdict[r]}

(* What a report on the stack, or on its way there, says of its run. *)
Tells(x) == verdict[x.run] # "none" /\ x.exit = ExitOf(verdict[x.run])

Told ==
  /\ \A i \in DOMAIN stack :
       stack[i].id = "report" /\ stack[i].run # NoRun => Tells(stack[i])
  /\ \A m \in AllMessages : Alone(m) /\ m.k = "done" => Tells(m)

Orderly == Shaped /\ Patience /\ (\A r \in Runs : Followed(r)) /\ Told
==============================================================================

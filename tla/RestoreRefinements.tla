-------------------------- MODULE RestoreRefinements --------------------------
(***************************************************************************)
(* The two abstract specifications that RestoreRunner implements: what the *)
(* engine promises about a dump and its target, and what a run promises to *)
(* whoever reads its channel.                                              *)
(***************************************************************************)
EXTENDS RestoreInvariants

CONSTANTS
  TheDump,    \* a dump
  TheTarget   \* and a target to restore it to

ASSUME WatchedAssumption == TheDump \in Dumps /\ TheTarget \in Targets

Done == applied[TheTarget][TheDump]
TheRow == store[Ident[TheDump]]
Mark == IF TheRow = NoCp THEN 0 ELSE TheRow.off
Told == \E r \in Runs : Dump(r) = TheDump /\ SaysSuccess(r)

Abstract == INSTANCE AbstractRestore WITH
  Size <- Size[TheDump], done <- Done, mark <- Mark, told <- Told

(* The runner, its splitter, its store and its server together implement   *)
(* the promise: the resume point never passes the data nor moves back, and *)
(* success is reported only of a complete dump.                            *)
ImplementsAbstractRestore == Abstract!Spec

(* What the owner of a run sees of it. *)
PhaseOf(label) ==
  CASE label \in {"idle", "ended"} -> label
    [] label \in {"open", "connect", "resume", "tellResume", "seek", "initial"} -> "starting"
    [] label \in {"verify", "tellDone"} -> "saved"
    [] label = "fail" -> "failing"
    [] OTHER -> "running"
EventOf(ev) == IF ~ev.done THEN "progress" ELSE IF ev.ok THEN "ok" ELSE "error"

Phase == [r \in Runs |-> PhaseOf(pc[r])]
Seen(q) == [i \in DOMAIN q |-> EventOf(q[i])]
Chan == [r \in Runs |-> Seen(events[r])]

Source == INSTANCE EventSource WITH phase <- Phase, chan <- Chan

(* The runner is the event source the terminal UI is modelled against: no  *)
(* event after the verdict, a repeated error at most once, no channel      *)
(* closed without a verdict.                                               *)
ImplementsEventSource == Source!Spec
==============================================================================

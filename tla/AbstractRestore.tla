--------------------------- MODULE AbstractRestore ---------------------------
(***************************************************************************)
(* What the restore engine promises about one dump and one target, with    *)
(* nothing of how: `done` bytes of the dump are on the target, a restart   *)
(* would begin at `mark`, and `told` says whether the operator has been    *)
(* told that the restore is complete.                                      *)
(***************************************************************************)
EXTENDS Integers

CONSTANT Size

VARIABLES done, mark, told
vars == <<done, mark, told>>

Init == done = 0 /\ mark = 0 /\ told = FALSE

(* Bytes arrive, or replayed statements start a table over; what lies      *)
(* before the mark is never given up.                                      *)
Apply == ~told /\ done' \in mark..Size /\ UNCHANGED <<mark, told>>

(* The mark advances, never beyond what is done. *)
Save == mark' \in mark..done /\ UNCHANGED <<done, told>>

Report == done = Size /\ told' = TRUE /\ UNCHANGED <<done, mark>>

(* A new run begins, or the process that knew is gone. *)
Forget == told' = FALSE /\ UNCHANGED <<done, mark>>

Next == Apply \/ Save \/ Report \/ Forget
Spec == Init /\ [][Next]_vars
==============================================================================

----------------------------- MODULE ListScreens -----------------------------
(***************************************************************************)
(* The three screens that move a cursor over a list they have loaded: the  *)
(* restore history (Home), the connection profiles, and the launcher's     *)
(* choice of a profile.  Each loads its list by a command, keeps it while  *)
(* other screens cover it and while the table changes, and acts on the     *)
(* element under its cursor: Home and the launcher in a command that looks *)
(* at the cursor when it is performed, the profile list at once.           *)
(***************************************************************************)
EXTENDS Integers, SequencesExt, Bags

CONSTANTS
  Items,       \* dump identities or profile names
  MaxPending,  \* bound on the commands in flight when a key is pressed
  MaxFaults    \* bound on the failing calls explored

ASSUME ItemsAssumption == IsFiniteSet(Items)
ASSUME BoundsAssumption == MaxPending \in Nat \ {0} /\ MaxFaults \in Nat

VARIABLES
  kind,       \* which of the screens this is
  demo,       \* demo mode: synthetic rows, nothing is stored
  rows,       \* the table, in the order SELECT returns it
  list,       \* the screen's copy: checkpoints or profiles
  selected,   \* its cursor, from 0
  visible,    \* the items that match the search of the profile list
  loaded,     \* LauncherScreen.loaded
  covered,    \* another screen is on top
  pending,    \* commands and messages in flight
  acted,      \* the item acted on, and the one the last key was pressed on
  dirty,      \* the table was changed elsewhere, or a call failed, since Init
  happened,   \* what took a row away from under the cursor
  panicked,   \* an index out of range ended the program
  faults

screen == <<list, selected, visible, loaded>>
fixed == <<kind, demo>>
vars == <<fixed, rows, screen, covered, pending, acted, dirty, happened,
          panicked, faults>>

Nothing == "nothing"
Load == [k |-> "load"]
Loaded(s) == [k |-> "rows", rows |-> s]
DeleteSelected(meant) == [k |-> "delete", meant |-> meant]
Launch(meant) == [k |-> "launch", meant |-> meant]

InFlight == BagToSet(pending)
Replace(m, others) == pending' = (pending (-) SetToBag({m})) (+) SetToBag(others)

NoItem == [item |-> Nothing, meant |-> Nothing]
Count == Len(list)
InRange == 0 <= selected /\ selected < Count
Selected == IF InRange THEN list[selected + 1] ELSE Nothing

(* What the operator sees the cursor on. *)
Shown == IF Selected \in visible THEN Selected ELSE Nothing

(* A table's rows, or a copy of them: each has a key of its own; and the    *)
(* rows a DELETE by key leaves.                                            *)
IsTable(s) == s \in Seq(Items) /\ IsInjective(s)
Without(s, x) ==
  IF x \in ToSet(s) THEN RemoveAt(s, CHOOSE i \in DOMAIN s : s[i] = x) ELSE s

Fault == faults < MaxFaults /\ faults' = faults + 1 /\ dirty' = TRUE

------------------------------------------------------------------------------
(* Keys *)

(* A key that does not wait for the last command's effect is hasty. *)
Pressed(also) ==
  /\ ~panicked /\ BagCardinality(pending) < MaxPending
  /\ happened' = happened \cup also
                 \cup (IF pending = EmptyBag THEN {} ELSE {"hasty"})
OnScreen == ~covered /\ Pressed({})

Issue(m) == pending' = pending (+) SetToBag({m})

(* up and down; nothing looks at the search.  Mutant: without bounds. *)
MoveFreely ==
  /\ OnScreen
  /\ selected' \in {selected - 1, selected + 1}
  /\ acted' = NoItem
  /\ UNCHANGED <<fixed, rows, list, visible, loaded, covered, pending,
                 dirty, panicked, faults>>
MoveCursor ==
  /\ OnScreen
  /\ \/ selected > 0 /\ selected' = selected - 1
     \/ selected < Count - 1 /\ selected' = selected + 1
  /\ acted' = NoItem
  /\ UNCHANGED <<fixed, rows, list, visible, loaded, covered, pending,
                 dirty, panicked, faults>>

(* Another screen is pushed, to look at the item under the cursor. *)
Cover(item, meant) ==
  /\ covered' = TRUE
  /\ acted' = [item |-> item, meant |-> meant]
  /\ UNCHANGED <<fixed, rows, screen, pending, dirty, faults>>

(* openSelected checks the cursor. *)
HomeEnter ==
  /\ OnScreen /\ kind = "home" /\ InRange
  /\ Cover(Selected, Shown)
  /\ UNCHANGED panicked

(* Enter on the profile list does not, at its upper end. *)
ProfilesEnter ==
  /\ OnScreen /\ kind = "profiles" /\ Count > 0 /\ selected >= 0
  /\ Cover(Selected, Shown)
  /\ panicked' = ~InRange

(* n, p, r, ?, g. *)
OpenOther ==
  /\ OnScreen
  /\ Cover(Nothing, Nothing)
  /\ UNCHANGED panicked

(* d. *)
HomeDelete ==
  /\ OnScreen /\ kind = "home" /\ Count > 0 /\ ~demo
  /\ Issue(DeleteSelected(Shown))
  /\ acted' = NoItem
  /\ UNCHANGED <<fixed, rows, screen, covered, dirty, panicked, faults>>

(* In demo mode, d cuts the row out of the list; the cursor of an empty    *)
(* list is -1.                                                             *)
HomeDeleteDemo ==
  /\ ~covered /\ kind = "home" /\ Count > 0 /\ demo
  /\ Pressed(IF Count = 1 THEN {"emptied"} ELSE {})
  /\ panicked' = ~InRange
  /\ list' = IF InRange THEN RemoveAt(list, selected + 1) ELSE list
  /\ selected' = IF selected >= Count - 1 THEN Count - 2 ELSE selected
  /\ acted' = NoItem
  /\ UNCHANGED <<fixed, rows, visible, loaded, covered, pending, dirty, faults>>

(* Enter on the launcher's last step. *)
LauncherEnter ==
  /\ OnScreen /\ kind = "launcher"
  /\ Issue(Launch(Shown))
  /\ acted' = NoItem
  /\ UNCHANGED <<fixed, rows, screen, covered, dirty, panicked, faults>>

(* / and what is typed until Enter or Esc: it matches all, one or none. *)
Search ==
  /\ OnScreen /\ kind = "profiles"
  /\ visible' \in {Items, {}} \cup {{x} : x \in Items}
  /\ acted' = NoItem
  /\ UNCHANGED <<fixed, rows, list, selected, loaded, covered, pending,
                 dirty, panicked, faults>>

(* The covering screen is popped, and the one below starts again.  Mutant: *)
(* it does not.                                                            *)
UncoverStill ==
  /\ covered /\ Pressed({})
  /\ covered' = FALSE
  /\ dirty' = FALSE
  /\ acted' = NoItem
  /\ UNCHANGED <<fixed, rows, screen, pending, panicked, faults>>
Uncover ==
  /\ covered /\ Pressed({})
  /\ covered' = FALSE
  /\ dirty' = FALSE
  /\ Issue(Load)
  /\ acted' = NoItem
  /\ UNCHANGED <<fixed, rows, screen, panicked, faults>>

------------------------------------------------------------------------------
(* Commands *)

Performs(m) == ~panicked /\ m \in InFlight
Unmoved == UNCHANGED <<fixed, visible, covered, happened, panicked>>

(* A command's call fails: an error is shown, the list stays. *)
CommandFails(m) ==
  /\ Performs(m) /\ m.k \in {"load", "delete"} /\ ~demo
  /\ m = Load => ~loaded
  /\ Fault
  /\ Replace(m, {})
  /\ loaded' = (kind = "launcher")
  /\ Unmoved /\ UNCHANGED <<rows, list, selected, acted>>

Stored == IF demo THEN SetToSeq(Items) ELSE rows

(* The load command of Home and of the profile list answers with a         *)
(* message.                                                                *)
PerformLoad ==
  /\ Performs(Load) /\ kind # "launcher"
  /\ Replace(Load, {Loaded(Stored)})
  /\ Unmoved /\ UNCHANGED <<rows, screen, acted, dirty, faults>>

(* The launcher's writes the screen's list itself, and only once.          *)
PerformLauncherLoad ==
  /\ Performs(Load) /\ kind = "launcher"
  /\ list' = IF loaded THEN list ELSE Stored
  /\ loaded' = TRUE
  /\ Replace(Load, {})
  /\ Unmoved /\ UNCHANGED <<rows, selected, acted, dirty, faults>>

(* deleteSelected looks at the cursor now, and moves it to the top.        *)
(* Mutants: the cursor is moved first, or not at all.                      *)
DeleteAtTop(m) ==
  /\ Performs(m) /\ m.k = "delete" /\ InRange
  /\ rows' = Without(rows, list[1])
  /\ selected' = 0
  /\ acted' = [item |-> list[1], meant |-> m.meant]
  /\ Replace(m, {Loaded(rows')})
  /\ Unmoved /\ UNCHANGED <<list, loaded, dirty, faults>>
DeleteInPlace(m) ==
  /\ Performs(m) /\ m.k = "delete" /\ InRange
  /\ rows' = Without(rows, Selected)
  /\ acted' = [item |-> Selected, meant |-> m.meant]
  /\ Replace(m, {Loaded(rows')})
  /\ Unmoved /\ UNCHANGED <<list, selected, loaded, dirty, faults>>
PerformDelete(m) ==
  /\ Performs(m) /\ m.k = "delete"
  /\ IF InRange
     THEN LET left == Without(rows, Selected) IN
          /\ rows' = left
          /\ selected' = 0
          /\ acted' = [item |-> Selected, meant |-> m.meant]
          /\ Replace(m, {Loaded(left)})
     ELSE Replace(m, {}) /\ UNCHANGED <<rows, selected, acted>>
  /\ Unmoved /\ UNCHANGED <<list, loaded, dirty, faults>>

(* The row is deleted, but listing what is left fails: the cursor is not   *)
(* moved.                                                                  *)
DeletedNotListed(m) ==
  /\ Performs(m) /\ m.k = "delete" /\ InRange
  /\ Fault
  /\ rows' = Without(rows, Selected)
  /\ acted' = [item |-> Selected, meant |-> m.meant]
  /\ Replace(m, {})
  /\ happened' = happened \cup {"removed"}
  /\ UNCHANGED <<fixed, screen, covered, panicked>>

(* launch: with no profile it complains, else the progress screen covers. *)
PerformLaunch(m) ==
  /\ Performs(m) /\ m.k = "launch"
  /\ Replace(m, {})
  /\ covered' = (covered \/ InRange)
  /\ acted' = IF InRange THEN [item |-> Selected, meant |-> m.meant] ELSE acted
  /\ UNCHANGED <<fixed, rows, screen, dirty, happened, panicked, faults>>

(* checkpointsLoadedMsg and profileListLoadedMsg: a covered screen does    *)
(* not get them, and the cursor stays where it is.                         *)
DeliverRows(m) ==
  /\ Performs(m) /\ m.k = "rows"
  /\ list' = IF covered THEN list ELSE m.rows
  /\ Replace(m, {})
  /\ Unmoved /\ UNCHANGED <<rows, selected, loaded, acted, dirty, faults>>

(* Another instance, a restore, or the screen on top changes the table. *)
RowAppears ==
  /\ ~panicked /\ ~demo
  /\ \E x \in Items \ ToSet(rows), i \in 1..(Len(rows) + 1) :
       rows' = InsertAt(rows, i, x)
  /\ dirty' = (dirty \/ ~covered)
  /\ UNCHANGED <<fixed, screen, covered, pending, acted, happened, panicked,
                 faults>>

RowVanishes ==
  /\ ~panicked /\ ~demo
  /\ \E i \in DOMAIN rows : rows' = RemoveAt(rows, i)
  /\ dirty' = (dirty \/ ~covered)
  /\ happened' = happened \cup {"removed"}
  /\ UNCHANGED <<fixed, screen, covered, pending, acted, panicked, faults>>

------------------------------------------------------------------------------
Init ==
  /\ kind \in {"home", "profiles", "launcher"} /\ demo \in BOOLEAN
  /\ rows \in {<<>>, SetToSeq(Items)}
  /\ list = <<>> /\ selected = 0 /\ visible = Items /\ loaded = FALSE
  /\ covered = FALSE /\ panicked = FALSE
  /\ pending = SetToBag({Load})
  /\ acted = NoItem
  /\ dirty = FALSE /\ happened = {}
  /\ faults = 0

Key ==
  \/ MoveCursor \/ HomeEnter \/ ProfilesEnter \/ OpenOther
  \/ HomeDelete \/ HomeDeleteDemo \/ LauncherEnter \/ Search \/ Uncover

Perform ==
  \/ PerformLoad \/ PerformLauncherLoad
  \/ \E m \in InFlight : \/ CommandFails(m) \/ PerformDelete(m)
                         \/ DeletedNotListed(m) \/ PerformLaunch(m)
                         \/ DeliverRows(m)

Next == Key \/ Perform \/ RowAppears \/ RowVanishes

Spec == Init /\ [][Next]_vars

------------------------------------------------------------------------------
(* Properties *)

Commands == {Load} \cup {DeleteSelected(x) : x \in Items \cup {Nothing}}
            \cup {Launch(x) : x \in Items \cup {Nothing}}

(* Every variable has its type, and a message carries a table's rows. *)
TypeOK ==
  /\ kind \in {"home", "profiles", "launcher"}
  /\ {demo, loaded, covered, dirty, panicked} \subseteq BOOLEAN
  /\ IsTable(rows) /\ IsTable(list)
  /\ selected \in -1..Cardinality(Items)
  /\ visible \subseteq Items
  /\ \A m \in InFlight : m.k = "rows" => m = Loaded(m.rows) /\ IsTable(m.rows)
  /\ \A m \in InFlight : m.k # "rows" => m \in Commands
  /\ \A x \in {acted.item, acted.meant} : x \in Items \cup {Nothing}
  /\ happened \subseteq {"hasty", "removed", "emptied"}
  /\ faults \in 0..MaxFaults

(* A report, an editor, a deletion or a restore is of the very item the    *)
(* operator saw under the cursor, if there was one to see and no key was   *)
(* pressed before the last one took effect, whatever happened to the table *)
(* meanwhile and whichever call failed.                                    *)
ActsOnShown ==
  acted.meant # Nothing /\ "hasty" \notin happened => acted.item = acted.meant

(* As long as rows are only added behind its back and the operator waits,  *)
(* the cursor stays on the list through every reload and every deletion,   *)
(* and no key ends the program with an index out of range.                 *)
CursorOnList == happened = {} => ~panicked /\ (Count = 0 \/ InRange)

(* A screen that has come to rest shows the table as it is, unless the     *)
(* table was changed from elsewhere since the screen was uncovered.  The   *)
(* launcher keeps its first list on purpose, demo mode its own.            *)
FreshWhenSettled ==
  /\ pending = EmptyBag /\ ~covered /\ ~dirty /\ ~demo
  /\ kind # "launcher" /\ "hasty" \notin happened
  => list = rows
==============================================================================

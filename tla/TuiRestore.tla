------------------------------ MODULE TuiRestore ------------------------------
(***************************************************************************)
(* The terminal UI around the restore engine: the router's stack of        *)
(* screens, the commands Bubble Tea runs concurrently for them, and the    *)
(* messages those commands send back in any order, together with the       *)
(* restore runs the screens start (EventSource) and the history row of one *)
(* dump.                                                                   *)
(*                                                                         *)
(* A command and the message it sends are elements of the bag pending.     *)
(* Performing a command is a step of its own, and so is delivering a       *)
(* message to Router.Update; the engine's goroutines run in between.       *)
(***************************************************************************)
EXTENDS Naturals, Sequences, Bags

CONSTANTS
  Runs,        \* goroutine slots for restore runs
  NoRun,       \* the run of a report that was opened from the history
  Cap,         \* capacity of an event channel, 100 in the code
  Hasty,       \* does the operator press keys before the last one took effect?
  MaxStack,    \* bound on the screens a key may still push onto
  MaxPending   \* bound on the commands in flight when a key is pressed

ASSUME HastyAssumption == Hasty \in BOOLEAN /\ NoRun \notin Runs

VARIABLES
  stack,     \* Router.stack, the root first
  pending,   \* commands not yet performed and messages not yet delivered
  fatal,     \* Router.err # nil
  quit,      \* the key that ended the program
  shown,     \* the row the Home screen last loaded
  row,       \* the dump's row in the checkpoint store
  phase,     \* the runs, as in EventSource
  chan,
  verifying, \* the runs whose RestoreConfig asks for verification
  verdict    \* verdict[r]: what run r has reported

Src == INSTANCE EventSource

screens == <<stack, fatal, quit, shown>>
runs == <<phase, chan, verifying, verdict>>
vars == <<screens, pending, row, runs>>

(* Screens.  "other" is any of Profiles, its editor, Help and Glossary,    *)
(* "welcome" the onboarding overlay.                                       *)
Plain(id) == [id |-> id]
Home == Plain("home")
Launcher(step) == [id |-> "launcher", step |-> step]
ProgressOf(r) == [id |-> "progress", run |-> r]
Report(r, exit, dsn) == [id |-> "report", run |-> r, exit |-> exit, dsn |-> dsn]

LastStep == 4
ExitCodes == {0, 1, 4, 130}
Screens == {Plain(id) : id \in {"home", "welcome", "other"}}
           \cup {Launcher(step) : step \in 0..LastStep}
           \cup {ProgressOf(r) : r \in Runs}
           \cup {Report(r, e, d) : r \in Runs \cup {NoRun}, e \in ExitCodes,
                                   d \in BOOLEAN}

Active == stack[Len(stack)]

(* Rows: is the whole dump restored, and does the row carry a DSN?  The    *)
(* DSN is written when the row is inserted and never updated.              *)
NoRow == [complete |-> FALSE, dsn |-> FALSE, listed |-> FALSE]
RowOf(complete, dsn) == [complete |-> complete, dsn |-> dsn, listed |-> TRUE]
Upsert(complete, dsn) ==
  row' = RowOf(complete, IF row.listed THEN row.dsn ELSE dsn)

(* Commands and messages. *)
Load == [k |-> "load"]
DeleteCmd == [k |-> "delete"]
Launch == [k |-> "launch"]
ResumeCmd == [k |-> "resume"]
Read(r) == [k |-> "read", run |-> r]
Push(s) == [k |-> "push", screen |-> s]
Back == [k |-> "back"]
Fatal == [k |-> "fatal"]
Loaded(shownRow) == [k |-> "rows", row |-> shownRow]
ProgressMsg(r) == [k |-> "progress", run |-> r]
RestoreComplete(r, exit) == [k |-> "done", run |-> r, exit |-> exit]

Kinds == {"load", "delete", "launch", "resume", "read",
          "push", "back", "fatal", "rows", "progress", "done"}

InFlight == BagToSet(pending)
One(m) == SetToBag({m})
Issue(m) == pending' = pending (+) One(m)
Replace(m, others) == pending' = (pending (-) One(m)) (+) others

(* The command a screen's Init returns.  The launcher's, which reads the   *)
(* profiles, is folded into the outcome of launch.                         *)
InitCmd(s) ==
  IF s.id = "home" THEN One(Load)
  ELSE IF s.id = "progress" THEN One(Read(s.run)) ELSE EmptyBag

------------------------------------------------------------------------------
(* Keys *)

(* Nothing the operator asked for is still on its way. *)
Settled == \A m \in InFlight : m.k \in {"read", "progress", "done"}

Pressed(id) ==
  /\ quit = "no" /\ ~fatal
  /\ Hasty \/ Settled
  /\ BagCardinality(pending) < MaxPending
  /\ Active.id = id

(* Mutant: the command is returned twice. *)
AnswerTwice(m) ==
  /\ m.k = "push" => Len(stack) < MaxStack
  /\ pending' = pending (+) One(m) (+) One(m)
  /\ UNCHANGED <<screens, row, runs>>

(* The active screen answers a key with a command. *)
Answer(m) ==
  /\ m.k = "push" => Len(stack) < MaxStack
  /\ Issue(m)
  /\ UNCHANGED <<screens, row, runs>>

HomeKey ==
  /\ Pressed("home")
  /\ \/ /\ shown.listed
        /\ Answer(Push(Report(NoRun, IF shown.complete THEN 0 ELSE 130,
                              shown.dsn)))
     \/ shown.listed /\ Answer(DeleteCmd)
     \/ Answer(Push(Launcher(0)))
     \/ Answer(Push(Plain("other")))

Step(n) ==
  /\ stack' = [stack EXCEPT ![Len(stack)] = Launcher(n)]
  /\ UNCHANGED <<pending, fatal, quit, shown, row, runs>>

(* Step 0 takes the path of the dump, step 2 the password: there only      *)
(* Enter and Esc are commands.                                             *)
LauncherKey ==
  /\ Pressed("launcher")
  /\ LET n == Active.step IN
     \/ n < LastStep /\ Step(n + 1)
     \/ n = LastStep /\ Answer(Launch)
     \/ n > 0 /\ Step(n - 1)
     \/ n # 2 /\ Answer(Back)
     \/ n \notin {0, 2} /\ Answer(Push(Plain("other")))

Resumable(exit) == exit \in {1, 130}

ReportKey ==
  /\ Pressed("report")
  /\ \/ Answer(Back)
     \/ Resumable(Active.exit) /\ Answer(IF Active.dsn THEN ResumeCmd ELSE Fatal)
     \/ Answer(Push(Plain("other")))

OtherKey ==
  /\ Pressed("other") \/ Pressed("welcome")
  /\ Answer(Back) \/ Answer(Push(Plain("other")))

(* The router takes ctrl+c and ctrl+q before any screen sees them, so the  *)
(* branch for ctrl+c in the progress screen is never reached; that screen  *)
(* has no other key while a restore runs.                                  *)
QuitKey ==
  /\ quit = "no" /\ ~fatal
  /\ quit' \in {"ctrl+c", "ctrl+q"}
  /\ UNCHANGED <<stack, fatal, shown, pending, row, runs>>

(* With a fatal error on display the next key, and the next message of any *)
(* kind, ends the program.                                                 *)
QuitFatal ==
  /\ quit = "no" /\ fatal
  /\ quit' = "fatal"
  /\ UNCHANGED <<stack, fatal, shown, pending, row, runs>>

------------------------------------------------------------------------------
(* Commands *)

(* A slot nothing refers to any more, so that it can stand for a new run. *)
Mentions(x, r) == "run" \in DOMAIN x /\ x.run = r
Free(r) ==
  /\ phase[r] \in {"idle", "ended"}
  /\ \A i \in DOMAIN stack : ~Mentions(stack[i], r)
  /\ \A m \in InFlight :
       ~Mentions(m, r) /\ (m.k = "push" => ~Mentions(m.screen, r))

(* Mutant: the run starts without its screen. *)
StartRunUnseen(m, verify) ==
  \E r \in Runs :
    /\ Free(r)
    /\ Src!Begin(r)
    /\ verdict' = [verdict EXCEPT ![r] = "none"]
    /\ verifying' = IF verify THEN verifying \cup {r} ELSE verifying \ {r}
    /\ Replace(m, EmptyBag)
    /\ UNCHANGED <<screens, row>>

StartRun(m, verify) ==
  \E r \in Runs :
    /\ Free(r)
    /\ Src!Begin(r)
    /\ verdict' = [verdict EXCEPT ![r] = "none"]
    /\ verifying' = IF verify THEN verifying \cup {r} ELSE verifying \ {r}
    /\ Replace(m, One(Push(ProgressOf(r))))
    /\ UNCHANGED <<screens, row>>

Performs(kind) == quit = "no" /\ \E m \in InFlight : m.k = kind

(* launch: it complains without a dump file or a profile. *)
PerformLaunch ==
  /\ Performs("launch")
  /\ \/ \E verify \in BOOLEAN : StartRun(Launch, verify)
     \/ Replace(Launch, EmptyBag) /\ UNCHANGED <<screens, row, runs>>

(* resumeRestore does not carry the Verify setting over. *)
PerformResume == Performs("resume") /\ StartRun(ResumeCmd, FALSE)

ExitOf(event) ==
  IF event = "error" THEN 1 ELSE IF event = "findings" THEN 4 ELSE 0

(* Mutant: ev.Err is not looked at. *)
ReadEventBlindly(r) ==
  IF chan[r] # <<>> /\ Head(chan[r]) = "progress" THEN ProgressMsg(r)
  ELSE RestoreComplete(r, 0)

(* nextEventCmd.  A closed and drained channel counts as success. *)
ReadEvent(r) ==
  IF chan[r] = <<>> THEN RestoreComplete(r, 0)
  ELSE IF Head(chan[r]) = "progress" THEN ProgressMsg(r)
  ELSE RestoreComplete(r, ExitOf(Head(chan[r])))

PerformRead(r) ==
  /\ quit = "no" /\ Read(r) \in InFlight
  /\ Replace(Read(r), One(ReadEvent(r)))
  /\ \/ Src!Take(r)
     \/ chan[r] = <<>> /\ phase[r] = "ended" /\ UNCHANGED <<phase, chan>>
  /\ UNCHANGED <<screens, row, verifying, verdict>>

(* loadFromSQLite; an error leaves the list as it was. *)
PerformLoad ==
  /\ Performs("load")
  /\ \/ Replace(Load, One(Loaded(row)))
     \/ Replace(Load, EmptyBag)
  /\ UNCHANGED <<screens, row, runs>>

(* deleteSelected deletes the row the screen shows, whatever has happened  *)
(* to it since, and lists what is left; each of its calls may fail.        *)
PerformDelete ==
  /\ Performs("delete")
  /\ \/ /\ shown.listed
        /\ row' = NoRow
        /\ Replace(DeleteCmd, One(Loaded(NoRow))) \/ Replace(DeleteCmd, EmptyBag)
     \/ Replace(DeleteCmd, EmptyBag) /\ UNCHANGED row
  /\ UNCHANGED <<screens, runs>>

------------------------------------------------------------------------------
(* Router.Update *)

Delivers(m) == quit = "no" /\ ~fatal /\ m \in InFlight

DeliverPush(m) ==
  /\ Delivers(m) /\ m.k = "push"
  /\ stack' = Append(stack, m.screen)
  /\ Replace(m, InitCmd(m.screen))
  /\ UNCHANGED <<fatal, quit, shown, row, runs>>

(* pop keeps the root and starts the uncovered screen again. *)
Popped == IF Len(stack) > 1 THEN SubSeq(stack, 1, Len(stack) - 1) ELSE stack
DeliverBack ==
  /\ Delivers(Back)
  /\ stack' = Popped
  /\ Replace(Back, InitCmd(Popped[Len(Popped)]))
  /\ UNCHANGED <<fatal, quit, shown, row, runs>>

DeliverFatal ==
  /\ Delivers(Fatal)
  /\ fatal' = TRUE
  /\ Replace(Fatal, EmptyBag)
  /\ UNCHANGED <<stack, quit, shown, row, runs>>

DeliverRows(m) ==
  /\ Delivers(m) /\ m.k = "rows"
  /\ shown' = IF Active = Home THEN m.row ELSE shown
  /\ Replace(m, EmptyBag)
  /\ UNCHANGED <<stack, fatal, quit, row, runs>>

(* Mutant: handleProgress does not ask for the next event. *)
ProgressEndsReading(m) ==
  /\ Delivers(m) /\ m.k = "progress"
  /\ Replace(m, EmptyBag)
  /\ UNCHANGED <<screens, row, runs>>

(* handleProgress: the active screen asks for its next event.  The message *)
(* does not say which run it is from, and no other screen answers it.      *)
DeliverProgress(m) ==
  /\ Delivers(m) /\ m.k = "progress"
  /\ Replace(m, IF Active.id = "progress" THEN InitCmd(Active) ELSE EmptyBag)
  /\ UNCHANGED <<screens, row, runs>>

(* Mutant: the root goes with the other screens. *)
DoneClearsRoot(m) ==
  /\ Delivers(m) /\ m.k = "done"
  /\ stack' = <<Report(m.run, m.exit, TRUE)>>
  /\ Replace(m, EmptyBag)
  /\ UNCHANGED <<fatal, quit, shown, row, runs>>

(* handleRestoreComplete. *)
DeliverDone(m) ==
  /\ Delivers(m) /\ m.k = "done"
  /\ stack' = <<stack[1], Report(m.run, m.exit, TRUE)>>
  /\ Replace(m, EmptyBag)
  /\ UNCHANGED <<fatal, quit, shown, row, runs>>

------------------------------------------------------------------------------
(* The runs *)

RunStep == quit = "no" /\ UNCHANGED <<screens, pending, verifying>>

RunInitialSave(r) ==
  /\ RunStep
  /\ Src!InitialSave(r)
  /\ Upsert(row.complete, TRUE)
  /\ UNCHANGED verdict

RunProgress(r) ==
  /\ RunStep
  /\ Src!Progress(r)
  /\ UNCHANGED <<row, verdict>>

(* A batch checkpoint carries no DSN. *)
RunCheckpoint(r) ==
  /\ RunStep
  /\ phase[r] = "running"
  /\ Upsert(row.complete, FALSE)
  /\ UNCHANGED <<phase, chan, verdict>>

RunFinalSave(r) ==
  /\ RunStep
  /\ Src!FinalSave(r)
  /\ Upsert(TRUE, TRUE)
  /\ UNCHANGED verdict

RunCompletes(r) ==
  /\ RunStep
  /\ \E v \in Src!Success :
       /\ v = "findings" => r \in verifying
       /\ Src!Complete(r, v)
       /\ verdict' = [verdict EXCEPT ![r] = v]
  /\ UNCHANGED row

RunStatementFails(r) ==
  /\ RunStep
  /\ Src!StatementFails(r)
  /\ verdict' = [verdict EXCEPT ![r] = "error"]
  /\ UNCHANGED row

RunBails(r) ==
  /\ RunStep
  /\ Src!Bail(r)
  /\ UNCHANGED <<row, verdict>>

RunGivesUp(r) ==
  /\ RunStep
  /\ Src!GiveUp(r)
  /\ verdict' = [verdict EXCEPT ![r] = "error"]
  /\ UNCHANGED row

------------------------------------------------------------------------------
(* NewRouter: the overlay covers Home on the first launch.  The row of an  *)
(* earlier life may predate the dsn column, which then is empty.           *)
Init ==
  /\ stack \in {<<Home>>, <<Home, Plain("welcome")>>}
  /\ pending = InitCmd(Active)
  /\ fatal = FALSE
  /\ quit = "no"
  /\ shown = NoRow
  /\ row \in {NoRow} \cup {RowOf(c, d) : c \in BOOLEAN, d \in BOOLEAN}
  /\ Src!Init
  /\ verifying = {}
  /\ verdict = [r \in Runs |-> "none"]

Key == HomeKey \/ LauncherKey \/ ReportKey \/ OtherKey \/ QuitKey \/ QuitFatal

Perform ==
  \/ PerformLaunch \/ PerformResume \/ PerformLoad \/ PerformDelete
  \/ \E r \in Runs : PerformRead(r)

Deliver ==
  \/ DeliverBack \/ DeliverFatal
  \/ \E m \in InFlight : DeliverPush(m) \/ DeliverRows(m)
                         \/ DeliverProgress(m) \/ DeliverDone(m)

(* What brings a run nearer to its end. *)
RunAdvances(r) ==
  RunInitialSave(r) \/ RunFinalSave(r) \/ RunCompletes(r) \/ RunGivesUp(r)

Run(r) ==
  \/ RunAdvances(r)
  \/ RunProgress(r) \/ RunCheckpoint(r) \/ RunStatementFails(r) \/ RunBails(r)

Next == Key \/ Perform \/ Deliver \/ \E r \in Runs : Run(r)

Spec == Init /\ [][Next]_vars

(* Bubble Tea runs every command and delivers every message, a dump is     *)
(* finite, and a goroutine that can go on does.  Nothing is asked of the   *)
(* operator.                                                               *)
Fairness ==
  /\ WF_vars(PerformLaunch) /\ WF_vars(PerformResume) /\ WF_vars(DeliverBack)
  /\ \A r \in Runs :
       /\ WF_vars(DeliverPush(Push(ProgressOf(r))))
       /\ WF_vars(PerformRead(r))
       /\ WF_vars(DeliverProgress(ProgressMsg(r)))
       /\ \A e \in ExitCodes : WF_vars(DeliverDone(RestoreComplete(r, e)))
       /\ WF_vars(RunAdvances(r))
FairSpec == Spec /\ Fairness

------------------------------------------------------------------------------
(* Properties *)

Messages == {Load, DeleteCmd, Launch, ResumeCmd, Back, Fatal}
            \cup {Read(r) : r \in Runs} \cup {Push(s) : s \in Screens}
            \cup {ProgressMsg(r) : r \in Runs}
            \cup {RestoreComplete(r, e) : r \in Runs, e \in ExitCodes}
Rows == {NoRow} \cup {RowOf(c, d) : c \in BOOLEAN, d \in BOOLEAN}

(* Every variable has its type, and Home stays at the bottom of the stack. *)
TypeOK ==
  /\ stack \in Seq(Screens) /\ stack # <<>> /\ stack[1] = Home
  /\ IsABag(pending)
  /\ \A m \in InFlight : m \in Messages \/ (m.k = "rows" /\ m.row \in Rows)
  /\ fatal \in BOOLEAN
  /\ quit \in {"no", "ctrl+c", "ctrl+q", "fatal"}
  /\ shown \in Rows /\ row \in Rows
  /\ phase \in [Runs -> Src!Phases]
  /\ chan \in [Runs -> Seq({"progress"} \cup Src!Verdicts)]
  /\ verifying \subseteq Runs
  /\ verdict \in [Runs -> {"none"} \cup Src!Verdicts]

(* The report on display says how its run ended: "Clean Success" is never  *)
(* shown for a run that reported an error, nor the other way round.        *)
ReportsTruthful ==
  \A i \in DOMAIN stack :
    stack[i].id = "report" /\ stack[i].run # NoRun =>
      stack[i].exit = ExitOf(verdict[stack[i].run])

Writes(r) == Src!Writes(r)

(* Two runs never write at the same time: the program keeps its own runs   *)
(* from sharing a checkpoint row, which RunRestoreAsync does not check.  A *)
(* run that failed may still be about to repeat its error while the next   *)
(* one starts.                                                             *)
OneWriter == Src!OneWriter

(* A run that has not reported has exactly one reader: a command waiting   *)
(* on its channel, a progress message that will ask for the next event, or *)
(* a progress screen about to be pushed.                                   *)
Copies(m) == IF m \in InFlight THEN pending[m] ELSE 0
ReadersOf(r) ==
  Copies(Read(r)) + Copies(ProgressMsg(r)) + Copies(Push(ProgressOf(r)))
OneReader ==
  \A r \in Runs :
    phase[r] # "idle" /\ verdict[r] = "none" => quit # "no" \/ ReadersOf(r) = 1

(* Home does not delete the row of a run that is still writing it. *)
NoDeleteUnderARun ==
  [][row # NoRow /\ row' = NoRow => \A r \in Runs : ~Writes(r)]_vars

(* A restore that was started is reported, unless the operator quits. *)
EveryRunReported ==
  \A r \in Runs :
    Writes(r) ~> \/ quit # "no"
                 \/ \E i \in DOMAIN stack :
                      stack[i].id = "report" /\ Mentions(stack[i], r)

(* Every run closes its channel: no goroutine, with its connection and its *)
(* open files, is left waiting on a channel nobody reads.                  *)
ProducersEnd ==
  \A r \in Runs : Writes(r) ~> quit # "no" \/ phase[r] = "ended"
==============================================================================

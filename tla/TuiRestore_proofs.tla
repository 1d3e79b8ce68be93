-------------------------- MODULE TuiRestore_proofs --------------------------
(***************************************************************************)
(* Theorems about TuiRestore, for any number of runs and any capacity of   *)
(* their channels, and an operator who lets a key take effect before the   *)
(* next.                                                                   *)
(***************************************************************************)
EXTENDS TuiInvariants, SequenceTheorems, TLAPS

------------------------------------------------------------------------------
(* A bag of at most one message *)

(* One message is the message it is.                                       *)
LEMMA OneInFlight ==
  ASSUME NEW m
  PROVE  /\ Alone(m) => InFlight = {m} /\ pending # EmptyBag
         /\ pending = EmptyBag => InFlight = {}
         /\ \A n : One(m) = One(n) => m = n
<1>1. DOMAIN One(m) = {m} /\ DOMAIN EmptyBag = {} /\ \A n : DOMAIN One(n) = {n}
  BY DEF One, SetToBag, EmptyBag
<1> QED BY <1>1 DEF Alone, InFlight, BagToSet

(* No message is none.                                                     *)
LEMMA EmptyIsNotOne == \A m : One(m) # EmptyBag
<1>1. DOMAIN EmptyBag = {} /\ \A n : DOMAIN One(n) = {n}
  BY DEF One, SetToBag, EmptyBag
<1> QED BY <1>1

(* Replacing it leaves what it is replaced by.                             *)
LEMMA ReplaceOne ==
  ASSUME NEW m, Alone(m), NEW b, b = EmptyBag \/ (\E n : b = One(n)), Replace(m, b)
  PROVE  pending' = b
<1>1. One(m) (-) One(m) = EmptyBag
  BY DEF One, SetToBag, EmptyBag, (-)
<1>2. EmptyBag (+) b = b
  <2>1. EmptyBag (+) EmptyBag = EmptyBag
    BY DEF SetToBag, EmptyBag, (+)
  <2>2. \A n : EmptyBag (+) One(n) = One(n)
    BY DEF One, SetToBag, EmptyBag, (+)
  <2> QED BY <2>1, <2>2
<1> QED BY <1>1, <1>2 DEF Alone, Replace

(* Issuing one when there is none leaves that one.                         *)
LEMMA IssueOne ==
  ASSUME NEW m, pending = EmptyBag, Issue(m)
  PROVE  pending' = One(m)
<1>1. EmptyBag (+) One(m) = One(m)
  BY DEF One, SetToBag, EmptyBag, (+)
<1> QED BY <1>1 DEF Issue

------------------------------------------------------------------------------
(* The steps of a patient operator's program *)

KeyMessages ==
  {DeleteCmd, Launch, ResumeCmd, Back, Fatal, Push(Plain("other")), Push(Launcher(0))}
  \cup {Push(Report(NoRun, e, d)) : e \in ExitCodes, d \in BOOLEAN}

(* A key is answered with a command, or turns a page of the launcher.      *)
Asks(m) ==
  /\ m \in KeyMessages
  /\ pending = EmptyBag /\ pending' = One(m)
  /\ UNCHANGED <<screens, row, runs>>
Turns(n) ==
  /\ n \in 0..LastStep /\ Active.id = "launcher"
  /\ stack' = [stack EXCEPT ![Len(stack)] = Launcher(n)]
  /\ UNCHANGED <<pending, fatal, quit, shown, row, runs>>
Quits ==
  /\ quit' \in {"ctrl+c", "ctrl+q", "fatal"}
  /\ UNCHANGED <<stack, fatal, shown, pending, row, runs>>

(* A command starts a run, or does something else to the history, or reads *)
(* a channel.                                                              *)
Starts(m, r) ==
  /\ m \in {Launch, ResumeCmd} /\ Alone(m)
  /\ Free(r) /\ Src!Begin(r)
  /\ verdict' = [verdict EXCEPT ![r] = "none"]
  /\ verifying' \in {verifying \cup {r}, verifying \ {r}}
  /\ pending' = One(Push(ProgressOf(r)))
  /\ UNCHANGED <<screens, row>>
Handles(m) ==
  /\ m \in AllMessages /\ Alone(m) /\ m.k \notin AboutRuns \cup {"push", "back"}
  /\ pending' = EmptyBag \/ \E x \in Rows : pending' = One(Loaded(x))
  /\ row' = row \/ (m = DeleteCmd /\ row' = NoRow)
  /\ fatal' \in BOOLEAN /\ shown' \in Rows
  /\ UNCHANGED <<stack, quit, runs>>
Reads(r) ==
  /\ Alone(Read(r)) /\ pending' = One(ReadEvent(r))
  /\ \/ Src!Take(r)
     \/ chan[r] = <<>> /\ phase[r] = "ended" /\ UNCHANGED <<phase, chan>>
  /\ UNCHANGED <<screens, row, verifying, verdict>>

(* The router shows another screen, or the progress screen reads on.       *)
Pushes(x) ==
  /\ Alone(Push(x)) /\ InPlace(Push(x))
  /\ stack' = Append(stack, x) /\ pending' = InitCmd(x)
  /\ UNCHANGED <<fatal, quit, shown, row, runs>>
Pops ==
  /\ Alone(Back) /\ InPlace(Back)
  /\ stack' = Popped /\ pending' = InitCmd(Popped[Len(Popped)])
  /\ UNCHANGED <<fatal, quit, shown, row, runs>>
ReadsOn(r) ==
  /\ Alone(ProgressMsg(r)) /\ Active = ProgressOf(r)
  /\ pending' = One(Read(r))
  /\ UNCHANGED <<screens, row, runs>>
Reports(r, e) ==
  /\ Alone(RestoreComplete(r, e))
  /\ stack' = <<stack[1], Report(r, e, TRUE)>> /\ pending' = EmptyBag
  /\ UNCHANGED <<fatal, quit, shown, row, runs>>

PatientStep ==
  \/ \E m \in KeyMessages : Asks(m)
  \/ \E n \in 0..LastStep : Turns(n)
  \/ Quits
  \/ \E r \in Runs : \E m \in {Launch, ResumeCmd} : Starts(m, r)
  \/ \E m \in AllMessages : Handles(m)
  \/ \E r \in Runs : Reads(r)
  \/ \E x \in Screens : Pushes(x)
  \/ Pops
  \/ \E r \in Runs : ReadsOn(r)
  \/ \E r \in Runs, e \in ExitCodes : Reports(r, e)
  \/ \E r \in Runs : Run(r)
  \/ UNCHANGED vars

(* Which message has which kind.                                           *)
LEMMA MessageShape ==
  ASSUME NEW m \in AllMessages
  PROVE  /\ m.k = "load" => m = Load
         /\ m.k = "delete" => m = DeleteCmd
         /\ m.k = "launch" => m = Launch
         /\ m.k = "resume" => m = ResumeCmd
         /\ m.k = "back" => m = Back
         /\ m.k = "fatal" => m = Fatal
         /\ m.k = "read" => \E r \in Runs : m = Read(r)
         /\ m.k = "push" => \E x \in Screens : m = Push(x)
         /\ m.k = "progress" => \E r \in Runs : m = ProgressMsg(r)
         /\ m.k = "done" => \E r \in Runs, e \in ExitCodes : m = RestoreComplete(r, e)
         /\ m.k = "rows" => \E x \in Rows : m = Loaded(x)
BY DEF AllMessages, Messages, Load, DeleteCmd, Launch, ResumeCmd, Back, Fatal, Read, Push,
       ProgressMsg, RestoreComplete, Loaded

(* What is in flight is alone and in its place.                            *)
LEMMA Lonely ==
  ASSUME Patience, NEW m \in InFlight
  PROVE  m \in AllMessages /\ Alone(m) /\ InPlace(m)
BY OneInFlight DEF Patience

(* No key is pressed before the last one took effect.                      *)
LEMMA KeyWhenEmpty ==
  ASSUME Hasty = FALSE, Patience, NEW id, id # "progress", Pressed(id)
  PROVE  pending = EmptyBag /\ Active.id = id
<1>1. Active.id = id /\ Settled BY DEF Pressed
<1>2. ASSUME NEW m \in AllMessages, Alone(m), InPlace(m) PROVE FALSE
  <2>1. m.k \in AboutRuns BY <1>1, <1>2, OneInFlight DEF Settled, AboutRuns
  <2>2. Active = ProgressOf(m.run) BY <1>2, <2>1 DEF InPlace
  <2> QED BY <1>1, <2>2 DEF ProgressOf
<1> QED BY <1>1, <1>2 DEF Patience

(* Its answer is one of those.                                             *)
LEMMA AnswerAsks ==
  ASSUME pending = EmptyBag, NEW m \in KeyMessages, Answer(m)
  PROVE  Asks(m)
BY IssueOne DEF Answer, Asks

(* Every step of the program is one of these.                              *)
LEMMA PatientSteps ==
  ASSUME Hasty = FALSE, Shaped, Patience, [Next]_vars
  PROVE  PatientStep
<1>1. CASE HomeKey
  <2>1. pending = EmptyBag BY <1>1, KeyWhenEmpty DEF HomeKey
  <2>2. PICK m \in KeyMessages : Answer(m)
    BY <1>1 DEF HomeKey, KeyMessages, ExitCodes, Shaped, Rows, NoRow, RowOf
  <2> QED BY <2>1, <2>2, AnswerAsks DEF PatientStep
<1>2. CASE LauncherKey
  <2>1. pending = EmptyBag /\ Active.id = "launcher" BY <1>2, KeyWhenEmpty DEF LauncherKey
  <2>2. Active \in Screens BY DEF Shaped, Active
  <2>3. Active.step \in 0..LastStep
    BY <2>1, <2>2 DEF Screens, Plain, Launcher, ProgressOf, Report
  <2>4. (\E n \in 0..LastStep : Step(n)) \/ (\E m \in KeyMessages : Answer(m))
    BY <1>2, <2>3 DEF LauncherKey, KeyMessages, LastStep
  <2>5. ASSUME NEW n \in 0..LastStep, Step(n) PROVE Turns(n)
    BY <2>1, <2>5 DEF Step, Turns
  <2> QED BY <2>1, <2>4, <2>5, AnswerAsks DEF PatientStep
<1>3. CASE ReportKey
  <2>1. pending = EmptyBag BY <1>3, KeyWhenEmpty DEF ReportKey
  <2>2. PICK m \in KeyMessages : Answer(m)
    BY <1>3 DEF ReportKey, KeyMessages
  <2> QED BY <2>1, <2>2, AnswerAsks DEF PatientStep
<1>4. CASE OtherKey
  <2>1. pending = EmptyBag BY <1>4, KeyWhenEmpty DEF OtherKey
  <2>2. PICK m \in KeyMessages : Answer(m)
    BY <1>4 DEF OtherKey, KeyMessages
  <2> QED BY <2>1, <2>2, AnswerAsks DEF PatientStep
<1>5. CASE QuitKey \/ QuitFatal
  BY <1>5 DEF QuitKey, QuitFatal, Quits, PatientStep
<1>6. ASSUME NEW m \in {Launch, ResumeCmd}, Alone(m), NEW verify \in BOOLEAN, StartRun(m, verify)
      PROVE  PatientStep
  <2>1. PICK r \in Runs :
          /\ Free(r) /\ Src!Begin(r)
          /\ verdict' = [verdict EXCEPT ![r] = "none"]
          /\ verifying' \in {verifying \cup {r}, verifying \ {r}}
          /\ Replace(m, One(Push(ProgressOf(r))))
          /\ UNCHANGED <<screens, row>>
    BY <1>6 DEF StartRun
  <2>2. pending' = One(Push(ProgressOf(r))) BY <1>6, <2>1, ReplaceOne
  <2> QED BY <1>6, <2>1, <2>2 DEF Starts, PatientStep
<1>7. ASSUME NEW kind, Performs(kind)
      PROVE  \E m \in AllMessages : Alone(m) /\ m.k = kind
  BY <1>7, Lonely DEF Performs
<1>8. CASE PerformLaunch
  <2>1. Alone(Launch) /\ Launch \in AllMessages
    BY <1>7, <1>8, MessageShape DEF PerformLaunch
  <2>2. CASE Replace(Launch, EmptyBag) /\ UNCHANGED <<screens, row, runs>>
    <3>1. pending' = EmptyBag BY <2>1, <2>2, ReplaceOne
    <3> QED BY <2>1, <2>2, <3>1 DEF Handles, PatientStep, screens, Launch, AboutRuns, Shaped
  <2> QED BY <1>6, <1>8, <2>1, <2>2 DEF PerformLaunch
<1>9. CASE PerformResume
  <2>1. Alone(ResumeCmd)
    BY <1>7, <1>9, MessageShape DEF PerformResume
  <2> QED BY <1>6, <1>9, <2>1 DEF PerformResume
<1>10. CASE PerformLoad
  <2>1. Alone(Load) /\ Load \in AllMessages
    BY <1>7, <1>10, MessageShape DEF PerformLoad
  <2>2. pending' = EmptyBag \/ pending' = One(Loaded(row))
    BY <1>10, <2>1, ReplaceOne DEF PerformLoad
  <2> QED BY <1>10, <2>1, <2>2 DEF PerformLoad, Handles, PatientStep, screens, Load, AboutRuns, Shaped
<1>11. CASE PerformDelete
  <2>1. Alone(DeleteCmd) /\ DeleteCmd \in AllMessages
    BY <1>7, <1>11, MessageShape DEF PerformDelete
  <2>2. pending' = EmptyBag \/ pending' = One(Loaded(NoRow))
    BY <1>11, <2>1, ReplaceOne DEF PerformDelete
  <2>3. NoRow \in Rows BY DEF Rows
  <2> QED BY <1>11, <2>1, <2>2, <2>3 DEF PerformDelete, Handles, PatientStep, screens, DeleteCmd, AboutRuns, Shaped
<1>12. ASSUME NEW r \in Runs, PerformRead(r) PROVE PatientStep
  <2>1. Alone(Read(r)) BY <1>12, Lonely DEF PerformRead
  <2>2. pending' = One(ReadEvent(r)) BY <1>12, <2>1, ReplaceOne DEF PerformRead
  <2> QED BY <1>12, <2>1, <2>2 DEF PerformRead, Reads, PatientStep
<1>13. ASSUME NEW x PROVE InitCmd(x) = EmptyBag \/ \E n : InitCmd(x) = One(n)
  BY DEF InitCmd
<1>14. CASE DeliverBack
  <2>1. Alone(Back) /\ InPlace(Back) BY <1>14, Lonely DEF DeliverBack, Delivers
  <2>2. pending' = InitCmd(Popped[Len(Popped)])
    BY <1>13, <1>14, <2>1, ReplaceOne DEF DeliverBack
  <2> QED BY <1>14, <2>1, <2>2 DEF DeliverBack, Pops, PatientStep
<1>15. CASE DeliverFatal
  <2>1. Alone(Fatal) /\ Fatal \in AllMessages BY <1>15, Lonely DEF DeliverFatal, Delivers
  <2>2. pending' = EmptyBag BY <1>15, <2>1, ReplaceOne DEF DeliverFatal
  <2> QED BY <1>15, <2>1, <2>2 DEF DeliverFatal, Handles, PatientStep, Fatal, AboutRuns, Shaped
<1>16. ASSUME NEW m \in InFlight PROVE m \in AllMessages /\ Alone(m) /\ InPlace(m)
  BY Lonely
<1>17. ASSUME NEW m \in InFlight, DeliverPush(m) PROVE PatientStep
  <2>1. PICK x \in Screens : m = Push(x)
    BY <1>16, <1>17, MessageShape DEF DeliverPush
  <2>2. m.screen = x BY <2>1 DEF Push
  <2>3. pending' = InitCmd(x)
    BY <1>13, <1>16, <1>17, <2>2, ReplaceOne DEF DeliverPush
  <2> QED BY <1>16, <1>17, <2>1, <2>2, <2>3 DEF DeliverPush, Pushes, PatientStep
<1>18. ASSUME NEW m \in InFlight, DeliverRows(m) PROVE PatientStep
  <2>1. PICK x \in Rows : m = Loaded(x)
    BY <1>16, <1>18, MessageShape DEF DeliverRows
  <2>2. m.row \in Rows /\ m.k = "rows" BY <2>1 DEF Loaded
  <2>3. pending' = EmptyBag
    BY <1>16, <1>18, ReplaceOne DEF DeliverRows
  <2> QED BY <1>16, <1>18, <2>2, <2>3 DEF DeliverRows, Handles, PatientStep, AboutRuns, Shaped
<1>19. ASSUME NEW m \in InFlight, DeliverProgress(m) PROVE PatientStep
  <2>1. PICK r \in Runs : m = ProgressMsg(r)
    BY <1>16, <1>19, MessageShape DEF DeliverProgress
  <2>2. Active = ProgressOf(r)
    BY <1>16, <2>1 DEF InPlace, ProgressMsg, AboutRuns
  <2>3. InitCmd(Active) = One(Read(r)) /\ Active.id = "progress"
    BY <2>2 DEF InitCmd, ProgressOf
  <2>4. pending' = One(Read(r))
    BY <1>16, <1>19, <2>3, ReplaceOne DEF DeliverProgress
  <2> QED BY <1>16, <1>19, <2>1, <2>2, <2>4 DEF DeliverProgress, ReadsOn, PatientStep
<1>20. ASSUME NEW m \in InFlight, DeliverDone(m) PROVE PatientStep
  <2>1. PICK r \in Runs, e \in ExitCodes : m = RestoreComplete(r, e)
    BY <1>16, <1>20, MessageShape DEF DeliverDone
  <2>2. m.run = r /\ m.exit = e BY <2>1 DEF RestoreComplete
  <2>3. pending' = EmptyBag
    BY <1>16, <1>20, ReplaceOne DEF DeliverDone
  <2> QED BY <1>16, <1>20, <2>1, <2>2, <2>3 DEF DeliverDone, Reports, PatientStep
<1>21. CASE \E r \in Runs : Run(r)
  BY <1>21 DEF PatientStep
<1>22. CASE UNCHANGED vars
  BY <1>22 DEF PatientStep
<1> QED
  BY <1>1, <1>2, <1>3, <1>4, <1>5, <1>8, <1>9, <1>10, <1>11, <1>12, <1>14, <1>15, <1>17, <1>18, <1>19, <1>20, <1>21, <1>22
  DEF Next, Key, Perform, Deliver

------------------------------------------------------------------------------
(* One message at a time, and the progress screen on top *)

(* What a push or a pop leaves in flight.                                  *)
LEMMA InitInPlace ==
  ASSUME NEW x \in Screens, pending' = InitCmd(x), Active' = x
  PROVE  \/ pending' = EmptyBag /\ Active'.id # "progress"
         \/ \E m \in AllMessages : Alone(m)' /\ InPlace(m)'
<1>1. CASE x.id = "home"
  <2>1. pending' = One(Load) /\ Load \in AllMessages
    BY <1>1 DEF InitCmd, AllMessages, Messages
  <2>2. Alone(Load)' /\ InPlace(Load)'
    BY <1>1, <2>1 DEF Alone, InPlace, Load, AboutRuns
  <2> QED BY <2>1, <2>2
<1>2. CASE x.id = "progress"
  <2>1. PICK r \in Runs : x = ProgressOf(r)
    BY <1>2 DEF Screens, Plain, Launcher, ProgressOf, Report
  <2>2. x.run = r /\ pending' = One(Read(r)) /\ Read(r) \in AllMessages
    BY <1>2, <2>1 DEF InitCmd, AllMessages, Messages, ProgressOf
  <2>3. Alone(Read(r))' /\ InPlace(Read(r))'
    BY <2>1, <2>2 DEF Alone, InPlace, Read, AboutRuns
  <2> QED BY <2>2, <2>3
<1>3. CASE x.id \notin {"home", "progress"}
  BY <1>3 DEF InitCmd
<1> QED BY <1>1, <1>2, <1>3

(* The program starts so.                                                  *)
LEMMA PatienceInit == Init => Patience
<1> SUFFICES ASSUME Init PROVE Patience
  OBVIOUS
<1>1. /\ \A i \in DOMAIN stack : stack[i].id # "progress"
      /\ Active \in {Home, Plain("welcome")}
  BY DEF Init, Home, Plain, Active
<1>2. \/ pending = EmptyBag
      \/ pending = One(Load) /\ Load \in AllMessages
  <2>1. Load \in AllMessages BY DEF AllMessages, Messages
  <2>2. pending = InitCmd(Active) BY DEF Init
  <2>3. Active.id \in {"home", "welcome"} BY <1>1 DEF Home, Plain
  <2> QED BY <2>1, <2>2, <2>3 DEF InitCmd
<1>3. InPlace(Load) /\ Active.id # "progress"
  BY <1>1 DEF InPlace, Load, AboutRuns, Home, Plain
<1> QED BY <1>1, <1>2, <1>3 DEF Patience, Alone

(* And stays so.                                                           *)
LEMMA PatienceStep ==
  ASSUME Shaped, Patience, PatientStep
  PROVE  Patience'
<1> DEFINE Below == \A i \in DOMAIN stack : i # Len(stack) => stack[i].id # "progress"
<1>0. Below /\ stack \in Seq(Screens) /\ stack # <<>>
  BY DEF Patience, Shaped
<1>a. ASSUME stack' = stack PROVE Below' /\ Active' = Active
  BY <1>0, <1>a DEF Active
<1>b. ASSUME NEW m, Alone(m), m \in AllMessages PROVE InPlace(m)
  BY <1>b, OneInFlight DEF Patience, Alone
<1>c. ASSUME NEW m \in AllMessages, pending' = One(m), stack' = stack, Active.id # "progress",
             m.k \notin AboutRuns, m.k = "push" => m.screen.id # "report" \/ m.screen.run = NoRun
      PROVE  Patience'
  <2>1. InPlace(m)' BY <1>a, <1>c DEF InPlace
  <2> QED BY <1>a, <1>c, <2>1 DEF Patience, Alone
<1>d. ASSUME pending' = EmptyBag, stack' = stack, Active.id # "progress"
      PROVE  Patience'
  BY <1>a, <1>d DEF Patience
<1>e. ASSUME NEW m \in AllMessages, NEW r, pending' = One(m), stack' = stack,
             m.k \in AboutRuns, Active = ProgressOf(r), m.run = r
      PROVE  Patience'
  <2>1. InPlace(m)' BY <1>a, <1>e DEF InPlace, AboutRuns
  <2> QED BY <1>a, <1>e, <2>1 DEF Patience, Alone
<1>1. ASSUME NEW m \in KeyMessages, Asks(m) PROVE Patience'
  <2>1. /\ m \in AllMessages /\ m.k \notin AboutRuns
        /\ m.k = "push" => m.screen.id # "report" \/ m.screen.run = NoRun
    BY DEF KeyMessages, AllMessages, Messages, AboutRuns, DeleteCmd, Launch, ResumeCmd, Back,
       Fatal, Push, Plain, Launcher, Report, Screens, LastStep, ExitCodes
  <2>2. Active.id # "progress"
    BY <1>1, OneInFlight DEF Asks, Patience
  <2> QED BY <1>1, <1>c, <2>1, <2>2 DEF Asks, screens
<1>2. ASSUME NEW n \in 0..LastStep, Turns(n) PROVE Patience'
  <2>1. /\ Len(stack') = Len(stack) /\ DOMAIN stack' = DOMAIN stack
        /\ stack'[Len(stack)] = Launcher(n)
        /\ \A i \in DOMAIN stack : i # Len(stack) => stack'[i] = stack[i]
    BY <1>0, <1>2 DEF Turns
  <2>2. Below' /\ Active' = Launcher(n)
    BY <1>0, <2>1 DEF Active
  <2>3. Active'.id # "progress" BY <2>2 DEF Launcher
  <2>4. Active.id # "progress" /\ pending' = pending BY <1>2 DEF Turns
  <2>5. ASSUME NEW m \in AllMessages, Alone(m), InPlace(m) PROVE InPlace(m)'
    BY <2>3, <2>4, <2>5 DEF InPlace, ProgressOf
  <2> QED BY <2>2, <2>3, <2>4, <2>5 DEF Patience, Alone
<1>3. ASSUME pending' = pending, stack' = stack PROVE Patience'
  BY <1>a, <1>3 DEF Patience, Alone, InPlace
<1>4. ASSUME NEW r \in Runs, NEW m \in {Launch, ResumeCmd}, Starts(m, r) PROVE Patience'
  <2>1. m \in AllMessages /\ m.k \notin AboutRuns
    BY DEF AllMessages, Messages, Launch, ResumeCmd, AboutRuns
  <2>2. Active.id # "progress" BY <1>4, <1>b, <2>1 DEF Starts, InPlace
  <2>3. /\ Push(ProgressOf(r)) \in AllMessages /\ Push(ProgressOf(r)).k \notin AboutRuns
        /\ Push(ProgressOf(r)).screen.id # "report"
    BY DEF AllMessages, Messages, Push, ProgressOf, AboutRuns, Screens
  <2> QED BY <1>4, <1>c, <2>2, <2>3 DEF Starts, screens
<1>5. ASSUME NEW m \in AllMessages, Handles(m) PROVE Patience'
  <2>1. Active.id # "progress" BY <1>5, <1>b DEF Handles, InPlace
  <2>2. CASE pending' = EmptyBag BY <1>5, <1>d, <2>1, <2>2 DEF Handles
  <2>3. ASSUME NEW x \in Rows, pending' = One(Loaded(x)) PROVE Patience'
    <3>1. Loaded(x) \in AllMessages /\ Loaded(x).k = "rows"
      BY DEF AllMessages, Loaded
    <3> QED BY <1>5, <1>c, <2>1, <2>3, <3>1 DEF Handles, AboutRuns
  <2> QED BY <1>5, <2>2, <2>3 DEF Handles
<1>6. ASSUME NEW r \in Runs, Reads(r) PROVE Patience'
  <2>1. Read(r) \in AllMessages /\ Read(r).k \in AboutRuns /\ Read(r).run = r
    BY DEF AllMessages, Messages, Read, AboutRuns
  <2>2. Active = ProgressOf(r) BY <1>6, <1>b, <2>1 DEF Reads, InPlace
  <2>3. ReadEvent(r) \in AllMessages /\ ReadEvent(r).k \in AboutRuns /\ ReadEvent(r).run = r
    BY DEF AllMessages, Messages, ReadEvent, ProgressMsg, RestoreComplete, ExitOf, ExitCodes, AboutRuns
  <2> QED BY <1>6, <1>e, <2>2, <2>3 DEF Reads, screens
<1>7. ASSUME NEW x \in Screens, Pushes(x) PROVE Patience'
  <2>1. /\ Len(stack') = Len(stack) + 1 /\ stack'[Len(stack) + 1] = x
        /\ DOMAIN stack' = 1..(Len(stack) + 1)
        /\ \A i \in DOMAIN stack : stack'[i] = stack[i]
    BY <1>0, <1>7 DEF Pushes
  <2>2. Active.id # "progress"
    BY <1>7 DEF Pushes, InPlace, Push, AboutRuns
  <2>3. Active' = x BY <2>1 DEF Active
  <2>4. Below' BY <1>0, <2>1, <2>2 DEF Active
  <2> QED BY <1>7, <2>3, <2>4, InitInPlace DEF Pushes, Patience
<1>8. ASSUME Pops PROVE Patience'
  <2>1. Active.id # "progress" BY <1>8 DEF Pops, InPlace, Back, AboutRuns
  <2>2. stack' \in Seq(Screens) /\ stack' # <<>>
    <3>1. CASE Len(stack) > 1
      <4>1. stack' = SubSeq(stack, 1, Len(stack) - 1)
        BY <1>8, <3>1 DEF Pops, Popped
      <4>2. stack' \in Seq(Screens) /\ Len(stack') = Len(stack) - 1
        BY <1>0, <3>1, <4>1, SubSeqProperties
      <4> QED BY <3>1, <4>2
    <3>2. CASE ~(Len(stack) > 1)
      BY <1>0, <1>8, <3>2 DEF Pops, Popped
    <3> QED BY <3>1, <3>2
  <2>3. Active' \in Screens /\ pending' = InitCmd(Active')
    BY <1>8, <2>2 DEF Pops, Active
  <2>4. Below'
    <3>1. CASE Len(stack) > 1
      <4>1. /\ DOMAIN stack' = 1..(Len(stack) - 1)
            /\ \A i \in DOMAIN stack' : i \in DOMAIN stack /\ i # Len(stack) /\ stack'[i] = stack[i]
        BY <1>0, <1>8, <3>1 DEF Pops, Popped
      <4> QED BY <1>0, <4>1
    <3>2. CASE ~(Len(stack) > 1)
      BY <1>8, <1>a, <3>2 DEF Pops, Popped
    <3> QED BY <3>1, <3>2
  <2> QED BY <2>3, <2>4, InitInPlace DEF Patience
<1>9. ASSUME NEW r \in Runs, ReadsOn(r) PROVE Patience'
  <2>1. Read(r) \in AllMessages /\ Read(r).k \in AboutRuns /\ Read(r).run = r
    BY DEF AllMessages, Messages, Read, AboutRuns
  <2> QED BY <1>9, <1>e, <2>1 DEF ReadsOn, screens
<1>10. ASSUME NEW r \in Runs, NEW e \in ExitCodes, Reports(r, e) PROVE Patience'
  <2>1. /\ DOMAIN stack' = {1, 2} /\ Len(stack') = 2 /\ stack'[1] = stack[1]
        /\ stack'[2] = Report(r, e, TRUE)
    BY <1>10 DEF Reports
  <2>2. stack[1].id # "progress" /\ Report(r, e, TRUE).id # "progress"
    BY DEF Shaped, Home, Plain, Report
  <2> QED BY <1>10, <2>1, <2>2 DEF Reports, Patience, Active
<1>11. ASSUME NEW r \in Runs, Run(r) PROVE Patience'
  BY <1>3, <1>11 DEF Run, RunAdvances, RunInitialSave, RunFinalSave, RunCompletes, RunGivesUp,
     RunProgress, RunCheckpoint, RunStatementFails, RunBails, RunStep, screens
<1> QED
  BY <1>1, <1>2, <1>3, <1>4, <1>5, <1>6, <1>7, <1>8, <1>9, <1>10, <1>11
  DEF PatientStep, Quits, vars, screens

------------------------------------------------------------------------------
(* Types *)

(* With one message in flight the bag has its type.                        *)
LEMMA ShapedTypes ==
  ASSUME Shaped, Patience
  PROVE  TypeOK
<1>1. CASE pending = EmptyBag
  BY <1>1 DEF Shaped, TypeOK, EmptyBag, SetToBag, IsABag, InFlight, BagToSet
<1>2. ASSUME NEW m \in AllMessages, Alone(m) PROVE TypeOK
  <2>1. IsABag(pending) /\ InFlight = {m}
    BY <1>2, OneInFlight DEF Alone, One, SetToBag, IsABag
  <2>2. m \in Messages \/ (m.k = "rows" /\ m.row \in Rows)
    BY DEF AllMessages, Loaded
  <2> QED BY <2>1, <2>2 DEF Shaped, TypeOK
<1> QED BY <1>1, <1>2 DEF Patience

(* Short stacks are stacks.                                                *)
LEMMA ShortStacks ==
  ASSUME NEW x \in Screens, NEW y \in Screens
  PROVE  <<x>> \in Seq(Screens) /\ <<x, y>> \in Seq(Screens)
OBVIOUS

(* What an upsert leaves is a row.                                         *)
LEMMA UpsertType ==
  ASSUME row \in Rows, NEW dsn \in BOOLEAN, NEW complete \in BOOLEAN \cup {row.complete},
         Upsert(complete, dsn)
  PROVE  row' \in Rows
<1>1. row.complete \in BOOLEAN /\ row.dsn \in BOOLEAN
  <2>1. CASE row = NoRow BY <2>1 DEF NoRow
  <2>2. ASSUME NEW c \in BOOLEAN, NEW d \in BOOLEAN, row = RowOf(c, d)
        PROVE  row.complete \in BOOLEAN /\ row.dsn \in BOOLEAN
    BY <2>2 DEF RowOf
  <2>3. row = NoRow \/ \E c \in BOOLEAN, d \in BOOLEAN : row = RowOf(c, d)
    BY DEF Rows
  <2> QED BY <2>1, <2>2, <2>3
<1>2. \A c \in BOOLEAN, d \in BOOLEAN : RowOf(c, d) \in Rows
  BY DEF Rows
<1> QED BY <1>1, <1>2 DEF Upsert

(* The initial state has its shape.                                        *)
LEMMA ShapedInit == Init => Shaped
<1> SUFFICES ASSUME Init PROVE Shaped
  OBVIOUS
<1>1. Home \in Screens /\ Plain("welcome") \in Screens
  BY DEF Home, Plain, Screens
<1>2. stack \in Seq(Screens) /\ stack # <<>> /\ stack[1] = Home
  <2>1. stack = <<Home>> \/ stack = <<Home, Plain("welcome")>> BY DEF Init
  <2>2. stack \in Seq(Screens) BY <1>1, <2>1, ShortStacks
  <2> QED BY <2>1, <2>2
<1>3. shown \in Rows /\ row \in Rows
  BY DEF Init, Rows
<1>4. /\ phase \in [Runs -> Src!Phases]
      /\ chan \in [Runs -> Seq({"progress"} \cup Src!Verdicts)]
  BY DEF Init, Src!Init, Src!Phases
<1> QED BY <1>2, <1>3, <1>4 DEF Init, Shaped

(* A channel and a phase stay what they are through a step of a run.       *)
LEMMA SourceTypes ==
  ASSUME Shaped, NEW r \in Runs,
         \/ Src!Begin(r) \/ Src!Progress(r) \/ Src!InitialSave(r) \/ Src!FinalSave(r)
         \/ (\E v \in Src!Success : Src!Complete(r, v)) \/ Src!StatementFails(r)
         \/ Src!Bail(r) \/ Src!GiveUp(r) \/ Src!Take(r) \/ UNCHANGED <<phase, chan>>
  PROVE  /\ phase' \in [Runs -> Src!Phases]
         /\ chan' \in [Runs -> Seq({"progress"} \cup Src!Verdicts)]
<1> DEFINE E == {"progress"} \cup Src!Verdicts
<1>1. phase \in [Runs -> Src!Phases] /\ chan \in [Runs -> Seq(E)]
  BY DEF Shaped
<1>2. ASSUME NEW ev \in E, Src!Put(r, ev) PROVE chan' \in [Runs -> Seq(E)]
  <2>1. Append(chan[r], ev) \in Seq(E) BY <1>1
  <2> HIDE DEF E
  <2> QED BY <1>1, <1>2, <2>1 DEF Src!Put
<1>3. ASSUME NEW from, NEW to \in Src!Phases, Src!Moves(r, from, to)
      PROVE  phase' \in [Runs -> Src!Phases]
  BY <1>1, <1>3 DEF Src!Moves
<1>4. ASSUME Src!Begin(r) PROVE chan' \in [Runs -> Seq(E)]
  <2>1. <<>> \in Seq(E) OBVIOUS
  <2> HIDE DEF E
  <2> QED BY <1>1, <1>4, <2>1 DEF Src!Begin
<1>5. ASSUME Src!Take(r) PROVE chan' \in [Runs -> Seq(E)]
  <2>1. Tail(chan[r]) \in Seq(E) BY <1>1, <1>5 DEF Src!Take
  <2> HIDE DEF E
  <2> QED BY <1>1, <1>5, <2>1 DEF Src!Take
<1>6. {"starting", "running", "saved", "failing", "ended"} \subseteq Src!Phases
  BY DEF Src!Phases
<1>7. {"progress", "error"} \cup Src!Success \subseteq E
  BY DEF Src!Verdicts
<1> HIDE DEF E
<1>8. phase' \in [Runs -> Src!Phases]
  BY <1>1, <1>3, <1>6 DEF Src!Begin, Src!Progress, Src!InitialSave, Src!FinalSave, Src!Complete,
     Src!StatementFails, Src!Bail, Src!GiveUp, Src!Take
<1>9. chan' \in [Runs -> Seq(E)]
  BY <1>1, <1>2, <1>4, <1>5, <1>7 DEF Src!Progress, Src!InitialSave, Src!FinalSave, Src!Complete,
     Src!StatementFails, Src!Bail, Src!GiveUp
<1> QED BY <1>8, <1>9 DEF E

(* Every step keeps the shape.                                             *)
LEMMA ShapedStep ==
  ASSUME Shaped, Patience, PatientStep
  PROVE  Shaped'
<1> DEFINE StackOK == stack \in Seq(Screens) /\ stack # <<>> /\ stack[1] = Home
<1>0. StackOK BY DEF Shaped
<1>a. ASSUME UNCHANGED <<screens, row, runs>> PROVE Shaped'
  BY <1>a DEF Shaped, screens, runs
<1>b. ASSUME StackOK', UNCHANGED <<fatal, quit, shown, row, runs>> PROVE Shaped'
  BY <1>b DEF Shaped, runs
<1>1. ASSUME NEW m \in KeyMessages, Asks(m) PROVE Shaped'
  BY <1>1, <1>a DEF Asks
<1>2. ASSUME NEW n \in 0..LastStep, Turns(n) PROVE Shaped'
  <2>1. Launcher(n) \in Screens BY DEF Screens
  <2>2. Active = stack[Len(stack)] /\ Active # Home
    BY <1>2 DEF Turns, Active, Home, Plain
  <2>3. stack' \in Seq(Screens) /\ stack' # <<>> /\ stack'[1] = Home
    BY <1>0, <1>2, <2>1, <2>2 DEF Turns
  <2> QED BY <1>2, <1>b, <2>3 DEF Turns
<1>3. CASE Quits
  BY <1>3 DEF Quits, Shaped, runs
<1>4. ASSUME NEW r \in Runs, NEW m, Starts(m, r) PROVE Shaped'
  <2>1. /\ phase' \in [Runs -> Src!Phases]
        /\ chan' \in [Runs -> Seq({"progress"} \cup Src!Verdicts)]
    BY <1>4, SourceTypes DEF Starts
  <2>2. verdict' \in [Runs -> {"none"} \cup Src!Verdicts] /\ verifying' \subseteq Runs
    BY <1>4 DEF Starts, Shaped
  <2> QED BY <1>4, <2>1, <2>2 DEF Starts, Shaped, screens
<1>5. ASSUME NEW m \in AllMessages, Handles(m) PROVE Shaped'
  BY <1>5 DEF Handles, Shaped, runs, Rows
<1>6. ASSUME NEW r \in Runs, Reads(r) PROVE Shaped'
  <2>1. /\ phase' \in [Runs -> Src!Phases]
        /\ chan' \in [Runs -> Seq({"progress"} \cup Src!Verdicts)]
    BY <1>6, SourceTypes DEF Reads
  <2> QED BY <1>6, <2>1 DEF Reads, Shaped, screens
<1>7. ASSUME NEW x \in Screens, Pushes(x) PROVE Shaped'
  <2>1. StackOK' BY <1>0, <1>7 DEF Pushes
  <2> QED BY <1>7, <1>b, <2>1 DEF Pushes
<1>8. CASE Pops
  <2>1. StackOK'
    <3>1. CASE Len(stack) > 1
      <4>1. stack' = SubSeq(stack, 1, Len(stack) - 1)
        BY <1>8, <3>1 DEF Pops, Popped
      <4>2. stack' \in Seq(Screens) /\ Len(stack') = Len(stack) - 1 /\ stack'[1] = stack[1]
        BY <1>0, <3>1, <4>1, SubSeqProperties
      <4> QED BY <1>0, <3>1, <4>2
    <3>2. CASE ~(Len(stack) > 1)
      BY <1>0, <1>8, <3>2 DEF Pops, Popped
    <3> QED BY <3>1, <3>2
  <2> QED BY <1>8, <1>b, <2>1 DEF Pops
<1>9. ASSUME NEW r \in Runs, ReadsOn(r) PROVE Shaped'
  BY <1>9, <1>a DEF ReadsOn
<1>10. ASSUME NEW r \in Runs, NEW e \in ExitCodes, Reports(r, e) PROVE Shaped'
  <2>1. Report(r, e, TRUE) \in Screens
    <3>1. \A d \in BOOLEAN : Report(r, e, d) \in Screens BY DEF Screens
    <3> QED BY <3>1
  <2>2. Home \in Screens BY DEF Screens, Home
  <2>3. stack' = <<Home, Report(r, e, TRUE)>> BY <1>0, <1>10 DEF Reports
  <2>4. StackOK' BY <2>1, <2>2, <2>3, ShortStacks
  <2> QED BY <1>10, <1>b, <2>4 DEF Reports
<1>11. ASSUME NEW r \in Runs, Run(r) PROVE Shaped'
  <2>1. UNCHANGED <<screens, verifying>>
    BY <1>11 DEF Run, RunAdvances, RunInitialSave, RunFinalSave, RunCompletes, RunGivesUp,
       RunProgress, RunCheckpoint, RunStatementFails, RunBails, RunStep
  <2>2. /\ phase' \in [Runs -> Src!Phases]
        /\ chan' \in [Runs -> Seq({"progress"} \cup Src!Verdicts)]
    BY <1>11, SourceTypes DEF Run, RunAdvances, RunInitialSave, RunFinalSave, RunCompletes,
       RunGivesUp, RunProgress, RunCheckpoint, RunStatementFails, RunBails
  <2>3. row' \in Rows
    <3>1. row \in Rows BY DEF Shaped
    <3>2. \/ row' = row
          \/ \E d \in BOOLEAN, c \in {TRUE, row.complete} : Upsert(c, d)
      BY <1>11 DEF Run, RunAdvances, RunInitialSave, RunFinalSave, RunCompletes, RunGivesUp,
         RunProgress, RunCheckpoint, RunStatementFails, RunBails
    <3> QED BY <3>1, <3>2, UpsertType
  <2>4. verdict' \in [Runs -> {"none"} \cup Src!Verdicts]
    BY <1>11 DEF Run, RunAdvances, RunInitialSave, RunFinalSave, RunCompletes, RunGivesUp,
       RunProgress, RunCheckpoint, RunStatementFails, RunBails, Shaped, Src!Verdicts
  <2> QED BY <2>1, <2>2, <2>3, <2>4 DEF Shaped, screens
<1>12. CASE UNCHANGED vars
  BY <1>12, <1>a DEF vars
<1> QED
  BY <1>1, <1>2, <1>3, <1>4, <1>5, <1>6, <1>7, <1>8, <1>9, <1>10, <1>11, <1>12
  DEF PatientStep

------------------------------------------------------------------------------
(* Every run that has not reported is waited for *)

Readers(r) == {Push(ProgressOf(r)), Read(r), ProgressMsg(r)}

(* Who waits for a run, told from what is in flight, before a step and     *)
(* after it.                                                               *)
LEMMA AwaitedBy ==
  ASSUME NEW q, NEW m
  PROVE  /\ pending = One(m) => (Awaited(q) <=> m \in Readers(q))
         /\ pending = EmptyBag => ~Awaited(q)
         /\ pending' = One(m) => (Awaited(q)' <=> m \in Readers(q))
         /\ pending' = EmptyBag => ~Awaited(q)'
<1>1. DOMAIN EmptyBag = {} /\ \A n : DOMAIN One(n) = {n}
  BY DEF One, SetToBag, EmptyBag
<1> QED BY <1>1 DEF Awaited, Alone, Readers

(* Runs have readers of their own, and other messages read no run.         *)
LEMMA ReadersApart ==
  ASSUME NEW q, NEW r
  PROVE  /\ q # r => Readers(q) \cap Readers(r) = {}
         /\ \A m \in Readers(q) : \/ m.k \in {"read", "progress"}
                                  \/ m.k = "push" /\ m.screen = ProgressOf(q)
<1>1. ProgressOf(q) = ProgressOf(r) => q = r BY DEF ProgressOf
<1>2. /\ Read(q) = Read(r) => q = r
      /\ ProgressMsg(q) = ProgressMsg(r) => q = r
      /\ Push(ProgressOf(q)) = Push(ProgressOf(r)) => ProgressOf(q) = ProgressOf(r)
  BY DEF Read, ProgressMsg, Push
<1>3. \A m \in Readers(q) : \/ m.k \in {"read", "progress"}
                            \/ m.k = "push" /\ m.screen = ProgressOf(q)
  BY DEF Readers, Read, ProgressMsg, Push
<1>4. /\ Push(ProgressOf(q)).k = "push" /\ Read(q).k = "read" /\ ProgressMsg(q).k = "progress"
      /\ Push(ProgressOf(r)).k = "push" /\ Read(r).k = "read" /\ ProgressMsg(r).k = "progress"
  BY DEF Read, ProgressMsg, Push
<1> QED BY <1>1, <1>2, <1>3, <1>4 DEF Readers

(* A run nothing happens to, neither to it nor to who waits for it.        *)
LEMMA FollowedSame ==
  ASSUME NEW q \in Runs, Followed(q), Awaited(q)' <=> Awaited(q),
         phase'[q] = phase[q], chan'[q] = chan[q], verdict'[q] = verdict[q]
  PROVE  Followed(q)'
BY DEF Followed, Writes, Src!Writes

(* A step that leaves the runs alone, and their readers.                   *)
LEMMA FollowedAll ==
  ASSUME \A q \in Runs : Followed(q), UNCHANGED runs,
         \A q \in Runs : Awaited(q)' <=> Awaited(q)
  PROVE  \A q \in Runs : Followed(q)'
BY FollowedSame DEF runs

(* What a run does to itself keeps what its reader relies on.              *)
LEMMA FollowedRun ==
  ASSUME Shaped, NEW r \in Runs, Followed(r), Run(r)
  PROVE  Followed(r)'
<1> DEFINE E == {"progress"} \cup Src!Verdicts
<1>0. /\ chan[r] \in Seq(E) /\ phase \in [Runs -> Src!Phases]
      /\ chan \in [Runs -> Seq(E)]
      /\ verdict \in [Runs -> {"none"} \cup Src!Verdicts]
  BY DEF Shaped
<1>1. pending' = pending
  BY DEF Run, RunAdvances, RunInitialSave, RunFinalSave, RunCompletes, RunGivesUp,
     RunProgress, RunCheckpoint, RunStatementFails, RunBails, RunStep
<1>2. Awaited(r)' <=> Awaited(r) BY <1>1 DEF Awaited, Alone
<1>3. ASSUME NEW ev \in E, Src!Put(r, ev)
      PROVE  /\ \A i \in DOMAIN chan'[r] :
                  chan'[r][i] = ev \/ (i \in DOMAIN chan[r] /\ chan'[r][i] = chan[r][i])
             /\ \E i \in DOMAIN chan'[r] : chan'[r][i] = ev
             /\ \A i \in DOMAIN chan[r] : i \in DOMAIN chan'[r] /\ chan'[r][i] = chan[r][i]
  <2>1. chan'[r] = Append(chan[r], ev) BY <1>0, <1>3 DEF Src!Put
  <2>2. /\ DOMAIN chan'[r] = 1..(Len(chan[r]) + 1) /\ DOMAIN chan[r] = 1..Len(chan[r])
        /\ chan'[r][Len(chan[r]) + 1] = ev
        /\ \A i \in 1..Len(chan[r]) : chan'[r][i] = chan[r][i]
    BY <1>0, <2>1
  <2>3. Len(chan[r]) \in Nat BY <1>0
  <2>4. Len(chan[r]) + 1 \in DOMAIN chan'[r] BY <2>2, <2>3
  <2>5. \A i \in DOMAIN chan[r] : i \in DOMAIN chan'[r] /\ chan'[r][i] = chan[r][i]
    BY <2>2, <2>3
  <2>6. \A i \in DOMAIN chan'[r] : i = Len(chan[r]) + 1 \/ i \in DOMAIN chan[r]
    BY <2>2, <2>3
  <2> QED BY <2>2, <2>4, <2>5, <2>6
<1>4. ASSUME verdict[r] = "none" PROVE \A i \in DOMAIN chan[r] : chan[r][i] = "progress"
  <2>1. \A i \in DOMAIN chan[r] : chan[r][i] \in E /\ chan[r][i] \in {"progress", "none"}
    BY <1>0, <1>4 DEF Followed
  <2> QED BY <2>1 DEF Src!Verdicts, Src!Success
<1>5. {"progress", "error", "ok", "findings"} \subseteq E /\ Src!Success = {"ok", "findings"}
  BY DEF Src!Verdicts, Src!Success
<1> HIDE DEF E
<1>6. ASSUME RunInitialSave(r) \/ RunFinalSave(r) PROVE Followed(r)'
  <2>1. phase[r] \in {"starting", "running"} /\ phase'[r] \in {"running", "saved"}
    BY <1>0, <1>6 DEF RunInitialSave, RunFinalSave, Src!InitialSave, Src!FinalSave, Src!Moves
  <2>2. chan' = chan /\ verdict' = verdict
    BY <1>6 DEF RunInitialSave, RunFinalSave, Src!InitialSave, Src!FinalSave
  <2> QED BY <1>2, <2>1, <2>2 DEF Followed, Writes, Src!Writes
<1>7. CASE RunProgress(r)
  <2>1. Src!Put(r, "progress") /\ phase' = phase /\ verdict' = verdict
    BY <1>7 DEF RunProgress, Src!Progress
  <2> QED BY <1>2, <1>3, <1>5, <2>1 DEF Followed, Writes, Src!Writes
<1>8. CASE RunCheckpoint(r)
  BY <1>2, <1>8, FollowedSame DEF RunCheckpoint
<1>9. ASSUME NEW v \in {"ok", "findings", "error"}, Src!Put(r, v), verdict' = [verdict EXCEPT ![r] = v],
             Writes(r) \/ (phase[r] = "failing" /\ v = "error"),
             phase'[r] = "ended" \/ (phase'[r] = "failing" /\ v = "error")
      PROVE  Followed(r)'
  <2>1. verdict'[r] = v /\ v # "none" BY <1>0, <1>9
  <2>2. \A i \in DOMAIN chan[r] : chan[r][i] \in {"progress", v}
    BY <1>4, <1>9 DEF Followed
  <2>3. /\ \A i \in DOMAIN chan'[r] : chan'[r][i] \in {"progress", v}
        /\ \E i \in DOMAIN chan'[r] : chan'[r][i] = v
    BY <1>3, <1>5, <1>9, <2>2
  <2> QED BY <1>9, <2>1, <2>3 DEF Followed, Writes, Src!Writes
<1>10. CASE RunCompletes(r)
  <2>1. PICK v \in Src!Success : Src!Complete(r, v) /\ verdict' = [verdict EXCEPT ![r] = v]
    BY <1>10 DEF RunCompletes
  <2>2. phase[r] = "saved" /\ phase'[r] = "ended" /\ Src!Put(r, v)
    BY <1>0, <2>1 DEF Src!Complete, Src!Moves
  <2> QED BY <1>5, <1>9, <2>1, <2>2 DEF Writes, Src!Writes
<1>11. CASE RunStatementFails(r)
  <2>1. phase[r] = "running" /\ phase'[r] = "failing" /\ Src!Put(r, "error")
    BY <1>0, <1>11 DEF RunStatementFails, Src!StatementFails, Src!Moves
  <2> QED BY <1>9, <1>11, <2>1 DEF Writes, Src!Writes, RunStatementFails
<1>12. CASE RunBails(r)
  <2>1. Writes(r) /\ phase'[r] = "failing" /\ chan' = chan /\ verdict' = verdict
    BY <1>0, <1>12 DEF RunBails, Src!Bail, Src!Moves, Writes, Src!Writes
  <2> QED BY <1>2, <2>1 DEF Followed, Writes, Src!Writes
<1>13. CASE RunGivesUp(r)
  <2>1. phase[r] = "failing" /\ phase'[r] = "ended" /\ Src!Put(r, "error")
    BY <1>0, <1>13 DEF RunGivesUp, Src!GiveUp, Src!Moves
  <2> QED BY <1>9, <1>13, <2>1 DEF RunGivesUp
<1> QED BY <1>6, <1>7, <1>8, <1>10, <1>11, <1>12, <1>13 DEF Run, RunAdvances

(* And leaves the other runs alone.                                        *)
LEMMA OtherRunsKeep ==
  ASSUME Shaped, NEW r \in Runs, Run(r), NEW q \in Runs, q # r
  PROVE  phase'[q] = phase[q] /\ chan'[q] = chan[q] /\ verdict'[q] = verdict[q]
BY DEF Shaped, Run, RunAdvances, RunInitialSave, RunFinalSave, RunCompletes, RunGivesUp,
   RunProgress, RunCheckpoint, RunStatementFails, RunBails, Src!InitialSave, Src!FinalSave,
   Src!Complete, Src!GiveUp, Src!Progress, Src!StatementFails, Src!Bail, Src!Moves, Src!Put

(* What the reader of a run finds in its channel.                          *)
LEMMA WhatIsRead ==
  ASSUME Shaped, NEW r \in Runs, Followed(r), Reads(r)
  PROVE  /\ \/ ReadEvent(r) = ProgressMsg(r) /\ chan[r] # <<>> /\ Head(chan[r]) = "progress"
            \/ /\ ReadEvent(r) = RestoreComplete(r, ExitOf(verdict[r]))
               /\ verdict[r] # "none"
         /\ chan[r] # <<>> /\ Src!Take(r)
<1>1. /\ chan[r] \in Seq({"progress"} \cup Src!Verdicts) /\ Awaited(r)
  BY DEF Shaped, Reads, Awaited
<1>2. chan[r] # <<>> /\ Src!Take(r)
  <2>1. CASE chan[r] = <<>> /\ phase[r] = "ended"
    <3>1. verdict[r] # "none" BY <2>1 DEF Followed
    <3>2. \E i \in DOMAIN chan[r] : chan[r][i] = verdict[r] BY <1>1, <3>1 DEF Followed
    <3> QED BY <2>1, <3>2
  <2>2. CASE Src!Take(r) BY <2>2 DEF Src!Take
  <2> QED BY <2>1, <2>2 DEF Reads
<1>3. /\ 1 \in DOMAIN chan[r] /\ Head(chan[r]) = chan[r][1]
      /\ Head(chan[r]) \in {"progress"} \cup Src!Verdicts
  BY <1>1, <1>2
<1>4. Head(chan[r]) \in {"progress", verdict[r]} BY <1>3 DEF Followed
<1>5. Head(chan[r]) # "none" BY <1>3 DEF Src!Verdicts, Src!Success
<1> QED BY <1>2, <1>4, <1>5 DEF ReadEvent

(* Every step keeps the runs followed.                                     *)
LEMMA FollowedStep ==
  ASSUME Shaped, Patience, \A r \in Runs : Followed(r), PatientStep
  PROVE  \A q \in Runs : Followed(q)'
<1>r. \A q : \A m \in Readers(q) :
        m.k \in {"read", "progress"} \/ (m.k = "push" /\ m.screen.id = "progress")
  <2>1. \A q : ProgressOf(q).id = "progress" BY DEF ProgressOf
  <2>2. SUFFICES ASSUME NEW q, NEW m \in Readers(q)
                 PROVE  \/ m.k \in {"read", "progress"}
                        \/ m.k = "push" /\ m.screen.id = "progress"
    OBVIOUS
  <2>3. m.k \in {"read", "progress"} \/ (m.k = "push" /\ m.screen = ProgressOf(q))
    BY ReadersApart
  <2> QED BY <2>1, <2>3
<1>a. ASSUME pending' = pending, UNCHANGED runs PROVE \A q \in Runs : Followed(q)'
  BY <1>a, FollowedAll DEF Awaited, Alone
<1>1. ASSUME NEW m \in KeyMessages, Asks(m) PROVE \A q \in Runs : Followed(q)'
  <2>1. m.k = "push" => m.screen.id # "progress"
    BY DEF KeyMessages, DeleteCmd, Launch, ResumeCmd, Back, Fatal, Push, Plain, Launcher, Report
  <2>2. m.k \notin {"read", "progress"}
    BY DEF KeyMessages, DeleteCmd, Launch, ResumeCmd, Back, Fatal, Push
  <2>3. \A q : m \notin Readers(q)
    BY <1>r, <2>1, <2>2
  <2> QED BY <1>1, <2>3, AwaitedBy, FollowedAll DEF Asks
<1>2. ASSUME NEW r \in Runs, NEW m \in {Launch, ResumeCmd}, Starts(m, r)
      PROVE  \A q \in Runs : Followed(q)'
  <2>1. \A q : m \notin Readers(q)
    BY ReadersApart DEF Launch, ResumeCmd
  <2>2. \A q : ~Awaited(q) BY <1>2, <2>1, AwaitedBy DEF Starts, Alone
  <2>3. Push(ProgressOf(r)) \in Readers(r) BY DEF Readers
  <2>4. Awaited(r)' BY <1>2, <2>3, AwaitedBy DEF Starts
  <2>5. /\ phase' = [phase EXCEPT ![r] = "starting"] /\ chan' = [chan EXCEPT ![r] = <<>>]
        /\ verdict' = [verdict EXCEPT ![r] = "none"]
    BY <1>2 DEF Starts, Src!Begin, Src!Moves
  <2>6. phase'[r] = "starting" /\ chan'[r] = <<>> /\ verdict'[r] = "none"
    BY <2>5 DEF Shaped
  <2>7. Followed(r)' BY <2>4, <2>6 DEF Followed, Writes, Src!Writes
  <2>8. ASSUME NEW q \in Runs, q # r PROVE Followed(q)'
    <3>1. ~Awaited(q)' BY <1>2, <2>3, <2>8, AwaitedBy, ReadersApart DEF Starts
    <3>2. phase'[q] = phase[q] /\ chan'[q] = chan[q] /\ verdict'[q] = verdict[q]
      BY <2>5, <2>8 DEF Shaped
    <3> QED BY <2>2, <3>1, <3>2, FollowedSame
  <2> QED BY <2>7, <2>8
<1>3. ASSUME NEW m \in AllMessages, Handles(m) PROVE \A q \in Runs : Followed(q)'
  <2>1. \A q : m \notin Readers(q)
    BY <1>3, ReadersApart DEF Handles, AboutRuns
  <2>2. \A x, q : Loaded(x) \notin Readers(q)
    BY ReadersApart DEF Loaded
  <2> QED BY <1>3, <2>1, <2>2, AwaitedBy, FollowedAll DEF Handles, Alone
<1>4. ASSUME NEW r \in Runs, Reads(r) PROVE \A q \in Runs : Followed(q)'
  <2>1. pending = One(Read(r)) /\ Read(r) \in Readers(r) /\ Awaited(r)
    BY <1>4 DEF Reads, Alone, Readers, Awaited
  <2>2. /\ chan[r] \in Seq({"progress"} \cup Src!Verdicts) /\ chan[r] # <<>>
        /\ chan'[r] = Tail(chan[r]) /\ phase' = phase /\ verdict' = verdict
        /\ \A q \in Runs : q # r => chan'[q] = chan[q]
    BY <1>4, WhatIsRead DEF Shaped, Src!Take, Reads
  <2>3. /\ \A i \in DOMAIN chan'[r] : i + 1 \in DOMAIN chan[r] /\ chan'[r][i] = chan[r][i + 1]
        /\ \A i \in DOMAIN chan[r] : i = 1 \/ (i - 1 \in DOMAIN chan'[r] /\ chan[r][i] = chan'[r][i - 1])
        /\ Head(chan[r]) = chan[r][1]
    BY <2>2
  <2>4. Followed(r)'
    <3>1. CASE ReadEvent(r) = ProgressMsg(r) /\ Head(chan[r]) = "progress"
      <4>1. ProgressMsg(r) \in Readers(r) BY DEF Readers
      <4>2. Awaited(r)' BY <1>4, <3>1, <4>1, AwaitedBy DEF Reads
      <4>3. verdict[r] # "progress" BY DEF Shaped, Src!Verdicts, Src!Success
      <4>4. ASSUME verdict[r] # "none" PROVE \E i \in DOMAIN chan'[r] : chan'[r][i] = verdict[r]
        <5>1. PICK i \in DOMAIN chan[r] : chan[r][i] = verdict[r]
          BY <2>1, <4>4 DEF Followed
        <5>2. i # 1 BY <2>3, <3>1, <4>3, <5>1
        <5> QED BY <2>3, <5>1, <5>2
      <4>5. \A i \in DOMAIN chan'[r] : chan'[r][i] \in {"progress", verdict[r]}
        BY <2>3 DEF Followed
      <4> QED BY <2>2, <4>2, <4>4, <4>5 DEF Followed, Writes, Src!Writes
    <3>2. CASE ReadEvent(r) = RestoreComplete(r, ExitOf(verdict[r])) /\ verdict[r] # "none"
      <4>1. RestoreComplete(r, ExitOf(verdict[r])) \notin Readers(r)
        BY ReadersApart DEF RestoreComplete
      <4>2. ~Awaited(r)' BY <1>4, <3>2, <4>1, AwaitedBy DEF Reads
      <4> QED BY <2>2, <2>3, <3>2, <4>2 DEF Followed, Writes, Src!Writes
    <3> QED BY <1>4, <3>1, <3>2, WhatIsRead
  <2>5. ASSUME NEW q \in Runs, q # r PROVE Followed(q)'
    <3>1. ReadEvent(r) \notin Readers(q)
      <4>1. ProgressMsg(r) \in Readers(r) BY DEF Readers
      <4>2. \A e : RestoreComplete(r, e) \notin Readers(q)
        BY ReadersApart DEF RestoreComplete
      <4> QED BY <1>4, <2>5, <4>1, <4>2, WhatIsRead, ReadersApart
    <3>2. ~Awaited(q)' BY <1>4, <3>1, AwaitedBy DEF Reads
    <3>3. ~Awaited(q) BY <2>1, <2>5, AwaitedBy, ReadersApart
    <3> QED BY <2>2, <2>5, <3>2, <3>3, FollowedSame
  <2> QED BY <2>4, <2>5
<1>b. ASSUME NEW x, pending' = InitCmd(x), x.id # "progress"
      PROVE  \A q : ~Awaited(q)'
  <2>1. \A q : Load \notin Readers(q) BY ReadersApart DEF Load
  <2> QED BY <1>b, <2>1, AwaitedBy DEF InitCmd
<1>5. ASSUME NEW x \in Screens, Pushes(x) PROVE \A q \in Runs : Followed(q)'
  <2>1. pending = One(Push(x)) BY <1>5 DEF Pushes, Alone
  <2>2. CASE x.id # "progress"
    <3>1. \A q : Push(x) \notin Readers(q)
      BY <1>r, <2>2 DEF Push
    <3> QED BY <1>5, <1>b, <2>1, <2>2, <3>1, AwaitedBy, FollowedAll DEF Pushes
  <2>3. ASSUME NEW r \in Runs, x = ProgressOf(r) PROVE \A q \in Runs : Followed(q)'
    <3>1. pending' = One(Read(r)) BY <1>5, <2>3 DEF Pushes, InitCmd, ProgressOf
    <3>2. Push(x) \in Readers(r) /\ Read(r) \in Readers(r) BY <2>3 DEF Readers
    <3>3. \A q \in Runs : Awaited(q)' <=> Awaited(q)
      BY <2>1, <3>1, <3>2, AwaitedBy, ReadersApart
    <3> QED BY <1>5, <3>3, FollowedAll DEF Pushes
  <2>4. x.id = "progress" => \E r \in Runs : x = ProgressOf(r)
    BY DEF Screens, Plain, Launcher, ProgressOf, Report
  <2> QED BY <2>2, <2>3, <2>4
<1>6. CASE Pops
  <2>1. \A q : Back \notin Readers(q) BY ReadersApart DEF Back
  <2>2. Popped[Len(Popped)].id # "progress"
    <3>1. Active.id # "progress" BY <1>6 DEF Pops, InPlace, Back, AboutRuns
    <3>2. CASE Len(stack) > 1
      <4>1. stack \in Seq(Screens) BY DEF Shaped
      <4>2. /\ Len(Popped) = Len(stack) - 1 /\ Popped[Len(stack) - 1] = stack[Len(stack) - 1]
        BY <3>2, <4>1, SubSeqProperties DEF Popped
      <4> QED BY <3>2, <4>1, <4>2 DEF Patience
    <3>3. CASE ~(Len(stack) > 1)
      BY <3>1, <3>3 DEF Popped, Active
    <3> QED BY <3>2, <3>3
  <2> QED BY <1>6, <1>b, <2>1, <2>2, AwaitedBy, FollowedAll DEF Pops, Alone
<1>7. ASSUME NEW r \in Runs, ReadsOn(r) PROVE \A q \in Runs : Followed(q)'
  <2>1. ProgressMsg(r) \in Readers(r) /\ Read(r) \in Readers(r) BY DEF Readers
  <2>2. \A q \in Runs : Awaited(q)' <=> Awaited(q)
    BY <1>7, <2>1, AwaitedBy, ReadersApart DEF ReadsOn, Alone
  <2> QED BY <1>7, <2>2, FollowedAll DEF ReadsOn
<1>8. ASSUME NEW r \in Runs, NEW e \in ExitCodes, Reports(r, e) PROVE \A q \in Runs : Followed(q)'
  <2>1. \A q : RestoreComplete(r, e) \notin Readers(q)
    BY ReadersApart DEF RestoreComplete
  <2> QED BY <1>8, <2>1, AwaitedBy, FollowedAll DEF Reports, Alone
<1>9. ASSUME NEW r \in Runs, Run(r) PROVE \A q \in Runs : Followed(q)'
  <2>1. pending' = pending
    BY <1>9 DEF Run, RunAdvances, RunInitialSave, RunFinalSave, RunCompletes, RunGivesUp,
       RunProgress, RunCheckpoint, RunStatementFails, RunBails, RunStep
  <2>2. ASSUME NEW q \in Runs, q # r PROVE Followed(q)'
    <3>1. Awaited(q)' <=> Awaited(q) BY <2>1 DEF Awaited, Alone
    <3> QED BY <1>9, <2>2, <3>1, OtherRunsKeep, FollowedSame
  <2> QED BY <1>9, <2>2, FollowedRun
<1> QED
  BY <1>a, <1>1, <1>2, <1>3, <1>4, <1>5, <1>6, <1>7, <1>8, <1>9
  DEF PatientStep, Turns, Quits, vars

------------------------------------------------------------------------------
(* Reports *)

(* What a report says of a run that has reported stays true.               *)
LEMMA VerdictsStay ==
  ASSUME Shaped, NEW r \in Runs, Followed(r), Run(r), NEW q \in Runs, verdict[q] # "none"
  PROVE  verdict'[q] = verdict[q]
<1>1. CASE q # r BY <1>1, OtherRunsKeep
<1>2. CASE q = r
  <2>1. ~Writes(r) BY <1>2 DEF Followed
  <2>2. phase[r] = "failing" => verdict[r] = "error" BY <1>2 DEF Followed
  <2> QED BY <1>2, <2>1, <2>2 DEF Run, RunAdvances, RunInitialSave, RunFinalSave, RunCompletes,
       RunGivesUp, RunProgress, RunCheckpoint, RunStatementFails, RunBails, Writes, Src!Writes, Shaped,
       Src!Complete, Src!StatementFails, Src!GiveUp, Src!Moves
<1> QED BY <1>1, <1>2

(* A report is of a run or of none.                                        *)
LEMMA ReportOf ==
  ASSUME NEW x \in Screens, x.id = "report"
  PROVE  x.run \in Runs \cup {NoRun}
BY DEF Screens, Plain, Launcher, ProgressOf, Report

(* Every step keeps reports true, on the stack and on their way to it.     *)
LEMMA ToldStep ==
  ASSUME Shaped, Patience, \A r \in Runs : Followed(r), Told, PatientStep
  PROVE  Told'
<1> DEFINE OnStack == \A i \in DOMAIN stack :
             stack[i].id = "report" /\ stack[i].run # NoRun => Tells(stack[i])
           OnWay == \A m \in AllMessages : Alone(m) /\ m.k = "done" => Tells(m)
<1>0. OnStack /\ OnWay /\ stack \in Seq(Screens) /\ stack # <<>>
  BY DEF Told, Shaped
<1>a. ASSUME OnStack', OnWay' PROVE Told' BY <1>a DEF Told
<1>b. ASSUME verdict' = verdict, stack' = stack PROVE OnStack'
  BY <1>0, <1>b DEF Tells
<1>c. ASSUME NEW m, pending' = One(m), m.k # "done" PROVE OnWay'
  BY <1>c, OneInFlight DEF Alone
<1>d. ASSUME pending' = EmptyBag PROVE OnWay'
  BY <1>d, EmptyIsNotOne DEF Alone
<1>e. ASSUME NEW x, pending' = InitCmd(x) PROVE OnWay'
  BY <1>c, <1>d, <1>e DEF InitCmd, Load, Read
<1>f. ASSUME pending' = pending, verdict' = verdict PROVE OnWay'
  BY <1>0, <1>f DEF Alone, Tells
<1> HIDE DEF OnWay
<1>1. ASSUME NEW m \in KeyMessages, Asks(m) PROVE Told'
  <2>1. m.k # "done"
    BY DEF KeyMessages, DeleteCmd, Launch, ResumeCmd, Back, Fatal, Push
  <2> QED BY <1>1, <1>a, <1>b, <1>c, <2>1 DEF Asks, screens, runs
<1>2. ASSUME NEW n \in 0..LastStep, Turns(n) PROVE Told'
  <2>1. Launcher(n).id # "report" BY DEF Launcher
  <2>2. /\ DOMAIN stack' = DOMAIN stack /\ verdict' = verdict
        /\ \A i \in DOMAIN stack : stack'[i] = Launcher(n) \/ stack'[i] = stack[i]
    BY <1>0, <1>2 DEF Turns, runs
  <2>3. OnStack' BY <1>0, <2>1, <2>2 DEF Tells
  <2> QED BY <1>2, <1>a, <1>f, <2>2, <2>3 DEF Turns
<1>3. ASSUME UNCHANGED <<stack, pending, verdict>> PROVE Told'
  BY <1>3, <1>a, <1>b, <1>f
<1>4. ASSUME NEW r \in Runs, NEW m, Starts(m, r) PROVE Told'
  <2>1. \A i \in DOMAIN stack : stack[i].id = "report" => stack[i].run # r
    <3> SUFFICES ASSUME NEW i \in DOMAIN stack, stack[i].id = "report" PROVE stack[i].run # r
      OBVIOUS
    <3>1. stack[i] \in Screens BY <1>0
    <3>2. "run" \in DOMAIN stack[i]
      BY <3>1 DEF Screens, Plain, Launcher, ProgressOf, Report
    <3> QED BY <1>4, <3>2 DEF Starts, Free, Mentions
  <2>2. \A q : q # r => verdict'[q] = verdict[q]
    BY <1>4 DEF Starts
  <2>3. OnStack' BY <1>0, <1>4, <2>1, <2>2 DEF Tells, Starts, screens
  <2>4. Push(ProgressOf(r)).k # "done" BY DEF Push
  <2> QED BY <1>4, <1>a, <1>c, <2>3, <2>4 DEF Starts
<1>5. ASSUME NEW m \in AllMessages, Handles(m) PROVE Told'
  <2>1. \A x : Loaded(x).k # "done" BY DEF Loaded
  <2> QED BY <1>5, <1>a, <1>b, <1>c, <1>d, <2>1 DEF Handles, runs
<1>6. ASSUME NEW r \in Runs, Reads(r) PROVE Told'
  <2>1. verdict' = verdict /\ stack' = stack /\ pending' = One(ReadEvent(r))
    BY <1>6 DEF Reads, screens
  <2>2. CASE ReadEvent(r) = ProgressMsg(r)
    BY <1>a, <1>b, <1>c, <2>1, <2>2 DEF ProgressMsg
  <2>3. CASE ReadEvent(r) = RestoreComplete(r, ExitOf(verdict[r])) /\ verdict[r] # "none"
    <3>1. PICK e : e = ExitOf(verdict[r]) OBVIOUS
    <3>2. pending' = One(RestoreComplete(r, e)) BY <2>1, <2>3, <3>1
    <3>3. \A m : One(m) = One(RestoreComplete(r, e)) => m = RestoreComplete(r, e)
      BY OneInFlight
    <3>4. RestoreComplete(r, e).run = r /\ RestoreComplete(r, e).exit = e
      BY DEF RestoreComplete
    <3>5. verdict'[r] # "none" /\ e = ExitOf(verdict'[r]) BY <2>1, <2>3, <3>1
    <3>6. OnWay' BY <3>2, <3>3, <3>4, <3>5 DEF OnWay, Alone, Tells
    <3> QED BY <1>a, <1>b, <2>1, <3>6
  <2> QED BY <1>6, <2>2, <2>3, WhatIsRead
<1>7. ASSUME NEW x \in Screens, Pushes(x) PROVE Told'
  <2>1. x.id = "report" => x.run = NoRun
    BY <1>7 DEF Pushes, InPlace, Push
  <2>2. /\ DOMAIN stack' = 1..(Len(stack) + 1) /\ DOMAIN stack = 1..Len(stack)
        /\ stack'[Len(stack) + 1] = x /\ verdict' = verdict
        /\ \A i \in DOMAIN stack : stack'[i] = stack[i]
    BY <1>0, <1>7 DEF Pushes, runs
  <2>3. OnStack'
    <3>1. \A i \in DOMAIN stack' : i \in DOMAIN stack \/ stack'[i] = x
      BY <1>0, <2>2
    <3> QED BY <1>0, <2>1, <2>2, <3>1 DEF Tells
  <2> QED BY <1>7, <1>a, <1>e, <2>3 DEF Pushes
<1>8. CASE Pops
  <2>1. OnStack'
    <3>1. CASE Len(stack) > 1
      <4>1. /\ DOMAIN stack' = 1..(Len(stack) - 1)
            /\ \A i \in DOMAIN stack' : i \in DOMAIN stack /\ stack'[i] = stack[i]
        BY <1>0, <1>8, <3>1 DEF Pops, Popped
      <4> QED BY <1>0, <1>8, <4>1 DEF Tells, Pops, runs
    <3>2. CASE ~(Len(stack) > 1)
      BY <1>8, <1>b, <3>2 DEF Pops, Popped, runs
    <3> QED BY <3>1, <3>2
  <2> QED BY <1>8, <1>a, <1>e, <2>1 DEF Pops
<1>9. ASSUME NEW r \in Runs, ReadsOn(r) PROVE Told'
  <2>1. Read(r).k # "done" BY DEF Read
  <2> QED BY <1>9, <1>a, <1>b, <1>c, <2>1 DEF ReadsOn, screens, runs
<1>10. ASSUME NEW r \in Runs, NEW e \in ExitCodes, Reports(r, e) PROVE Told'
  <2>1. RestoreComplete(r, e) \in AllMessages /\ RestoreComplete(r, e).k = "done"
    BY DEF AllMessages, Messages, RestoreComplete
  <2>2. Tells(RestoreComplete(r, e)) BY <1>0, <1>10, <2>1 DEF OnWay, Reports
  <2>3. verdict[r] # "none" /\ e = ExitOf(verdict[r])
    BY <2>2 DEF Tells, RestoreComplete
  <2>4. verdict' = verdict BY <1>10 DEF Reports, runs
  <2>5. Tells(Report(r, e, TRUE))'
    BY <2>3, <2>4 DEF Tells, Report
  <2>6. /\ DOMAIN stack' = {1, 2} /\ stack'[1] = stack[1] /\ stack'[2] = Report(r, e, TRUE)
        /\ 1 \in DOMAIN stack
    BY <1>0, <1>10 DEF Reports
  <2>7. OnStack' BY <1>0, <2>4, <2>5, <2>6 DEF Tells
  <2> QED BY <1>10, <1>a, <1>d, <2>7 DEF Reports
<1>11. ASSUME NEW r \in Runs, Run(r) PROVE Told'
  <2>1. pending' = pending /\ stack' = stack
    BY <1>11 DEF Run, RunAdvances, RunInitialSave, RunFinalSave, RunCompletes, RunGivesUp,
       RunProgress, RunCheckpoint, RunStatementFails, RunBails, RunStep, screens
  <2>2. \A q \in Runs : verdict[q] # "none" => verdict'[q] = verdict[q]
    BY <1>11, VerdictsStay
  <2>3. OnStack'
    <3> SUFFICES ASSUME NEW i \in DOMAIN stack, stack[i].id = "report", stack[i].run # NoRun
                 PROVE  Tells(stack[i])'
      BY <2>1 DEF Tells
    <3>1. stack[i].run \in Runs BY <1>0, ReportOf
    <3>2. Tells(stack[i]) BY <1>0
    <3> QED BY <2>1, <2>2, <3>1, <3>2 DEF Tells
  <2>4. OnWay'
    <3> SUFFICES ASSUME NEW m \in AllMessages, Alone(m), m.k = "done" PROVE Tells(m)'
      BY <2>1 DEF OnWay, Alone, Tells
    <3>1. PICK q \in Runs, e \in ExitCodes : m = RestoreComplete(q, e) BY MessageShape
    <3>2. m.run \in Runs BY <3>1 DEF RestoreComplete
    <3>3. Tells(m) BY <1>0 DEF OnWay
    <3> QED BY <2>2, <3>2, <3>3 DEF Tells
  <2> QED BY <1>a, <2>3, <2>4
<1> QED
  BY <1>1, <1>2, <1>3, <1>4, <1>5, <1>6, <1>7, <1>8, <1>9, <1>10, <1>11
  DEF PatientStep, Quits, vars, runs, screens

(* No run is there to be followed at first.                                *)
LEMMA FollowedInit == Init => \A r \in Runs : Followed(r)
<1> SUFFICES ASSUME Init, NEW r \in Runs PROVE Followed(r)
  OBVIOUS
<1>1. phase[r] = "idle" /\ chan[r] = <<>> /\ verdict[r] = "none"
  BY DEF Init, Src!Init
<1> QED BY <1>1 DEF Followed, Writes, Src!Writes

(* And none to report of.                                                  *)
LEMMA ToldInit == Init => Told
<1> SUFFICES ASSUME Init PROVE Told
  OBVIOUS
<1>1. \A i \in DOMAIN stack : stack[i].id # "report"
  BY DEF Init, Home, Plain
<1>2. ASSUME NEW m \in AllMessages, Alone(m) PROVE m.k # "done"
  <2>1. pending \in {EmptyBag, One(Load)}
    <3>1. Active.id \in {"home", "welcome"} BY DEF Init, Home, Plain, Active
    <3>2. pending = InitCmd(Active) BY DEF Init
    <3> QED BY <3>1, <3>2 DEF InitCmd
  <2>2. pending = One(Load) BY <1>2, <2>1, EmptyIsNotOne DEF Alone
  <2>3. m = Load BY <1>2, <2>2, OneInFlight DEF Alone
  <2> QED BY <2>3 DEF Load
<1> QED BY <1>1, <1>2 DEF Told

------------------------------------------------------------------------------
(* The theorems *)

(* What all of them rest on: with a patient operator the program is always *)
(* in order.                                                               *)
LEMMA AlwaysOrderly ==
  ASSUME Hasty = FALSE
  PROVE  Spec => []Orderly
<1>1. Init => Orderly
  BY ShapedInit, PatienceInit, FollowedInit, ToldInit DEF Orderly
<1>2. Orderly /\ [Next]_vars => Orderly'
  <2> SUFFICES ASSUME Orderly, [Next]_vars PROVE Orderly'
    OBVIOUS
  <2>1. Shaped /\ Patience /\ (\A r \in Runs : Followed(r)) /\ Told
    BY DEF Orderly
  <2>2. PatientStep BY <2>1, PatientSteps
  <2>3. Shaped' BY <2>1, <2>2, ShapedStep
  <2>4. Patience' BY <2>1, <2>2, PatienceStep
  <2>5. \A r \in Runs : Followed(r)' BY <2>1, <2>2, FollowedStep
  <2>6. Told' BY <2>1, <2>2, ToldStep
  <2> QED BY <2>3, <2>4, <2>5, <2>6 DEF Orderly
<1> QED BY <1>1, <1>2, PTL DEF Spec

(* Every variable keeps its type, and Home stays at the bottom of the      *)
(* router's stack.                                                         *)
THEOREM TypesHold ==
  ASSUME Hasty = FALSE
  PROVE  Spec => []TypeOK
<1>1. Orderly => TypeOK
  BY ShapedTypes DEF Orderly
<1> QED BY <1>1, AlwaysOrderly, PTL

(* The report says how its run ended, whatever the run and the user did    *)
(* between its last event and the router's answer.                         *)
THEOREM ReportsTellTheTruth ==
  ASSUME Hasty = FALSE
  PROVE  Spec => []ReportsTruthful
<1>1. Orderly => ReportsTruthful
  BY DEF Orderly, Told, Tells, ReportsTruthful
<1> QED BY <1>1, AlwaysOrderly, PTL

(* Who waits for a run waits for no other.                                 *)
LEMMA OneAwaited ==
  ASSUME NEW q, NEW r, Awaited(q), Awaited(r)
  PROVE  q = r
<1>1. PICK m : pending = One(m) /\ m \in Readers(q)
  BY DEF Awaited, Alone, Readers
<1>2. m \in Readers(r) BY <1>1, AwaitedBy
<1> QED BY <1>1, <1>2, ReadersApart

(* Two restores started from the UI never write at the same time, although *)
(* RunRestoreAsync checks nothing.                                         *)
THEOREM RunsTakeTurns ==
  ASSUME Hasty = FALSE
  PROVE  Spec => []OneWriter
<1>1. Orderly => OneWriter
  <2> SUFFICES ASSUME Orderly PROVE OneWriter
    OBVIOUS
  <2>1. ASSUME NEW r \in Runs, Writes(r) PROVE Awaited(r)
    BY <2>1 DEF Orderly, Followed, Writes, Src!Writes
  <2> QED BY <2>1, OneAwaited DEF OneWriter, Src!OneWriter, Writes
<1> QED BY <1>1, AlwaysOrderly, PTL

(* A restore that has not reported is read by exactly one command, message *)
(* or screen, so no event is taken twice and none waits for nobody.        *)
THEOREM ReadByOne ==
  ASSUME Hasty = FALSE
  PROVE  Spec => []OneReader
<1>1. Orderly => OneReader
  <2> SUFFICES ASSUME Orderly, NEW r \in Runs, phase[r] # "idle", verdict[r] = "none"
               PROVE  ReadersOf(r) = 1
    BY DEF OneReader
  <2>1. Awaited(r) BY DEF Orderly, Followed
  <2>2. PICK m : pending = One(m) /\ m \in Readers(r)
    BY <2>1 DEF Awaited, Alone, Readers
  <2>3. /\ Read(r) # ProgressMsg(r) /\ Read(r) # Push(ProgressOf(r))
        /\ ProgressMsg(r) # Push(ProgressOf(r))
    <3>1. Read(r).k = "read" /\ ProgressMsg(r).k = "progress" /\ Push(ProgressOf(r)).k = "push"
      BY DEF Read, ProgressMsg, Push
    <3> QED BY <3>1
  <2>4. InFlight = {m} BY <2>2, OneInFlight DEF Alone
  <2>5. pending[m] = 1 BY <2>2 DEF One, SetToBag
  <2>6. \A n : Copies(n) = IF n = m THEN 1 ELSE 0
    BY <2>4, <2>5 DEF Copies
  <2> QED BY <2>2, <2>3, <2>6 DEF Readers, ReadersOf
<1> QED BY <1>1, AlwaysOrderly, PTL

(* Home cannot delete the row of a run that still writes it: whoever waits *)
(* for the run keeps the operator from asking.                             *)
THEOREM RowsOfRunsStay ==
  ASSUME Hasty = FALSE
  PROVE  Spec => NoDeleteUnderARun
<1>1. Orderly /\ [Next]_vars => [row # NoRow /\ row' = NoRow => \A r \in Runs : ~Writes(r)]_vars
  <2> SUFFICES ASSUME Orderly, [Next]_vars, row # NoRow, row' = NoRow, NEW r \in Runs
               PROVE  ~Writes(r)
    OBVIOUS
  <2>1. Shaped /\ Patience /\ Followed(r) BY DEF Orderly
  <2>2. PatientStep BY <2>1, PatientSteps
  <2>3. ASSUME NEW q \in Runs, Run(q) PROVE FALSE
    <3>1. \/ row' = row
          \/ \E d \in BOOLEAN, c \in {TRUE, row.complete} : Upsert(c, d)
      BY <2>3 DEF Run, RunAdvances, RunInitialSave, RunFinalSave, RunCompletes, RunGivesUp,
         RunProgress, RunCheckpoint, RunStatementFails, RunBails
    <3>2. row'.listed = TRUE BY <3>1 DEF Upsert, RowOf
    <3> QED BY <3>2 DEF NoRow
  <2>4. PICK m \in AllMessages : Handles(m)
    BY <2>2, <2>3 DEF PatientStep, Asks, Turns, Quits, Starts, Reads, Pushes, Pops, ReadsOn,
       Reports, vars
  <2>5. m = DeleteCmd /\ pending = One(m) BY <2>4 DEF Handles, Alone
  <2>6. m \notin Readers(r) BY <2>5, ReadersApart DEF DeleteCmd
  <2>7. ~Awaited(r) BY <2>5, <2>6, AwaitedBy
  <2> QED BY <2>1, <2>7 DEF Followed, Writes, Src!Writes
<1> QED BY <1>1, AlwaysOrderly, PTL DEF Spec, NoDeleteUnderARun
==============================================================================

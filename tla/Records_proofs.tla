--------------------------- MODULE Records_proofs ----------------------------
(***************************************************************************)
(* What a run tells the reader of its channel, and the rows of the         *)
(* checkpoints table over its whole life: more theorems about              *)
(* RestoreRunner.                                                          *)
(***************************************************************************)
EXTENDS RestoreRunner_proofs

(* A run has said what its channel and its reader hold. *)
LEMMA SaysSame ==
  ASSUME NEW r \in Runs, events'[r] = events[r], heard'[r] = heard[r]
  PROVE  /\ SaysSuccess(r)' <=> SaysSuccess(r)
         /\ SaysError(r)' <=> SaysError(r)
BY DEF SaysSuccess, SaysError

(* Sending an event adds what the event says. *)
LEMMA SendSays ==
  ASSUME TypeOK, NEW r \in Runs, NEW ev \in Events, Send(r, ev)
  PROVE  /\ SaysSuccess(r)' <=> SaysSuccess(r) \/ (ev.done /\ ev.ok)
         /\ SaysError(r)' <=> SaysError(r) \/ (ev.done /\ ~ev.ok)
<1>1. /\ events[r] \in Seq(Events) /\ events'[r] = Append(events[r], ev)
      /\ heard'[r] = heard[r]
  BY DEF TypeOK, Send
<1>2. /\ DOMAIN events'[r] = DOMAIN events[r] \cup {Len(events[r]) + 1}
      /\ events'[r][Len(events[r]) + 1] = ev
      /\ \A i \in DOMAIN events[r] : events'[r][i] = events[r][i]
  BY <1>1
<1> QED BY <1>1, <1>2 DEF SaysSuccess, SaysError

(* The first event read is in what is told after it or before it. *)
LEMMA ReceiveSays ==
  ASSUME TypeOK, NEW r \in Runs, Verdict(r), Receive(r)
  PROVE  /\ SaysSuccess(r)' <=> SaysSuccess(r)
         /\ SaysError(r)' <=> SaysError(r)
<1> DEFINE q == events[r]
           ok == Head(q).done /\ Head(q).ok
           bad == Head(q).done /\ ~Head(q).ok
           restOk == \E i \in DOMAIN Tail(q) : Tail(q)[i].done /\ Tail(q)[i].ok
           restBad == \E i \in DOMAIN Tail(q) : Tail(q)[i].done /\ ~Tail(q)[i].ok
<1>1. /\ q \in Seq(Events) /\ q # <<>> /\ events'[r] = Tail(q)
      /\ heard[r] \in {"nothing", "success", "error"}
      /\ heard'[r] = IF heard[r] # "nothing" \/ ~Head(q).done THEN heard[r]
                     ELSE IF Head(q).ok THEN "success" ELSE "error"
  BY DEF TypeOK, Receive
<1>2. /\ \A i \in DOMAIN Tail(q) : i + 1 \in DOMAIN q /\ Tail(q)[i] = q[i + 1]
      /\ \A i \in DOMAIN q : i = 1 \/ (i - 1 \in DOMAIN Tail(q) /\ q[i] = Tail(q)[i - 1])
      /\ 1 \in DOMAIN q /\ q[1] = Head(q)
  BY <1>1
<1>3. /\ (\E i \in DOMAIN q : q[i].done /\ q[i].ok) <=> ok \/ restOk
      /\ (\E i \in DOMAIN q : q[i].done /\ ~q[i].ok) <=> bad \/ restBad
  BY <1>2
<1>4. /\ SaysSuccess(r) <=> heard[r] = "success" \/ ok \/ restOk
      /\ SaysError(r) <=> heard[r] = "error" \/ bad \/ restBad
      /\ SaysSuccess(r)' <=> heard'[r] = "success" \/ restOk
      /\ SaysError(r)' <=> heard'[r] = "error" \/ restBad
  BY <1>1, <1>3 DEF SaysSuccess, SaysError
<1>5. ~(SaysSuccess(r) /\ SaysError(r)) BY DEF Verdict
<1> HIDE DEF restOk, restBad, q
<1> QED BY <1>1, <1>4, <1>5

(* A step of one run leaves the verdicts of the others alone. *)
LEMMA OthersVerdicts ==
  ASSUME Verdicts, NEW r \in Runs, Verdict(r)',
         \A q \in Runs \ {r} : /\ pc'[q] = pc[q]
                               /\ events'[q] = events[q] /\ heard'[q] = heard[q]
  PROVE  Verdicts'
<1> SUFFICES ASSUME NEW q \in Runs, q # r PROVE Verdict(q)'
  BY DEF Verdicts
<1>1. /\ SaysSuccess(q)' <=> SaysSuccess(q)
      /\ SaysError(q)' <=> SaysError(q)
  BY SaysSame
<1> QED BY <1>1 DEF Verdicts, Verdict

(* A step in which a run tells nothing and does not end. *)
LEMMA SilentStep ==
  ASSUME TypeOK, Verdicts, NEW r \in Runs, pc[r] \notin {"fail", "ended"},
         NEW to, to # "ended", Goto(r, to), UNCHANGED channel
  PROVE  Verdicts'
<1>1. /\ \A q \in Runs \ {r} : pc'[q] = pc[q]
      /\ \A q \in Runs : events'[q] = events[q] /\ heard'[q] = heard[q]
      /\ pc'[r] = to
  BY DEF TypeOK, Goto, channel
<1>2. /\ SaysSuccess(r)' <=> SaysSuccess(r)
      /\ SaysError(r)' <=> SaysError(r)
  BY <1>1, SaysSame
<1>3. Verdict(r)' BY <1>1, <1>2 DEF Verdicts, Verdict
<1> QED BY <1>1, <1>3, OthersVerdicts

(* A step in which it tells something. *)
LEMMA TellingStep ==
  ASSUME TypeOK, Verdicts, NEW r \in Runs, NEW to, Goto(r, to),
         NEW ev \in Events, Send(r, ev),
         \/ ~ev.done /\ pc[r] \notin {"fail", "ended"} /\ to \notin {"fail", "ended"}
         \/ ev.done /\ ~ev.ok /\ pc[r] # "ended" /\ to \in {"fail", "ended"}
         \/ ev.done /\ ev.ok /\ pc[r] \notin {"fail", "ended"} /\ to = "ended"
  PROVE  Verdicts'
<1>1. /\ \A q \in Runs \ {r} : /\ pc'[q] = pc[q]
                               /\ events'[q] = events[q] /\ heard'[q] = heard[q]
      /\ pc'[r] = to
  BY DEF TypeOK, Goto, Send
<1>2. /\ SaysSuccess(r)' <=> SaysSuccess(r) \/ (ev.done /\ ev.ok)
      /\ SaysError(r)' <=> SaysError(r) \/ (ev.done /\ ~ev.ok)
  BY SendSays
<1>3. Verdict(r)' BY <1>1, <1>2 DEF Verdicts, Verdict
<1> QED BY <1>1, <1>3, OthersVerdicts

(* A run that has told nothing yet, or whose channel was made anew. *)
LEMMA EmptyChannel ==
  ASSUME NEW r \in Runs, events'[r] = <<>>, heard'[r] = "nothing"
  PROVE  ~SaysSuccess(r)' /\ ~SaysError(r)'
BY DEF SaysSuccess, SaysError

(* Nothing has been told at first. *)
LEMMA VerdictsInit == Init => Verdicts
BY DEF Init, Verdicts, Verdict, SaysSuccess, SaysError

(* The verdicts stay as they should. *)
LEMMA VerdictsStep == TypeOK /\ Verdicts /\ [Next]_vars => Verdicts'
<1> SUFFICES ASSUME TypeOK, Verdicts, [Next]_vars PROVE Verdicts'
  OBVIOUS
<1>e. \A off \in Nat, done \in BOOLEAN, ok \in BOOLEAN :
        /\ Event(done, ok, off) \in Events
        /\ Event(done, ok, off).done = done /\ Event(done, ok, off).ok = ok
  BY DEF Event, Events
<1>1. ASSUME NEW r \in Runs, Start(r) PROVE Verdicts'
  <2>1. /\ pc'[r] = "open" /\ events'[r] = <<>> /\ heard'[r] = "nothing"
        /\ \A q \in Runs \ {r} : /\ pc'[q] = pc[q]
                                 /\ events'[q] = events[q] /\ heard'[q] = heard[q]
    BY <1>1 DEF Start, Goto, TypeOK
  <2>2. Verdict(r)' BY <2>1, EmptyChannel DEF Verdict
  <2> QED BY <2>1, <2>2, OthersVerdicts
<1>2. ASSUME NEW r \in Runs, Open(r) PROVE Verdicts'
  BY <1>2, SilentStep DEF Open, Transition
<1>3. ASSUME NEW r \in Runs, Connect(r) PROVE Verdicts'
  BY <1>3, SilentStep DEF Connect, Transition
<1>4. ASSUME NEW r \in Runs, Resume(r) PROVE Verdicts'
  BY <1>4, SilentStep DEF Resume
<1>5. ASSUME NEW r \in Runs, TellResume(r) PROVE Verdicts'
  <2>1. /\ Goto(r, "seek") /\ pc[r] = "tellResume" /\ byteOff[r] \in Nat
        /\ Send(r, Event(FALSE, TRUE, byteOff[r]))
    BY <1>5 DEF TellResume, Transition, TypeOK
  <2> DEFINE ev == Event(FALSE, TRUE, byteOff[r])
  <2>2. ev \in Events /\ ~ev.done /\ Send(r, ev) BY <2>1, <1>e
  <2> HIDE DEF ev
  <2> QED BY <2>1, <2>2, TellingStep
<1>6. ASSUME NEW r \in Runs, Seek(r) PROVE Verdicts'
  BY <1>6, SilentStep DEF Seek, Transition
<1>7. ASSUME NEW r \in Runs, SaveInitial(r) PROVE Verdicts'
  BY <1>7, SilentStep DEF SaveInitial, Transition
<1>8. ASSUME NEW r \in Runs, Deliver(r) PROVE Verdicts'
  BY <1>8, SilentStep DEF Deliver, Split
<1>9. ASSUME NEW r \in Runs, DryRun(r) PROVE Verdicts'
  <2>1. PICK c : Split(r, c) /\ Account(r, c) /\ UNCHANGED channel BY <1>9 DEF DryRun
  <2>2. pc[r] = "split" /\ (Goto(r, "checkpoint") \/ Goto(r, "split"))
    BY <2>1 DEF Split, Account
  <2> QED BY <2>1, <2>2, SilentStep
<1>10. ASSUME NEW r \in Runs, RefuseCancelled(r) PROVE Verdicts'
  BY <1>10, SilentStep DEF RefuseCancelled, Split
<1>11. ASSUME NEW r \in Runs, ExecOk(r) PROVE Verdicts'
  <2>1. pc[r] = "exec" /\ (Goto(r, "checkpoint") \/ Goto(r, "split"))
    BY <1>11 DEF ExecOk, Account
  <2>2. UNCHANGED channel BY <1>11 DEF ExecOk
  <2> QED BY <2>1, <2>2, SilentStep
<1>12. ASSUME NEW r \in Runs, ExecRefused(r) PROVE Verdicts'
  BY <1>12, SilentStep DEF ExecRefused, Transition
<1>13. ASSUME NEW r \in Runs, SaveBatch(r) PROVE Verdicts'
  BY <1>13, SilentStep DEF SaveBatch, Transition
<1>14. ASSUME NEW r \in Runs, TellBatch(r) PROVE Verdicts'
  <2>1. /\ Goto(r, "split") /\ pc[r] = "tellBatch" /\ byteOff[r] \in Nat
        /\ Send(r, Event(FALSE, TRUE, byteOff[r]))
    BY <1>14 DEF TellBatch, Transition, TypeOK
  <2> DEFINE ev == Event(FALSE, TRUE, byteOff[r])
  <2>2. ev \in Events /\ ~ev.done /\ Send(r, ev) BY <2>1, <1>e
  <2> HIDE DEF ev
  <2> QED BY <2>1, <2>2, TellingStep
<1>15. ASSUME NEW r \in Runs, TellError(r) PROVE Verdicts'
  <2>1. /\ Goto(r, "fail") /\ pc[r] = "tellError"
        /\ Send(r, Event(TRUE, FALSE, 0))
    BY <1>15 DEF TellError, Transition
  <2> QED BY <2>1, <1>e, TellingStep
<1>16. ASSUME NEW r \in Runs, EndOfDump(r) PROVE Verdicts'
  BY <1>16, SilentStep DEF EndOfDump, Transition
<1>17. ASSUME NEW r \in Runs, SaveFinal(r) PROVE Verdicts'
  BY <1>17, SilentStep DEF SaveFinal, Transition
<1>18. ASSUME NEW r \in Runs, Verify(r) PROVE Verdicts'
  BY <1>18, SilentStep DEF Verify, Transition
<1>19. ASSUME NEW r \in Runs, TellDone(r) PROVE Verdicts'
  <2>1. /\ Goto(r, "ended") /\ pc[r] = "tellDone" /\ byteOff[r] \in Nat
        /\ Send(r, Event(TRUE, TRUE, byteOff[r]))
    BY <1>19 DEF TellDone, Finish, TypeOK
  <2> QED BY <2>1, <1>e, TellingStep
<1>20. ASSUME NEW r \in Runs, TellFail(r) PROVE Verdicts'
  <2>1. /\ Goto(r, "ended") /\ pc[r] = "fail"
        /\ Send(r, Event(TRUE, FALSE, 0))
    BY <1>20 DEF TellFail, Finish
  <2> QED BY <2>1, <1>e, TellingStep
<1>21. ASSUME NEW r \in Runs, CallFails(r) PROVE Verdicts'
  BY <1>21, SilentStep DEF CallFails, FailingCalls
<1>22. ASSUME NEW r \in Runs, SaveBatchFails(r) PROVE Verdicts'
  BY <1>22, SilentStep DEF SaveBatchFails, Transition
<1>23. ASSUME NEW r \in Runs, ExecFails(r) PROVE Verdicts'
  BY <1>23, SilentStep DEF ExecFails, Transition
<1>24. ASSUME NEW r \in Runs, ConnectionLost(r) PROVE Verdicts'
  BY <1>24, SilentStep DEF ConnectionLost, Transition
<1>25. ASSUME NEW r \in Runs, Receive(r) PROVE Verdicts'
  <2>1. \A q \in Runs \ {r} : events'[q] = events[q] /\ heard'[q] = heard[q]
    BY <1>25 DEF Receive, TypeOK
  <2>2. pc' = pc BY <1>25 DEF Receive
  <2>3. Verdict(r) BY DEF Verdicts
  <2>4. Verdict(r)' BY <1>25, <2>2, <2>3, ReceiveSays DEF Verdict
  <2> QED BY <2>1, <2>2, <2>4, OthersVerdicts
<1>26. ASSUME NEW P \in Processes, Crash(P) PROVE Verdicts'
  <2> SUFFICES ASSUME NEW q \in Runs PROVE Verdict(q)'
    BY DEF Verdicts
  <2>1. CASE q \in P
    <3>1. pc'[q] = "idle" /\ events'[q] = <<>> /\ heard'[q] = "nothing"
      BY <1>26, <2>1 DEF Crash
    <3> QED BY <3>1, EmptyChannel DEF Verdict
  <2>2. CASE q \notin P
    <3>1. pc'[q] = pc[q] /\ events'[q] = events[q] /\ heard'[q] = heard[q]
      BY <1>26, <2>2 DEF Crash
    <3> QED BY <3>1, SaysSame DEF Verdicts, Verdict
  <2> QED BY <2>1, <2>2
<1>27. CASE UNCHANGED <<pc, channel>>
  BY <1>27, SaysSame DEF Verdicts, Verdict, channel
<1>28. ASSUME NEW r \in Runs, Cancel(r) PROVE Verdicts'
  BY <1>28, <1>27 DEF Cancel
<1>29. ASSUME NEW id \in Deletable, DeleteRow(id) PROVE Verdicts'
  BY <1>29, <1>27 DEF DeleteRow
<1>30. CASE UNCHANGED vars
  BY <1>30, <1>27 DEF vars
<1> QED
  BY <1>1, <1>2, <1>3, <1>4, <1>5, <1>6, <1>7, <1>8, <1>9, <1>10, <1>11, <1>12, <1>13, <1>14, <1>15, <1>16, <1>17, <1>18, <1>19, <1>20, <1>21, <1>22, <1>23, <1>24, <1>25, <1>26, <1>28, <1>29, <1>30
  DEF Next, Step, Failure

(* The verdicts are as they should be in every behaviour. *)
LEMMA AlwaysVerdicts == Spec => []Verdicts
<1>1. Init => Verdicts BY VerdictsInit
<1>2. TypeOK /\ Verdicts /\ [Next]_vars => Verdicts' BY VerdictsStep
<1> QED BY <1>1, <1>2, Typed, PTL DEF Spec

(* The Done events of a run agree, however often an error is reported and  *)
(* whenever the reader reads.                                              *)
THEOREM VerdictsAlwaysAgree == Spec => []VerdictsAgree
<1>1. Verdicts => VerdictsAgree BY DEF Verdicts, Verdict, VerdictsAgree
<1> QED BY <1>1, AlwaysVerdicts, PTL

(* No run closes its channel before it has sent a verdict. *)
THEOREM NoRunEndsSilently == Spec => []NoSilentClose
<1>1. Verdicts => NoSilentClose BY DEF Verdicts, Verdict, NoSilentClose
<1> QED BY <1>1, AlwaysVerdicts, PTL
------------------------------------------------------------------------------
(* What success is worth *)

(* A success is just told, or that of a run that ended with it.            *)
LEMMA SuccessComes ==
  ASSUME TypeOK, Verdicts, [Next]_vars, NEW q \in Runs, SaysSuccess(q)'
  PROVE  \/ TellDone(q)
         \/ SaysSuccess(q) /\ pc[q] = "ended" /\ cfg'[q] = cfg[q]
<1>1. SaysSuccess(q) => pc[q] = "ended"
  BY DEF Verdicts, Verdict
<1>2. events'[q] = events[q] /\ heard'[q] = heard[q] => SaysSuccess(q)
  BY SaysSame
<1>3. ASSUME NEW r \in Runs, r # q, Start(r) \/ Acts(r)
      PROVE  SaysSuccess(q) /\ cfg'[q] = cfg[q]
  <2>1. Same(q) BY <1>3, Bystanders
  <2> QED BY <1>2, <2>1 DEF Same
<1>4. ~Start(q) BY EmptyChannel DEF Start, TypeOK
<1>5. ASSUME Acts(q) PROVE TellDone(q) \/ SaysSuccess(q)
  <2>1. CASE UNCHANGED channel
    BY <1>2, <2>1 DEF channel
  <2>2. ASSUME NEW ev, Send(q, ev), ev \in Events, ~(ev.done /\ ev.ok) PROVE SaysSuccess(q)
    BY <2>2, SendSays
  <2>3. \A off \in Nat :
          /\ Event(FALSE, TRUE, off) \in Events /\ ~Event(FALSE, TRUE, off).done
          /\ Event(TRUE, FALSE, off) \in Events /\ ~Event(TRUE, FALSE, off).ok
    BY DEF Event, Events
  <2>4. CASE TellResume(q) \/ TellBatch(q)
    <3>1. Send(q, Event(FALSE, TRUE, byteOff[q])) /\ byteOff[q] \in Nat
      BY <2>4 DEF TellResume, TellBatch, TypeOK
    <3> QED BY <2>2, <2>3, <3>1
  <2>5. CASE TellError(q) \/ TellFail(q)
    <3>1. Send(q, Event(TRUE, FALSE, 0)) /\ 0 \in Nat
      BY <2>5 DEF TellError, TellFail
    <3> QED BY <2>2, <2>3, <3>1
  <2>6. CASE Receive(q)
    BY <2>6, ReceiveSays DEF Verdicts
  <2>7. \/ UNCHANGED channel \/ TellResume(q) \/ TellBatch(q) \/ TellError(q)
        \/ TellFail(q) \/ TellDone(q) \/ Receive(q)
    BY <1>5 DEF Acts, Step, Failure, Open, Connect, Resume, Seek, SaveInitial, Deliver,
       DryRun, RefuseCancelled, ExecOk, ExecRefused, SaveBatch, EndOfDump, SaveFinal, Verify,
       CallFails, SaveBatchFails, ExecFails, ConnectionLost, Cancel
  <2> QED BY <2>1, <2>4, <2>5, <2>6, <2>7
<1>6. Acts(q) => cfg' = cfg
  BY ActsInPlace
<1>7. ASSUME NEW P \in Processes, Crash(P) PROVE SaysSuccess(q) /\ cfg'[q] = cfg[q]
  <2>1. q \notin P BY <1>7, EmptyChannel DEF Crash
  <2> QED BY <1>2, <1>7, <2>1 DEF Crash
<1>8. ASSUME NEW id \in Deletable, DeleteRow(id) PROVE SaysSuccess(q) /\ cfg'[q] = cfg[q]
  BY <1>2, <1>8 DEF DeleteRow, channel
<1>9. UNCHANGED vars => SaysSuccess(q) /\ cfg'[q] = cfg[q]
  BY <1>2 DEF vars, channel
<1> QED BY <1>1, <1>3, <1>4, <1>5, <1>6, <1>7, <1>8, <1>9 DEF Next, Acts

(* Only three steps change what a target holds.  They send nothing, write  *)
(* no row, and belong to a run that has not ended.                         *)
LEMMA WhoApplies ==
  ASSUME TypeOK, [Next]_vars
  PROVE  \/ applied' = applied
         \/ \E r \in Runs : /\ pc[r] \in {"split", "exec"}
                            /\ UNCHANGED <<store, cfg, channel>>
<1>1. ASSUME NEW r \in Runs, Step(r)
      PROVE  \/ applied' = applied
             \/ pc[r] \in {"split", "exec"} /\ UNCHANGED <<store, cfg, channel>>
  BY <1>1 DEF Step, Save, durable, Open, Connect, Resume, TellResume, Seek, SaveInitial,
       Deliver, DryRun, RefuseCancelled, ExecOk, ExecRefused, SaveBatch, TellBatch, TellError,
       EndOfDump, SaveFinal, Verify, TellDone, TellFail, Transition
<1>2. ASSUME NEW r \in Runs, Failure(r)
      PROVE  \/ applied' = applied
             \/ pc[r] \in {"split", "exec"} /\ UNCHANGED <<store, cfg, channel>>
  BY <1>2 DEF Failure, CallFails, SaveBatchFails, ExecFails, ConnectionLost, durable, Transition
<1>3. ASSUME NEW r \in Runs, Start(r) \/ Cancel(r) \/ Receive(r)
      PROVE  applied' = applied
  BY <1>3 DEF Start, Cancel, Receive, durable
<1>4. ASSUME NEW P \in Processes, Crash(P) PROVE applied' = applied
  BY <1>4 DEF Crash, durable
<1>5. ASSUME NEW id \in Deletable, DeleteRow(id) PROVE applied' = applied
  BY <1>5 DEF DeleteRow
<1>6. UNCHANGED vars => applied' = applied
  BY DEF vars, durable
<1> QED BY <1>1, <1>2, <1>3, <1>4, <1>5, <1>6 DEF Next

(* A row that nobody may delete, once it says the whole dump, says so for  *)
(* ever: whoever restores the dump again resumes at its end.               *)
LEMMA WholeRowStays ==
  ASSUME TypeOK, Bounds, NEW d \in Dumps, Ident[d] \notin Deletable,
         AheadOn(Ident[d]), [Next]_vars, store[Ident[d]].off = Size[d]
  PROVE  store'[Ident[d]].off = Size[d] /\ store'[Ident[d]] # NoCp
<1> DEFINE id == Ident[d]
<1>1. id \in Idents /\ Size[d] \in Nat /\ store[id] # NoCp
  BY DumpsAssumption DEF DumpsAssumption, NoCp
<1>2. store'[id] # NoCp
  <2>1. ASSUME NEW r \in Runs, SaveInitial(r) \/ SaveBatch(r) \/ SaveFinal(r)
        PROVE  store'[id] # NoCp
    <3>1. PICK m, dsn : Save(r, byteOff[r], m, dsn) /\ byteOff[r] \in Nat
      BY <2>1 DEF SaveInitial, SaveBatch, SaveFinal, TypeOK
    <3>2. /\ store'[Ident[Dump(r)]] # NoCp
          /\ \A i \in Idents : i # Ident[Dump(r)] => store'[i] = store[i]
      BY <3>1, SaveWrites
    <3> HIDE DEF id
    <3> QED BY <1>1, <3>2
  <2>2. ASSUME NEW del \in Deletable, DeleteRow(del) PROVE store'[id] # NoCp
    BY <1>1, <2>2 DEF DeleteRow, Delete, TypeOK
  <2> QED BY <1>1, <2>1, <2>2, WhoWrites
<1>3. store[id].off <= store'[id].off
  BY <1>1, <1>2, OffsetStep
<1>4. TypeOK' /\ Bounds'
  BY TypeStep, BoundsStep
<1>5. store'[id] \in Rows /\ store'[id].off <= Size[d]
  BY <1>1, <1>2, <1>4 DEF TypeOK, Bounds, RowBounds
<1> QED BY <1>1, <1>2, <1>3, <1>5 DEF Rows

(* A success that was true stays true: the rest of the code cannot take    *)
(* back what the row and the target agree on.                              *)
LEMMA VouchedStep ==
  ASSUME TypeOK, Bounds, NEW d \in Dumps, NEW t \in Targets, RowStays(d),
         SoleRuns(d, t), AheadOn(Ident[d]), CoveredOn(d, t), CoveredOn(d, t)',
         Verdicts, VouchedOn(d, t), [Next]_vars
  PROVE  VouchedOn(d, t)'
<1> DEFINE Whole == /\ applied[t][d] = Size[d]
                    /\ Ident[d] \notin Deletable => store[Ident[d]].off = Size[d]
<1> SUFFICES ASSUME NEW q \in Runs, SaysSuccess(q)', Dump(q)' = d
             PROVE  Dsn(q)' = t /\ Whole'
  BY DEF VouchedOn
<1>1. CASE TellDone(q)
  <2>1. pc[q] = "tellDone" /\ cfg' = cfg /\ UNCHANGED durable
    BY <1>1 DEF TellDone
  <2>2. Live(q) /\ Dump(q) = d /\ Dsn(q)' = Dsn(q)
    BY <2>1 DEF Live, Idle, Dump, Dsn
  <2>3. Dsn(q) = t /\ Ordered(q) /\ Ahead(q)
    BY <2>2 DEF SoleRuns, SentTo, CoveredOn, AheadOn
  <2>4. Held(q) = End(q) /\ (Ident[d] \notin Deletable => Row(q).off = End(q))
    BY <2>1, <2>2, <2>3 DEF Ordered, Ahead, Finishing
  <2>5. Whole
    BY <2>2, <2>3, <2>4 DEF Held, End, Row, Get
  <2> QED BY <2>1, <2>2, <2>3, <2>5 DEF durable
<1>2. CASE SaysSuccess(q) /\ pc[q] = "ended" /\ cfg'[q] = cfg[q]
  <2>1. Dump(q) = d /\ Dsn(q)' = Dsn(q)
    BY <1>2 DEF Dump, Dsn
  <2>2. Dsn(q) = t /\ Whole
    BY <1>2, <2>1 DEF VouchedOn
  <2>3. CASE Ident[d] \notin Deletable
    <3>1. store'[Ident[d]].off = Size[d] /\ store'[Ident[d]] # NoCp
      BY <2>2, <2>3, WholeRowStays
    <3>2. Size[d] <= applied'[t][d] /\ applied'[t][d] <= Size[d]
      BY <3>1 DEF CoveredOn
    <3>3. Size[d] \in Nat /\ applied'[t][d] \in Nat
      <4>1. TypeOK' BY TypeStep
      <4> QED BY <4>1, DumpsAssumption DEF TypeOK, DumpsAssumption
    <3> QED BY <2>1, <2>2, <3>1, <3>2, <3>3
  <2>4. CASE Ident[d] \in Deletable
    <3>1. \A r \in Runs : pc[r] = "ended"
      BY <1>2, <2>4 DEF RowStays
    <3>2. applied' = applied
      BY <3>1, WhoApplies
    <3> QED BY <2>1, <2>2, <2>4, <3>2
  <2> QED BY <2>3, <2>4
<1> QED BY <1>1, <1>2, SuccessComes

(* So success is worth something for ever, of a dump that one run at a     *)
(* time restores to its target and that goes nowhere else.                 *)
LEMMA AlwaysVouchedOn ==
  ASSUME NEW d \in Dumps, NEW t \in Targets, PlainDump(d), RowStays(d)
  PROVE  Spec /\ []SoleRuns(d, t)
           => [](/\ TypeOK /\ Bounds /\ AheadOn(Ident[d]) /\ CoveredOn(d, t)
                 /\ VouchedOn(d, t))
<1> DEFINE All == TypeOK /\ Bounds /\ AheadOn(Ident[d]) /\ CoveredOn(d, t)
<1>1. Init => VouchedOn(d, t)
  BY DEF Init, VouchedOn, SaysSuccess
<1>2. /\ All /\ All' /\ Verdicts /\ SoleRuns(d, t) /\ VouchedOn(d, t) /\ [Next]_vars
      => VouchedOn(d, t)'
  BY VouchedStep
<1>3. Spec /\ []SoleRuns(d, t) => []All
  BY AlwaysCoveredOn
<1>4. Spec => []Verdicts BY AlwaysVerdicts
<1> HIDE DEF All
<1>5. Spec /\ []SoleRuns(d, t) => [](All /\ VouchedOn(d, t))
  BY <1>1, <1>2, <1>3, <1>4, PTL DEF Spec
<1> QED BY <1>5, PTL DEF All

(* Whatever the other dumps do, and to whatever servers they go: a success *)
(* told of a dump whose runs never overlap and all go to one target means  *)
(* that the target holds all of it.                                        *)
THEOREM SuccessIsWorthIt ==
  ASSUME NEW d \in Dumps, NEW t \in Targets, PlainDump(d), RowStays(d)
  PROVE  Spec /\ []SoleRuns(d, t)
           => [](\A r \in Runs : SaysSuccess(r) /\ Dump(r) = d
                    => Dsn(r) = t /\ applied[t][d] = Size[d])
<1>1. VouchedOn(d, t) => \A r \in Runs : SaysSuccess(r) /\ Dump(r) = d
                           => Dsn(r) = t /\ applied[t][d] = Size[d]
  BY DEF VouchedOn
<1> QED BY <1>1, AlwaysVouchedOn, PTL

(* Everything that the runner's promises rest on holds for any number of   *)
(* runs, of any dumps to one server, two of the same dump never at once.   *)
THEOREM RunsStayOrdered ==
  ASSUME OneServer, \A d \in Dumps : RowStays(d)
  PROVE  Spec /\ []RunsApart => []InOrder
<1>1. Init => Vouched
  BY DEF Init, Vouched, VouchedOn, SaysSuccess
<1>2. /\ TypeOK /\ Bounds /\ AllAhead /\ Covered /\ Covered' /\ Verdicts /\ RunsApart
      /\ Vouched /\ [Next]_vars
      => Vouched'
  <2> SUFFICES ASSUME TypeOK, Bounds, AllAhead, Covered, Covered', Verdicts, RunsApart,
                      Vouched, [Next]_vars
               PROVE  Vouched'
    OBVIOUS
  <2>1. ASSUME NEW d \in Dumps, NEW t \in Targets PROVE VouchedOn(d, t)'
    <3>1. SoleRuns(d, t) BY ApartAreSole
    <3>2. AheadOn(Ident[d]) BY DumpsAssumption DEF AllAhead, DumpsAssumption
    <3>3. CoveredOn(d, t) /\ CoveredOn(d, t)' /\ VouchedOn(d, t) BY DEF Covered, Vouched
    <3> QED BY <3>1, <3>2, <3>3, VouchedStep
  <2> QED BY <2>1 DEF Vouched
<1>3. Spec /\ []RunsApart => []Vouched
  BY <1>1, <1>2, AlwaysCovered, AlwaysVerdicts, PTL DEF Spec
<1>4. AllAhead /\ Covered /\ Vouched => InOrder BY DEF InOrder
<1> QED BY <1>3, <1>4, AlwaysCovered, PTL

(* A run that reports success has left its whole dump on the target, and   *)
(* nothing that other runs, crashes or failing calls do afterwards takes   *)
(* that back while its owner still holds the report.                       *)
THEOREM SuccessIsRestored ==
  ASSUME OneServer, \A d \in Dumps : RowStays(d)
  PROVE  Spec /\ []RunsApart => []SuccessMeansRestored
<1>1. TypeOK /\ InOrder => SuccessMeansRestored
  <2> SUFFICES ASSUME TypeOK, InOrder, NEW r \in Runs, SaysSuccess(r), Dsn(r) # NoDsn
               PROVE  applied[Dsn(r)][Dump(r)] = End(r)
    BY DEF SuccessMeansRestored
  <2>1. Dump(r) \in Dumps /\ Dsn(r) \in Targets
    BY DEF TypeOK, Configs, Dump, Dsn, Targets
  <2> QED BY <2>1 DEF InOrder, Vouched, VouchedOn, End
<1> QED BY <1>1, RunsStayOrdered, Typed, PTL

------------------------------------------------------------------------------
(* The rows of the checkpoints table *)

(* A run is past its initial checkpoint only after writing one.            *)
LEMMA RecordingEntered ==
  ASSUME TypeOK, [Next]_vars, NEW q \in Runs, pc'[q] \in Recording
  PROVE  /\ cfg'[q] = cfg[q]
         /\ pc[q] \in Recording \/ SaveInitial(q)
<1>1. ASSUME NEW r \in Runs, Start(r) PROVE cfg'[q] = cfg[q] /\ pc'[q] = pc[q]
  BY <1>1 DEF Start, Goto, TypeOK, Recording
<1>2. ASSUME NEW r \in Runs, Step(r) \/ Failure(r) \/ Cancel(r) \/ Receive(r)
      PROVE  cfg' = cfg /\ (q # r => pc'[q] = pc[q])
  <2>1. CASE Step(r)
    BY <2>1 DEF TypeOK, Goto, Transition, Step, Open, Connect, Resume, TellResume, Seek, SaveInitial,
       Deliver, DryRun, RefuseCancelled, ExecOk, ExecRefused, SaveBatch, TellBatch,
       TellError, EndOfDump, SaveFinal, Verify, TellDone, TellFail, Finish, Account
  <2>2. CASE Failure(r) \/ Cancel(r) \/ Receive(r)
    BY <2>2 DEF TypeOK, Goto, Transition, Failure, CallFails, SaveBatchFails,
       ExecFails, ConnectionLost, Cancel, Receive
  <2> QED BY <1>2, <2>1, <2>2
<1>3. ASSUME Step(q), pc[q] \notin Recording PROVE SaveInitial(q)
  BY <1>3 DEF TypeOK, Recording, Goto, Transition, Step, Split, Open, Connect, Resume,
     TellResume, Seek, Deliver, DryRun, RefuseCancelled, ExecOk, ExecRefused, SaveBatch,
     TellBatch, TellError, EndOfDump, SaveFinal, Verify, TellDone, TellFail, Finish
<1>4. ASSUME Failure(q) \/ Cancel(q) \/ Receive(q) PROVE pc[q] \in Recording
  BY <1>4 DEF TypeOK, Recording, Goto, Transition, Failure, CallFails, SaveBatchFails,
     ExecFails, ConnectionLost, Cancel, Receive
<1>5. ASSUME NEW P \in Processes, Crash(P) PROVE cfg' = cfg /\ pc'[q] = pc[q]
  BY <1>5 DEF Crash, Recording
<1>6. ASSUME NEW id \in Deletable, DeleteRow(id) PROVE cfg' = cfg /\ pc' = pc
  BY <1>6 DEF DeleteRow
<1>7. UNCHANGED vars => cfg' = cfg /\ pc' = pc
  BY DEF vars
<1> QED BY <1>1, <1>2, <1>3, <1>4, <1>5, <1>6, <1>7 DEF Next

(* A row, once there, stays and keeps its DSN, and a run that records its  *)
(* progress has one.                                                       *)
LEMMA RecordedStep ==
  ASSUME DsnsAreKept, TypeOK, Recorded, [Next]_vars
  PROVE  Recorded'
<1>1. /\ \A id \in Idents : store[id] # NoCp => store'[id] # NoCp
      /\ RowKeepsDsn'
      /\ \A r \in Runs : SaveInitial(r) => store'[Ident[Dump(r)]] # NoCp
  <2>1. CASE store' = store
    <3>1. ASSUME NEW r \in Runs, SaveInitial(r) PROVE store'[Ident[Dump(r)]] # NoCp
      BY <3>1, SaveWrites DEF SaveInitial, TypeOK
    <3> QED BY <2>1, <3>1 DEF Recorded, RowKeepsDsn
  <2>2. ASSUME NEW r \in Runs, SaveInitial(r) \/ SaveBatch(r) \/ SaveFinal(r)
        PROVE  /\ \A id \in Idents : store[id] # NoCp => store'[id] # NoCp
               /\ RowKeepsDsn'
    <3> DEFINE own == Ident[Dump(r)]
    <3>1. byteOff[r] \in Nat /\ Dsn(r) # NoDsn /\ Row(r) = store[own]
      BY DEF TypeOK, Dsn, Configs, DsnsAreKept, Row, Get
    <3>2. PICK m, dsn : /\ Save(r, byteOff[r], m, dsn)
                        /\ dsn = Dsn(r) \/ store[own] # NoCp
      BY <2>2, <3>1 DEF SaveInitial, SaveBatch, SaveFinal, Transition, Recorded, Recording
    <3>3. /\ own \in Idents /\ store'[own] # NoCp
          /\ store'[own].dsn = IF store[own] = NoCp THEN dsn ELSE store[own].dsn
          /\ \A id \in Idents : id # own => store'[id] = store[id]
      BY <3>1, <3>2, SaveWrites
    <3>4. store'[own].dsn # NoDsn
      BY <3>1, <3>2, <3>3 DEF Recorded, RowKeepsDsn
    <3> HIDE DEF own
    <3> QED BY <3>3, <3>4 DEF Recorded, RowKeepsDsn
  <2>3. ASSUME NEW r \in Runs, SaveInitial(r) PROVE store'[Ident[Dump(r)]] # NoCp
    BY <2>3, SaveWrites DEF SaveInitial, TypeOK
  <2> QED BY <2>1, <2>2, <2>3, WhoWrites DEF DsnsAreKept
<1>2. ASSUME NEW q \in Runs, pc'[q] \in Recording PROVE Row(q)' # NoCp
  <2>1. cfg'[q] = cfg[q] /\ (pc[q] \in Recording \/ SaveInitial(q))
    BY <1>2, RecordingEntered
  <2>2. Row(q)' = store'[Ident[Dump(q)]] /\ Row(q) = store[Ident[Dump(q)]]
    BY <2>1 DEF Row, Get, Dump
  <2>3. Ident[Dump(q)] \in Idents
    BY DumpsAssumption DEF TypeOK, Dump, Configs, DumpsAssumption
  <2> QED BY <1>1, <2>1, <2>2, <2>3 DEF Recorded
<1> QED BY <1>1, <1>2 DEF Recorded

(* When every run has a DSN and no row is deleted, a row's DSN survives    *)
(* the batch checkpoints, which have none to give, for any number of runs  *)
(* of any dumps: the history can always resume.                            *)
THEOREM RowsKeepTheirDsn ==
  ASSUME DsnsAreKept
  PROVE  Spec => []RowKeepsDsn
<1>1. Init => Recorded
  BY DEF Init, EmptyStore, Recorded, RowKeepsDsn, Recording
<1>2. TypeOK /\ Recorded /\ [Next]_vars => Recorded'
  BY RecordedStep
<1>3. Recorded => RowKeepsDsn
  BY DEF Recorded
<1> QED BY <1>1, <1>2, <1>3, Typed, PTL DEF Spec
=============================================================================

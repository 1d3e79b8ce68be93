-------------------------- MODULE Refinements_proofs --------------------------
(***************************************************************************)
(* RestoreRunner implements the abstract restore and the event source.     *)
(***************************************************************************)
EXTENDS RestoreRefinements, Records_proofs

------------------------------------------------------------------------------
(* The abstract restore *)

(* What the invariants say of the mapped variables: the mark is done, and  *)
(* who was told was told the truth and would have nothing left to do.      *)
WatchedOK ==
  /\ Mark \in Nat /\ Done \in Nat /\ Told \in BOOLEAN
  /\ Mark <= Done /\ Done <= Size[TheDump]
  /\ Told => Mark = Size[TheDump]

(* The dump and the target are among those the engine is about.            *)
LEMMA Watched ==
  /\ TheDump \in Dumps /\ TheTarget \in Targets
  /\ Ident[TheDump] \in Idents /\ Size[TheDump] \in Nat
BY WatchedAssumption, DumpsAssumption DEF WatchedAssumption, DumpsAssumption

(* The invariants of the dump and its target say so.                       *)
LEMMA WatchedTruly ==
  ASSUME TypeOK, Ident[TheDump] \notin Deletable,
         CoveredOn(TheDump, TheTarget), VouchedOn(TheDump, TheTarget)
  PROVE  WatchedOK
<1>1. Done \in Nat /\ TheRow \in Rows \cup {NoCp}
  BY Watched DEF TypeOK, Done, TheRow
<1>2. Done <= Size[TheDump]
  BY DEF CoveredOn, Done
<1>3. TheRow # NoCp => TheRow.off <= Done
  BY DEF CoveredOn, TheRow, Done
<1>4. Mark \in Nat /\ Mark <= Done
  BY <1>1, <1>3 DEF Mark, Rows
<1>5. ASSUME Told PROVE Mark = Size[TheDump]
  <2>1. TheRow.off = Size[TheDump]
    BY <1>5 DEF Told, VouchedOn, TheRow
  <2>2. TheRow # NoCp
    BY <2>1, Watched DEF NoCp
  <2> QED BY <2>1, <2>2 DEF Mark
<1>6. Told \in BOOLEAN BY DEF Told
<1> QED BY <1>1, <1>2, <1>4, <1>5, <1>6 DEF WatchedOK

(* Nobody is told anything by a step that leaves the channels alone.       *)
LEMMA ToldSame ==
  ASSUME UNCHANGED <<cfg, channel>>
  PROVE  Told' <=> Told
BY DEF channel, Told, Dump, SaysSuccess

(* The mark never moves back, whoever writes or deletes which rows.        *)
LEMMA MarkStep ==
  ASSUME TypeOK, Bounds, Ident[TheDump] \notin Deletable, AheadOn(Ident[TheDump]),
         [Next]_vars, Mark \in Nat, Mark' \in Nat
  PROVE  Mark <= Mark'
<1>1. TheRow # NoCp => TheRow' # NoCp
  <2>1. CASE store' = store
    BY <2>1 DEF TheRow
  <2>2. ASSUME NEW r \in Runs, SaveInitial(r) \/ SaveBatch(r) \/ SaveFinal(r)
        PROVE  TheRow # NoCp => TheRow' # NoCp
    <3>1. byteOff[r] \in Nat BY DEF TypeOK
    <3>2. PICK m, dsn : Save(r, byteOff[r], m, dsn)
      BY <2>2 DEF SaveInitial, SaveBatch, SaveFinal
    <3>3. /\ store'[Ident[Dump(r)]] # NoCp
          /\ \A id \in Idents : id # Ident[Dump(r)] => store'[id] = store[id]
      BY <3>1, <3>2, SaveWrites
    <3>4. TheRow' = store'[Ident[TheDump]] BY DEF TheRow
    <3> QED BY Watched, <3>3, <3>4 DEF TheRow
  <2>3. ASSUME NEW del \in Deletable, DeleteRow(del)
        PROVE  TheRow # NoCp => TheRow' # NoCp
    BY <2>3, Watched DEF DeleteRow, Delete, TypeOK, TheRow
  <2> QED BY <2>1, <2>2, <2>3, WhoWrites
<1>2. TheRow # NoCp /\ TheRow' # NoCp => TheRow.off <= TheRow'.off
  BY Watched, OffsetStep DEF TheRow
<1> QED BY <1>1, <1>2 DEF Mark

(* Every step of the engine is a step of the abstract restore, or changes  *)
(* nothing it speaks of.                                                   *)
LEMMA AbstractStep ==
  ASSUME TypeOK, Bounds, Ident[TheDump] \notin Deletable, AheadOn(Ident[TheDump]),
         [Next]_vars, WatchedOK, WatchedOK'
  PROVE  [Abstract!Next]_(Abstract!vars)
<1>1. /\ Mark \in Nat /\ Done \in Nat /\ Told \in BOOLEAN
      /\ Mark <= Done /\ Done <= Size[TheDump] /\ Size[TheDump] \in Nat
      /\ Told => Mark = Size[TheDump]
  BY Watched DEF WatchedOK
<1>2. /\ Mark' \in Nat /\ Done' \in Nat /\ Told' \in BOOLEAN
      /\ Mark' <= Done' /\ Done' <= Size[TheDump]
      /\ Told' => Mark' = Size[TheDump]
  BY DEF WatchedOK
<1>3. Mark <= Mark'
  BY <1>1, <1>2, MarkStep
<1>4. CASE Done' # Done
  <2>1. ~Told
    BY <1>1, <1>2, <1>3, <1>4
  <2>2. applied' # applied BY <1>4 DEF Done
  <2>3. PICK r \in Runs : UNCHANGED <<store, cfg, channel>>
    BY <2>2, WhoApplies
  <2>4. ~Told' BY <2>1, <2>3, ToldSame
  <2>5. Mark' = Mark BY <2>3 DEF Mark, TheRow
  <2> QED BY <1>1, <1>2, <2>1, <2>4, <2>5 DEF Abstract!Next, Abstract!Apply
<1>5. CASE Done' = Done /\ store' = store
  <2>1. Mark' = Mark BY <1>5 DEF Mark, TheRow
  <2> QED BY <1>1, <1>2, <1>5, <2>1 DEF Abstract!Next, Abstract!Report, Abstract!Forget
<1>6. CASE Done' = Done /\ store' # store
  <2>1. UNCHANGED <<cfg, channel>>
    BY <1>6, WhoWrites DEF SaveInitial, SaveBatch, SaveFinal, DeleteRow
  <2>2. Told' <=> Told BY <2>1, ToldSame
  <2> QED BY <1>1, <1>2, <1>3, <1>6, <2>2 DEF Abstract!Next, Abstract!Save
<1> QED BY <1>4, <1>5, <1>6

(* The engine implements the abstract restore of a dump to a target, while *)
(* no two runs of that dump overlap and none sends it elsewhere, and while *)
(* nobody deletes its row: whatever any number of other runs do with other *)
(* dumps, other servers and other rows.                                    *)
THEOREM EngineRestores ==
  ASSUME PlainDump(TheDump), Ident[TheDump] \notin Deletable
  PROVE  Spec /\ []SoleRuns(TheDump, TheTarget) => ImplementsAbstractRestore
<1> DEFINE Sole == SoleRuns(TheDump, TheTarget)
           All == /\ TypeOK /\ Bounds /\ AheadOn(Ident[TheDump])
                  /\ CoveredOn(TheDump, TheTarget) /\ VouchedOn(TheDump, TheTarget)
<1>1. Init => Abstract!Init
  <2> SUFFICES ASSUME Init PROVE Abstract!Init
    OBVIOUS
  <2>1. Mark = 0 /\ Done = 0
    BY Watched DEF Init, EmptyStore, Mark, TheRow, Done
  <2>2. ~Told BY DEF Init, Told, SaysSuccess
  <2> QED BY <2>1, <2>2 DEF Abstract!Init
<1>2. All => WatchedOK
  BY WatchedTruly
<1>3. All /\ [Next]_vars /\ WatchedOK /\ WatchedOK' => [Abstract!Next]_(Abstract!vars)
  BY AbstractStep
<1>4. Init => AheadOn(Ident[TheDump]) /\ CoveredOn(TheDump, TheTarget)
              /\ VouchedOn(TheDump, TheTarget)
  <2>1. Init => VouchedOn(TheDump, TheTarget)
    BY DEF Init, VouchedOn, SaysSuccess
  <2> QED BY <2>1, Watched, AheadInit, CoveredInit
<1>5. All /\ Verdicts /\ Sole /\ [Next]_vars => All'
  <2> SUFFICES ASSUME All, Verdicts, Sole, [Next]_vars PROVE All'
    OBVIOUS
  <2>1. TypeOK' /\ Bounds' BY TypeStep, BoundsStep
  <2>2. AheadOn(Ident[TheDump])' BY Watched, AheadStep DEF SoleRuns
  <2>3. CoveredOn(TheDump, TheTarget)' BY Watched, CoveredStep
  <2>4. RowStays(TheDump) BY DEF RowStays
  <2>5. VouchedOn(TheDump, TheTarget)' BY <2>3, <2>4, Watched, VouchedStep
  <2> QED BY <2>1, <2>2, <2>3, <2>5
<1>6. Init => All
  <2>1. Init => TypeOK /\ Bounds BY InitBounded
  <2> QED BY <2>1, <1>4
<1> HIDE DEF All
<1> QED
  BY <1>1, <1>2, <1>3, <1>5, <1>6, AlwaysVerdicts, PTL
     DEF Spec, ImplementsAbstractRestore, Abstract!Spec

------------------------------------------------------------------------------
(* The event source *)

(* The channel as its reader sees it is as long as the channel, ...        *)
LEMMA SeenLen ==
  ASSUME NEW q \in Seq(Events)
  PROVE  Seen(q) \in Seq({"progress", "ok", "error"}) /\ Len(Seen(q)) = Len(q)
BY DEF Seen, EventOf

(* ... grows at its end by what is sent, ...                               *)
LEMMA SeenAppend ==
  ASSUME NEW q \in Seq(Events), NEW ev \in Events
  PROVE  Seen(Append(q, ev)) = Append(Seen(q), EventOf(ev))
<1> DEFINE a == Append(q, ev)
           s == Append(Seen(q), EventOf(ev))
<1>1. /\ a \in Seq(Events) /\ a[Len(q) + 1] = ev
      /\ DOMAIN a = 1..(Len(q) + 1) /\ DOMAIN q = 1..Len(q)
      /\ \A i \in DOMAIN q : a[i] = q[i]
  OBVIOUS
<1>2. /\ s \in Seq({"progress", "ok", "error"}) /\ DOMAIN s = DOMAIN a
      /\ s[Len(q) + 1] = EventOf(ev)
      /\ \A i \in 1..Len(q) : s[i] = Seen(q)[i]
  BY <1>1, SeenLen DEF EventOf
<1> HIDE DEF a, s
<1>3. \A i \in DOMAIN a : s[i] = EventOf(a[i])
  BY <1>1, <1>2 DEF Seen
<1>4. s = [i \in DOMAIN a |-> s[i]] BY <1>2
<1>5. Seen(a) = s BY <1>3, <1>4 DEF Seen
<1> QED BY <1>5 DEF a, s

(* ... and loses its head to whoever reads.                                *)
LEMMA SeenTail ==
  ASSUME NEW q \in Seq(Events), q # <<>>
  PROVE  Seen(q) # <<>> /\ Seen(Tail(q)) = Tail(Seen(q))
<1> DEFINE t == Tail(q)
           v == Seen(q)
           s == Tail(v)
<1>1. /\ DOMAIN t = 1..(Len(q) - 1) /\ Len(q) # 0
      /\ \A i \in DOMAIN t : i + 1 \in DOMAIN q /\ t[i] = q[i + 1]
  OBVIOUS
<1>2. v \in Seq({"progress", "ok", "error"}) /\ Len(v) = Len(q)
  BY SeenLen
<1>3. \A i \in DOMAIN q : v[i] = EventOf(q[i])
  BY DEF Seen
<1> HIDE DEF t, v
<1>4. v # <<>> BY <1>1, <1>2
<1>5. /\ s \in Seq({"progress", "ok", "error"}) /\ DOMAIN s = DOMAIN t
      /\ \A i \in DOMAIN t : s[i] = v[i + 1]
  BY <1>1, <1>2, <1>4
<1> HIDE DEF s
<1>6. \A i \in DOMAIN t : s[i] = EventOf(t[i]) BY <1>1, <1>3, <1>5
<1>7. s = [i \in DOMAIN t |-> s[i]] BY <1>5
<1>8. Seen(t) = s BY <1>6, <1>7 DEF Seen
<1> QED BY <1>4, <1>8 DEF s, t, v

(* Sending an event puts what its reader sees.                             *)
LEMMA SendPuts ==
  ASSUME TypeOK, NEW r \in Runs, NEW ev \in Events, Send(r, ev)
  PROVE  Source!Put(r, EventOf(ev))
<1>1. events[r] \in Seq(Events) /\ Len(events[r]) < Cap
      /\ events' = [events EXCEPT ![r] = Append(@, ev)] /\ DOMAIN events = Runs
  BY DEF TypeOK, Send
<1>2. Chan[r] = Seen(events[r]) /\ Len(Chan[r]) < Cap
  BY <1>1, SeenLen DEF Chan
<1>3. Chan' = [q \in Runs |-> Seen(events'[q])]
  BY DEF Chan, Seen
<1>4. Seen(events'[r]) = Append(Chan[r], EventOf(ev))
  BY <1>1, <1>2, SeenAppend
<1> HIDE DEF Seen
<1>5. Chan' = [Chan EXCEPT ![r] = Append(@, EventOf(ev))]
  BY <1>1, <1>3, <1>4 DEF Chan
<1> QED BY <1>2, <1>5 DEF Source!Put

(* What the reader sees of an event. *)
LEMMA EventsSeen ==
  ASSUME NEW off \in Nat
  PROVE  /\ Event(FALSE, TRUE, off) \in Events /\ Event(TRUE, TRUE, off) \in Events
         /\ Event(TRUE, FALSE, off) \in Events
         /\ EventOf(Event(FALSE, TRUE, off)) = "progress"
         /\ EventOf(Event(TRUE, TRUE, off)) = "ok"
         /\ EventOf(Event(TRUE, FALSE, off)) = "error"
BY DEF Event, Events, EventOf

(* A step of the goroutine is a step of its phase.                         *)
LEMMA GotoMoves ==
  ASSUME TypeOK, NEW r \in Runs, NEW to, Goto(r, to)
  PROVE  /\ Phase[r] = PhaseOf(pc[r])
         /\ Phase' = [Phase EXCEPT ![r] = PhaseOf(to)]
<1>1. DOMAIN pc = Runs /\ pc' = [pc EXCEPT ![r] = to]
  BY DEF TypeOK, Goto
<1>2. Phase' = [q \in Runs |-> PhaseOf(pc'[q])]
  BY DEF Phase, PhaseOf
<1> HIDE DEF PhaseOf
<1> QED BY <1>1, <1>2 DEF Phase

(* The reader sees nothing new in a channel that is left alone.            *)
LEMMA ChanSame == UNCHANGED channel => Chan' = Chan
BY DEF channel, Chan, Seen

(* A step within a phase that sends nothing is none to the reader.         *)
LEMMA QuietMove ==
  ASSUME TypeOK, NEW r \in Runs, NEW to, Goto(r, to), UNCHANGED channel,
         PhaseOf(to) = PhaseOf(pc[r])
  PROVE  UNCHANGED Source!svars
<1>1. Phase' = Phase BY GotoMoves DEF Phase
<1> QED BY <1>1, ChanSame DEF Source!svars

(* Every step of the goroutines, of their readers and of a crash is a step *)
(* of the source, or changes nothing the reader sees.                      *)
LEMMA SourceStep ==
  ASSUME TypeOK, [Next]_vars
  PROVE  [Source!Next]_(Source!svars)
<1> DEFINE Seeable(r) ==
      \/ Source!Begin(r) \/ Source!Progress(r) \/ Source!InitialSave(r)
      \/ Source!FinalSave(r) \/ \E verdict \in Source!Success : Source!Complete(r, verdict)
      \/ Source!StatementFails(r) \/ Source!Bail(r) \/ Source!GiveUp(r) \/ Source!Take(r)
      \/ UNCHANGED Source!svars
<1>0. ASSUME NEW r \in Runs, Seeable(r) PROVE [Source!Next]_(Source!svars)
  BY <1>0 DEF Source!Next
<1> HIDE DEF Seeable
<1>1. ASSUME NEW r \in Runs, Start(r) PROVE Seeable(r)
  <2>1. Goto(r, "open") /\ pc[r] \in Idle /\ events' = [events EXCEPT ![r] = <<>>]
    BY <1>1 DEF Start
  <2>2. /\ Phase[r] \in {"idle", "ended"}
        /\ Phase' = [Phase EXCEPT ![r] = "starting"]
    BY <2>1, GotoMoves DEF PhaseOf, Idle
  <2>3. Chan' = [Chan EXCEPT ![r] = <<>>]
    <3>1. Chan' = [q \in Runs |-> Seen(events'[q])] BY DEF Chan, Seen
    <3>2. Seen(<<>>) = <<>> BY DEF Seen
    <3> HIDE DEF Seen
    <3> QED BY <2>1, <3>1, <3>2 DEF Chan, TypeOK
  <2> QED BY <2>2, <2>3 DEF Seeable, Source!Begin, Source!Moves
<1>2. ASSUME NEW r \in Runs, Open(r) PROVE Seeable(r)
  <2>1. /\ pc[r] = "open" /\ UNCHANGED channel
        /\ Goto(r, "connect") \/ Goto(r, "resume")
    BY <1>2 DEF Open, Transition
  <2> QED BY <2>1, QuietMove DEF PhaseOf, Seeable
<1>3. ASSUME NEW r \in Runs, Connect(r) PROVE Seeable(r)
  <2>1. pc[r] = "connect" /\ Goto(r, "resume") /\ UNCHANGED channel
    BY <1>3 DEF Connect, Transition
  <2> QED BY <2>1, QuietMove DEF PhaseOf, Seeable
<1>4. ASSUME NEW r \in Runs, Resume(r) PROVE Seeable(r)
  <2>1. /\ pc[r] = "resume" /\ UNCHANGED channel
        /\ Goto(r, "seek") \/ Goto(r, "tellResume")
    BY <1>4 DEF Resume
  <2> QED BY <2>1, QuietMove DEF PhaseOf, Seeable
<1>5. ASSUME NEW r \in Runs, Seek(r) PROVE Seeable(r)
  <2>1. pc[r] = "seek" /\ Goto(r, "initial") /\ UNCHANGED channel
    BY <1>5 DEF Seek, Transition
  <2> QED BY <2>1, QuietMove DEF PhaseOf, Seeable
<1>6. ASSUME NEW r \in Runs, Deliver(r) PROVE Seeable(r)
  <2>1. pc[r] = "split" /\ Goto(r, "exec") /\ UNCHANGED channel
    BY <1>6 DEF Deliver, Split
  <2> QED BY <2>1, QuietMove DEF PhaseOf, Seeable
<1>7. ASSUME NEW r \in Runs, DryRun(r) PROVE Seeable(r)
  <2>1. /\ pc[r] = "split" /\ UNCHANGED channel
        /\ Goto(r, "checkpoint") \/ Goto(r, "split")
    BY <1>7 DEF DryRun, Account, Split
  <2> QED BY <2>1, QuietMove DEF PhaseOf, Seeable
<1>8. ASSUME NEW r \in Runs, RefuseCancelled(r) PROVE Seeable(r)
  <2>1. pc[r] = "split" /\ Goto(r, "tellError") /\ UNCHANGED channel
    BY <1>8 DEF RefuseCancelled, Split
  <2> QED BY <2>1, QuietMove DEF PhaseOf, Seeable
<1>9. ASSUME NEW r \in Runs, ExecOk(r) PROVE Seeable(r)
  <2>1. /\ pc[r] = "exec" /\ UNCHANGED channel
        /\ Goto(r, "checkpoint") \/ Goto(r, "split")
    BY <1>9 DEF ExecOk, Account
  <2> QED BY <2>1, QuietMove DEF PhaseOf, Seeable
<1>10. ASSUME NEW r \in Runs, ExecRefused(r) PROVE Seeable(r)
  <2>1. pc[r] = "exec" /\ Goto(r, "tellError") /\ UNCHANGED channel
    BY <1>10 DEF ExecRefused, Transition
  <2> QED BY <2>1, QuietMove DEF PhaseOf, Seeable
<1>11. ASSUME NEW r \in Runs, SaveBatch(r) PROVE Seeable(r)
  <2>1. pc[r] = "checkpoint" /\ Goto(r, "tellBatch") /\ UNCHANGED channel
    BY <1>11 DEF SaveBatch, Transition
  <2> QED BY <2>1, QuietMove DEF PhaseOf, Seeable
<1>12. ASSUME NEW r \in Runs, EndOfDump(r) PROVE Seeable(r)
  <2>1. pc[r] = "split" /\ Goto(r, "final") /\ UNCHANGED channel
    BY <1>12 DEF EndOfDump, Transition
  <2> QED BY <2>1, QuietMove DEF PhaseOf, Seeable
<1>13. ASSUME NEW r \in Runs, Verify(r) PROVE Seeable(r)
  <2>1. pc[r] = "verify" /\ Goto(r, "tellDone") /\ UNCHANGED channel
    BY <1>13 DEF Verify, Transition
  <2> QED BY <2>1, QuietMove DEF PhaseOf, Seeable
<1>14. ASSUME NEW r \in Runs, SaveBatchFails(r) PROVE Seeable(r)
  <2>1. pc[r] = "checkpoint" /\ Goto(r, "tellError") /\ UNCHANGED channel
    BY <1>14 DEF SaveBatchFails, Transition
  <2> QED BY <2>1, QuietMove DEF PhaseOf, Seeable
<1>15. ASSUME NEW r \in Runs, ExecFails(r) PROVE Seeable(r)
  <2>1. pc[r] = "exec" /\ Goto(r, "tellError") /\ UNCHANGED channel
    BY <1>15 DEF ExecFails, Transition
  <2> QED BY <2>1, QuietMove DEF PhaseOf, Seeable
<1>16. ASSUME NEW r \in Runs, ConnectionLost(r) PROVE Seeable(r)
  <2>1. pc[r] = "exec" /\ Goto(r, "tellError") /\ UNCHANGED channel
    BY <1>16 DEF ConnectionLost, Transition
  <2> QED BY <2>1, QuietMove DEF PhaseOf, Seeable
<1>17. ASSUME NEW r \in Runs, TellResume(r) PROVE Seeable(r)
  <2>1. /\ pc[r] = "tellResume" /\ Goto(r, "seek") /\ byteOff[r] \in Nat
        /\ Send(r, Event(FALSE, TRUE, byteOff[r]))
    BY <1>17 DEF TellResume, Transition, TypeOK
  <2>2. Source!Put(r, "progress") BY <2>1, EventsSeen, SendPuts
  <2>3. /\ Phase[r] \in {"starting", "running"}
        /\ Phase' = [Phase EXCEPT ![r] = Phase[r]]
    BY <2>1, GotoMoves DEF PhaseOf
  <2>4. Phase' = Phase BY <2>3 DEF Phase
  <2> QED BY <2>2, <2>3, <2>4 DEF Seeable, Source!Progress
<1>18. ASSUME NEW r \in Runs, TellBatch(r) PROVE Seeable(r)
  <2>1. /\ pc[r] = "tellBatch" /\ Goto(r, "split") /\ byteOff[r] \in Nat
        /\ Send(r, Event(FALSE, TRUE, byteOff[r]))
    BY <1>18 DEF TellBatch, Transition, TypeOK
  <2>2. Source!Put(r, "progress") BY <2>1, EventsSeen, SendPuts
  <2>3. /\ Phase[r] \in {"starting", "running"}
        /\ Phase' = [Phase EXCEPT ![r] = Phase[r]]
    BY <2>1, GotoMoves DEF PhaseOf
  <2>4. Phase' = Phase BY <2>3 DEF Phase
  <2> QED BY <2>2, <2>3, <2>4 DEF Seeable, Source!Progress
<1>19. ASSUME NEW r \in Runs, SaveInitial(r) PROVE Seeable(r)
  <2>1. pc[r] = "initial" /\ Goto(r, "split") /\ UNCHANGED channel
    BY <1>19 DEF SaveInitial, Transition
  <2>2. Phase[r] = "starting" /\ Phase' = [Phase EXCEPT ![r] = "running"]
    BY <2>1, GotoMoves DEF PhaseOf
  <2> QED BY <2>1, <2>2, ChanSame DEF Seeable, Source!InitialSave, Source!Moves
<1>20. ASSUME NEW r \in Runs, SaveFinal(r) PROVE Seeable(r)
  <2>1. /\ pc[r] = "final" /\ UNCHANGED channel
        /\ Goto(r, "verify") \/ Goto(r, "tellDone")
    BY <1>20 DEF SaveFinal, Transition
  <2>2. Phase[r] = "running" /\ Phase' = [Phase EXCEPT ![r] = "saved"]
    BY <2>1, GotoMoves DEF PhaseOf
  <2> QED BY <2>1, <2>2, ChanSame DEF Seeable, Source!FinalSave, Source!Moves
<1>21. ASSUME NEW r \in Runs, TellError(r) PROVE Seeable(r)
  <2>1. /\ pc[r] = "tellError" /\ Goto(r, "fail")
        /\ Send(r, Event(TRUE, FALSE, 0))
    BY <1>21 DEF TellError, Transition
  <2>2. Source!Put(r, "error") BY <2>1, EventsSeen, SendPuts
  <2>3. Phase[r] = "running" /\ Phase' = [Phase EXCEPT ![r] = "failing"]
    BY <2>1, GotoMoves DEF PhaseOf
  <2> QED BY <2>2, <2>3 DEF Seeable, Source!StatementFails, Source!Moves
<1>22. ASSUME NEW r \in Runs, TellDone(r) PROVE Seeable(r)
  <2>1. /\ pc[r] = "tellDone" /\ Goto(r, "ended") /\ byteOff[r] \in Nat
        /\ Send(r, Event(TRUE, TRUE, byteOff[r]))
    BY <1>22 DEF TellDone, Finish, TypeOK
  <2>2. Source!Put(r, "ok") BY <2>1, EventsSeen, SendPuts
  <2>3. Phase[r] = "saved" /\ Phase' = [Phase EXCEPT ![r] = "ended"]
    BY <2>1, GotoMoves DEF PhaseOf
  <2>4. Source!Complete(r, "ok")
    BY <2>2, <2>3 DEF Source!Complete, Source!Success, Source!Moves
  <2> QED BY <2>4 DEF Seeable, Source!Success
<1>23. ASSUME NEW r \in Runs, TellFail(r) PROVE Seeable(r)
  <2>1. /\ pc[r] = "fail" /\ Goto(r, "ended")
        /\ Send(r, Event(TRUE, FALSE, 0))
    BY <1>23 DEF TellFail, Finish
  <2>2. Source!Put(r, "error") BY <2>1, EventsSeen, SendPuts
  <2>3. Phase[r] = "failing" /\ Phase' = [Phase EXCEPT ![r] = "ended"]
    BY <2>1, GotoMoves DEF PhaseOf
  <2> QED BY <2>2, <2>3 DEF Seeable, Source!GiveUp, Source!Moves
<1>24. ASSUME NEW r \in Runs, CallFails(r) PROVE Seeable(r)
  <2>1. pc[r] \in FailingCalls /\ Goto(r, "fail") /\ UNCHANGED channel
    BY <1>24 DEF CallFails
  <2>2. /\ Phase[r] \in {"starting", "running", "saved"}
        /\ Phase' = [Phase EXCEPT ![r] = "failing"]
    BY <2>1, GotoMoves DEF PhaseOf, FailingCalls
  <2> QED BY <2>1, <2>2, ChanSame DEF Seeable, Source!Bail, Source!Moves
<1>25. ASSUME NEW r \in Runs, Receive(r) PROVE Seeable(r)
  <2>1. /\ events[r] \in Seq(Events) /\ events[r] # <<>> /\ DOMAIN events = Runs
        /\ events' = [events EXCEPT ![r] = Tail(@)] /\ pc' = pc
    BY <1>25 DEF Receive, TypeOK
  <2>2. /\ Chan[r] = Seen(events[r]) /\ Chan[r] # <<>>
        /\ Seen(events'[r]) = Tail(Chan[r])
    BY <2>1, SeenTail DEF Chan
  <2>3. Chan' = [q \in Runs |-> Seen(events'[q])] /\ Phase' = Phase
    BY <2>1 DEF Chan, Seen, Phase
  <2> HIDE DEF Seen
  <2>4. Chan' = [Chan EXCEPT ![r] = Tail(@)]
    BY <2>1, <2>2, <2>3 DEF Chan
  <2> QED BY <2>2, <2>3, <2>4 DEF Seeable, Source!Take
<1>26. ASSUME NEW P \in Processes, Crash(P) PROVE Source!Die(P) /\ P \in SUBSET Runs
  <2>1. P \in SUBSET Runs BY RunsAssumption DEF RunsAssumption
  <2>2. /\ pc' = [r \in Runs |-> IF r \in P THEN "idle" ELSE pc[r]]
        /\ events' = [r \in Runs |-> IF r \in P THEN <<>> ELSE events[r]]
    BY <1>26 DEF Crash
  <2>3. /\ Phase' = [r \in Runs |-> PhaseOf(pc'[r])]
        /\ Chan' = [r \in Runs |-> Seen(events'[r])]
        /\ PhaseOf("idle") = "idle" /\ Seen(<<>>) = <<>>
    BY DEF Phase, PhaseOf, Chan, Seen
  <2> HIDE DEF PhaseOf, Seen
  <2> QED BY <2>1, <2>2, <2>3 DEF Source!Die, Phase, Chan
<1>27. UNCHANGED <<pc, channel>> => UNCHANGED Source!svars
  BY ChanSame DEF Phase, Source!svars
<1>28. ASSUME NEW r \in Runs, Cancel(r) PROVE Seeable(r)
  BY <1>28, <1>27 DEF Cancel, Seeable
<1>29. ASSUME NEW id \in Deletable, DeleteRow(id) PROVE UNCHANGED Source!svars
  BY <1>29, <1>27 DEF DeleteRow
<1>30. CASE UNCHANGED vars
  BY <1>30, <1>27 DEF vars
<1>31. ASSUME NEW r \in Runs, Start(r) \/ Step(r) \/ Failure(r) \/ Cancel(r) \/ Receive(r)
      PROVE Seeable(r)
  BY <1>31, <1>1, <1>2, <1>3, <1>4, <1>5, <1>6, <1>7, <1>8, <1>9, <1>10, <1>11, <1>12, <1>13, <1>14, <1>15, <1>16, <1>17, <1>18, <1>19, <1>20, <1>21, <1>22, <1>23, <1>24, <1>25, <1>28 DEF Step, Failure
<1> QED
  BY <1>0, <1>26, <1>29, <1>30, <1>31 DEF Next, Source!Next

(* The condition on the use of the engine under which no resume point      *)
(* passes the data follows from what a reader of the channels can see: the *)
(* terminal UI, modelled against them, keeps it (RunsTakeTurns).           *)
THEOREM WritersAreApart == []Source!OneWriter => []RunsApart
<1>1. Source!OneWriter => RunsApart
  <2>1. ASSUME NEW r \in Runs, Live(r) PROVE Source!Writes(r)
    BY <2>1 DEF Live, Idle, Source!Writes, Phase, PhaseOf
  <2> QED BY <2>1 DEF Source!OneWriter, RunsApart, AloneOn
<1> QED BY <1>1, PTL

(* Any number of runs, in any number of processes, are the event sources   *)
(* that the terminal UI is modelled against: its model may replace them.   *)
THEOREM RunsAreEventSources == Spec => ImplementsEventSource
<1>1. Init => Source!Init
  BY DEF Init, Source!Init, Phase, PhaseOf, Chan, Seen
<1>2. TypeOK /\ [Next]_vars => [Source!Next]_(Source!svars)
  BY SourceStep
<1> QED BY <1>1, <1>2, Typed, PTL DEF Spec, ImplementsEventSource, Source!Spec
==============================================================================

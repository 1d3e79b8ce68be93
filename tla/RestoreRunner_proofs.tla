------------------------ MODULE RestoreRunner_proofs ------------------------
(***************************************************************************)
(* Theorems about RestoreRunner, for every dump, splitter, batch size,     *)
(* channel capacity and number of runs, unless a theorem says otherwise.   *)
(***************************************************************************)
EXTENDS RestoreInvariants, TLAPS

(* A statement the splitter cuts off lies inside the dump and ahead of it. *)
LEMMA CutsBounded ==
  ASSUME NEW d \in Dumps, NEW p \in 0..Size[d], NEW m \in Modes,
         NEW c \in Cuts[d][p][m]
  PROVE  c \in Cut /\ p < c.next /\ c.next <= Size[d] /\ p + c.len <= c.next
BY CutsAssumption DEF CutsAssumption

(* Upsert and Delete keep a table a table. *)
LEMMA UpsertType ==
  ASSUME NEW s \in [Idents -> Rows \cup {NoCp}], NEW id, NEW off \in Nat,
         NEW m \in Modes, NEW dsn \in Dsns \cup {NoDsn}
  PROVE  Upsert(s, id, off, m, dsn) \in [Idents -> Rows \cup {NoCp}]
BY DEF Upsert, Rows, NoCp

(* The initial state has its types. *)
LEMMA InitType == Init => TypeOK
<1> SUFFICES ASSUME Init PROVE TypeOK OBVIOUS
<1>1. Configs # {}
  <2>1. PICK d \in Dumps, t \in Dsns : TRUE BY DumpsAssumption DEF DumpsAssumption
  <2>2. [dump |-> d, dsn |-> t, verify |-> TRUE] \in Configs BY DEF Configs
  <2> QED BY <2>2
<1> QED BY <1>1, ModesAssumption, LimitsAssumption
      DEF Init, TypeOK, EmptyStore, NoCut, Kinds, Cut, NoSession, Sessions, EmptyBatch, Labels, ModesAssumption, LimitsAssumption

(* The splitter inside the dump. *)
LEMMA SplitType ==
  ASSUME TypeOK, Bounds, NEW r \in Runs, NEW c \in Cuts[Dump(r)][pos[r]][mode[r]],
         Split(r, c)
  PROVE  /\ c \in Cut
         /\ pos' \in [Runs -> Nat] /\ mode' \in [Runs -> Modes]
         /\ pos[r] < c.next /\ c.next <= End(r) /\ pos[r] + c.len <= c.next
<1>1. Dump(r) \in Dumps /\ pos[r] \in 0..Size[Dump(r)] /\ mode[r] \in Modes
  BY DumpsAssumption DEF TypeOK, Bounds, RunBounds, End, Dump, Configs, DumpsAssumption
<1>2. c \in Cut /\ pos[r] < c.next /\ c.next <= End(r) /\ pos[r] + c.len <= c.next
  BY <1>1, CutsBounded DEF End
<1> QED BY <1>2 DEF TypeOK, Split, Cut

(* Counting a statement keeps the counters natural numbers. *)
LEMMA AccountType ==
  ASSUME TypeOK, NEW r \in Runs, NEW c \in Cut, Account(r, c)
  PROVE  /\ pc' \in [Runs -> Labels] /\ byteOff' \in [Runs -> Nat]
         /\ batch' \in [Runs -> [stmts : Nat, bytes : Nat]]
<1>0. c.len \in Nat BY DEF Cut
<1>1. byteOff' \in [Runs -> Nat] BY <1>0 DEF TypeOK, Account
<1>2. batch' \in [Runs -> [stmts : Nat, bytes : Nat]]
  <2> DEFINE b == [stmts |-> batch[r].stmts + 1, bytes |-> batch[r].bytes + c.len]
  <2>1. batch \in [Runs -> [stmts : Nat, bytes : Nat]] BY DEF TypeOK
  <2>2. b \in [stmts : Nat, bytes : Nat] BY <1>0, <2>1
  <2>3. batch' = [batch EXCEPT ![r] = b] BY DEF Account
  <2> HIDE DEF b
  <2> QED BY <2>1, <2>2, <2>3
<1>3. PICK to \in Labels : Goto(r, to) BY DEF Account, Labels
<1> QED BY <1>1, <1>2, <1>3 DEF TypeOK, Goto

(* A fault is counted up to the bound. *)
LEMMA FaultType == ASSUME TypeOK, Fault PROVE faults' \in 0..MaxFaults
BY LimitsAssumption DEF TypeOK, Fault, LimitsAssumption

(* Setting one entry keeps the table of applied prefixes a table. *)
LEMMA AppliedType ==
  ASSUME NEW f \in [Targets -> [Dumps -> Nat]], NEW t, NEW d, NEW v,
         t \in Targets /\ d \in Dumps => v \in Nat
  PROVE  [f EXCEPT ![t][d] = v] \in [Targets -> [Dumps -> Nat]]
OBVIOUS

(* What a statement does to the target, and the deferred calls, keep the   *)
(* types of what they change.                                              *)
LEMMA EffectType ==
  ASSUME TypeOK, NEW r \in Runs, TakeEffect(r) \/ UNCHANGED <<applied, committed>>
  PROVE  /\ applied' \in [Targets -> [Dumps -> Nat]]
         /\ committed' \in [Runs -> Nat]
<1> USE DEF TypeOK
<1>1. CASE UNCHANGED <<applied, committed>>
  BY <1>1
<1>2. CASE TakeEffect(r) /\ Commits(r)
  <2> DEFINE v == Extend(applied[Dsn(r)][Dump(r)], committed[r], pos[r], cur[r].kind)
  <2>1. applied' = [applied EXCEPT ![Dsn(r)][Dump(r)] = v]
    BY <1>2 DEF TakeEffect
  <2>2. Dsn(r) \in Targets /\ Dump(r) \in Dumps => v \in Nat
    BY DEF Extend
  <2>3. committed' \in [Runs -> Nat]
    BY <1>2 DEF TakeEffect
  <2> QED BY <2>1, <2>2, <2>3, AppliedType
<1> QED BY <1>1, <1>2 DEF TakeEffect

ClearedTypes ==
  /\ byteOff' \in [Runs -> Nat] /\ pos' \in [Runs -> Nat]
  /\ mode' \in [Runs -> Modes] /\ cur' \in [Runs -> Cut]
  /\ batch' \in [Runs -> [stmts : Nat, bytes : Nat]]
  /\ session' \in [Runs -> Sessions] /\ committed' \in [Runs -> Nat]
  /\ cancelled' \in [Runs -> BOOLEAN]
FinishedTypes ==
  /\ ClearedTypes
  /\ pc' \in [Runs -> Labels]
  /\ leaked' \in [Runs -> SUBSET [dsn : Dsns, dump : Dumps, locked : BOOLEAN]]

(* Clearing a goroutine's locals keeps their types. *)
LEMMA ClearLocalsType ==
  ASSUME TypeOK, NEW R, ClearLocals(R)
  PROVE  ClearedTypes
BY ModesAssumption
   DEF TypeOK, ClearedTypes, ClearLocals, NoCut, Cut, Kinds, EmptyBatch, NoSession, Sessions,
       ModesAssumption

(* So does the end of a run, which also leaves a session in the pool. *)
LEMMA FinishType ==
  ASSUME TypeOK, NEW r \in Runs, Finish(r)
  PROVE  FinishedTypes
<1>1. pc' \in [Runs -> Labels]
  BY DEF TypeOK, Finish, Goto, Labels
<1>2. leaked' \in [Runs -> SUBSET [dsn : Dsns, dump : Dumps, locked : BOOLEAN]]
  BY DEF TypeOK, Finish, Dsn, Dump, Configs, Sessions
<1> QED BY <1>1, <1>2, ClearLocalsType DEF Finish, FinishedTypes

(* Types are preserved.  The splitter's cuts are typed only inside the     *)
(* dump, so this needs Bounds.                                             *)
LEMMA TypeStep == TypeOK /\ Bounds /\ [Next]_vars => TypeOK'
<1> SUFFICES ASSUME TypeOK, Bounds, [Next]_vars PROVE TypeOK'
  OBVIOUS
<1> USE DEF TypeOK, durable, progress, target, channel, env
<1>1. ASSUME NEW r \in Runs, Start(r) PROVE TypeOK'
  BY <1>1 DEF Start, Idle, Goto, Labels, Configs
<1>2. ASSUME NEW r \in Runs, Open(r) PROVE TypeOK'
  BY <1>2 DEF Open, Transition, Goto, Labels
<1>3. ASSUME NEW r \in Runs, Connect(r) PROVE TypeOK'
  BY <1>3 DEF Connect, Transition, Goto, Labels, NewSession, NoSession, Sessions
<1>4. ASSUME NEW r \in Runs, Resume(r) PROVE TypeOK'
  <2>1. Row(r) = NoCp \/ Row(r).off \in Nat
    BY DumpsAssumption DEF Row, Get, Dump, Configs, Rows, DumpsAssumption
  <2>2. pc' \in [Runs -> Labels] /\ byteOff' \in [Runs -> Nat]
    BY <1>4, <2>1 DEF Resume, Goto, Labels
  <2> QED BY <1>4, <2>2 DEF Resume
<1>5. ASSUME NEW r \in Runs, TellResume(r) PROVE TypeOK'
  BY <1>5 DEF TellResume, Send, Event, Events, Transition, Goto, Labels
<1>6. ASSUME NEW r \in Runs, Seek(r) PROVE TypeOK'
  BY <1>6 DEF Seek, Transition, Goto, Labels
<1>7. ASSUME NEW r \in Runs, SaveInitial(r) PROVE TypeOK'
  BY <1>7, UpsertType, ModesAssumption DEF SaveInitial, Save, Dsn, Configs,
     Transition, Goto, Labels, ModesAssumption
<1>8. ASSUME NEW r \in Runs, Deliver(r) PROVE TypeOK'
  BY <1>8, SplitType DEF Deliver, Goto, Labels
<1>9. ASSUME NEW r \in Runs, DryRun(r) PROVE TypeOK'
  <2>1. PICK c \in Cuts[Dump(r)][pos[r]][mode[r]] : Split(r, c) /\ Account(r, c)
    BY <1>9 DEF DryRun
  <2> QED BY <1>9, <2>1, SplitType, AccountType DEF DryRun
<1>10. ASSUME NEW r \in Runs, RefuseCancelled(r) PROVE TypeOK'
  BY <1>10, SplitType DEF RefuseCancelled, Goto, Labels
<1>11. ASSUME NEW r \in Runs, ExecOk(r) PROVE TypeOK'
  <2>1. cur[r] \in Cut /\ Account(r, cur[r]) /\ TakeEffect(r)
    BY <1>11 DEF ExecOk
  <2>2. session' \in [Runs -> Sessions]
    <3> DEFINE s == NextSession(session[r], cur[r].kind)
    <3>1. session[r] \in Sessions OBVIOUS
    <3>2. s \in Sessions BY <3>1 DEF NextSession, Sessions
    <3>3. session' = [session EXCEPT ![r] = s] BY <1>11 DEF ExecOk
    <3>4. session \in [Runs -> Sessions] OBVIOUS
    <3> HIDE DEF s, TypeOK
    <3> QED BY <3>2, <3>3, <3>4
  <2> QED BY <1>11, <2>1, <2>2, EffectType, AccountType DEF ExecOk
<1>12. ASSUME NEW r \in Runs, ExecRefused(r) PROVE TypeOK'
  BY <1>12 DEF ExecRefused, Transition, Goto, Labels
<1>13. ASSUME NEW r \in Runs, SaveBatch(r) PROVE TypeOK'
  BY <1>13, UpsertType DEF SaveBatch, Save, Transition, Goto, Labels
<1>14. ASSUME NEW r \in Runs, TellBatch(r) PROVE TypeOK'
  BY <1>14 DEF TellBatch, Send, Event, Events, EmptyBatch, Transition, Goto,
     Labels
<1>15. ASSUME NEW r \in Runs, TellError(r) PROVE TypeOK'
  BY <1>15 DEF TellError, Send, Event, Events, Transition, Goto, Labels
<1>16. ASSUME NEW r \in Runs, EndOfDump(r) PROVE TypeOK'
  <2>1. End(r) \in Nat
    BY DumpsAssumption DEF End, Dump, Configs, DumpsAssumption
  <2> DEFINE v == Extend(applied[Dsn(r)][Dump(r)], committed[r], End(r), "stmt")
  <2>2. Dsn(r) \in Targets /\ Dump(r) \in Dumps => v \in Nat
    BY <2>1 DEF Extend
  <2>3. applied' = applied \/ applied' = [applied EXCEPT ![Dsn(r)][Dump(r)] = v]
    BY <1>16 DEF EndOfDump
  <2> HIDE DEF v
  <2>4. applied' \in [Targets -> [Dumps -> Nat]]
    <3>1. [applied EXCEPT ![Dsn(r)][Dump(r)] = v] \in [Targets -> [Dumps -> Nat]]
      BY <2>2, AppliedType
    <3> QED BY <2>3, <3>1
  <2> QED BY <1>16, <2>1, <2>4 DEF EndOfDump, Transition, Goto, Labels
<1>17. ASSUME NEW r \in Runs, SaveFinal(r) PROVE TypeOK'
  BY <1>17, UpsertType, ModesAssumption DEF SaveFinal, Save, Dsn, Configs,
     Transition, Goto, Labels, ModesAssumption
<1>18. ASSUME NEW r \in Runs, Verify(r) PROVE TypeOK'
  BY <1>18 DEF Verify, Transition, Goto, Labels
<1>19. ASSUME NEW r \in Runs, TellDone(r) PROVE TypeOK'
  <2>1. Finish(r) /\ Send(r, Event(TRUE, TRUE, byteOff[r])) /\ UNCHANGED <<durable, cfg, crashes, faults>>
    BY <1>19 DEF TellDone
  <2>2. events' \in [Runs -> Seq(Events)] /\ heard' = heard
    BY <2>1 DEF Send, Event, Events
  <2> HIDE DEF TypeOK
  <2>3. FinishedTypes BY <2>1, FinishType
  <2> QED BY <2>1, <2>2, <2>3 DEF FinishedTypes, ClearedTypes, TypeOK
<1>20. ASSUME NEW r \in Runs, TellFail(r) PROVE TypeOK'
  <2>1. Finish(r) /\ Send(r, Event(TRUE, FALSE, 0)) /\ UNCHANGED <<durable, cfg, crashes, faults>>
    BY <1>20 DEF TellFail
  <2>2. events' \in [Runs -> Seq(Events)] /\ heard' = heard
    BY <2>1 DEF Send, Event, Events
  <2> HIDE DEF TypeOK
  <2>3. FinishedTypes BY <2>1, FinishType
  <2> QED BY <2>1, <2>2, <2>3 DEF FinishedTypes, ClearedTypes, TypeOK
<1>21. ASSUME NEW r \in Runs, CallFails(r) PROVE TypeOK'
  BY <1>21, FaultType DEF CallFails, FailingCalls, Goto, Labels
<1>22. ASSUME NEW r \in Runs, SaveBatchFails(r) PROVE TypeOK'
  BY <1>22, FaultType DEF SaveBatchFails, Transition, Goto, Labels
<1>23. ASSUME NEW r \in Runs, ExecFails(r) PROVE TypeOK'
  BY <1>23, FaultType DEF ExecFails, Transition, Goto, Labels
<1>24. ASSUME NEW r \in Runs, ConnectionLost(r) PROVE TypeOK'
  BY <1>24, EffectType, FaultType DEF ConnectionLost, Transition, Goto, Labels,
     NoSession, Sessions
<1>25. ASSUME NEW r \in Runs, Cancel(r) PROVE TypeOK'
  BY <1>25, FaultType DEF Cancel
<1>26. ASSUME NEW r \in Runs, Receive(r) PROVE TypeOK'
  BY <1>26 DEF Receive
<1>27. ASSUME NEW P \in Processes, Crash(P) PROVE TypeOK'
  BY <1>27, ClearLocalsType, LimitsAssumption DEF Crash, ClearedTypes, Labels, LimitsAssumption
<1>28. ASSUME NEW id \in Deletable, DeleteRow(id) PROVE TypeOK'
  BY <1>28 DEF DeleteRow, Delete
<1>29. CASE UNCHANGED vars
  BY <1>29 DEF vars
<1> QED
  BY <1>1, <1>2, <1>3, <1>4, <1>5, <1>6, <1>7, <1>8, <1>9, <1>10, <1>11, <1>12, <1>13, <1>14, <1>15, <1>16, <1>17, <1>18, <1>19, <1>20, <1>21, <1>22, <1>23, <1>24, <1>25, <1>26, <1>27, <1>28, <1>29
  DEF Next, Step, Failure

(* Appending to the channel and reading from it keep its offsets bounded.  *)
LEMMA AppendBounded ==
  ASSUME NEW q \in Seq(Events), NEW ev \in Events, NEW n \in Nat, ev.off <= n,
         \A i \in DOMAIN q : q[i].off <= n
  PROVE  \A i \in DOMAIN Append(q, ev) : Append(q, ev)[i].off <= n
OBVIOUS

(* What is left of a queue of bounded events is bounded. *)
LEMMA TailBounded ==
  ASSUME NEW q \in Seq(Events), q # <<>>, NEW n \in Nat,
         \A i \in DOMAIN q : q[i].off <= n
  PROVE  \A i \in DOMAIN Tail(q) : Tail(q)[i].off <= n
OBVIOUS

(* Sending a bounded event keeps every channel bounded. *)
LEMMA SendBounded ==
  ASSUME TypeOK, Bounds, NEW r \in Runs, NEW ev \in Events, ev.off <= End(r),
         Send(r, ev), NEW q \in Runs
  PROVE  \A i \in DOMAIN events'[q] : events'[q][i].off <= End(q)
<1>1. events[q] \in Seq(Events) /\ End(q) \in Nat
  BY DumpsAssumption DEF TypeOK, End, Dump, Configs, DumpsAssumption
<1>2. \A i \in DOMAIN events[q] : events[q][i].off <= End(q)
  BY DEF Bounds, RunBounds
<1>3. CASE q = r
  <2>1. events'[q] = Append(events[q], ev) BY <1>3 DEF TypeOK, Send
  <2> QED BY <1>1, <1>2, <1>3, <2>1, AppendBounded
<1>4. CASE q # r
  BY <1>2, <1>4 DEF TypeOK, Send
<1> QED BY <1>3, <1>4

(* A checkpoint is stored under the dump's identity, and dumps of one      *)
(* identity are equally long.                                              *)
LEMMA SaveBounded ==
  ASSUME TypeOK, Bounds, NEW r \in Runs, NEW m, NEW dsn, Save(r, byteOff[r], m, dsn)
  PROVE  RowBounds'
<1> SUFFICES ASSUME NEW d \in Dumps PROVE store'[Ident[d]].off <= Size[d]
  BY DEF RowBounds
<1>1. Dump(r) \in Dumps /\ Ident[d] \in Idents /\ store[Ident[d]].off <= Size[d]
  BY DumpsAssumption DEF TypeOK, Dump, Configs, Bounds, RowBounds, DumpsAssumption
<1>2. CASE Ident[d] = Ident[Dump(r)]
  <2>1. Size[d] = Size[Dump(r)] /\ byteOff[r] <= Size[Dump(r)]
    BY <1>1, <1>2, DumpsAssumption DEF Bounds, RunBounds, End, DumpsAssumption
  <2>2. store'[Ident[d]].off = byteOff[r]
    BY <1>1, <1>2 DEF TypeOK, Save, Upsert
  <2> QED BY <2>1, <2>2
<1>3. CASE Ident[d] # Ident[Dump(r)]
  BY <1>1, <1>3 DEF TypeOK, Save, Upsert
<1> QED BY <1>2, <1>3

(* A run that ends starts over from zero. *)
LEMMA ClearBounded ==
  ASSUME TypeOK, Bounds, NEW R, ClearLocals(R), NEW q \in Runs
  PROVE  IF q \in R THEN byteOff'[q] = 0 /\ pos'[q] = 0
         ELSE byteOff'[q] = byteOff[q] /\ pos'[q] = pos[q] /\ cur'[q] = cur[q]
BY DEF ClearLocals

(* No offset passes the end of its dump. *)
LEMMA BoundsStep == TypeOK /\ Bounds /\ [Next]_vars => Bounds'
<1> SUFFICES ASSUME TypeOK, Bounds, [Next]_vars PROVE Bounds'
  OBVIOUS
<1>a. \A q \in Runs : End(q) \in Nat /\ Dump(q) \in Dumps
  BY DumpsAssumption DEF TypeOK, End, Dump, Configs, DumpsAssumption
<1>b. \A d \in Dumps : Size[d] \in Nat /\ Ident[d] \in Idents
  BY DumpsAssumption DEF DumpsAssumption
<1> USE <1>a, <1>b DEF TypeOK, Bounds, RowBounds, RunBounds, End, Dump, Idle,
        durable, progress, target, channel, env
<1>1. ASSUME NEW r \in Runs, Start(r) PROVE Bounds'
  BY <1>1 DEF Start, Goto
<1>2. ASSUME NEW r \in Runs, Open(r) PROVE Bounds'
  BY <1>2 DEF Open, Transition, Goto
<1>3. ASSUME NEW r \in Runs, Connect(r) PROVE Bounds'
  BY <1>3 DEF Connect, Transition, Goto
<1>4. ASSUME NEW r \in Runs, Resume(r) PROVE Bounds'
  BY <1>4, SMTT(20) DEF Resume, Goto, Row, Get, NoCp
<1>5. ASSUME NEW r \in Runs, TellResume(r) PROVE Bounds'
  <2>1. \A q \in Runs : \A i \in DOMAIN events'[q] : events'[q][i].off <= End(q)
    <3>1. Event(FALSE, TRUE, byteOff[r]) \in Events /\ Send(r, Event(FALSE, TRUE, byteOff[r]))
      BY <1>5 DEF TellResume, Event, Events
    <3>2. Event(FALSE, TRUE, byteOff[r]).off <= End(r) BY DEF Event
    <3> QED BY <3>1, <3>2, SendBounded
  <2> QED BY <1>5, <2>1 DEF TellResume, Transition, Goto
<1>6. ASSUME NEW r \in Runs, Seek(r) PROVE Bounds'
  BY <1>6 DEF Seek, Transition, Goto
<1>7. ASSUME NEW r \in Runs, SaveInitial(r) PROVE Bounds'
  BY <1>7, SaveBounded DEF SaveInitial, Save, Transition, Goto
<1>8. ASSUME NEW r \in Runs, Deliver(r) PROVE Bounds'
  <2>1. PICK c \in Cuts[Dump(r)][pos[r]][mode[r]] :
          /\ Split(r, c)
          /\ cur' = [cur EXCEPT ![r] = c] /\ Goto(r, "exec")
    BY <1>8 DEF Deliver
  <2>2. /\ c \in Cut /\ c.len \in Nat /\ c.next \in Nat
        /\ pos[r] < c.next /\ c.next <= End(r) /\ pos[r] + c.len <= c.next
    BY <2>1, SplitType DEF Cut
  <2>3. ASSUME NEW q \in Runs, q # r PROVE RunBounds(q)'
    BY <1>8, <2>1, <2>3 DEF Deliver, Split, Goto
  <2>4. RunBounds(r)'
    <3>1. pos'[r] = c.next /\ cur'[r] = c /\ pc'[r] = "exec"
      BY <2>1 DEF Split, Goto
    <3>2. byteOff' = byteOff /\ events' = events /\ cfg' = cfg
      BY <1>8 DEF Deliver
    <3>3. byteOff[r] <= pos[r]
      BY <2>1 DEF Split
    <3> QED BY <3>1, <3>2, <3>3, <2>2
  <2>5. RowBounds'
    BY <1>8 DEF Deliver
  <2> QED BY <2>3, <2>4, <2>5
<1>9. ASSUME NEW r \in Runs, DryRun(r) PROVE Bounds'
  <2>1. PICK c \in Cuts[Dump(r)][pos[r]][mode[r]] :
          /\ Split(r, c)
          /\ Account(r, c)
    BY <1>9 DEF DryRun
  <2>2. /\ c \in Cut /\ c.len \in Nat /\ c.next \in Nat
        /\ pos[r] < c.next /\ c.next <= End(r) /\ pos[r] + c.len <= c.next
    BY <2>1, SplitType DEF Cut
  <2>3. ASSUME NEW q \in Runs, q # r PROVE RunBounds(q)'
    BY <1>9, <2>1, <2>3 DEF DryRun, Split, Account, Goto
  <2>4. RunBounds(r)'
    <3>1. pos'[r] = c.next /\ byteOff'[r] = byteOff[r] + c.len
      BY <2>1 DEF Split, Account
    <3>2. pc'[r] \in {"checkpoint", "split"}
      BY <2>1 DEF Account, Goto
    <3>3. events' = events /\ cfg' = cfg
      BY <1>9 DEF DryRun
    <3>4. byteOff[r] <= pos[r]
      BY <2>1 DEF Split
    <3>5. byteOff[r] \in Nat /\ pos[r] \in Nat /\ End(r) \in Nat
      OBVIOUS
    <3> HIDE DEF TypeOK, Bounds, End, Dump
    <3>6. byteOff'[r] <= pos'[r] /\ pos'[r] <= End(r) /\ byteOff'[r] <= End(r)
      BY <3>1, <3>4, <3>5, <2>2
    <3> QED BY <3>2, <3>3, <3>6 DEF Bounds, End, Dump
  <2>5. RowBounds'
    BY <1>9 DEF DryRun
  <2> QED BY <2>3, <2>4, <2>5
<1>10. ASSUME NEW r \in Runs, RefuseCancelled(r) PROVE Bounds'
  <2>1. PICK c \in Cuts[Dump(r)][pos[r]][mode[r]] :
          /\ Split(r, c)
          /\ Goto(r, "tellError")
    BY <1>10 DEF RefuseCancelled
  <2>2. /\ c \in Cut /\ c.len \in Nat /\ c.next \in Nat
        /\ pos[r] < c.next /\ c.next <= End(r) /\ pos[r] + c.len <= c.next
    BY <2>1, SplitType DEF Cut
  <2> QED BY <1>10, <2>1, <2>2 DEF RefuseCancelled, Split, Goto
<1>11. ASSUME NEW r \in Runs, ExecOk(r) PROVE Bounds'
  <2>1. Account(r, cur[r]) /\ cur[r].len \in Nat
    BY <1>11 DEF ExecOk, Cut
  <2>3. ASSUME NEW q \in Runs, q # r PROVE RunBounds(q)'
    BY <1>11, <2>1, <2>3 DEF ExecOk, Account, Goto
  <2>4. RunBounds(r)'
    <3>1. byteOff'[r] = byteOff[r] + cur[r].len
      BY <2>1 DEF Account
    <3>2. pc'[r] \in {"checkpoint", "split"}
      BY <2>1 DEF Account, Goto
    <3>3. events' = events /\ cfg' = cfg /\ pos' = pos
      BY <1>11 DEF ExecOk
    <3>4. byteOff[r] + cur[r].len <= pos[r]
      BY <1>11 DEF ExecOk
    <3> QED BY <3>1, <3>2, <3>3, <3>4, <2>1
  <2>5. RowBounds'
    BY <1>11 DEF ExecOk
  <2> QED BY <2>3, <2>4, <2>5
<1>12. ASSUME NEW r \in Runs, ExecRefused(r) PROVE Bounds'
  BY <1>12 DEF ExecRefused, Transition, Goto
<1>13. ASSUME NEW r \in Runs, SaveBatch(r) PROVE Bounds'
  BY <1>13, SaveBounded DEF SaveBatch, Save, Transition, Goto
<1>14. ASSUME NEW r \in Runs, TellBatch(r) PROVE Bounds'
  <2>1. \A q \in Runs : \A i \in DOMAIN events'[q] : events'[q][i].off <= End(q)
    <3>1. Event(FALSE, TRUE, byteOff[r]) \in Events /\ Send(r, Event(FALSE, TRUE, byteOff[r]))
      BY <1>14 DEF TellBatch, Event, Events
    <3>2. Event(FALSE, TRUE, byteOff[r]).off <= End(r) BY DEF Event
    <3> QED BY <3>1, <3>2, SendBounded
  <2> QED BY <1>14, <2>1 DEF TellBatch, Transition, Goto
<1>15. ASSUME NEW r \in Runs, TellError(r) PROVE Bounds'
  <2>1. \A q \in Runs : \A i \in DOMAIN events'[q] : events'[q][i].off <= End(q)
    <3>1. Event(TRUE, FALSE, 0) \in Events /\ Send(r, Event(TRUE, FALSE, 0))
      BY <1>15 DEF TellError, Event, Events
    <3>2. Event(TRUE, FALSE, 0).off <= End(r) BY DEF Event
    <3> QED BY <3>1, <3>2, SendBounded
  <2> QED BY <1>15, <2>1 DEF TellError, Transition, Goto
<1>16. ASSUME NEW r \in Runs, EndOfDump(r) PROVE Bounds'
  <2>1. byteOff' = [byteOff EXCEPT ![r] = End(r)] /\ pc' = [pc EXCEPT ![r] = "final"]
    BY <1>16 DEF EndOfDump, Transition, Goto
  <2>3. ASSUME NEW q \in Runs, q # r PROVE RunBounds(q)'
    BY <1>16, <2>1, <2>3 DEF EndOfDump, Transition, Goto
  <2>4. RunBounds(r)'
    <3>1. byteOff'[r] = End(r) /\ pc'[r] = "final"
      BY <2>1
    <3>2. events' = events /\ cfg' = cfg /\ pos' = pos
      BY <1>16 DEF EndOfDump
    <3> QED BY <3>1, <3>2
  <2>5. RowBounds'
    BY <1>16 DEF EndOfDump
  <2> QED BY <2>3, <2>4, <2>5
<1>17. ASSUME NEW r \in Runs, SaveFinal(r) PROVE Bounds'
  BY <1>17, SaveBounded DEF SaveFinal, Save, Transition, Goto
<1>18. ASSUME NEW r \in Runs, Verify(r) PROVE Bounds'
  BY <1>18 DEF Verify, Transition, Goto
<1>19. ASSUME NEW r \in Runs, TellDone(r) PROVE Bounds'
  <2>1. \A q \in Runs : \A i \in DOMAIN events'[q] : events'[q][i].off <= End(q)
    <3>1. Event(TRUE, TRUE, byteOff[r]) \in Events /\ Send(r, Event(TRUE, TRUE, byteOff[r]))
      BY <1>19 DEF TellDone, Event, Events
    <3>2. Event(TRUE, TRUE, byteOff[r]).off <= End(r) BY DEF Event
    <3> QED BY <3>1, <3>2, SendBounded
  <2>2. \A q \in Runs \ {r} : pc'[q] = pc[q]
    BY <1>19 DEF TellDone, Finish, Goto
  <2>3. \A q \in Runs : IF q = r THEN byteOff'[q] = 0 /\ pos'[q] = 0
          ELSE byteOff'[q] = byteOff[q] /\ pos'[q] = pos[q] /\ cur'[q] = cur[q]
    <3>1. ClearLocals({r}) BY <1>19 DEF TellDone, Finish
    <3> QED BY <3>1, ClearBounded
  <2>4. pc'[r] = "ended" BY <1>19 DEF TellDone, Finish, Goto
  <2> QED BY <1>19, <2>1, <2>2, <2>3, <2>4 DEF TellDone
<1>20. ASSUME NEW r \in Runs, TellFail(r) PROVE Bounds'
  <2>1. \A q \in Runs : \A i \in DOMAIN events'[q] : events'[q][i].off <= End(q)
    <3>1. Event(TRUE, FALSE, 0) \in Events /\ Send(r, Event(TRUE, FALSE, 0))
      BY <1>20 DEF TellFail, Event, Events
    <3>2. Event(TRUE, FALSE, 0).off <= End(r) BY DEF Event
    <3> QED BY <3>1, <3>2, SendBounded
  <2>2. \A q \in Runs \ {r} : pc'[q] = pc[q]
    BY <1>20 DEF TellFail, Finish, Goto
  <2>3. \A q \in Runs : IF q = r THEN byteOff'[q] = 0 /\ pos'[q] = 0
          ELSE byteOff'[q] = byteOff[q] /\ pos'[q] = pos[q] /\ cur'[q] = cur[q]
    <3>1. ClearLocals({r}) BY <1>20 DEF TellFail, Finish
    <3> QED BY <3>1, ClearBounded
  <2>4. pc'[r] = "ended" BY <1>20 DEF TellFail, Finish, Goto
  <2> QED BY <1>20, <2>1, <2>2, <2>3, <2>4 DEF TellFail
<1>21. ASSUME NEW r \in Runs, CallFails(r) PROVE Bounds'
  BY <1>21 DEF CallFails, FailingCalls, Goto
<1>22. ASSUME NEW r \in Runs, SaveBatchFails(r) PROVE Bounds'
  BY <1>22 DEF SaveBatchFails, Transition, Goto
<1>23. ASSUME NEW r \in Runs, ExecFails(r) PROVE Bounds'
  BY <1>23 DEF ExecFails, Transition, Goto
<1>24. ASSUME NEW r \in Runs, ConnectionLost(r) PROVE Bounds'
  BY <1>24 DEF ConnectionLost, Transition, Goto
<1>25. ASSUME NEW r \in Runs, Cancel(r) PROVE Bounds'
  BY <1>25 DEF Cancel
<1>26. ASSUME NEW r \in Runs, Receive(r) PROVE Bounds'
  BY <1>26, TailBounded DEF Receive
<1>27. ASSUME NEW P \in Processes, Crash(P) PROVE Bounds'
  BY <1>27, ClearBounded, SMTT(20) DEF Crash
<1>28. ASSUME NEW id \in Deletable, DeleteRow(id) PROVE Bounds'
  BY <1>28 DEF DeleteRow, Delete, NoCp
<1>29. CASE UNCHANGED vars
  BY <1>29 DEF vars
<1> QED
  BY <1>1, <1>2, <1>3, <1>4, <1>5, <1>6, <1>7, <1>8, <1>9, <1>10, <1>11, <1>12, <1>13, <1>14, <1>15, <1>16, <1>17, <1>18, <1>19, <1>20, <1>21, <1>22, <1>23, <1>24, <1>25, <1>26, <1>27, <1>28, <1>29
  DEF Next, Step, Failure

(* At first nothing has an offset. *)
LEMMA InitBounded == Init => TypeOK /\ Bounds
BY InitType, DumpsAssumption
   DEF Init, Bounds, RowBounds, RunBounds, EmptyStore, NoCp, End, Dump, Idle,
       TypeOK, Configs, DumpsAssumption

(* Every reachable state is typed and keeps its offsets inside the dumps.  *)
LEMMA TypedAndBounded == Spec => [](TypeOK /\ Bounds)
<1>1. Init => TypeOK /\ Bounds
  BY InitBounded
<1>2. TypeOK /\ Bounds /\ [Next]_vars => (TypeOK /\ Bounds)'
  BY TypeStep, BoundsStep
<1> QED BY <1>1, <1>2, PTL DEF Spec

(* Every variable keeps its type: the batch counters, the offsets and the  *)
(* rows of the store are what the code's struct fields can hold.           *)
THEOREM Typed == Spec => []TypeOK
BY TypedAndBounded, PTL

(* No byte offset in a row, in an executor or in an event passes the end   *)
(* of its dump, for any number of runs of any dumps, crashing and failing  *)
(* at any point: ByteOffset * 100 / DumpSizeBytes stays at 100 or less.    *)
THEOREM OffsetsStayBounded == Spec => []OffsetsBounded
<1>1. TypeOK /\ Bounds => OffsetsBounded
  BY DEF Bounds, RowBounds, RunBounds, OffsetsBounded
<1> QED BY <1>1, TypedAndBounded, PTL

------------------------------------------------------------------------------
(* Who changes what *)

(* What a run does once it is started. *)
Acts(r) == Step(r) \/ Failure(r) \/ Cancel(r) \/ Receive(r)

Same(q) ==
  /\ pc'[q] = pc[q] /\ cfg'[q] = cfg[q] /\ byteOff'[q] = byteOff[q] /\ pos'[q] = pos[q]
  /\ cur'[q] = cur[q] /\ session'[q] = session[q] /\ committed'[q] = committed[q]
  /\ events'[q] = events[q] /\ heard'[q] = heard[q]

(* A run's own locals are nobody else's. *)
LEMMA Bystanders ==
  ASSUME TypeOK, NEW r \in Runs, Start(r) \/ Acts(r), NEW q \in Runs, q # r
  PROVE  Same(q)
<1> USE DEF TypeOK, Same, Goto, durable, progress, target, channel, env
<1>1. CASE Start(r)
  BY <1>1 DEF Start
<1>2. CASE Open(r) \/ Connect(r) \/ Resume(r) \/ TellResume(r) \/ Seek(r) \/ SaveInitial(r)
  BY <1>2 DEF Open, Connect, Resume, TellResume, Seek, SaveInitial, Send, Transition
<1>3. CASE Deliver(r) \/ DryRun(r) \/ RefuseCancelled(r)
  BY <1>3 DEF Deliver, DryRun, RefuseCancelled, Split, Account
<1>4. CASE ExecOk(r)
  <2>1. committed'[q] = committed[q]
    BY <1>4 DEF ExecOk, TakeEffect
  <2> QED BY <1>4, <2>1 DEF ExecOk, Account
<1>5. CASE ExecRefused(r) \/ SaveBatch(r) \/ TellBatch(r) \/ TellError(r)
  BY <1>5 DEF ExecRefused, SaveBatch, TellBatch, TellError, Send, Transition
<1>6. CASE EndOfDump(r) \/ SaveFinal(r) \/ Verify(r)
  BY <1>6 DEF EndOfDump, SaveFinal, Verify, Transition
<1>7. CASE TellDone(r) \/ TellFail(r)
  BY <1>7 DEF TellDone, TellFail, Send, Finish, ClearLocals
<1>8. CASE CallFails(r) \/ SaveBatchFails(r) \/ ExecFails(r)
  BY <1>8 DEF CallFails, SaveBatchFails, ExecFails, Transition
<1>9. CASE ConnectionLost(r)
  <2>1. committed'[q] = committed[q]
    BY <1>9 DEF ConnectionLost, TakeEffect
  <2> QED BY <1>9, <2>1 DEF ConnectionLost, Transition
<1>10. CASE Cancel(r) \/ Receive(r)
  BY <1>10 DEF Cancel, Receive
<1> HIDE DEF TypeOK, Same
<1> QED BY <1>1, <1>2, <1>3, <1>4, <1>5, <1>6, <1>7, <1>8, <1>9, <1>10 DEF Acts, Step, Failure

(* A run keeps its configuration, and one that is over or about to be      *)
(* writes nothing any more.                                                *)
LEMMA ActsInPlace ==
  ASSUME TypeOK, NEW r \in Runs, Acts(r)
  PROVE  cfg' = cfg /\ (Live(r) \/ (UNCHANGED durable /\ ~Live(r)'))
<1>1. cfg' = cfg
  BY DEF Acts, Step, Failure, Open, Connect, Resume, TellResume, Seek, SaveInitial,
     Deliver, DryRun, RefuseCancelled, ExecOk, ExecRefused, SaveBatch, TellBatch, TellError,
     EndOfDump, SaveFinal, Verify, TellDone, TellFail, CallFails, SaveBatchFails, ExecFails,
     ConnectionLost, Cancel, Receive
<1>2. Live(r) \/ Receive(r) \/ Cancel(r) \/ TellFail(r)
  BY DEF Acts, Live, Idle, Transition, Step, Failure, Open, Connect, Resume, TellResume, Seek,
     SaveInitial, Deliver, DryRun, RefuseCancelled, Split, ExecOk, ExecRefused, SaveBatch, TellBatch,
     TellError, EndOfDump, SaveFinal, Verify, TellDone, TellFail, CallFails, FailingCalls,
     SaveBatchFails, ExecFails, ConnectionLost, Cancel
<1>3. CASE Receive(r) \/ Cancel(r)
  BY <1>1, <1>3 DEF Receive, Cancel, Live
<1>4. CASE TellFail(r)
  BY <1>1, <1>4 DEF TellFail, Finish, Goto, Transition, TypeOK, Live, Idle
<1> QED BY <1>1, <1>2, <1>3, <1>4

(* Starting a run and reading its events change nothing that lasts. *)
LEMMA IdleQuiet ==
  ASSUME NEW r \in Runs, Start(r) \/ Receive(r)
  PROVE  UNCHANGED durable
BY DEF Start, Receive

(* What a save leaves in the table: its own row with the offset it gave    *)
(* and the DSN the row had, if there was one, and every other row.         *)
LEMMA SaveWrites ==
  ASSUME TypeOK, NEW r \in Runs, NEW off \in Nat, NEW m, NEW dsn, Save(r, off, m, dsn)
  PROVE  LET own == Ident[Dump(r)] IN
         /\ own \in Idents /\ store'[own] # NoCp /\ store'[own].off = off
         /\ store'[own].dsn = IF store[own] = NoCp THEN dsn ELSE store[own].dsn
         /\ \A id \in Idents : id # own => store'[id] = store[id]
<1>1. Dump(r) \in Dumps /\ Ident[Dump(r)] \in Idents
  BY DumpsAssumption DEF TypeOK, Dump, Configs, DumpsAssumption
<1>2. store' = Upsert(store, Ident[Dump(r)], off, m, dsn) /\ DOMAIN store = Idents
  BY DEF Save, TypeOK
<1> QED BY <1>1, <1>2 DEF Upsert, NoCp

(* Runs of other dumps, by identity, leave a dump's row and its data alone. *)
LEMMA OtherDumps ==
  ASSUME TypeOK, NEW r \in Runs, Start(r) \/ Acts(r),
         NEW d \in Dumps, Ident[Dump(r)] # Ident[d]
  PROVE  /\ store'[Ident[d]] = store[Ident[d]]
         /\ \A t \in Targets : applied'[t][d] = applied[t][d]
<1> DEFINE Kept == /\ store'[Ident[d]] = store[Ident[d]]
                   /\ \A t \in Targets : applied'[t][d] = applied[t][d]
<1>1. Ident[d] \in Idents /\ Dump(r) \in Dumps /\ Dump(r) # d
  BY DumpsAssumption DEF TypeOK, Dump, Configs, DumpsAssumption
<1>2. CASE UNCHANGED durable
  BY <1>2 DEF durable
<1>3. ASSUME NEW m, NEW dsn, Save(r, byteOff[r], m, dsn) PROVE Kept
  BY <1>1, <1>3, SaveWrites DEF TypeOK, Save
<1>4. ASSUME NEW v, store' = store, applied' = [applied EXCEPT ![Dsn(r)][Dump(r)] = v]
      PROVE  Kept
  BY <1>1, <1>4 DEF TypeOK
<1>5. CASE store' = store /\ TakeEffect(r)
  BY <1>2, <1>4, <1>5 DEF TakeEffect, durable
<1>6. CASE EndOfDump(r)
  BY <1>2, <1>4, <1>6 DEF EndOfDump, durable
<1>7. CASE ConnectionLost(r)
  BY <1>2, <1>5, <1>7 DEF ConnectionLost, durable
<1>8. CASE ExecOk(r)
  BY <1>5, <1>8 DEF ExecOk
<1>9. CASE SaveInitial(r) \/ SaveBatch(r) \/ SaveFinal(r)
  BY <1>3, <1>9 DEF SaveInitial, SaveBatch, SaveFinal
<1>10. ASSUME Start(r) \/ Acts(r), ~UNCHANGED durable
       PROVE  EndOfDump(r) \/ ConnectionLost(r) \/ ExecOk(r)
              \/ SaveInitial(r) \/ SaveBatch(r) \/ SaveFinal(r)
  BY <1>10 DEF durable, Acts, Step, Failure, Start, Open, Connect, Resume, TellResume, Seek, Deliver,
     DryRun, RefuseCancelled, ExecRefused, TellBatch, TellError, Verify, TellDone, TellFail,
     CallFails, SaveBatchFails, ExecFails, Cancel, Receive
<1> HIDE DEF Kept
<1> QED
  BY <1>2, <1>6, <1>7, <1>8, <1>9, <1>10 DEF Kept

------------------------------------------------------------------------------
(* No row moves back *)

(* What a save leaves in the row of its run. *)
LEMMA SaveRow ==
  ASSUME TypeOK, NEW r \in Runs, NEW m, NEW dsn, Save(r, byteOff[r], m, dsn), cfg' = cfg
  PROVE  Row(r)' # NoCp /\ Row(r)'.off = byteOff[r]
<1>1. byteOff[r] \in Nat BY DEF TypeOK
<1>2. Row(r)' = store'[Ident[Dump(r)]] BY DEF Row, Get, Dump
<1> QED BY <1>1, <1>2, SaveWrites

(* A run that goes on stays ahead of its row. *)
LEMMA OwnAhead ==
  ASSUME TypeOK, Bounds, NEW r \in Runs, Ahead(r), Acts(r)
  PROVE  Ahead(r)'
<1>1. /\ cfg' = cfg /\ RunBounds(r)
      /\ byteOff[r] \in Nat /\ End(r) \in Nat /\ Row(r).off \in Int /\ Row(r).off <= End(r)
      /\ (Row(r) = NoCp \/ Row(r).off \in Nat) /\ NoCp.off = -1
  <2>1. Dump(r) \in Dumps /\ Ident[Dump(r)] \in Idents /\ End(r) \in Nat
    BY DumpsAssumption DEF TypeOK, Dump, Configs, End, DumpsAssumption
  <2>2. Row(r) \in Rows \cup {NoCp} /\ Row(r).off <= End(r)
    BY <2>1 DEF TypeOK, Row, Get, Bounds, RowBounds, End
  <2>3. cfg' = cfg /\ RunBounds(r) BY ActsInPlace DEF Bounds
  <2>4. byteOff[r] \in Nat BY DEF TypeOK
  <2> QED BY <2>1, <2>2, <2>3, <2>4 DEF Rows, NoCp
<1>2. End(r)' = End(r) /\ Dump(r)' = Dump(r) /\ (store' = store => Row(r)' = Row(r))
  BY <1>1 DEF End, Dump, Row, Get
<1> USE DEF Ahead, Streaming, Finishing, Goto, Transition
<1>3. ASSUME store' = store, byteOff' = byteOff, NEW to, Goto(r, to),
             \/ to \in {"open", "connect", "resume", "tellError", "fail", "ended"}
             \/ /\ pc[r] \in {"tellResume", "seek"} \cup Streaming
                /\ to \in {"seek"} \cup Streaming
             \/ pc[r] = "verify" /\ to = "tellDone"
      PROVE  Ahead(r)'
  BY <1>1, <1>2, <1>3 DEF TypeOK
<1>4. CASE Open(r) \/ Connect(r) \/ ExecRefused(r) \/ TellError(r) \/ Verify(r)
           \/ CallFails(r) \/ SaveBatchFails(r) \/ ExecFails(r)
  BY <1>3, <1>4 DEF Open, Connect, ExecRefused, TellError, Verify, CallFails, SaveBatchFails,
     ExecFails, durable, progress
<1>5. CASE TellResume(r) \/ Seek(r) \/ TellBatch(r) \/ ConnectionLost(r)
  BY <1>3, <1>5 DEF TellResume, Seek, TellBatch, ConnectionLost, durable, progress
<1>6. CASE Deliver(r) \/ RefuseCancelled(r)
  BY <1>3, <1>6 DEF Deliver, RefuseCancelled, Split, durable
<1>7. CASE Resume(r)
  <2>1. CASE Row(r) = NoCp
    BY <1>1, <1>2, <1>7, <2>1 DEF Resume, durable, TypeOK
  <2>2. CASE Row(r) # NoCp
    BY <1>1, <1>2, <1>7, <2>2 DEF Resume, durable, TypeOK
  <2> QED BY <2>1, <2>2
<1>8. ASSUME store' = store, NEW len \in Nat, byteOff'[r] = byteOff[r] + len,
             pc[r] \in {"split", "exec"}, pc'[r] \in {"checkpoint", "split"}
      PROVE  Ahead(r)'
  BY <1>1, <1>2, <1>8
<1>9. CASE DryRun(r)
  <2>1. PICK c \in Cuts[Dump(r)][pos[r]][mode[r]] : Split(r, c) /\ Account(r, c)
    BY <1>9 DEF DryRun
  <2>2. c.len \in Nat
    BY <2>1, SplitType DEF Cut
  <2>3. pc[r] = "split" /\ store' = store
    BY <1>9, <2>1 DEF Split, DryRun, durable
  <2>4. byteOff'[r] = byteOff[r] + c.len /\ pc'[r] \in {"checkpoint", "split"}
    BY <2>1 DEF Account, TypeOK
  <2> QED BY <1>8, <2>2, <2>3, <2>4
<1>10. CASE ExecOk(r)
  <2>1. cur[r].len \in Nat /\ pc[r] = "exec" /\ store' = store
    BY <1>10 DEF ExecOk, TypeOK, Cut
  <2>2. byteOff'[r] = byteOff[r] + cur[r].len /\ pc'[r] \in {"checkpoint", "split"}
    BY <1>10 DEF ExecOk, Account, TypeOK
  <2> QED BY <1>8, <2>1, <2>2
<1>11. CASE SaveInitial(r) \/ SaveBatch(r)
  <2>1. PICK m, dsn : Save(r, byteOff[r], m, dsn)
    BY <1>11 DEF SaveInitial, SaveBatch
  <2>2. Row(r)'.off = byteOff[r] BY <1>1, <2>1, SaveRow
  <2>3. byteOff' = byteOff /\ pc'[r] \in {"split", "tellBatch"}
    BY <1>11 DEF SaveInitial, SaveBatch, progress, TypeOK
  <2> QED BY <1>1, <1>2, <2>2, <2>3
<1>12. CASE SaveFinal(r)
  <2>1. PICK m, dsn : Save(r, byteOff[r], m, dsn)
    BY <1>12 DEF SaveFinal
  <2>2. Row(r)'.off = byteOff[r] BY <1>1, <2>1, SaveRow
  <2>3. byteOff' = byteOff /\ pc'[r] \in {"verify", "tellDone"} /\ pc[r] = "final"
    BY <1>12 DEF SaveFinal, progress, TypeOK
  <2> QED BY <1>1, <1>2, <2>2, <2>3
<1>13. CASE EndOfDump(r)
  BY <1>1, <1>2, <1>13 DEF EndOfDump, TypeOK
<1>14. CASE TellDone(r) \/ TellFail(r)
  BY <1>14 DEF TellDone, TellFail, Finish, TypeOK
<1>15. CASE Cancel(r) \/ Receive(r)
  BY <1>1, <1>2, <1>15 DEF Cancel, Receive, durable, progress
<1> QED BY <1>4, <1>5, <1>6, <1>7, <1>9, <1>10, <1>11, <1>12, <1>13, <1>14, <1>15
      DEF Acts, Step, Failure

(* So does every run of an identity of which one at a time is alive.       *)
LEMMA AheadStep ==
  ASSUME TypeOK, Bounds, NEW id \in Idents, AloneOn(id), AheadOn(id), [Next]_vars
  PROVE  AheadOn(id)'
<1> SUFFICES ASSUME NEW q \in Runs, Live(q)', Ident[Dump(q)]' = id PROVE Ahead(q)'
  BY DEF AheadOn
<1>0. ASSUME Same(q), store'[id] = store[id] PROVE Ahead(q)'
  <2>1. /\ Live(q) /\ Ident[Dump(q)] = id
        /\ Dump(q)' = Dump(q) /\ End(q)' = End(q) /\ Row(q)' = Row(q)
    BY <1>0 DEF Same, Live, Dump, End, Row, Get
  <2>2. Ahead(q) BY <2>1 DEF AheadOn
  <2> QED BY <1>0, <2>1, <2>2 DEF Ahead, Same
<1>1. ASSUME NEW r \in Runs, Start(r) \/ Acts(r) PROVE Ahead(q)'
  <2>1. CASE q = r
    <3>1. CASE Start(r)
      BY <2>1, <3>1 DEF Start, Goto, TypeOK, Ahead, Streaming, Finishing
    <3>2. CASE Acts(r)
      <4>1. Live(r)
        BY <2>1, <3>2, ActsInPlace
      <4>2. Ident[Dump(r)] = id
        BY <2>1, <3>2, ActsInPlace DEF Dump
      <4>3. Ahead(r) BY <4>1, <4>2 DEF AheadOn
      <4> QED BY <2>1, <3>2, <4>3, OwnAhead
    <3> QED BY <1>1, <3>1, <3>2
  <2>2. CASE q # r
    <3>1. Same(q) BY <1>1, <2>2, Bystanders
    <3>2. Live(q) /\ Ident[Dump(q)] = id
      BY <3>1 DEF Same, Live, Dump
    <3>3. store'[id] = store[id]
      <4>1. CASE Live(r)
        <5>1. Ident[Dump(r)] # Ident[Dump(q)]
          BY <2>2, <3>2, <4>1 DEF AloneOn
        <5>2. Dump(q) \in Dumps BY DEF TypeOK, Dump, Configs
        <5> QED BY <1>1, <3>2, <5>1, <5>2, OtherDumps
      <4>2. CASE ~Live(r)
        BY <1>1, <4>2, ActsInPlace, IdleQuiet DEF durable
      <4> QED BY <4>1, <4>2
    <3> QED BY <1>0, <3>1, <3>3
  <2> QED BY <2>1, <2>2
<1>2. ASSUME NEW P \in Processes, Crash(P) PROVE Ahead(q)'
  <2>1. q \notin P BY <1>2 DEF Crash, Live, Idle
  <2> QED BY <1>0, <1>2, <2>1 DEF Crash, ClearLocals, Same, durable
<1>3. ASSUME NEW del \in Deletable, DeleteRow(del) PROVE Ahead(q)'
  <2>1. Same(q) BY <1>3 DEF DeleteRow, Same, progress, target, channel
  <2>2. CASE del # id
    BY <1>0, <1>3, <2>1, <2>2 DEF DeleteRow, Delete, TypeOK
  <2>3. CASE del = id
    <3>1. Live(q) /\ Ident[Dump(q)] = id /\ Dump(q)' = Dump(q) /\ End(q)' = End(q)
      BY <2>1 DEF Same, Live, Dump, End
    <3>2. Ahead(q) BY <3>1 DEF AheadOn
    <3>3. Row(q)'.off = -1
      BY <1>3, <2>3, <3>1 DEF DeleteRow, Delete, TypeOK, Row, Get, NoCp
    <3>4. byteOff'[q] \in Nat BY <2>1 DEF Same, TypeOK
    <3> QED BY <2>1, <2>3, <3>1, <3>2, <3>3, <3>4 DEF Ahead, Same
  <2> QED BY <2>2, <2>3
<1>4. CASE UNCHANGED vars
  BY <1>0, <1>4 DEF vars, Same, durable, progress, target, channel
<1> QED BY <1>1, <1>2, <1>3, <1>4 DEF Next, Acts

(* Nobody is ahead of nothing. *)
LEMMA AheadInit == ASSUME Init, NEW id \in Idents PROVE AheadOn(id)
BY DEF Init, AheadOn, Live, Idle

(* Only three calls of Upsert and the Home screen's Delete change a row.   *)
LEMMA WhoWrites ==
  ASSUME TypeOK, [Next]_vars
  PROVE  \/ store' = store
         \/ \E r \in Runs : SaveInitial(r) \/ SaveBatch(r) \/ SaveFinal(r)
         \/ \E id \in Deletable : DeleteRow(id)
<1>1. ASSUME NEW r \in Runs, Step(r)
      PROVE  store' = store \/ SaveInitial(r) \/ SaveBatch(r) \/ SaveFinal(r)
  BY <1>1 DEF Step, durable, Open, Connect, Resume, TellResume, Seek, Deliver,
       DryRun, RefuseCancelled, ExecOk, ExecRefused, TellBatch, TellError,
       EndOfDump, Verify, TellDone, TellFail
<1>2. ASSUME NEW r \in Runs, Start(r) \/ Failure(r) \/ Cancel(r) \/ Receive(r)
      PROVE  store' = store
  BY <1>2 DEF Start, Failure, CallFails, SaveBatchFails, ExecFails,
       ConnectionLost, Cancel, Receive, durable
<1>3. ASSUME NEW P \in Processes, Crash(P) PROVE store' = store
  BY <1>3 DEF Crash, durable
<1>4. UNCHANGED vars => store' = store
  BY DEF vars, durable
<1> QED BY <1>1, <1>2, <1>3, <1>4 DEF Next

(* No step moves back the offset of a row whose runs are ahead of it.      *)
LEMMA OffsetStep ==
  ASSUME TypeOK, Bounds, NEW id \in Idents, AheadOn(id), [Next]_vars,
         store[id] # NoCp, store'[id] # NoCp
  PROVE  store[id].off <= store'[id].off
<1>0. store[id].off \in Nat
  BY DEF TypeOK, Rows
<1>1. CASE store' = store
  BY <1>0, <1>1
<1>2. ASSUME NEW r \in Runs, SaveInitial(r) \/ SaveBatch(r) \/ SaveFinal(r)
      PROVE  store[id].off <= store'[id].off
  <2>1. /\ Dump(r) \in Dumps /\ Row(r) = store[Ident[Dump(r)]]
        /\ byteOff[r] \in Nat
    BY DEF TypeOK, Dump, Configs, Row, Get
  <2>2. PICK m, dsn : Save(r, byteOff[r], m, dsn)
    BY <1>2 DEF SaveInitial, SaveBatch, SaveFinal
  <2>3. CASE Ident[Dump(r)] # id
    BY <1>0, <2>1, <2>2, <2>3, SaveWrites
  <2>4. CASE Ident[Dump(r)] = id
    <3>1. store'[id].off = byteOff[r]
      BY <2>1, <2>2, <2>4, SaveWrites
    <3>2. pc[r] \in {"initial", "checkpoint", "final"}
      BY <1>2 DEF SaveInitial, SaveBatch, SaveFinal, Transition
    <3>3. Ahead(r)
      BY <2>4, <3>2 DEF AheadOn, Live, Idle
    <3>4. CASE pc[r] \in {"initial", "checkpoint"}
      BY <2>1, <2>4, <3>1, <3>3, <3>4 DEF Ahead, Streaming
    <3>5. CASE pc[r] = "final"
      <4>1. byteOff[r] = Size[Dump(r)]
        BY <3>3, <3>5 DEF Ahead, Finishing, End
      <4> QED BY <2>1, <2>4, <3>1, <4>1 DEF Bounds, RowBounds
    <3> QED BY <3>2, <3>4, <3>5
  <2> QED BY <2>3, <2>4
<1>3. ASSUME NEW del \in Deletable, DeleteRow(del)
      PROVE  store[id].off <= store'[id].off
  <2>1. store' = [store EXCEPT ![del] = NoCp] /\ DOMAIN store = Idents
    BY <1>3 DEF DeleteRow, Delete, TypeOK
  <2>2. id # del /\ store'[id] = store[id]
    BY <2>1
  <2> QED BY <1>0, <2>2
<1> QED BY <1>1, <1>2, <1>3, WhoWrites

(* All identities at once. *)
LEMMA AlwaysAhead ==
  Spec /\ []RunsApart => [](TypeOK /\ Bounds /\ AllAhead)
<1>1. Init => AllAhead
  BY AheadInit DEF AllAhead
<1>2. TypeOK /\ Bounds /\ RunsApart /\ AllAhead /\ [Next]_vars => AllAhead'
  BY AheadStep DEF RunsApart, AllAhead
<1> QED BY <1>1, <1>2, TypedAndBounded, PTL DEF Spec

(* As long as no two runs restore one identity at the same time, a dump's  *)
(* resume point never moves back while its row exists, through crashes,    *)
(* failed statements, cancellations and runs that resume at it, whatever   *)
(* the dumps contain and wherever they are sent.                           *)
THEOREM OffsetsNeverMoveBack == Spec /\ []RunsApart => OffsetMonotone
<1> DEFINE Grow == \A id \in Idents :
       store[id] # NoCp /\ store'[id] # NoCp => store[id].off <= store'[id].off
<1>1. TypeOK /\ Bounds /\ AllAhead /\ [Next]_vars => [Grow]_vars
  BY OffsetStep DEF AllAhead
<1> QED BY <1>1, AlwaysAhead, PTL DEF Spec, OffsetMonotone

------------------------------------------------------------------------------
(* No row claims what is not on the server *)

(* What there is to say of a run that streams to its target. *)
Own(r) ==
  /\ Row(r) # NoCp => Row(r).off <= Held(r)
  /\ Held(r) <= End(r)
  /\ Ordered(r)

(* A statement that takes effect extends the prefix the target holds to   *)
(* the splitter's position.                                                *)
LEMMA EffectHeld ==
  ASSUME TypeOK, Bounds, NEW r \in Runs, Dsn(r) \in Targets, Own(r),
         pc[r] = "exec", TakeEffect(r), cfg' = cfg
  PROVE  /\ committed'[r] = pos[r] /\ pos[r] <= Held(r)' /\ Held(r)' <= End(r)
<1> DEFINE v == Extend(Held(r), committed[r], pos[r], cur[r].kind)
<1>1. /\ Dump(r) \in Dumps /\ Held(r) \in Nat /\ committed[r] \in Nat /\ pos[r] \in Nat
  BY DEF TypeOK, Dump, Configs, Held
<1>2. /\ committed[r] <= Held(r) /\ committed[r] <= pos[r] /\ pos[r] <= End(r)
      /\ Held(r) <= End(r) /\ session[r].auto
  BY DEF Own, Ordered, Streaming, Serving, Bounds, RunBounds
<1>3. pos[r] <= v /\ v <= End(r)
  BY <1>1, <1>2 DEF Extend
<1>4. applied' = [applied EXCEPT ![Dsn(r)][Dump(r)] = v] /\ committed'[r] = pos[r]
  BY <1>1, <1>2 DEF TakeEffect, Commits, Held, TypeOK
<1> HIDE DEF v
<1>5. Held(r)' = v
  BY <1>1, <1>4 DEF TypeOK, Held, Dump, Dsn
<1> QED BY <1>3, <1>4, <1>5

(* Every step of a run keeps its offsets in order: row, executor, session, *)
(* target, file position.                                                  *)
LEMMA OwnStep ==
  ASSUME TypeOK, Bounds, NEW r \in Runs, Live(r), Dsn(r) \in Targets, PlainDump(Dump(r)),
         Ahead(r), Own(r), Acts(r)
  PROVE  Own(r)'
<1>1. /\ cfg' = cfg /\ RunBounds(r) /\ Dump(r) \in Dumps /\ Dsn(r) # NoDsn
      /\ Held(r) \in Nat /\ committed[r] \in Nat /\ pos[r] \in Nat
      /\ byteOff[r] \in Nat /\ End(r) \in Nat
      /\ Row(r) \in Rows \cup {NoCp} /\ Row(r).off \in Int /\ NoCp.off = -1
  <2>1. Dump(r) \in Dumps /\ Ident[Dump(r)] \in Idents /\ End(r) \in Nat
    BY DumpsAssumption DEF TypeOK, Dump, Configs, End, DumpsAssumption
  <2>2. Row(r) \in Rows \cup {NoCp}
    BY <2>1 DEF TypeOK, Row, Get
  <2>3. cfg' = cfg /\ RunBounds(r) BY ActsInPlace DEF Bounds
  <2>4. committed[r] \in Nat /\ pos[r] \in Nat /\ byteOff[r] \in Nat BY DEF TypeOK
  <2>5. Held(r) \in Nat BY <2>1 DEF TypeOK, Held
  <2> QED BY <2>1, <2>2, <2>3, <2>4, <2>5 DEF Rows, NoCp, Targets
<1>2. /\ End(r)' = End(r) /\ Dump(r)' = Dump(r) /\ Dsn(r)' = Dsn(r)
      /\ store' = store => Row(r)' = Row(r)
      /\ applied' = applied => Held(r)' = Held(r)
  BY <1>1 DEF End, Dump, Dsn, Row, Get, Held
<1>3. (Row(r) # NoCp => Row(r).off <= Held(r)) /\ Held(r) <= End(r) /\ Ordered(r)
  BY DEF Own
<1> USE DEF Ordered, Serving, Streaming, Finishing, Goto, Transition
<1>4. ASSUME UNCHANGED durable, Ordered(r)' PROVE Own(r)'
  BY <1>2, <1>3, <1>4 DEF Own, durable
<1>5. ASSUME UNCHANGED <<durable, byteOff, session, committed, cur, pos>>, NEW to, Goto(r, to),
             \/ to \in {"tellError", "fail"}
             \/ pc[r] = "open" /\ to = "connect"
             \/ pc[r] = "tellResume" /\ to = "seek"
             \/ pc[r] = "tellBatch" /\ to = "split"
             \/ pc[r] = "verify" /\ to = "tellDone"
             \/ to = pc[r]
      PROVE  Own(r)'
  BY <1>1, <1>2, <1>3, <1>4, <1>5 DEF TypeOK, durable
<1>6. CASE Open(r)
  BY <1>1, <1>5, <1>6 DEF Open, progress, target
<1>7. CASE ExecRefused(r) \/ TellError(r) \/ Verify(r) \/ CallFails(r) \/ SaveBatchFails(r)
           \/ ExecFails(r)
  BY <1>5, <1>7 DEF ExecRefused, TellError, Verify, CallFails, SaveBatchFails, ExecFails,
     progress, target
<1>8. CASE TellResume(r) \/ TellBatch(r)
  BY <1>5, <1>8 DEF TellResume, TellBatch, progress, target
<1>9. CASE Cancel(r) \/ Receive(r)
  <2>1. UNCHANGED <<durable, byteOff, session, committed, cur, pos, pc>>
    BY <1>9 DEF Cancel, Receive, progress, target
  <2> QED BY <1>2, <1>3, <1>4, <2>1 DEF durable
<1>10. CASE Connect(r)
  BY <1>2, <1>3, <1>4, <1>10 DEF Connect, NewSession, NoSession, durable, progress, TypeOK
<1>11. CASE Resume(r)
  <2>1. UNCHANGED <<durable, session>> /\ pc[r] = "resume"
    BY <1>11 DEF Resume, target
  <2>2. CASE Row(r) = NoCp
    BY <1>2, <1>3, <1>4, <1>11, <2>1, <2>2, <1>1 DEF Resume, durable, TypeOK
  <2>3. CASE Row(r) # NoCp
    BY <1>2, <1>3, <1>4, <1>11, <2>1, <2>3, <1>1 DEF Resume, durable, TypeOK
  <2> QED BY <2>2, <2>3
<1>12. CASE Seek(r)
  BY <1>1, <1>2, <1>3, <1>4, <1>12 DEF Seek, durable, TypeOK
<1>13. ASSUME NEW m, NEW dsn, Save(r, byteOff[r], m, dsn), byteOff[r] <= Held(r), Ordered(r)'
       PROVE  Own(r)'
  <2>1. Row(r)'.off = byteOff[r] /\ applied' = applied
    BY <1>1, <1>13, SaveRow DEF Save
  <2> QED BY <1>2, <1>3, <1>13, <2>1 DEF Own
<1>14. CASE SaveInitial(r) \/ SaveBatch(r)
  <2>1. PICK m, dsn : Save(r, byteOff[r], m, dsn)
    BY <1>14 DEF SaveInitial, SaveBatch
  <2>2. /\ UNCHANGED <<applied, session, byteOff, committed, pos, cur>>
        /\ pc[r] \in {"initial", "checkpoint"} /\ pc'[r] \in {"split", "tellBatch"}
    BY <1>14, <2>1 DEF SaveInitial, SaveBatch, Save, progress, target, TypeOK
  <2>3. byteOff[r] <= Held(r)
    BY <1>1, <1>3, <2>2
  <2>4. Ordered(r)'
    BY <1>2, <1>3, <2>2
  <2> QED BY <1>13, <2>1, <2>3, <2>4
<1>15. CASE SaveFinal(r)
  <2>1. PICK m, dsn : Save(r, byteOff[r], m, dsn)
    BY <1>15 DEF SaveFinal
  <2>2. /\ UNCHANGED <<applied, session, byteOff, committed, pos, cur>>
        /\ pc[r] = "final" /\ pc'[r] \in {"verify", "tellDone"}
    BY <1>15, <2>1 DEF SaveFinal, Save, progress, target, TypeOK
  <2>3. byteOff[r] <= Held(r)
    BY <1>3, <2>2 DEF RunBounds, Ahead
  <2>4. Ordered(r)'
    BY <1>2, <1>3, <2>2
  <2> QED BY <1>13, <2>1, <2>3, <2>4
<1>16. CASE Deliver(r)
  <2>1. PICK c \in Cuts[Dump(r)][pos[r]][mode[r]] :
          Split(r, c) /\ cur' = [cur EXCEPT ![r] = c] /\ Goto(r, "exec")
    BY <1>16 DEF Deliver
  <2>2. c.kind # "begin"
    <3>1. mode[r] \in Modes /\ pos[r] \in 0..Size[Dump(r)]
      BY <1>1 DEF TypeOK, RunBounds, End
    <3> QED BY <3>1 DEF PlainDump
  <2>3. pos[r] < c.next /\ c.next \in Nat
    BY <2>1, SplitType DEF Cut
  <2>4. /\ pc[r] = "split" /\ pc'[r] = "exec" /\ pos'[r] = c.next /\ cur'[r] = c
        /\ UNCHANGED <<durable, session, byteOff, committed>>
    BY <1>16, <2>1 DEF Deliver, Split, target, TypeOK
  <2> QED BY <1>1, <1>2, <1>3, <1>4, <2>2, <2>3, <2>4 DEF durable
<1>17. CASE DryRun(r)
  BY <1>3, <1>17 DEF DryRun, Split, Connected
<1>18. CASE RefuseCancelled(r)
  BY <1>4, <1>18 DEF RefuseCancelled, TypeOK
<1>19. CASE ExecOk(r)
  <2>1. TakeEffect(r) /\ Account(r, cur[r]) /\ pc[r] = "exec" /\ store' = store
    BY <1>19 DEF ExecOk
  <2>2. committed'[r] = pos[r] /\ pos[r] <= Held(r)' /\ Held(r)' <= End(r)
    BY <1>1, <2>1, EffectHeld
  <2>3. /\ byteOff'[r] = byteOff[r] + cur[r].len /\ byteOff[r] + cur[r].len <= pos[r]
        /\ pc'[r] \in {"checkpoint", "split"} /\ pos'[r] = pos[r]
    BY <1>1, <1>19, <2>1 DEF ExecOk, Account, RunBounds, TypeOK
  <2>4. session'[r].open /\ session'[r].auto
    BY <1>3, <1>19, <2>1 DEF ExecOk, NextSession, TypeOK, Sessions
  <2>5. Held(r)' \in Nat
    <3>1. applied' \in [Targets -> [Dumps -> Nat]]
      BY <2>1, EffectType
    <3> QED BY <1>1, <1>2, <3>1 DEF Held
  <2>6. Row(r).off <= Held(r)'
    <3>1. Row(r).off <= byteOff[r] /\ byteOff[r] <= pos[r]
      BY <1>1, <1>3, <2>1 DEF Ahead
    <3> QED BY <1>1, <2>2, <2>5, <3>1
  <2> QED BY <1>1, <1>2, <2>1, <2>2, <2>3, <2>4, <2>5, <2>6 DEF Own
<1>20. CASE ConnectionLost(r)
  <2>1. pc[r] = "exec" /\ pc'[r] = "tellError" /\ store' = store
    BY <1>20 DEF ConnectionLost, TypeOK
  <2>2. CASE UNCHANGED <<applied, committed>>
    BY <1>4, <2>1, <2>2 DEF durable
  <2>3. CASE TakeEffect(r)
    <3>1. pos[r] <= Held(r)' /\ Held(r)' <= End(r)
      BY <1>1, <2>1, <2>3, EffectHeld
    <3>2. Held(r)' \in Nat
      <4>1. applied' \in [Targets -> [Dumps -> Nat]]
        BY <2>3, EffectType
      <4> QED BY <1>1, <1>2, <4>1 DEF Held
    <3>3. Row(r).off <= Held(r)'
      <4>1. Row(r).off <= byteOff[r] /\ byteOff[r] <= pos[r]
        BY <1>1, <1>3, <2>1 DEF Ahead
      <4> QED BY <1>1, <3>1, <3>2, <4>1
    <3> QED BY <1>2, <2>1, <3>1, <3>3 DEF Own
  <2> QED BY <1>20, <2>2, <2>3 DEF ConnectionLost
<1>21. CASE EndOfDump(r)
  <2>1. committed[r] = pos[r] /\ Connected(r) /\ committed[r] <= Held(r)
    BY <1>3, <1>21 DEF EndOfDump, Connected
  <2>2. applied' = [applied EXCEPT ![Dsn(r)][Dump(r)] = End(r)]
    BY <1>1, <1>3, <1>21, <2>1 DEF EndOfDump, Extend, Held
  <2>3. Held(r)' = End(r)
    BY <1>1, <2>2 DEF Held, Dump, Dsn, TypeOK
  <2>4. Row(r).off <= End(r)
    BY <1>1 DEF Bounds, RowBounds, Row, Get, End
  <2>5. /\ store' = store /\ session' = session /\ pc[r] = "split" /\ pc'[r] = "final"
    BY <1>21 DEF EndOfDump, target, TypeOK
  <2> QED BY <1>1, <1>2, <1>3, <2>3, <2>4, <2>5 DEF Own
<1>22. CASE TellDone(r) \/ TellFail(r)
  BY <1>4, <1>22 DEF TellDone, TellFail, Finish, TypeOK
<1> QED BY <1>6, <1>7, <1>8, <1>9, <1>10, <1>11, <1>12, <1>14, <1>15, <1>16, <1>17, <1>18, <1>19,
           <1>20, <1>21, <1>22
      DEF Acts, Step, Failure

(* What a run of another dump, a crash or a deletion leaves of it. *)
LEMMA CoveredStep ==
  ASSUME TypeOK, Bounds, NEW d \in Dumps, NEW t \in Targets, PlainDump(d),
         SoleRuns(d, t), AheadOn(Ident[d]), CoveredOn(d, t), [Next]_vars
  PROVE  CoveredOn(d, t)'
<1>0. /\ store[Ident[d]] # NoCp => store[Ident[d]].off <= applied[t][d]
      /\ applied[t][d] <= Size[d] /\ Ident[d] \in Idents
  BY DumpsAssumption DEF CoveredOn, DumpsAssumption
<1>1. ASSUME NEW q \in Runs, Live(q), Dump(q) = d
      PROVE  Ordered(q) /\ Dsn(q) = t
  BY <1>1 DEF CoveredOn, SoleRuns, SentTo
<1>2. ASSUME NEW q \in Runs, Same(q), applied'[t][d] = applied[t][d], Live(q)', Dump(q)' = d
      PROVE  Ordered(q)'
  <2>1. Live(q) /\ Dump(q) = d /\ Dsn(q)' = Dsn(q) /\ End(q)' = End(q) /\ Dump(q)' = Dump(q)
    BY <1>2 DEF Same, Live, Dump, Dsn, End
  <2>2. Ordered(q) /\ Dsn(q) = t BY <1>1, <2>1
  <2>3. Held(q)' = Held(q) BY <1>2, <2>1, <2>2 DEF Held
  <2> QED BY <1>2, <2>1, <2>2, <2>3 DEF Ordered, Same
<1>3. ASSUME NEW r \in Runs, Start(r) \/ Acts(r) PROVE CoveredOn(d, t)'
  <2>1. CASE Live(r) /\ Dump(r) = d
    <3>1. Acts(r) /\ cfg' = cfg
      BY <1>3, <2>1, ActsInPlace DEF Start, Live, Idle
    <3>2. /\ Row(r) = store[Ident[d]] /\ Held(r) = applied[t][d] /\ End(r) = Size[d]
          /\ Row(r)' = store'[Ident[d]] /\ Held(r)' = applied'[t][d] /\ End(r)' = Size[d]
          /\ Dsn(r) = t
      BY <1>1, <2>1, <3>1 DEF Row, Get, Held, End, Dump, Dsn
    <3>3. Own(r) /\ Ahead(r)
      BY <1>0, <1>1, <2>1, <3>2 DEF Own, AheadOn
    <3>4. Own(r)'
      BY <2>1, <3>1, <3>2, <3>3, OwnStep
    <3>5. ASSUME NEW q \in Runs, q # r, Live(q)', Dump(q)' = d PROVE FALSE
      <4>1. Same(q) BY <1>3, <3>5, Bystanders
      <4>2. Live(q) /\ Dump(q) = d BY <3>5, <4>1 DEF Same, Live, Dump
      <4> QED BY <2>1, <3>5, <4>2 DEF SoleRuns, AloneOn
    <3> QED BY <3>2, <3>4, <3>5 DEF Own, CoveredOn
  <2>2. CASE ~(Live(r) /\ Dump(r) = d)
    <3>1. store'[Ident[d]] = store[Ident[d]] /\ applied'[t][d] = applied[t][d]
      <4>1. CASE Live(r)
        <5>1. Ident[Dump(r)] # Ident[d]
          BY <2>2, <4>1 DEF PlainDump, TypeOK, Dump, Configs
        <5> QED BY <1>3, <5>1, OtherDumps
      <4>2. CASE ~Live(r)
        BY <1>3, <4>2, ActsInPlace, IdleQuiet DEF durable
      <4> QED BY <4>1, <4>2
    <3>2. ASSUME NEW q \in Runs, Live(q)', Dump(q)' = d PROVE Ordered(q)'
      <4>1. CASE q # r
        BY <1>2, <1>3, <3>1, <3>2, <4>1, Bystanders
      <4>2. CASE q = r /\ Start(r)
        <5>1. pc'[r] = "open" /\ byteOff'[r] = 0
          BY <4>2 DEF Start, Goto, progress, TypeOK, Bounds, RunBounds
        <5> QED BY <4>2, <5>1 DEF Ordered, Serving, Streaming, Finishing
      <4>3. CASE q = r /\ Acts(r)
        <5>1. ~Live(r)
          BY <2>2, <3>2, <4>3, ActsInPlace DEF Dump
        <5> QED BY <3>2, <4>3, <5>1, ActsInPlace
      <4> QED BY <1>3, <4>1, <4>2, <4>3
    <3> QED BY <1>0, <3>1, <3>2 DEF CoveredOn
  <2> QED BY <2>1, <2>2
<1>4. ASSUME NEW P \in Processes, Crash(P) PROVE CoveredOn(d, t)'
  <2>1. UNCHANGED durable BY <1>4 DEF Crash
  <2>2. ASSUME NEW q \in Runs, Live(q)', Dump(q)' = d PROVE Ordered(q)'
    <3>1. q \notin P BY <1>4, <2>2 DEF Crash, Live, Idle
    <3>2. Same(q) BY <1>4, <3>1 DEF Crash, ClearLocals, Same
    <3> QED BY <1>2, <2>1, <2>2, <3>2 DEF durable
  <2> QED BY <1>0, <2>1, <2>2 DEF CoveredOn, durable
<1>5. ASSUME NEW del \in Deletable, DeleteRow(del) PROVE CoveredOn(d, t)'
  <2>1. store'[Ident[d]] \in {store[Ident[d]], NoCp} /\ applied' = applied
    BY <1>0, <1>5 DEF DeleteRow, Delete, TypeOK
  <2>2. \A q \in Runs : Same(q)
    BY <1>5 DEF DeleteRow, Same, progress, target, channel
  <2> QED BY <1>0, <1>2, <2>1, <2>2 DEF CoveredOn
<1>6. CASE UNCHANGED vars
  <2>1. \A q \in Runs : Same(q)
    BY <1>6 DEF vars, Same, progress, target, channel
  <2> QED BY <1>0, <1>2, <1>6, <2>1 DEF CoveredOn, vars, durable
<1> QED BY <1>3, <1>4, <1>5, <1>6 DEF Next, Acts

(* Nothing claims anything at first. *)
LEMMA CoveredInit == ASSUME Init, NEW d \in Dumps, NEW t \in Targets PROVE CoveredOn(d, t)
BY DumpsAssumption DEF Init, CoveredOn, EmptyStore, Live, Idle, DumpsAssumption

(* One dump and its target, whatever happens to the others. *)
LEMMA AlwaysCoveredOn ==
  ASSUME NEW d \in Dumps, NEW t \in Targets, PlainDump(d)
  PROVE  Spec /\ []SoleRuns(d, t)
           => [](TypeOK /\ Bounds /\ AheadOn(Ident[d]) /\ CoveredOn(d, t))
<1>0. Ident[d] \in Idents BY DumpsAssumption DEF DumpsAssumption
<1>1. Init => AheadOn(Ident[d]) /\ CoveredOn(d, t)
  BY <1>0, AheadInit, CoveredInit
<1>2. /\ TypeOK /\ Bounds /\ SoleRuns(d, t) /\ AheadOn(Ident[d]) /\ CoveredOn(d, t) /\ [Next]_vars
      => (AheadOn(Ident[d]) /\ CoveredOn(d, t))'
  BY <1>0, AheadStep, CoveredStep DEF SoleRuns
<1> QED BY <1>1, <1>2, TypedAndBounded, PTL DEF Spec

(* While the runs of a dump are one at a time and to one server, the dump  *)
(* leaves autocommit on and no other is taken for it, its row claims no    *)
(* byte that is not committed there, whatever crashes, fails, is           *)
(* cancelled, replayed or deleted, and whatever any number of other runs   *)
(* do with other dumps on any servers.                                     *)
THEOREM ResumePointIsSafe ==
  ASSUME NEW d \in Dumps, NEW t \in Targets, PlainDump(d)
  PROVE  Spec /\ []SoleRuns(d, t)
           => [](store[Ident[d]] # NoCp => store[Ident[d]].off <= applied[t][d])
<1>1. CoveredOn(d, t) => (store[Ident[d]] # NoCp => store[Ident[d]].off <= applied[t][d])
  BY DEF CoveredOn
<1> QED BY <1>1, AlwaysCoveredOn, PTL

(* With one server, runs that are apart are each dump's only ones. *)
LEMMA ApartAreSole ==
  ASSUME OneServer, TypeOK, RunsApart, NEW d \in Dumps, NEW t \in Targets
  PROVE  SoleRuns(d, t)
BY DumpsAssumption
   DEF OneServer, RunsApart, SoleRuns, SentTo, Dsn, Targets, TypeOK, Configs, DumpsAssumption

(* The runs of one slot follow each other, so they are apart. *)
LEMMA OneSlotIsApart ==
  ASSUME \A r, q \in Runs : r = q
  PROVE  RunsApart
BY DEF RunsApart, AloneOn

(* All dumps at once. *)
LEMMA AlwaysCovered ==
  ASSUME OneServer
  PROVE  Spec /\ []RunsApart => [](TypeOK /\ Bounds /\ AllAhead /\ Covered)
<1>0. \A d \in Dumps : Ident[d] \in Idents /\ PlainDump(d)
  BY DumpsAssumption DEF DumpsAssumption, OneServer
<1>1. Init => Covered
  BY CoveredInit DEF Covered
<1>2. TypeOK /\ Bounds /\ RunsApart /\ AllAhead /\ Covered /\ [Next]_vars => Covered'
  <2> SUFFICES ASSUME TypeOK, Bounds, RunsApart, AllAhead, Covered, [Next]_vars,
                      NEW d \in Dumps, NEW t \in Targets
               PROVE  CoveredOn(d, t)'
    BY DEF Covered
  <2> QED BY <1>0, ApartAreSole, CoveredStep DEF AllAhead, Covered
<1> QED BY <1>1, <1>2, AlwaysAhead, PTL DEF Spec

(* While any number of runs restore dumps to one server, no two of them    *)
(* the same dump at the same time, with autocommit on, no checkpoint ever  *)
(* claims a byte that is not committed there, whatever crashes, fails, is  *)
(* cancelled, replayed or deleted: a resumed restore skips nothing.        *)
THEOREM ResumePointIsCovered ==
  ASSUME OneServer
  PROVE  Spec /\ []RunsApart => []ResumePointCovered
<1>1. Covered => ResumePointCovered
  BY DEF Covered, CoveredOn, ResumePointCovered
<1> QED BY <1>1, AlwaysCovered, PTL
=============================================================================

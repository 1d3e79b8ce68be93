---------------------------- MODULE RestoreRunner ----------------------------
(***************************************************************************)
(* RunRestoreAsync and runWithProgress (runner.go) with the executor and   *)
(* the checkpoint store they drive: goroutines that stream a dump to a     *)
(* MariaDB server and record in SQLite how far they got.                   *)
(*                                                                         *)
(* A run is a slot in Runs.  Slots that share an element of Processes live *)
(* in one operating-system process; a crash takes the whole process.  The  *)
(* checkpoint table and what the servers hold survive it.                  *)
(*                                                                         *)
(* A dump is its length and, for every position and lexer mode, the        *)
(* statements the splitter may cut off there.  Positions count the bytes   *)
(* before them, so 0 is the start and Size[d] the end of dump d.           *)
(***************************************************************************)
EXTENDS Integers, Sequences, FiniteSets, CheckpointStore

CONSTANTS
  Runs,         \* goroutine slots
  Processes,    \* a partition of Runs
  Dumps,        \* the contents a dump file may have
  Idents,       \* values of ComputeIdentity
  Ident,        \* Ident[d], the identity of dump d
  Size,         \* Size[d], its length
  Dsns,         \* the DSNs a RestoreConfig may hold
  NoDsn,        \* the empty DSN: the dump is parsed, nothing is executed
  Modes,        \* lexer configurations (SplitterConfig)
  DefaultMode,  \* DefaultSplitterConfig()
  Cuts,         \* Cuts[d][p][m], the next statement from p under mode m
  BatchStmts,   \* 1000 in the code
  BatchBytes,   \* 64 MB in the code
  Cap,          \* capacity of the event channel, 100 in the code
  MaxCrashes,   \* bound on the crashes explored
  MaxFaults,    \* bound on the failing calls and cancellations explored
  Deletable     \* identities whose row the operator may delete (Home screen)

Targets == Dsns \ {NoDsn}

(* What executing a statement does to the server's session and tables.     *)
(*   drop    DROP TABLE IF EXISTS + CREATE TABLE: the table starts over    *)
(*   insert  rows with unique keys: refused if they are already there      *)
(*   begin   SET autocommit=0                                              *)
(*   commit  COMMIT                                                        *)
(*   lock    LOCK TABLES ... WRITE        unlock  UNLOCK TABLES            *)
(*   stmt    anything that may be repeated                                 *)
(*   bad     text that is no statement: a fragment, an empty query         *)
Kinds == {"drop", "insert", "begin", "commit", "lock", "unlock", "stmt", "bad"}

ASSUME RunsAssumption == /\ UNION Processes = Runs
                         /\ \A P, Q \in Processes : P \cap Q # {} => P = Q

(* The identity ends in the file size, so equal identities mean equal sizes. *)
ASSUME DumpsAssumption ==
  /\ Dumps # {} /\ Dsns # {}
  /\ Size \in [Dumps -> Nat]
  /\ Ident \in [Dumps -> Idents]
  /\ \A d, e \in Dumps : Ident[d] = Ident[e] => Size[d] = Size[e]

ASSUME LimitsAssumption == /\ BatchStmts \in Nat \ {0}
                           /\ BatchBytes \in Nat \ {0}
                           /\ Cap \in Nat \ {0}
                           /\ MaxCrashes \in Nat
                           /\ MaxFaults \in Nat

ASSUME DeletableAssumption == Deletable \subseteq Idents

ASSUME ModesAssumption == DefaultMode \in Modes

Cut == [next : Nat, len : Nat, kind : Kinds, mode : Modes]

(* The splitter always moves forward, stays inside the file, and hands the *)
(* callback no more bytes than it moved over; it may move over more (the   *)
(* delimiter, a DELIMITER line).                                           *)
ASSUME CutsAssumption ==
  \A d \in Dumps : \A p \in 0..Size[d], m \in Modes : \A c \in Cuts[d][p][m] :
    c \in Cut /\ p < c.next /\ c.next <= Size[d] /\ p + c.len <= c.next

VARIABLES
  store,      \* the checkpoints table
  applied,    \* applied[t][d]: the longest prefix of d that t holds, committed
  leaked,     \* leaked[r]: sessions ended runs of r never closed (see Finish)
  pc,         \* pc[r]: where the goroutine is
  cfg,        \* cfg[r]: its RestoreConfig
  byteOff,    \* executor.byteOff
  pos,        \* file position of the splitter
  mode,       \* splitter.cfg
  batch,      \* [stmts, bytes]: batchStmts, batchBytes
  cur,        \* the statement handed to the callback
  session,    \* session[r]: state of the pinned connection's server session
  committed,  \* committed[r]: end of this session's last committed statement
  cancelled,  \* ctx.Err() # nil
  events,     \* events[r]: the channel's contents
  heard,      \* heard[r]: what the first Done event read from it said
  crashes, faults

durable == <<store, applied>>
progress == <<byteOff, pos, mode, batch, cur>>
target == <<session, committed, leaked>>
channel == <<events, heard>>
env == <<cancelled, crashes, faults>>
vars == <<durable, pc, cfg, progress, target, channel, env>>

(* The state of a server session, as far as later statements depend on it. *)
NoSession == [open |-> FALSE, auto |-> TRUE, locked |-> FALSE]
NewSession == [NoSession EXCEPT !.open = TRUE]
Sessions == [open : BOOLEAN, auto : BOOLEAN, locked : BOOLEAN]

NoCut == [next |-> 0, len |-> 0, kind |-> "stmt", mode |-> DefaultMode]
EmptyBatch == [stmts |-> 0, bytes |-> 0]

Configs == [dump : Dumps, dsn : Dsns, verify : BOOLEAN]

Idle == {"idle", "ended"}
Dump(r) == cfg[r].dump
Dsn(r) == cfg[r].dsn
End(r) == Size[Dump(r)]
Row(r) == Get(store, Ident[Dump(r)])
Connected(r) == session[r].open

Goto(r, label) == pc' = [pc EXCEPT ![r] = label]
Transition(r, from, to) == pc[r] = from /\ Goto(r, to)

(* `events <- ev`, which blocks while the channel is full. *)
Event(done, ok, off) == [done |-> done, ok |-> ok, off |-> off]
Send(r, ev) ==
  /\ Len(events[r]) < Cap
  /\ events' = [events EXCEPT ![r] = Append(@, ev)]
  /\ UNCHANGED heard

(* store.Upsert of the checkpoint of this run's dump. *)
Save(r, off, m, dsn) ==
  /\ store' = Upsert(store, Ident[Dump(r)], off, m, dsn)
  /\ UNCHANGED applied

(* The goroutine's locals before a run and after it. *)
ClearLocals(R) ==
  /\ byteOff' = [r \in Runs |-> IF r \in R THEN 0 ELSE byteOff[r]]
  /\ pos' = [r \in Runs |-> IF r \in R THEN 0 ELSE pos[r]]
  /\ mode' = [r \in Runs |-> IF r \in R THEN DefaultMode ELSE mode[r]]
  /\ batch' = [r \in Runs |-> IF r \in R THEN EmptyBatch ELSE batch[r]]
  /\ cur' = [r \in Runs |-> IF r \in R THEN NoCut ELSE cur[r]]
  /\ committed' = [r \in Runs |-> IF r \in R THEN 0 ELSE committed[r]]
  /\ cancelled' = [r \in Runs |-> IF r \in R THEN FALSE ELSE cancelled[r]]
  /\ session' = [r \in Runs |-> IF r \in R THEN NoSession ELSE session[r]]

------------------------------------------------------------------------------
(* The server *)

(* Another session holds the dump's tables: one of a live run, or one that *)
(* an ended run left in its connection pool.                               *)
Blocked(r) ==
  /\ cur[r].kind \in {"drop", "insert", "lock"}
  /\ \E q \in Runs :
       \/ q # r /\ session[q].locked /\ Dsn(q) = Dsn(r) /\ Dump(q) = Dump(r)
       \/ [dsn |-> Dsn(r), dump |-> Dump(r), locked |-> TRUE] \in leaked[q]

(* Text that is no statement, and rows that are already there. *)
MustRefuse(r) ==
  \/ cur[r].kind = "bad"
  \/ cur[r].kind = "insert" /\ pos[r] <= applied[Dsn(r)][Dump(r)]

NextSession(s, kind) ==
  [s EXCEPT !.auto = @ /\ kind # "begin",
            !.locked = kind = "lock" \/ (@ /\ kind # "unlock")]

(* The prefix a target holds after a session commits the bytes from..to. A *)
(* gap before from stays a gap; a dropped table starts over.               *)
Extend(prefix, from, to, kind) ==
  IF prefix < from \/ (to < prefix /\ kind # "drop") THEN prefix ELSE to

(* The current statement takes effect.  Outside autocommit it is pending   *)
(* until COMMIT or a statement that commits implicitly.                    *)
Commits(r) ==
  session[r].auto \/ cur[r].kind \in {"drop", "commit", "lock", "unlock"}

TakeEffect(r) ==
  IF Commits(r)
  THEN /\ applied' = [applied EXCEPT ![Dsn(r)][Dump(r)] =
                        Extend(@, committed[r], pos[r], cur[r].kind)]
       /\ committed' = [committed EXCEPT ![r] = pos[r]]
  ELSE UNCHANGED <<applied, committed>>

------------------------------------------------------------------------------
(* The goroutine, in the order of its statements *)

(* RunRestoreAsync is called with a configuration. *)
Start(r) ==
  /\ pc[r] \in Idle
  /\ Goto(r, "open")
  /\ \E d \in Dumps, t \in Dsns, v \in BOOLEAN :
       cfg' = [cfg EXCEPT ![r] = [dump |-> d, dsn |-> t, verify |-> v]]
  /\ events' = [events EXCEPT ![r] = <<>>]
  /\ heard' = [heard EXCEPT ![r] = "nothing"]
  /\ UNCHANGED <<durable, progress, target, env>>

(* NewSQLiteStore, NewExecutor: the identity and the size of the file. *)
Open(r) ==
  /\ Transition(r, "open", IF Dsn(r) = NoDsn THEN "resume" ELSE "connect")
  /\ UNCHANGED <<durable, cfg, progress, target, channel, env>>

Connect(r) ==
  /\ Transition(r, "connect", "resume")
  /\ session' = [session EXCEPT ![r] = NewSession]
  /\ UNCHANGED <<durable, cfg, progress, committed, leaked, channel, env>>

(* Mutant: no check for a missing row. *)
ResumeUnchecked(r) ==
  /\ Transition(r, "resume", "tellResume")
  /\ byteOff' = [byteOff EXCEPT ![r] = Row(r).off]
  /\ UNCHANGED <<durable, cfg, pos, mode, batch, cur, target, channel, env>>

(* Mutant: resuming past a delimiter that byte_offset is taken to stand on. *)
ResumePastDelimiter(r) ==
  /\ pc[r] = "resume"
  /\ IF Row(r) = NoCp
     THEN Goto(r, "seek") /\ UNCHANGED byteOff
     ELSE /\ Goto(r, "tellResume")
          /\ byteOff' = [byteOff EXCEPT ![r] = Row(r).off + 1]
  /\ UNCHANGED <<durable, cfg, pos, mode, batch, cur, target, channel, env>>

(* ResumeFromCheckpoint.  The row is looked up by the identity it is then  *)
(* compared with, so the mismatch branch is never taken; the lexer state   *)
(* it reads goes into a local that is dropped.                             *)
Resume(r) ==
  /\ pc[r] = "resume"
  /\ IF Row(r) = NoCp
     THEN Goto(r, "seek") /\ UNCHANGED byteOff
     ELSE /\ Goto(r, "tellResume")
          /\ byteOff' = [byteOff EXCEPT ![r] = Row(r).off]
  /\ UNCHANGED <<durable, cfg, pos, mode, batch, cur, target, channel, env>>

TellResume(r) ==
  /\ Transition(r, "tellResume", "seek")
  /\ Send(r, Event(FALSE, TRUE, byteOff[r]))
  /\ UNCHANGED <<durable, cfg, progress, target, env>>

(* os.Open, Seek; the splitter is built with the default configuration. *)
Seek(r) ==
  /\ Transition(r, "seek", "initial")
  /\ pos' = [pos EXCEPT ![r] = byteOff[r]]
  /\ committed' = [committed EXCEPT ![r] = byteOff[r]]
  /\ UNCHANGED <<durable, cfg, byteOff, mode, batch, cur, session, leaked,
                 channel, env>>

(* Mutant: the initial checkpoint is written before the offset is known. *)
SaveInitialAtZero(r) ==
  /\ Transition(r, "initial", "split")
  /\ Save(r, 0, DefaultMode, Dsn(r))
  /\ UNCHANGED <<cfg, progress, target, channel, env>>

SaveInitial(r) ==
  /\ Transition(r, "initial", "split")
  /\ Save(r, byteOff[r], DefaultMode, Dsn(r))
  /\ UNCHANGED <<cfg, progress, target, channel, env>>

(* The splitter cuts off the next statement. *)
Split(r, c) ==
  /\ pc[r] = "split"
  /\ c \in Cuts[Dump(r)][pos[r]][mode[r]]
  /\ pos' = [pos EXCEPT ![r] = c.next]
  /\ mode' = [mode EXCEPT ![r] = c.mode]

(* Mutant: one byte too many, as if a delimiter always followed. *)
AccountDelimiter(r, c) ==
  LET b == [stmts |-> batch[r].stmts + 1, bytes |-> batch[r].bytes + c.len]
  IN  /\ byteOff' = [byteOff EXCEPT ![r] = @ + c.len + 1]
      /\ batch' = [batch EXCEPT ![r] = b]
      /\ Goto(r, IF b.bytes >= BatchBytes \/ b.stmts >= BatchStmts
                 THEN "checkpoint" ELSE "split")

(* After a statement: count it, and checkpoint if the batch is full. *)
Account(r, c) ==
  LET b == [stmts |-> batch[r].stmts + 1, bytes |-> batch[r].bytes + c.len]
  IN  /\ byteOff' = [byteOff EXCEPT ![r] = @ + c.len]
      /\ batch' = [batch EXCEPT ![r] = b]
      /\ Goto(r, IF b.bytes >= BatchBytes \/ b.stmts >= BatchStmts
                 THEN "checkpoint" ELSE "split")

(* The callback, connected: the statement goes to executor.Exec. *)
Deliver(r) ==
  \E c \in Cuts[Dump(r)][pos[r]][mode[r]] :
    /\ Split(r, c)
    /\ ~cancelled[r] /\ Connected(r)
    /\ cur' = [cur EXCEPT ![r] = c]
    /\ Goto(r, "exec")
    /\ UNCHANGED <<durable, cfg, byteOff, batch, target, channel, env>>

(* The callback without a DSN: the statement is only counted. *)
DryRun(r) ==
  \E c \in Cuts[Dump(r)][pos[r]][mode[r]] :
    /\ Split(r, c)
    /\ ~cancelled[r] /\ ~Connected(r)
    /\ Account(r, c)
    /\ UNCHANGED <<durable, cfg, cur, target, channel, env>>

(* The callback finds the context cancelled. *)
RefuseCancelled(r) ==
  \E c \in Cuts[Dump(r)][pos[r]][mode[r]] :
    /\ Split(r, c)
    /\ cancelled[r]
    /\ Goto(r, "tellError")
    /\ UNCHANGED <<durable, cfg, byteOff, batch, cur, target, channel, env>>

ExecOk(r) ==
  /\ pc[r] = "exec"
  /\ ~MustRefuse(r) /\ ~Blocked(r)
  /\ session' = [session EXCEPT ![r] = NextSession(@, cur[r].kind)]
  /\ TakeEffect(r)
  /\ Account(r, cur[r])
  /\ UNCHANGED <<store, cfg, pos, mode, cur, leaked, channel, env>>

ExecRefused(r) ==
  /\ Transition(r, "exec", "tellError")
  /\ MustRefuse(r) /\ ~Blocked(r)
  /\ UNCHANGED <<durable, cfg, progress, target, channel, env>>

SaveBatch(r) ==
  /\ Transition(r, "checkpoint", "tellBatch")
  /\ Save(r, byteOff[r], mode[r], NoDsn)
  /\ UNCHANGED <<cfg, progress, target, channel, env>>

(* Mutant: the checkpoint is taken again and again. *)
TellBatchRepeats(r) ==
  /\ Transition(r, "tellBatch", "checkpoint")
  /\ Send(r, Event(FALSE, TRUE, byteOff[r]))
  /\ UNCHANGED <<durable, cfg, progress, target, env>>

TellBatch(r) ==
  /\ Transition(r, "tellBatch", "split")
  /\ Send(r, Event(FALSE, TRUE, byteOff[r]))
  /\ batch' = [batch EXCEPT ![r] = EmptyBatch]
  /\ UNCHANGED <<durable, cfg, byteOff, pos, mode, cur, target, env>>

(* Mutant: after the callback's error the run goes on to its final part. *)
TellErrorGoesOn(r) ==
  /\ Transition(r, "tellError", "final")
  /\ Send(r, Event(TRUE, FALSE, 0))
  /\ UNCHANGED <<durable, cfg, progress, target, env>>

(* The callback's own Done event.  The splitter then reads on to the end   *)
(* of the file, the callback returning at once each time, and              *)
(* RunRestoreAsync reports the same error again.                           *)
TellError(r) ==
  /\ Transition(r, "tellError", "fail")
  /\ Send(r, Event(TRUE, FALSE, 0))
  /\ UNCHANGED <<durable, cfg, progress, target, env>>

(* EOF with an empty buffer.  Bytes after the last statement ask nothing   *)
(* of the server: they count as applied when all before them is.           *)
EndOfDump(r) ==
  /\ Transition(r, "split", "final")
  /\ Cuts[Dump(r)][pos[r]][mode[r]] = {}
  /\ byteOff' = [byteOff EXCEPT ![r] = End(r)]
  /\ IF Connected(r) /\ committed[r] = pos[r]
     THEN applied' = [applied EXCEPT ![Dsn(r)][Dump(r)] =
                        Extend(@, committed[r], End(r), "stmt")]
     ELSE UNCHANGED applied
  /\ UNCHANGED <<store, cfg, pos, mode, batch, cur, target, channel, env>>

SaveFinal(r) ==
  /\ Transition(r, "final",
                IF cfg[r].verify /\ Connected(r) THEN "verify" ELSE "tellDone")
  /\ Save(r, byteOff[r], DefaultMode, Dsn(r))
  /\ UNCHANGED <<cfg, progress, target, channel, env>>

(* VerifyTables only reads the server. *)
Verify(r) ==
  /\ Transition(r, "verify", "tellDone")
  /\ UNCHANGED <<durable, cfg, progress, target, channel, env>>

(* The deferred calls after the last Done event.  executor.Close hands the *)
(* connection back to a pool that nobody closes: its session stays open    *)
(* until the process exits.                                                *)
Finish(r) ==
  /\ Goto(r, "ended")
  /\ leaked' = [leaked EXCEPT ![r] =
       IF Connected(r)
       THEN @ \cup {[dsn |-> Dsn(r), dump |-> Dump(r),
                     locked |-> session[r].locked]}
       ELSE @]
  /\ ClearLocals({r})

TellDone(r) ==
  /\ pc[r] = "tellDone"
  /\ Send(r, Event(TRUE, TRUE, byteOff[r]))
  /\ Finish(r)
  /\ UNCHANGED <<durable, cfg, crashes, faults>>

(* Mutant: the goroutine returns without its Done event. *)
TellFailSilently(r) ==
  /\ pc[r] = "fail"
  /\ UNCHANGED channel
  /\ Finish(r)
  /\ UNCHANGED <<durable, cfg, crashes, faults>>

TellFail(r) ==
  /\ pc[r] = "fail"
  /\ Send(r, Event(TRUE, FALSE, 0))
  /\ Finish(r)
  /\ UNCHANGED <<durable, cfg, crashes, faults>>

------------------------------------------------------------------------------
(* What can go wrong *)

Fault == faults < MaxFaults /\ faults' = faults + 1

(* Opening a store, the dump or a connection, a query on the store, a read *)
(* of the dump, or the verification fails.                                 *)
FailingCalls == {"open", "connect", "resume", "seek", "initial", "split",
                 "final", "verify"}
(* Mutant: a read error is taken for the end of the file. *)
CallFailsAsEof(r) ==
  /\ Transition(r, "split", "final")
  /\ byteOff' = [byteOff EXCEPT ![r] = End(r)]
  /\ Fault
  /\ UNCHANGED <<durable, cfg, pos, mode, batch, cur, target, channel,
                 cancelled, crashes>>

CallFails(r) ==
  /\ pc[r] \in FailingCalls
  /\ Goto(r, "fail")
  /\ Fault
  /\ UNCHANGED <<durable, cfg, progress, target, channel, cancelled, crashes>>

SaveBatchFails(r) ==
  /\ Transition(r, "checkpoint", "tellError")
  /\ Fault
  /\ UNCHANGED <<durable, cfg, progress, target, channel, cancelled, crashes>>

(* Mutant: the error of Exec is ignored and the statement counted. *)
ExecFailsIgnored(r) ==
  /\ pc[r] = "exec"
  /\ Account(r, cur[r])
  /\ Fault
  /\ UNCHANGED <<durable, cfg, pos, mode, cur, target, channel, cancelled, crashes>>

(* The server answers with an error and the statement has no effect. *)
ExecFails(r) ==
  /\ Transition(r, "exec", "tellError")
  /\ Fault
  /\ UNCHANGED <<durable, cfg, progress, target, channel, cancelled, crashes>>

(* The connection breaks before or after the statement took effect; the    *)
(* server rolls back what the session had pending.                         *)
ConnectionLost(r) ==
  /\ Transition(r, "exec", "tellError")
  /\ Fault
  /\ session' = [session EXCEPT ![r] = NoSession]
  /\ \/ UNCHANGED <<applied, committed>>
     \/ ~MustRefuse(r) /\ ~Blocked(r) /\ TakeEffect(r)
  /\ UNCHANGED <<store, cfg, progress, leaked, channel, cancelled, crashes>>

Cancel(r) ==
  /\ pc[r] \notin Idle
  /\ ~cancelled[r]
  /\ cancelled' = [cancelled EXCEPT ![r] = TRUE]
  /\ Fault
  /\ UNCHANGED <<durable, pc, cfg, progress, target, channel, crashes>>

(* A process ends: the operator quits the program, or it is killed.  Its   *)
(* sockets close, so the servers roll back and unlock.                     *)
Crash(P) ==
  /\ crashes < MaxCrashes
  /\ \E r \in P : pc[r] # "idle"
  /\ crashes' = crashes + 1
  /\ pc' = [r \in Runs |-> IF r \in P THEN "idle" ELSE pc[r]]
  /\ events' = [r \in Runs |-> IF r \in P THEN <<>> ELSE events[r]]
  /\ heard' = [r \in Runs |-> IF r \in P THEN "nothing" ELSE heard[r]]
  /\ leaked' = [r \in Runs |-> IF r \in P THEN {} ELSE leaked[r]]
  /\ ClearLocals(P)
  /\ UNCHANGED <<durable, cfg, faults>>

------------------------------------------------------------------------------
(* Whoever reads the channel, and the row's owner *)

Receive(r) ==
  /\ events[r] # <<>>
  /\ events' = [events EXCEPT ![r] = Tail(@)]
  /\ heard' = [heard EXCEPT ![r] =
       IF @ # "nothing" \/ ~Head(events[r]).done THEN @
       ELSE IF Head(events[r]).ok THEN "success" ELSE "error"]
  /\ UNCHANGED <<durable, pc, cfg, progress, target, env>>

(* The Home screen deletes a row; it does not ask whether a run uses it. *)
DeleteRow(id) ==
  /\ id \in Deletable /\ store[id] # NoCp
  /\ store' = Delete(store, id)
  /\ UNCHANGED <<applied, pc, cfg, progress, target, channel, env>>

------------------------------------------------------------------------------
Init ==
  /\ store = EmptyStore(Idents)
  /\ applied = [t \in Targets |-> [d \in Dumps |-> 0]]
  /\ leaked = [r \in Runs |-> {}]
  /\ pc = [r \in Runs |-> "idle"]
  /\ cfg = [r \in Runs |-> CHOOSE c \in Configs : TRUE]
  /\ byteOff = [r \in Runs |-> 0]
  /\ pos = [r \in Runs |-> 0]
  /\ mode = [r \in Runs |-> DefaultMode]
  /\ batch = [r \in Runs |-> EmptyBatch]
  /\ cur = [r \in Runs |-> NoCut]
  /\ session = [r \in Runs |-> NoSession]
  /\ committed = [r \in Runs |-> 0]
  /\ cancelled = [r \in Runs |-> FALSE]
  /\ events = [r \in Runs |-> <<>>]
  /\ heard = [r \in Runs |-> "nothing"]
  /\ crashes = 0
  /\ faults = 0

(* What the goroutine does when every call it makes is answered. *)
Step(r) ==
  \/ Open(r) \/ Connect(r) \/ Resume(r) \/ TellResume(r) \/ Seek(r)
  \/ SaveInitial(r)
  \/ Deliver(r) \/ DryRun(r) \/ RefuseCancelled(r)
  \/ ExecOk(r) \/ ExecRefused(r)
  \/ SaveBatch(r) \/ TellBatch(r) \/ TellError(r)
  \/ EndOfDump(r) \/ SaveFinal(r) \/ Verify(r) \/ TellDone(r) \/ TellFail(r)

Failure(r) ==
  CallFails(r) \/ SaveBatchFails(r) \/ ExecFails(r) \/ ConnectionLost(r)

Next ==
  \/ \E r \in Runs : Start(r) \/ Step(r) \/ Failure(r) \/ Cancel(r) \/ Receive(r)
  \/ \E P \in Processes : Crash(P)
  \/ \E id \in Deletable : DeleteRow(id)

Spec == Init /\ [][Next]_vars

(* The Go scheduler runs a goroutine that can run, a server answers a      *)
(* statement that waits for nobody's lock, and the reader reads on.        *)
Fairness ==
  \A r \in Runs : WF_vars(Step(r)) /\ WF_vars(Receive(r))
FairSpec == Spec /\ Fairness

(* An operator who starts a restore again whenever none is running. *)
PersistentSpec == FairSpec /\ \A r \in Runs : WF_vars(Start(r))
------------------------------------------------------------------------------
(* Properties *)

Labels == {"idle", "open", "connect", "resume", "tellResume", "seek", "initial",
           "split", "exec", "checkpoint", "tellBatch", "tellError", "final",
           "verify", "tellDone", "fail", "ended"}
Events == [done : BOOLEAN, ok : BOOLEAN, off : Nat]
Rows == [off : Nat, mode : Modes, dsn : Dsns \cup {NoDsn}]

(* Every variable has its type. *)
TypeOK ==
  /\ store \in [Idents -> Rows \cup {NoCp}]
  /\ applied \in [Targets -> [Dumps -> Nat]]
  /\ leaked \in [Runs -> SUBSET [dsn : Dsns, dump : Dumps, locked : BOOLEAN]]
  /\ pc \in [Runs -> Labels]
  /\ cfg \in [Runs -> Configs]
  /\ byteOff \in [Runs -> Nat]
  /\ pos \in [Runs -> Nat]
  /\ mode \in [Runs -> Modes]
  /\ batch \in [Runs -> [stmts : Nat, bytes : Nat]]
  /\ cur \in [Runs -> Cut]
  /\ session \in [Runs -> Sessions]
  /\ committed \in [Runs -> Nat]
  /\ cancelled \in [Runs -> BOOLEAN]
  /\ events \in [Runs -> Seq(Events)]
  /\ heard \in [Runs -> {"nothing", "success", "error"}]
  /\ crashes \in 0..MaxCrashes
  /\ faults \in 0..MaxFaults

(* The resume point never runs ahead of the data: every byte before a      *)
(* checkpoint's byte_offset is committed on every target.  Otherwise a     *)
(* resumed restore silently skips statements (ADR-0001's "zero silent data *)
(* loss").                                                                 *)
ResumePointCovered ==
  \A d \in Dumps, t \in Targets :
    store[Ident[d]] # NoCp => store[Ident[d]].off <= applied[t][d]

(* The success of a run, still in the channel or read by its owner. *)
SaysSuccess(r) ==
  \/ heard[r] = "success"
  \/ \E i \in DOMAIN events[r] : events[r][i].done /\ events[r][i].ok
SaysError(r) ==
  \/ heard[r] = "error"
  \/ \E i \in DOMAIN events[r] : events[r][i].done /\ ~events[r][i].ok

(* A run that reports a Done event without an error to its reader has left *)
(* the whole dump on its target, whatever failed or was interrupted in     *)
(* this run or the ones before it.                                         *)
SuccessMeansRestored ==
  \A r \in Runs : SaysSuccess(r) /\ Dsn(r) # NoDsn =>
    applied[Dsn(r)][Dump(r)] = End(r)

(* A run's Done events agree.  The callback and RunRestoreAsync both send  *)
(* one when a statement fails, and the reader acts on whichever comes      *)
(* first.                                                                  *)
VerdictsAgree == \A r \in Runs : ~(SaysSuccess(r) /\ SaysError(r))

(* The channel is never closed before a verdict was sent: nextEventCmd     *)
(* takes a closed channel for exit code 0.                                 *)
NoSilentClose ==
  \A r \in Runs : pc[r] = "ended" => SaysSuccess(r) \/ SaysError(r)

(* No offset passes the end of the dump, in a row, in the executor or in   *)
(* an event: the progress bar's percentage stays at 100 or less.           *)
OffsetsBounded ==
  /\ \A d \in Dumps : store[Ident[d]].off <= Size[d]
  /\ \A r \in Runs : byteOff[r] <= End(r) /\ pos[r] <= End(r)
  /\ \A r \in Runs : \A i \in DOMAIN events[r] : events[r][i].off <= End(r)

(* A dump's resume point never moves back, over crashes, failed statements *)
(* and resumed runs, as long as its row exists.                            *)
OffsetMonotone ==
  [][\A id \in Idents :
       store[id] # NoCp /\ store'[id] # NoCp => store[id].off <= store'[id].off]_vars

(* A row always carries the DSN a resume from the history needs, although  *)
(* the batch checkpoints that overwrite it carry none.                     *)
RowKeepsDsn == \A id \in Idents : store[id] # NoCp => store[id].dsn # NoDsn

(* Every run that starts comes to its end, or its process does: no call of *)
(* it waits for ever on the channel, the store or the server.              *)
RunEnds == \A r \in Runs : (pc[r] \notin Idle) ~> (pc[r] \in Idle)

(* However the first runs crash or fail, an operator who starts the        *)
(* restore again gets the whole dump onto the target.                      *)
EventuallyRestored ==
  \A d \in Dumps, t \in Targets : <>(applied[t][d] = Size[d])
==============================================================================

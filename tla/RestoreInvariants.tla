-------------------------- MODULE RestoreInvariants --------------------------
(***************************************************************************)
(* The inductive invariants behind the theorems of RestoreRunner_proofs.   *)
(* TLC checks them on the small instances; the proofs use them for all.    *)
(***************************************************************************)
EXTENDS RestoreRunner

(* Why no offset passes the end of its dump.  byteOff counts the bytes     *)
(* handed to the callback and pos the bytes read, so byteOff lags; the     *)
(* statement in flight is already in pos and not yet in byteOff.           *)
RowBounds == \A d \in Dumps : store[Ident[d]].off <= Size[d]

RunBounds(r) ==
  /\ byteOff[r] <= End(r) /\ pos[r] <= End(r)
  /\ pc[r] \in Idle => byteOff[r] = 0 /\ pos[r] = 0
  /\ pc[r] \in {"initial", "split", "checkpoint", "tellBatch"} =>
       byteOff[r] <= pos[r]
  /\ pc[r] = "exec" => byteOff[r] + cur[r].len <= pos[r]
  /\ \A i \in DOMAIN events[r] : events[r][i].off <= End(r)

Bounds == RowBounds /\ \A r \in Runs : RunBounds(r)

(* A run that can still write to its row or its server: a failing run has  *)
(* only its last error left to send.                                       *)
Live(r) == pc[r] \notin Idle \cup {"fail"}

(* The use that the promises of a restore hold for: no two runs of one     *)
(* identity at a time ...                                                  *)
AloneOn(id) ==
  \A r, q \in Runs :
    /\ Live(r) /\ Ident[Dump(r)] = id
    /\ Live(q) /\ Ident[Dump(q)] = id
    => r = q
RunsApart == \A id \in Idents : AloneOn(id)

(* ... all runs of a dump to one server ...                                *)
SentTo(d, t) == \A r \in Runs : Live(r) /\ Dump(r) = d => Dsn(r) = t
SoleRuns(d, t) == AloneOn(Ident[d]) /\ SentTo(d, t)

(* ... and a dump that no other is taken for and that leaves autocommit on. *)
PlainDump(d) ==
  /\ \A e \in Dumps : Ident[e] = Ident[d] => e = d
  /\ \A p \in 0..Size[d], m \in Modes : \A c \in Cuts[d][p][m] : c.kind # "begin"

(* With one server there is nowhere else to send a dump. *)
OneServer ==
  /\ NoDsn \notin Dsns
  /\ \A s, t \in Dsns : s = t
  /\ \A d \in Dumps : PlainDump(d)

Streaming == {"initial", "split", "exec", "checkpoint", "tellBatch"}
Finishing == {"final", "verify", "tellDone"}
Serving == {"resume", "tellResume", "seek"} \cup Streaming \cup Finishing

(* Why no row moves back: what a run is about to write is never behind the *)
(* row, and once it has written the end of the dump that stays.            *)
Ahead(r) ==
  /\ pc[r] \in {"tellResume", "seek"} \cup Streaming => Row(r).off <= byteOff[r]
  /\ pc[r] \in Finishing => byteOff[r] = End(r)
  /\ pc[r] \in {"verify", "tellDone"} /\ Ident[Dump(r)] \notin Deletable =>
       Row(r).off = End(r)
AheadOn(id) == \A r \in Runs : Live(r) /\ Ident[Dump(r)] = id => Ahead(r)
AllAhead == \A id \in Idents : AheadOn(id)

(* Why a row claims nothing that is not on the server: while a run streams *)
(*   byteOff <= committed <= pos  and  committed <= applied                *)
(* and the second pair meets between statements.                           *)
Held(r) == applied[Dsn(r)][Dump(r)]

Ordered(r) ==
  /\ pc[r] \in Serving => session[r].open /\ session[r].auto
  /\ pc[r] = "exec" => cur[r].kind # "begin"
  /\ pc[r] \in {"tellResume", "seek"} => byteOff[r] <= Held(r)
  /\ pc[r] \in {"open", "connect", "resume"} => byteOff[r] = 0
  /\ pc[r] \in Streaming =>
       /\ byteOff[r] <= committed[r] /\ committed[r] <= pos[r]
       /\ committed[r] <= Held(r)
  /\ pc[r] \in Streaming \ {"exec"} => committed[r] = pos[r]
  /\ pc[r] \in Finishing => Held(r) = End(r)

CoveredOn(d, t) ==
  /\ store[Ident[d]] # NoCp => store[Ident[d]].off <= applied[t][d]
  /\ applied[t][d] <= Size[d]
  /\ \A r \in Runs : Live(r) /\ Dump(r) = d => Ordered(r)

Covered == \A d \in Dumps, t \in Targets : CoveredOn(d, t)

(* Why success stays true after a run: its row says the whole dump, so     *)
(* that whoever restores it again has nothing left to execute, unless the  *)
(* row may be deleted.                                                     *)
VouchedOn(d, t) ==
  \A r \in Runs : SaysSuccess(r) /\ Dump(r) = d =>
    /\ Dsn(r) = t /\ applied[t][d] = Size[d]
    /\ Ident[d] \notin Deletable => store[Ident[d]].off = Size[d]

Vouched == \A d \in Dumps, t \in Targets : VouchedOn(d, t)

(* Nobody deletes the row of a success, or who starts the dump again       *)
(* forgets the success.                                                    *)
RowStays(d) == Ident[d] \notin Deletable \/ \A r, q \in Runs : r = q

InOrder == AllAhead /\ Covered /\ Vouched

(* Why the verdicts of a run agree, and why it never ends without one:     *)
(* nothing is told before the callback's error, nothing but errors before  *)
(* "fail" has told another, and whoever reads takes nothing back.          *)
Verdict(r) ==
  /\ pc[r] \notin {"fail", "ended"} => ~SaysSuccess(r) /\ ~SaysError(r)
  /\ pc[r] = "fail" => ~SaysSuccess(r)
  /\ pc[r] = "ended" => SaysSuccess(r) \/ SaysError(r)
  /\ ~(SaysSuccess(r) /\ SaysError(r))

Verdicts == \A r \in Runs : Verdict(r)

(* Why a batch checkpoint, which has no DSN to give, always finds the row  *)
(* that the initial one has written with it.  Rows that may be deleted     *)
(* under a run, and runs without a DSN, leave rows without one.            *)
DsnsAreKept == Deletable = {} /\ NoDsn \notin Dsns

Recording == {"split", "exec", "checkpoint", "tellBatch", "final"}
Recorded ==
  RowKeepsDsn /\ \A r \in Runs : pc[r] \in Recording => Row(r) # NoCp
==============================================================================

----------------------------- MODULE EventSource -----------------------------
(***************************************************************************)
(* What a restore run promises to whoever reads its event channel: some    *)
(* progress events, then one or two Done events that agree, then the       *)
(* channel is closed.  RestoreRunner implements it, and the terminal UI is *)
(* modelled against it.                                                    *)
(***************************************************************************)
EXTENDS Naturals, Sequences

CONSTANTS Runs, Cap

VARIABLES
  phase,  \* phase[r]: how far the run is
  chan    \* chan[r]: the events sent and not yet received

svars == <<phase, chan>>

(* starting   up to the initial checkpoint   running  executing statements *)
(* saved      the final checkpoint is written  failing  one error is left  *)
(*            to send                          ended    the channel closed *)
Phases == {"idle", "starting", "running", "saved", "failing", "ended"}
Success == {"ok", "findings"}
Verdicts == Success \cup {"error"}

Moves(r, from, to) == phase[r] \in from /\ phase' = [phase EXCEPT ![r] = to]
Put(r, ev) ==
  Len(chan[r]) < Cap /\ chan' = [chan EXCEPT ![r] = Append(@, ev)]

Begin(r) ==
  /\ Moves(r, {"idle", "ended"}, "starting")
  /\ chan' = [chan EXCEPT ![r] = <<>>]

(* The resume event, or the event after a batch. *)
Progress(r) ==
  /\ phase[r] \in {"starting", "running"}
  /\ Put(r, "progress")
  /\ UNCHANGED phase

InitialSave(r) == Moves(r, {"starting"}, "running") /\ UNCHANGED chan
FinalSave(r) == Moves(r, {"running"}, "saved") /\ UNCHANGED chan

Complete(r, verdict) ==
  /\ verdict \in Success
  /\ Moves(r, {"saved"}, "ended")
  /\ Put(r, verdict)

(* The statement callback reports an error; RunRestoreAsync will repeat it. *)
StatementFails(r) == Moves(r, {"running"}, "failing") /\ Put(r, "error")

(* Any other call fails; nothing has been reported yet. *)
Bail(r) ==
  Moves(r, {"starting", "running", "saved"}, "failing") /\ UNCHANGED chan

GiveUp(r) == Moves(r, {"failing"}, "ended") /\ Put(r, "error")

Take(r) ==
  /\ chan[r] # <<>>
  /\ chan' = [chan EXCEPT ![r] = Tail(@)]
  /\ UNCHANGED phase

(* The process of the runs in R ends. *)
Die(R) ==
  /\ phase' = [r \in Runs |-> IF r \in R THEN "idle" ELSE phase[r]]
  /\ chan' = [r \in Runs |-> IF r \in R THEN <<>> ELSE chan[r]]

Init ==
  /\ phase = [r \in Runs |-> "idle"]
  /\ chan = [r \in Runs |-> <<>>]

Next ==
  \/ \E r \in Runs :
       \/ Begin(r) \/ Progress(r) \/ InitialSave(r) \/ FinalSave(r)
       \/ \E verdict \in Success : Complete(r, verdict)
       \/ StatementFails(r) \/ Bail(r) \/ GiveUp(r) \/ Take(r)
  \/ \E R \in SUBSET Runs : Die(R)

Spec == Init /\ [][Next]_svars

(* A run that can still write to its row or its server: one that is        *)
(* failing has only an error left to send.                                 *)
Writes(r) == phase[r] \in {"starting", "running", "saved"}

(* No two runs write at a time, which RunRestoreAsync leaves to whoever    *)
(* starts them.                                                            *)
OneWriter == \A r, q \in Runs : Writes(r) /\ Writes(q) => r = q
==============================================================================

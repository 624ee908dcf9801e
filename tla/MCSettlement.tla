---------------------------- MODULE MCSettlement ----------------------------
(* Every attempt of at most MaxRecorded steps the journal can record, with  *)
(* every way it can end.  Its names keep apart from those of the journal.   *)
EXTENDS Settlement

CONSTANT MaxRecorded

VARIABLES ready, recorded

AttemptStep(kind, dispatched) ==
  [op |-> 1, kind |-> kind, state |-> "running", dispatched |-> dispatched,
   notDispatched |-> FALSE, retired |-> FALSE, releases |-> FALSE]

AttemptInit == ready = FALSE /\ recorded = <<>>

AttemptPrepare == ~ready /\ ready' = TRUE /\ UNCHANGED recorded

Succeeds(step) == recorded' = Append(recorded, [step EXCEPT !.state = "succeeded"])
Fails(step) ==
  \E err \in Errors, phase \in {"gate", "effect", "checked"} :
    /\ phase = "gate" => ~step.dispatched
    /\ recorded' = Append(recorded, FailedStep(step, err, phase))
StaysOpen(step) == \E s \in {<<step>>, Interrupted(<<step>>)} : recorded' = recorded \o s

AttemptNext ==
  \/ AttemptPrepare
  \/ /\ ready /\ Len(recorded) < MaxRecorded /\ UNCHANGED ready
     /\ \E kind \in Kinds, dispatched \in BOOLEAN :
          /\ dispatched => kind = "native"
          /\ LET step == AttemptStep(kind, dispatched)
             IN  Succeeds(step) \/ Fails(step) \/ StaysOpen(step)

AttemptSpec == AttemptInit /\ [][AttemptNext]_<<ready, recorded>>

\* The settlement comment holds of every attempt and every ending.
Sound == \A cause \in Causes : SettlesSoundly(ready, recorded, cause)

\* No attempt is left without an answer.
Always == \A cause \in Causes : SettlesAlways(ready, recorded, cause)

=============================================================================

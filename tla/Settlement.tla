----------------------------- MODULE Settlement -----------------------------
(***************************************************************************)
(* The pure decisions of the host's action journal                         *)
(* (ts/apps/host/src/action-journal.ts): what one error says about a step, *)
(* what one attempt's recorded steps and its ending say about the attempt, *)
(* and whether an attempt still holds its reservations.  Receipts are      *)
(* reduced to the fields those decisions read.                             *)
(***************************************************************************)
EXTENDS Naturals, Sequences

Kinds == {"native", "file", "publication"}
StepStates == {"running", "succeeded", "failed", "cancelled", "unknown"}

\* One recorded effect.  "op" stands for its immutable key and input, "releases" for the
\* session-slot claims its success gave back.
Step == [op : Nat, kind : Kinds, state : StepStates, dispatched : BOOLEAN,
         notDispatched : BOOLEAN, retired : BOOLEAN, releases : BOOLEAN]

\* What can be thrown.  "refused", "refused499", "cancelled", "failed" and
\* "unknown" are StepFailure's outcomes (a refusal apart by status 499),
\* "incomplete" is ActionIncomplete, "rejected" is CommandRejected and
\* "plain" is every other error.
Errors == {"incomplete", "rejected", "refused", "refused499", "cancelled",
           "failed", "unknown", "plain"}
Causes == Errors \cup {"returned", "recovered", "interrupted"}

Outcome(state, notDispatched) == [state |-> state, notDispatched |-> notDispatched]

\* Mutants (Bug...) are plausible slips in the definition after them; a run must reject each.

\* An unclassified exception taken as proof that nothing was dispatched.
BugTrustsPlain(err) ==
  IF err = "plain" THEN Outcome("failed", TRUE)
  ELSE IF err \in {"incomplete", "rejected", "refused"} THEN Outcome("failed", TRUE)
  ELSE Outcome("unknown", FALSE)

\* One error's own answer: refused before dispatch, cancelled, or uncertain.
Failure(err) ==
  IF err \in {"incomplete", "rejected", "refused"} THEN Outcome("failed", TRUE)
  ELSE IF err = "refused499" THEN Outcome("cancelled", TRUE)
  ELSE IF err \in {"cancelled", "failed"} THEN Outcome(err, FALSE)
  ELSE Outcome("unknown", FALSE)

\* The catch of step(): "gate" is an error before the effect was entered,
\* "checked" one thrown by the result check after the effect returned.
FailedStep(step, err, phase) ==
  LET outcome ==
        IF phase = "gate"
        THEN Outcome(IF err = "refused499" THEN "cancelled" ELSE "failed", TRUE)
        ELSE IF phase = "checked"
        THEN IF err \in {"cancelled", "failed", "unknown"} THEN Failure(err)
             ELSE Outcome("failed", FALSE)
        ELSE IF err = "rejected" THEN Outcome("unknown", FALSE)
        ELSE Failure(err)
      denied == step.dispatched /\ outcome.notDispatched
  IN  [step EXCEPT !.state = IF denied THEN "unknown" ELSE outcome.state,
                   !.notDispatched = IF denied THEN FALSE ELSE outcome.notDispatched]

Uncertain(step) == step.state \in {"unknown", "running"}

BugUnsent(step) == ~step.dispatched

\* The step proves that its effect was never handed to anybody.
NeverRan(step) ==
  /\ ~step.dispatched
  /\ step.state \in {"failed", "cancelled"}
  /\ step.notDispatched

Interrupted(steps) ==
  [i \in DOMAIN steps |-> IF steps[i].state = "running"
                          THEN [steps[i] EXCEPT !.state = "unknown"]
                          ELSE steps[i]]

\* "none" is settle's null: recovery proved nothing new.
SettledStates == {"succeeded", "failed", "cancelled", "incomplete", "unknown"}

Some(steps, S) == \E i \in DOMAIN steps : steps[i].state \in S
Untouched(steps) == \A i \in DOMAIN steps : NeverRan(steps[i])

\* A file or native effect succeeded; publications of Work are not external.
ExternalEffect(steps) ==
  \E i \in DOMAIN steps : steps[i].state = "succeeded" /\ steps[i].kind # "publication"

\* There is an error to settle with.
Explained(steps, cause) ==
  cause \in Errors \/ cause = "interrupted" \/ Some(steps, {"failed"})

\* The one terminal decision for an attempt.
Settle(prepared, steps, cause) ==
  LET thrown == cause \in Errors
  IN  IF Some(steps, {"unknown", "running"}) THEN Outcome("unknown", FALSE)
      ELSE IF thrown /\ Failure(cause).state = "cancelled"
      THEN Outcome("cancelled", Failure(cause).notDispatched /\ Untouched(steps))
      ELSE IF ~prepared THEN Outcome("failed", TRUE)
      ELSE IF cause = "returned" THEN Outcome("succeeded", FALSE)
      ELSE IF ~thrown /\ Some(steps, {"cancelled"}) THEN Outcome("cancelled", FALSE)
      ELSE IF ~Explained(steps, cause) THEN Outcome("none", FALSE)
      ELSE IF ExternalEffect(steps) THEN Outcome("incomplete", FALSE)
      ELSE Outcome("failed", Untouched(steps))

\* A row keeps its reservations unless it failed or was cancelled and
\* neither it nor any of its steps was ever dispatched.
HoldsClaims(row) ==
  ~ /\ row.state \in {"failed", "cancelled"}
    /\ row.notDispatched
    /\ \A i \in DOMAIN row.steps : NeverRan(row.steps[i])

-----------------------------------------------------------------------------
(* What settle promises in its comment, for an attempt whose steps exist    *)
(* only after its preparation.                                              *)

\* An uncertain step is never hidden; a succeeded external effect is never erased by a later
\* failure; and "not dispatched" is answered only when no step was dispatched, succeeded or
\* is still open.
SettlesSoundly(prepared, steps, cause) ==
  LET settled == Settle(prepared, steps, cause)
  IN  /\ Some(steps, {"unknown", "running"}) => settled.state = "unknown"
      /\ ExternalEffect(steps) /\ cause # "returned" => settled.state \notin {"failed", "succeeded"}
      /\ settled.notDispatched =>
           \A i \in DOMAIN steps :
             ~steps[i].dispatched /\ steps[i].state \in {"failed", "cancelled"}

\* Only recovery may find nothing new: completion and load settle every attempt, as their
\* non-null assertions take for granted, and recovery of a settled answer repeats it.
SettlesAlways(prepared, steps, cause) ==
  /\ cause # "recovered" => Settle(prepared, steps, cause).state \in SettledStates
  /\ cause = "recovered" /\ Some(steps, {"failed", "cancelled"}) =>
       Settle(prepared, steps, cause).state # "none"

=============================================================================

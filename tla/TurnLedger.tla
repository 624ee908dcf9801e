------------------------------- MODULE TurnLedger -------------------------------
(***************************************************************************)
(* What a conversation promises for the prompt ids its clients mint        *)
(* (the prompt and queue routes of ts/packages/agent-contracts             *)
(* harness-thread.ts): a prompt runs at most once, one at a time, and what *)
(* settled stays settled, across retries and restarts of the host; and no  *)
(* prompt is ever given to a harness twice.                                *)
(***************************************************************************)
CONSTANTS
  Ids,
  Twice    \* the ids of which a second request may be admitted late, as if it were new

VARIABLES
  state,   \* what the host answers of each id: "unknown", "queued", "running", "settled"
  told,    \* how far the prompt has come: "new", "waiting", "begun" or "sent" to a harness
  over     \* the thread is deleted, or its host shutting down

vars == <<state, told, over>>

Init == state = [i \in Ids |-> "unknown"] /\ told = [i \in Ids |-> "new"] /\ over = FALSE

Becomes(i, s, t) == state'[i] = s /\ told'[i] = t

Queue(i) == state[i] = "unknown" /\ told[i] = "new" /\ Becomes(i, "queued", "waiting")

\* A queued prompt that is being steered is in no queue and does not run yet: nothing is known of it.
TakeOut(i) == state[i] = "queued" /\ told[i] = "waiting" /\ Becomes(i, "unknown", "waiting")
PutBack(i) == state[i] = "unknown" /\ told[i] = "waiting" /\ Becomes(i, "queued", "waiting")

Idle == ~over /\ \A j \in Ids : state[j] # "running"
Only(i) == state'[i] = "running" /\ \A j \in Ids : state'[j] = "running" => j = i

Start(i) ==
  /\ Idle /\ Only(i)
  /\ state[i] \in {"unknown", "queued"} /\ told[i] \in {"new", "waiting"}
  /\ Becomes(i, "running", "begun")

Send(i) == state[i] = "running" /\ told[i] = "begun" /\ Becomes(i, "running", "sent")

\* The turn ended, or its queued prompt was dropped.
Settle(i) == state[i] \in {"queued", "running"} /\ Becomes(i, "settled", told[i])

\* A turn cut off by the end of its thread has no end until the host comes back.
Lose(i) == over /\ state[i] = "running" /\ Becomes(i, "unknown", told[i])

\* The second request is queued, run and dropped by itself, but finds what was begun begun.
Again(i) ==
  /\ i \in Twice /\ state'[i] \in {"unknown", "queued", "running", "settled"}
  /\ \/ told'[i] = told[i]
     \/ told[i] = "new" /\ Becomes(i, "queued", "waiting")
     \/ Idle /\ Only(i) /\ told[i] \in {"new", "waiting"} /\ told'[i] = "begun"
     \/ Send(i)

Move(i) ==
  \/ Becomes(i, state[i], told[i])
  \/ Queue(i) \/ TakeOut(i) \/ PutBack(i) \/ Start(i) \/ Send(i) \/ Settle(i) \/ Lose(i) \/ Again(i)

Advance == (over => over') /\ \A i \in Ids : Move(i)

\* A host that comes back sends nothing by itself.
Restart ==
  /\ state' = [i \in Ids |-> IF told[i] = "new" THEN "unknown" ELSE "settled"]
  /\ told' = told /\ over' = FALSE

Next == Restart \/ Advance

Spec == Init /\ [][Next]_vars
=================================================================================

---------------------------- MODULE ActionJournal ----------------------------
(***************************************************************************)
(* The host's action journal: admission, run consent, the wait for a turn, *)
(* the recorded steps of an executor, cancellation, settlement, recovery   *)
(* and restart (ts/apps/host/src/action-journal.ts), with the native world *)
(* its requests reach as the environment.                                  *)
(*                                                                         *)
(* An action is a command attempt.  Everything between two awaits of the   *)
(* code is one step here; a commit under the journal's lock is one step.   *)
(***************************************************************************)
EXTENDS Settlement, FiniteSets

CONSTANTS
  Actions,       \* command ids
  Pea,           \* the actions an agent run submitted; the others are a person's
  Program,       \* Program[a]: the operations its executor performs, in order
  Footprint,     \* Footprint[a]: the resources its binding declares as effects
  Resources,     \* two footprints overlap when they share a resource
  Slots,         \* Slots[a]: the session-slot claims of its binding
  Reconciles,    \* Reconciles[a]: the stopped attempts it claims to reconcile
  MaxAttempts,   \* bound: resumes of all actions together
  MaxSteps,      \* bound: recorded steps of one action
  MaxCancels,    \* bound: cancellations and stops of the run
  MaxFaults,     \* bound: storage failures, moved evidence and lost answers
  MaxRestarts    \* bound: restarts of the host

\* "sdk": a native operation run by the pe-revit CLI instead of the bridge.
\* "optional": the executor catches what the step throws and goes on.
\* "checked": the step has a result check.  "retirable": a resumed executor may
\* find the recorded result gone and retire it.  "discovers": effects added
\* after it.  "stops": the actions whose session-slot claims it releases.  "witness": its
\* executor can see the effect itself (the hash of a file, the record of a Families run).
Op == [kind : Kinds, sdk : BOOLEAN, optional : BOOLEAN, checked : BOOLEAN, retirable : BOOLEAN,
       witness : BOOLEAN, discovers : SUBSET Resources, stops : SUBSET Actions]

ASSUME ConstantsAssumption ==
  /\ IsFiniteSet(Actions)
  /\ Pea \subseteq Actions
  /\ Program \in [Actions -> Seq(Op)]
  /\ Footprint \in [Actions -> SUBSET Resources]
  /\ DOMAIN Slots = Actions
  /\ Reconciles \in [Actions -> SUBSET Actions]
  /\ \A a \in Actions : a \notin Reconciles[a]
  /\ MaxAttempts \in Nat /\ MaxSteps \in Nat /\ MaxCancels \in Nat
  /\ MaxFaults \in Nat /\ MaxRestarts \in Nat

\* The executors of ts/apps/host/src: the only effect one of them catches the failure of is its
\* last (the rebind of a schedule push), the only result one retires is a session the CLI
\* started, and only stops made by the CLI release claims.
ASSUME ExecutorsAssumption ==
  \A a \in Actions : \A n \in DOMAIN Program[a] :
    /\ Program[a][n].optional => n = Len(Program[a])
    /\ Program[a][n].retirable => Program[a][n].stops = {}
    /\ Program[a][n].stops # {} => Program[a][n].sdk

VARIABLES
  rows,        \* the committed receipts in memory (rows)
  disk,        \* the receipts a reload would find
  born,        \* insertion order of rows; 0 is not yet inserted
  run,         \* the in-process execution of each attempt
  parked,      \* the attempts whose turn listener is registered
  cancelling,  \* cancellation commits still queued behind the journal's lock
  asked,       \* ghost: a cancellation of the current attempt was committed
  runStopped,  \* the agent's run was stopped
  stale,       \* the actions whose consumed evidence has moved
  world,       \* ghost: what became of each step's effect
  budget       \* what is left of the bounds

vars == <<rows, disk, born, run, parked, cancelling, asked, runStopped, stale,
          world, budget>>
journalVars == <<rows, disk, born, run, parked, cancelling>>

OpenStates == {"waiting", "running", "unknown", "incomplete"}
RowStates  == {"absent", "waiting", "running"} \cup SettledStates
Phases == {"idle", "authorize", "consent", "turn", "turnCheck", "prepare", "run", "step",
           "effect", "sent", "await", "outcome", "result", "settling"}

Row == [state : RowStates, prepared : BOOLEAN, cancelReq : BOOLEAN,
        notDispatched : BOOLEAN, effects : SUBSET Resources, steps : Seq(Step)]

\* What the executor of an attempt ended with, or the step awaits to record.  "known" is the
\* cancellation flag of the closure's own copy of the row.
Endings == Errors \cup {"returned"}
Run == [pc : Phases, op : Nat, cursor : Nat, err : Endings, phase : {"gate", "effect", "checked"},
        resumed : BOOLEAN, known : BOOLEAN]

AbsentRow == [state |-> "absent", prepared |-> FALSE, cancelReq |-> FALSE,
              notDispatched |-> FALSE, effects |-> {}, steps |-> <<>>]
IdleRun == [pc |-> "idle", op |-> 1, cursor |-> 0, err |-> "plain", phase |-> "gate",
            resumed |-> FALSE, known |-> FALSE]

-----------------------------------------------------------------------------
(* The predicates the journal decides with. *)

BugUnknownIsClosed(row) == row.state \in OpenStates \ {"unknown"}

isOpen(row) == row.state \in OpenStates
effectsOverlap(e1, e2) == e1 \cap e2 # {}
Earlier(b, a) == 0 < born[b] /\ born[b] < born[a]

\* A recorded, dispatched, successful native stop releases the slot claims it names.
Released(a) ==
  \E b \in Actions : \E i \in DOMAIN rows[b].steps :
    LET step == rows[b].steps[i]
    IN  /\ step.kind = "native" /\ step.state = "succeeded" /\ step.dispatched /\ step.releases
        /\ a \in Program[b][step.op].stops

HoldsSlots(a) == rows[a].state # "absent" /\ HoldsClaims(rows[a]) /\ ~Released(a)

BugClaimsWhenSettled(a, o) ==
  o \in Reconciles[a] /\ rows[a].state \in SettledStates /\ HoldsClaims(rows[a])

\* a's reconciliation claim on o still counts.
HoldsReconciliation(a, o) ==
  /\ o \in Reconciles[a]
  /\ rows[a].state # "absent"
  /\ HoldsClaims(rows[a])
  /\ \/ rows[a].state # "cancelled"
     \/ \E i \in DOMAIN rows[a].steps : Uncertain(rows[a].steps[i])

\* The attempt a reconciling action names has stopped and every effect of it is known.
Reconcilable(o) ==
  /\ rows[o].state \notin {"absent", "waiting", "running"}
  /\ rows[o].prepared
  /\ run[o].pc = "idle"
  /\ \A i \in DOMAIN rows[o].steps : ~Uncertain(rows[o].steps[i])

BugIgnoresSlots(a, effects) ==
  /\ \A o \in Reconciles[a] : Reconcilable(o)
  /\ \A b \in Actions \ {a} :
       /\ \A o \in Reconciles[a] : ~HoldsReconciliation(b, o)
       /\ rows[b].state \in {"unknown", "incomplete"} =>
            b \in Reconciles[a] \/ ~effectsOverlap(effects, rows[b].effects)

\* Admission's decision under the lock, for a row with these effects.
Admissible(a, effects) ==
  /\ \A o \in Reconciles[a] : Reconcilable(o)
  /\ \A b \in Actions \ {a} :
       /\ HoldsSlots(b) => Slots[a] \cap Slots[b] = {}
       /\ \A o \in Reconciles[a] : ~HoldsReconciliation(b, o)
       /\ rows[b].state \in {"unknown", "incomplete"} =>
            b \in Reconciles[a] \/ ~effectsOverlap(effects, rows[b].effects)

\* The owning run no longer lets this action write.
Stopped(a) == a \in Pea /\ rows[a].effects # {} /\ runStopped

\* gate(): "none", or the error it throws, for a row whose flag is cancelReq.
Gate(a, cancelReq) ==
  IF cancelReq \/ Stopped(a) THEN "refused499"
  ELSE IF a \in stale THEN "rejected"
  ELSE "none"

-----------------------------------------------------------------------------
(* Commits.  Each appends durably, replaces the row in memory and notifies  *)
(* every listener, parked turns included.                                   *)

Keep(a, next) == run' = [run EXCEPT ![a] = next]

BugSilentCommit(a, row) ==
  /\ rows' = [rows EXCEPT ![a] = row] /\ disk' = [disk EXCEPT ![a] = row]
  /\ UNCHANGED parked

Commit(a, row) ==
  /\ rows' = [rows EXCEPT ![a] = row]
  /\ disk' = [disk EXCEPT ![a] = row]
  /\ parked' = {}

\* The update applied to the closure's older copy.
BugStaleSave(a, row, next) ==
  /\ Commit(a, [row EXCEPT !.cancelReq = run[a].known])
  /\ Keep(a, next)

\* save(): the update applies to the row committed last, and the closure takes it.
Save(a, row, next) ==
  /\ Commit(a, row)
  /\ Keep(a, [next EXCEPT !.known = row.cancelReq])

\* A commit whose append failed: nothing changed but the budget.
StorageFault == budget.faults > 0 /\ budget' = [budget EXCEPT !.faults = @ - 1]

Ends(r, err)  == [r EXCEPT !.pc = "settling", !.err = err]

\* What step() throws reaches the executor, which may catch it.
Throw(a, r, err) ==
  IF Program[a][r.op].optional THEN [r EXCEPT !.pc = "run", !.op = @ + 1]
  ELSE Ends(r, err)

\* The step being performed is the last one recorded.
Last(a) == Len(rows[a].steps)
SetStep(a, step) == [rows[a] EXCEPT !.steps[Last(a)] = step]
World(a) == world[a][Last(a)]
SetWorld(a, w) == world' = [world EXCEPT ![a][Last(a)] = w]

-----------------------------------------------------------------------------
(* Admission and resumption.  invoke() observes unlocked, then decides and  *)
(* commits under the lock against the row it observed.                      *)

NewRun(a, resumed) == [IdleRun EXCEPT !.pc = "authorize", !.resumed = resumed]

FirstState(a, effects) == IF a \in Pea /\ effects # {} THEN "waiting" ELSE "running"

Insert(a) == born' = [born EXCEPT ![a] = 1 + Cardinality({b \in Actions : born[b] > 0})]

Admit(a) ==
  /\ rows[a].state = "absent"
  /\ ~(a \in Pea /\ Footprint[a] # {} /\ runStopped)
  /\ Admissible(a, Footprint[a])
  /\ Commit(a, [AbsentRow EXCEPT !.state = FirstState(a, Footprint[a]), !.effects = Footprint[a]])
  /\ Insert(a)
  /\ Keep(a, NewRun(a, FALSE))
  /\ UNCHANGED <<cancelling, asked, runStopped, stale, world, budget>>

\* A command refused at admission is recorded as failed and not dispatched.
Reject(a) ==
  /\ rows[a].state = "absent"
  /\ ~(a \in Pea /\ Footprint[a] # {} /\ runStopped)
  /\ ~Admissible(a, Footprint[a])
  /\ Commit(a, [AbsentRow EXCEPT !.state = "failed", !.notDispatched = TRUE,
                                 !.effects = Footprint[a]])
  /\ Insert(a)
  /\ UNCHANGED <<run, cancelling, asked, runStopped, stale, world, budget>>

\* Only a stopped attempt whose every step is known is resumed, in its old place.
Resume(a) ==
  /\ budget.attempts > 0
  /\ rows[a].state \in {"unknown", "incomplete"}
  /\ rows[a].prepared
  /\ \A i \in DOMAIN rows[a].steps : ~Uncertain(rows[a].steps[i])
  /\ ~Stopped(a)
  /\ a \notin stale
  /\ \A b \in Actions \ {a} : ~HoldsReconciliation(b, a)
  /\ Admissible(a, rows[a].effects)
  /\ Commit(a, [rows[a] EXCEPT !.state = FirstState(a, rows[a].effects),
                               !.cancelReq = FALSE, !.notDispatched = FALSE])
  /\ Keep(a, NewRun(a, TRUE))
  /\ asked' = [asked EXCEPT ![a] = FALSE]
  /\ budget' = [budget EXCEPT !.attempts = @ - 1]
  /\ UNCHANGED <<born, cancelling, runStopped, stale, world>>

-----------------------------------------------------------------------------
(* From admission to the executor.                                          *)

\* gate(row, "authorize") reads the closure's row; a stopped run is a plain refusal here.
Authorize(a) ==
  /\ run[a].pc = "authorize"
  /\ Keep(a, IF run[a].known THEN Ends(run[a], "refused499")
             ELSE IF Stopped(a) THEN Ends(run[a], "plain")
             ELSE IF a \in stale THEN Ends(run[a], "rejected")
             ELSE [run[a] EXCEPT !.pc = "consent"])
  /\ UNCHANGED <<rows, disk, born, parked, cancelling, asked, runStopped, stale, world, budget>>

\* The run's countdown allowed the effects, or none were declared; then gate "consented".
Consent(a) ==
  /\ run[a].pc = "consent"
  /\ ~Stopped(a)
  /\ LET gate == Gate(a, rows[a].cancelReq)
         next == IF gate = "none" THEN [run[a] EXCEPT !.pc = "turn"] ELSE Ends(run[a], gate)
     IN  Save(a, [rows[a] EXCEPT !.state = "running"], next)
  /\ UNCHANGED <<born, cancelling, asked, runStopped, stale, world, budget>>

\* waitForTurn: the gate is awaited before the check.
TurnGate(a) ==
  /\ run[a].pc = "turn"
  /\ a \notin parked
  /\ LET gate == Gate(a, rows[a].cancelReq)
     IN  Keep(a, IF gate = "none" THEN [run[a] EXCEPT !.pc = "turnCheck"] ELSE Ends(run[a], gate))
  /\ UNCHANGED <<rows, disk, born, parked, cancelling, asked, runStopped, stale, world, budget>>

BugWaitsForRunning(a) ==
  {b \in Actions : Earlier(b, a) /\ rows[b].state = "running"
                   /\ effectsOverlap(rows[a].effects, rows[b].effects)}

Blockers(a) ==
  {b \in Actions : /\ Earlier(b, a) /\ isOpen(rows[b]) /\ b \notin Reconciles[a]
                   /\ effectsOverlap(rows[a].effects, rows[b].effects)}

\* waitForTurn: the check and the registration of the listener are one synchronous block.
TurnCheck(a) ==
  /\ run[a].pc = "turnCheck"
  /\ IF Blockers(a) = {}
     THEN Keep(a, [run[a] EXCEPT !.pc = "prepare"]) /\ UNCHANGED parked
     ELSE LET first == CHOOSE b \in Blockers(a) : \A c \in Blockers(a) : born[b] <= born[c]
          IN  IF rows[first].state \in {"unknown", "incomplete"}
              THEN Keep(a, Ends(run[a], "plain")) /\ UNCHANGED parked
              ELSE Keep(a, [run[a] EXCEPT !.pc = "turn"]) /\ parked' = parked \cup {a}
  /\ UNCHANGED <<rows, disk, born, cancelling, asked, runStopped, stale, world, budget>>

\* A resumed attempt is prepared already: its gate reads the row saved before the turn.
Prepare(a) ==
  /\ run[a].pc = "prepare"
  /\ LET saved == [rows[a] EXCEPT !.prepared = TRUE]
         gate  == Gate(a, IF rows[a].prepared THEN run[a].known ELSE saved.cancelReq)
         next  == IF gate = "none" THEN [run[a] EXCEPT !.pc = "run"] ELSE Ends(run[a], gate)
     IN  IF rows[a].prepared THEN Keep(a, next) /\ UNCHANGED <<rows, disk, parked>>
         ELSE Save(a, saved, next)
  /\ UNCHANGED <<born, cancelling, asked, runStopped, stale, world, budget>>

\* binding.prepare throws, or its value cannot be kept.
PrepareFails(a) ==
  /\ run[a].pc = "prepare"
  /\ ~rows[a].prepared
  /\ StorageFault
  /\ Keep(a, Ends(run[a], "plain"))
  /\ UNCHANGED <<rows, disk, born, parked, cancelling, asked, runStopped, stale, world>>

-----------------------------------------------------------------------------
(* The executor and its steps.                                              *)

AtOp(a) == run[a].pc = "run" /\ run[a].op \in DOMAIN Program[a]
TheOp(a) == Program[a][run[a].op]

\* physicalEffects: what the operation before this one discovered is declared first.
Undiscovered(a) ==
  IF run[a].op - 1 \in DOMAIN Program[a]
  THEN Program[a][run[a].op - 1].discovers \ rows[a].effects ELSE {}

Discover(a) ==
  /\ run[a].pc = "run"
  /\ Undiscovered(a) # {}
  /\ Save(a, [rows[a] EXCEPT !.effects = @ \cup Undiscovered(a)], run[a])
  /\ UNCHANGED <<born, cancelling, asked, runStopped, stale, world, budget>>

BugSkipsAnyFailure(step) == TRUE

\* A failed step a resumed attempt may repeat.
Repeatable(step) == step.notDispatched \/ step.retired

\* One turn of step()'s replay loop over the steps an earlier attempt recorded.
Replay(a) ==
  /\ AtOp(a) /\ Undiscovered(a) = {}
  /\ run[a].cursor < Last(a)
  /\ LET previous == rows[a].steps[run[a].cursor + 1]
         passed   == [run[a] EXCEPT !.cursor = @ + 1]
     IN  Keep(a, IF run[a].resumed /\ previous.state = "failed"
                 THEN IF Repeatable(previous) THEN passed ELSE Throw(a, passed, "plain")
                 ELSE IF previous.op = run[a].op /\ previous.state = "succeeded"
                 THEN [passed EXCEPT !.op = @ + 1]
                 ELSE Throw(a, passed, "plain"))
  /\ UNCHANGED <<rows, disk, born, parked, cancelling, asked, runStopped, stale, world, budget>>

\* step() checks a recorded result again: one that recovery recorded may be refused.
Recheck(a) ==
  /\ AtOp(a) /\ Undiscovered(a) = {}
  /\ run[a].cursor < Last(a)
  /\ LET previous == rows[a].steps[run[a].cursor + 1]
     IN  previous.op = run[a].op /\ previous.state = "succeeded" /\ TheOp(a).checked
  /\ \E err \in {"plain", "failed"} : Keep(a, Throw(a, [run[a] EXCEPT !.cursor = @ + 1], err))
  /\ UNCHANGED <<rows, disk, born, parked, cancelling, asked, runStopped, stale, world, budget>>

\* A resumed executor finds the recorded result gone and will start a new one.
Retire(a) ==
  /\ AtOp(a) /\ Undiscovered(a) = {}
  /\ run[a].resumed
  /\ run[a].cursor < Last(a)
  /\ LET i == run[a].cursor + 1
         previous == rows[a].steps[i]
     IN  /\ previous.op = run[a].op /\ previous.state = "succeeded"
         /\ Program[a][previous.op].retirable
         /\ world[a][i] = "gone"
         /\ Save(a, [rows[a] EXCEPT !.steps[i] = [@ EXCEPT !.state = "failed", !.retired = TRUE]], run[a])
  /\ UNCHANGED <<born, cancelling, asked, runStopped, stale, world, budget>>

\* step() appends a running step before anything else happens.
BeginStep(a) ==
  /\ AtOp(a) /\ Undiscovered(a) = {}
  /\ run[a].cursor = Last(a)
  /\ Last(a) < MaxSteps
  /\ LET step == [op |-> run[a].op, kind |-> TheOp(a).kind, state |-> "running",
                  dispatched |-> FALSE, notDispatched |-> FALSE, retired |-> FALSE, releases |-> FALSE]
     IN  Save(a, [rows[a] EXCEPT !.steps = Append(@, step)],
              [run[a] EXCEPT !.pc = "step", !.cursor = @ + 1])
  /\ world' = [world EXCEPT ![a] = Append(@, "none")]
  /\ UNCHANGED <<born, cancelling, asked, runStopped, stale, budget>>

\* gate(row, "step") on the row as committed now.
GateStep(a) ==
  /\ run[a].pc = "step"
  /\ LET gate == Gate(a, rows[a].cancelReq)
     IN  Keep(a, IF gate = "none" THEN [run[a] EXCEPT !.pc = "effect"]
                 ELSE [run[a] EXCEPT !.pc = "outcome", !.err = gate, !.phase = "gate"])
  /\ UNCHANGED <<rows, disk, born, parked, cancelling, asked, runStopped, stale, world, budget>>

\* A file or Work effect lands in this process.
Land(a) ==
  /\ run[a].pc = "effect" /\ TheOp(a).kind # "native"
  /\ SetWorld(a, "done")
  /\ Keep(a, [run[a] EXCEPT !.pc = "result"])
  /\ UNCHANGED <<rows, disk, born, parked, cancelling, asked, runStopped, stale, budget>>

\* Or throws: refused with nothing done, or anywhere in the middle of the effect.
LandFails(a) ==
  /\ run[a].pc = "effect" /\ TheOp(a).kind # "native"
  /\ \E err \in {"refused", "incomplete", "plain"}, w \in {"none", "done"} :
       /\ err = "incomplete" => TheOp(a).kind = "publication"
       /\ w = "done" => err = "plain"
       /\ SetWorld(a, w)
       /\ Keep(a, [run[a] EXCEPT !.pc = "outcome", !.err = err, !.phase = "effect"])
  /\ UNCHANGED <<rows, disk, born, parked, cancelling, asked, runStopped, stale, budget>>

\* The bridge or the SDK refuses before anything is sent: no session, a full queue, the
\* fence (dispatchRefusal), or a queued request cancelled.
RefuseDispatch(a) ==
  /\ run[a].pc = "effect" /\ TheOp(a).kind = "native"
  /\ \E err \in {"refused", "refused499"} :
       /\ err = "refused499" => rows[a].cancelReq \/ Stopped(a)
       /\ err = "refused" => StorageFault
       /\ err # "refused" => UNCHANGED budget
       /\ Keep(a, [run[a] EXCEPT !.pc = "outcome", !.err = err, !.phase = "effect"])
  /\ UNCHANGED <<rows, disk, born, parked, cancelling, asked, runStopped, stale, world>>

\* dispatchRefusal and the move to the wire are one synchronous block.
dispatchRefusal(a) == rows[a].cancelReq \/ Stopped(a)

Dispatch(a) ==
  /\ run[a].pc = "effect" /\ TheOp(a).kind = "native"
  /\ ~dispatchRefusal(a)
  /\ SetWorld(a, "sent")
  /\ Keep(a, [run[a] EXCEPT !.pc = IF TheOp(a).sdk THEN "await" ELSE "sent"])
  /\ UNCHANGED <<rows, disk, born, parked, cancelling, asked, runStopped, stale, budget>>

\* The bridge commits the dispatch evidence after the send and before it awaits the answer;
\* the CLI's answer is parsed first.
Unmarked(a) ==
  \/ run[a].pc = "sent"
  \/ /\ run[a].pc = "await" /\ TheOp(a).sdk
     /\ World(a) = "done" /\ ~rows[a].steps[Last(a)].dispatched

\* markDispatched() does not refresh the closure's row.
markDispatched(a) ==
  /\ Unmarked(a)
  /\ Commit(a, SetStep(a, [rows[a].steps[Last(a)] EXCEPT !.dispatched = TRUE]))
  /\ Keep(a, [run[a] EXCEPT !.pc = "await"])
  /\ UNCHANGED <<born, cancelling, asked, runStopped, stale, world, budget>>

\* The evidence cannot be stored: the effect throws.
MarkFails(a) ==
  /\ Unmarked(a)
  /\ StorageFault
  /\ Keep(a, [run[a] EXCEPT !.pc = "outcome", !.err = "plain", !.phase = "effect"])
  /\ UNCHANGED <<rows, disk, born, parked, cancelling, asked, runStopped, stale, world>>

\* The answer of a request Revit performed, possibly refused by the step's result check.
Answered(a) ==
  /\ run[a].pc = "await" /\ World(a) = "done" /\ ~Unmarked(a)
  /\ \/ Keep(a, [run[a] EXCEPT !.pc = "result"])
     \/ /\ TheOp(a).checked
        /\ \E err \in {"plain", "failed"} :
             Keep(a, [run[a] EXCEPT !.pc = "outcome", !.err = err, !.phase = "checked"])
  /\ UNCHANGED <<rows, disk, born, parked, cancelling, asked, runStopped, stale, world, budget>>

\* The answer of a request Revit did not perform.
Declined(a) ==
  /\ run[a].pc = "await" /\ World(a) = "dead"
  /\ \E err \in {"refused", "refused499", "cancelled", "failed"} :
       Keep(a, [run[a] EXCEPT !.pc = "outcome", !.err = err, !.phase = "effect"])
  /\ UNCHANGED <<rows, disk, born, parked, cancelling, asked, runStopped, stale, world, budget>>

\* The session ended or the answer was interrupted, whatever Revit did or still does.
Interrupts(a) ==
  /\ run[a].pc = "await"
  /\ StorageFault
  /\ Keep(a, [run[a] EXCEPT !.pc = "outcome", !.err = "unknown", !.phase = "effect"])
  /\ UNCHANGED <<rows, disk, born, parked, cancelling, asked, runStopped, stale, world>>

RecordFailure(a) ==
  /\ run[a].pc = "outcome"
  /\ LET step == FailedStep(rows[a].steps[Last(a)], run[a].err, run[a].phase)
     IN  Save(a, SetStep(a, step), Throw(a, run[a], run[a].err))
  /\ UNCHANGED <<born, cancelling, asked, runStopped, stale, world, budget>>

RecordSuccess(a) ==
  /\ run[a].pc = "result"
  /\ Save(a, SetStep(a, [rows[a].steps[Last(a)] EXCEPT !.state = "succeeded",
                                                       !.releases = TheOp(a).stops # {}]),
           [run[a] EXCEPT !.pc = "run", !.op = @ + 1])
  /\ UNCHANGED <<born, cancelling, asked, runStopped, stale, world, budget>>

\* The outcome cannot be stored: the step stays running and the storage error is thrown.
RecordFails(a) ==
  /\ run[a].pc \in {"outcome", "result"}
  /\ StorageFault
  /\ Keep(a, [Throw(a, run[a], "plain") EXCEPT !.known = rows[a].cancelReq])
  /\ UNCHANGED <<rows, disk, born, parked, cancelling, asked, runStopped, stale, world>>

\* The executor itself throws between two steps: an incomplete acknowledgement or a failed read.
ExecutorThrows(a) ==
  /\ run[a].pc = "run"
  /\ \E err \in {"incomplete", "plain"} : Keep(a, Ends(run[a], err))
  /\ StorageFault
  /\ UNCHANGED <<rows, disk, born, parked, cancelling, asked, runStopped, stale, world>>

ExecutorReturns(a) ==
  /\ run[a].pc = "run" /\ Undiscovered(a) = {}
  /\ run[a].op \notin DOMAIN Program[a]
  /\ Keep(a, Ends(run[a], "returned"))
  /\ UNCHANGED <<rows, disk, born, parked, cancelling, asked, runStopped, stale, world, budget>>

-----------------------------------------------------------------------------
(* Completion, cancellation, recovery, restart.                             *)

\* The settled row is built from the closure's copy: its cancellation flag may be older.
Finished(a) ==
  LET settled == Settle(rows[a].prepared, rows[a].steps, run[a].err)
  IN  [rows[a] EXCEPT !.state = settled.state, !.notDispatched = settled.notDispatched,
                      !.steps = Interrupted(@), !.cancelReq = run[a].known]

Complete(a) ==
  /\ run[a].pc = "settling"
  /\ Commit(a, Finished(a))
  /\ Keep(a, IdleRun)
  /\ UNCHANGED <<born, cancelling, asked, runStopped, stale, world, budget>>

\* The completion cannot be stored: unknown in memory, still running on disk.
CompleteFails(a) ==
  /\ run[a].pc = "settling"
  /\ StorageFault
  /\ rows' = [rows EXCEPT ![a].state = "unknown", ![a].steps = Interrupted(@),
                          ![a].cancelReq = run[a].known]
  /\ parked' = {}
  /\ Keep(a, IdleRun)
  /\ UNCHANGED <<disk, born, cancelling, asked, runStopped, stale, world>>

\* cancel(): only an active attempt; the commit waits for the journal's lock.
Cancel(a) ==
  /\ rows[a].state \in {"waiting", "running"}
  /\ ~rows[a].cancelReq
  /\ <<a, "caller">> \notin cancelling
  /\ budget.cancels > 0 /\ budget' = [budget EXCEPT !.cancels = @ - 1]
  /\ cancelling' = cancelling \cup {<<a, "caller">>}
  /\ UNCHANGED <<rows, disk, born, run, parked, asked, runStopped, stale, world>>

\* The run-change listeners of every attempt of the run that is still pending.
StopRun ==
  /\ ~runStopped
  /\ runStopped' = TRUE
  /\ cancelling' = cancelling \cup
       {<<a, "run">> : a \in {b \in Pea : run[b].pc # "idle" /\ rows[b].effects # {}}}
  /\ run' = [a \in Actions |-> IF a \in Pea /\ run[a].pc = "consent" /\ rows[a].effects # {}
                               THEN Ends(run[a], "refused499") ELSE run[a]]
  /\ budget.cancels > 0 /\ budget' = [budget EXCEPT !.cancels = @ - 1]
  /\ UNCHANGED <<rows, disk, born, parked, asked, stale, world>>

\* The queued commit.  cancel() then rejects a wait for consent; the listener's save()
\* refreshes the closure's row instead.
CommitCancel(a, who) ==
  /\ <<a, who>> \in cancelling
  /\ cancelling' = cancelling \ {<<a, who>>}
  /\ Commit(a, [rows[a] EXCEPT !.cancelReq = TRUE])
  /\ Keep(a, IF who = "run" THEN [run[a] EXCEPT !.known = TRUE]
             ELSE IF run[a].pc = "consent" THEN Ends(run[a], "refused499")
             ELSE run[a])
  /\ asked' = [asked EXCEPT ![a] = run[a].pc # "idle"]
  /\ UNCHANGED <<born, runStopped, stale, world, budget>>

\* The outcome a recovery read may give a step; nothing of the earlier one is kept.
Verdict(state) == [state |-> state, notDispatched |-> FALSE, retired |-> FALSE]
NotDispatched == [state |-> "failed", notDispatched |-> TRUE, retired |-> FALSE]
Replaceable == [state |-> "failed", notDispatched |-> FALSE, retired |-> TRUE]

\* readNativeReceipt: Revit's own receipt, or its process is gone and proves a failure.
NativeVerdicts(w) ==
  CASE w = "none" -> {Verdict("failed")}
    [] w = "done" -> {Verdict("succeeded"), Verdict("failed")}
    [] w = "dead" -> {Verdict("failed"), NotDispatched, Verdict("cancelled")}
    [] OTHER -> {}

\* recoverSdkStep: the CLI's receipt, a request it never admitted, or a dead supervisor whose
\* named session is not there, which a new start may replace.
SdkVerdicts(op, w) ==
  CASE w = "none" -> {NotDispatched}
    [] w = "done" -> {Verdict("succeeded"), Verdict("failed")}
    [] w = "dead" -> {Verdict("failed"), NotDispatched, Verdict("cancelled")}
                     \cup (IF op.retirable THEN {Replaceable} ELSE {})
    [] w = "gone" -> {Verdict("succeeded"), Verdict("failed"), Replaceable}
    [] OTHER -> {}

\* The executor's own evidence: a file with the recorded hash counts whoever wrote it; a
\* Families run counts only with its record, and no receipt of its failure does.
WitnessVerdicts(kind, w) ==
  CASE kind = "file" /\ w \in {"none", "done"} -> {Verdict("succeeded")}
    [] kind = "native" /\ w = "done" -> {Verdict("succeeded"), Verdict("unknown")}
    [] kind = "native" /\ w # "done" -> {Verdict("unknown")}
    [] OTHER -> {}

BugRereadsRecorded(op, step, w) ==
  IF op.witness THEN WitnessVerdicts(step.kind, w)
  ELSE IF step.kind # "native" THEN {}
  ELSE IF op.sdk THEN SdkVerdicts(op, w) ELSE NativeVerdicts(w)

\* What the executor's recover may answer about one step.  Only the plain bridge receipt is read
\* again for a step that has its result.
Verdicts(op, step, w) ==
  IF step.state = "succeeded" /\ (op.sdk \/ op.witness) THEN {}
  ELSE IF op.witness THEN WitnessVerdicts(step.kind, w)
  ELSE IF step.kind # "native" THEN {}
  ELSE IF op.sdk THEN SdkVerdicts(op, w) ELSE NativeVerdicts(w)

\* recover() reads every native step again, whatever it says.
Reread(row, step) == step.kind = "native" \/ step.state = "unknown" \/ row.state = "incomplete"

\* A step as recovery leaves it: as it was when its read fails or proves nothing.
Proven(a, i) ==
  LET step == rows[a].steps[i]
  IN  {step} \cup
      {[step EXCEPT !.state = v.state, !.notDispatched = v.notDispatched, !.retired = v.retired] :
       v \in IF Reread(rows[a], step) THEN Verdicts(Program[a][step.op], step, world[a][i]) ELSE {}}

\* An effect recovery finds in place is in force, also when the step never came to it.
Found(steps, w) ==
  [i \in DOMAIN w |-> IF w[i] = "none" /\ steps[i].state = "succeeded" THEN "found" ELSE w[i]]

\* recover(): reads the receipts unlocked and commits only if the row did not move.
Recover(a) ==
  /\ rows[a].state \in {"unknown", "incomplete"}
  /\ rows[a].prepared
  /\ \E steps \in [DOMAIN rows[a].steps -> UNION {Proven(a, i) : i \in DOMAIN rows[a].steps}] :
       /\ \A i \in DOMAIN steps : steps[i] \in Proven(a, i)
       /\ LET settled == Settle(TRUE, steps, "recovered")
              row == [rows[a] EXCEPT !.steps = steps]
          IN  Commit(a, IF settled.state = "none" THEN row
                        ELSE [row EXCEPT !.state = settled.state,
                                         !.notDispatched = settled.notDispatched])
       /\ world' = [world EXCEPT ![a] = Found(steps, @)]
  /\ UNCHANGED <<born, run, cancelling, asked, runStopped, stale, budget>>

BugResettles(row) ==
  LET steps   == Interrupted(row.steps)
      settled == Settle(row.prepared, steps, "interrupted")
  IN  IF row.state = "absent" THEN row
      ELSE IF row.state = "waiting" THEN [row EXCEPT !.state = "cancelled", !.steps = steps]
      ELSE [row EXCEPT !.state = settled.state, !.notDispatched = settled.notDispatched,
                       !.steps = steps]

\* load(): waiting rows are cancelled, running ones settled from their steps.
Loaded(row) ==
  LET steps   == Interrupted(row.steps)
      settled == Settle(row.prepared, steps, "interrupted")
  IN  IF row.state = "waiting" THEN [row EXCEPT !.state = "cancelled", !.steps = steps]
      ELSE IF row.state = "running"
      THEN [row EXCEPT !.state = settled.state, !.notDispatched = settled.notDispatched,
                       !.steps = steps]
      ELSE [row EXCEPT !.steps = steps]

\* The host dies at any point and the next one loads the file.
Restart ==
  /\ budget.restarts > 0
  /\ budget' = [budget EXCEPT !.restarts = @ - 1]
  /\ rows' = [a \in Actions |-> Loaded(disk[a])]
  /\ disk' = rows'
  /\ run' = [a \in Actions |-> IdleRun]
  /\ parked' = {} /\ cancelling' = {}
  /\ asked' = [a \in Actions |-> FALSE]
  /\ runStopped' = FALSE
  /\ UNCHANGED <<born, stale, world>>

-----------------------------------------------------------------------------
(* The environment: Revit, and whoever edits what an action consumed.       *)

NativePerforms(a, i) ==
  /\ world[a][i] = "sent"
  /\ \E w \in {"done", "dead"} : world' = [world EXCEPT ![a][i] = w]
  /\ UNCHANGED <<journalVars, asked, runStopped, stale, budget>>

\* What a retirable operation left behind (a Revit process) ends by itself.
ResultGone(a, i) ==
  /\ world[a][i] = "done"
  /\ rows[a].steps[i].state # "running" /\ Program[a][rows[a].steps[i].op].retirable
  /\ world' = [world EXCEPT ![a][i] = "gone"]
  /\ UNCHANGED <<journalVars, asked, runStopped, stale, budget>>

EvidenceMoves(a) ==
  /\ a \notin stale
  /\ StorageFault
  /\ stale' = stale \cup {a}
  /\ UNCHANGED <<journalVars, asked, runStopped, world>>

-----------------------------------------------------------------------------
Init ==
  /\ rows = [a \in Actions |-> AbsentRow] /\ disk = rows
  /\ born = [a \in Actions |-> 0]
  /\ run = [a \in Actions |-> IdleRun]
  /\ parked = {} /\ cancelling = {} /\ stale = {}
  /\ asked = [a \in Actions |-> FALSE]
  /\ runStopped = FALSE
  /\ world = [a \in Actions |-> <<>>]
  /\ budget = [attempts |-> MaxAttempts, cancels |-> MaxCancels, faults |-> MaxFaults, restarts |-> MaxRestarts]

Gates(a) == Authorize(a) \/ Consent(a) \/ TurnGate(a) \/ TurnCheck(a) \/ Prepare(a)
StepMoves(a) ==
  \/ Discover(a) \/ Replay(a) \/ Recheck(a) \/ BeginStep(a) \/ GateStep(a) \/ Land(a) \/ LandFails(a)
  \/ RefuseDispatch(a) \/ Dispatch(a) \/ markDispatched(a) \/ Answered(a) \/ Declined(a)
  \/ RecordFailure(a) \/ RecordSuccess(a) \/ ExecutorReturns(a)
Failures(a) ==
  PrepareFails(a) \/ MarkFails(a) \/ Interrupts(a) \/ RecordFails(a) \/ ExecutorThrows(a) \/ CompleteFails(a)
Requests(a) == Admit(a) \/ Reject(a) \/ Resume(a) \/ Cancel(a) \/ Recover(a)
Environment(a) ==
  EvidenceMoves(a) \/ \E i \in DOMAIN world[a] : NativePerforms(a, i) \/ ResultGone(a, i)

Next ==
  \/ \E a \in Actions : \/ Requests(a) \/ Gates(a) \/ StepMoves(a) \/ Retire(a) \/ Failures(a)
                       \/ Complete(a) \/ Environment(a)
                       \/ \E who \in {"caller", "run"} : CommitCancel(a, who)
  \/ StopRun \/ Restart

\* The host keeps running what it started, a consent countdown ends, and Revit answers: while a
\* command can move in one of these ways, it moves.
Moves(a) == Gates(a) \/ StepMoves(a) \/ Complete(a) \/ \E i \in DOMAIN world[a] : NativePerforms(a, i)
Fairness == \A a \in Actions : WF_vars(Moves(a))

Spec == Init /\ [][Next]_vars
FairSpec == Spec /\ Fairness

-----------------------------------------------------------------------------
(* Properties.                                                              *)

\* "gone": done, and its lasting result ended; "found": in effect, but not by this step.
WorldStates == {"none", "sent", "done", "dead", "gone", "found"}

TypeOK ==
  /\ rows \in [Actions -> Row] /\ disk \in [Actions -> Row]
  /\ born \in [Actions -> Nat]
  /\ run \in [Actions -> Run]
  /\ parked \subseteq Actions /\ stale \subseteq Actions
  /\ cancelling \subseteq Actions \X {"caller", "run"}
  /\ asked \in [Actions -> BOOLEAN] /\ runStopped \in BOOLEAN
  /\ world \in [Actions -> Seq(WorldStates)]
  /\ \A a \in Actions : Len(world[a]) = Len(rows[a].steps)
  /\ budget \in [attempts : Nat, cancels : Nat, faults : Nat, restarts : Nat]

Inside(a) == run[a].pc \in {"prepare", "run", "step", "effect", "sent", "await", "outcome", "result"}

\* Two attempts whose bound footprints overlap are never both past waitForTurn, whatever
\* was resumed in an old place, reconciled, refused or settled in between.
Exclusion ==
  \A a, b \in Actions :
    a # b /\ effectsOverlap(Footprint[a], Footprint[b]) => ~(Inside(a) /\ Inside(b))

\* A request still able to change Revit keeps every overlapping attempt out, also after the
\* host lost it to an interruption, a failed commit, a recovery or a restart.
NoOverlapInFlight ==
  \A a, b \in Actions :
    a # b /\ effectsOverlap(Footprint[a], Footprint[b]) /\ Inside(b) =>
      \A i \in DOMAIN world[a] : world[a][i] # "sent"

\* "notDispatched proves it never ran", of the attempt and of a step it is claimed for; and a request
\* nobody has the answer of leaves its step uncertain and its attempt open.
ReceiptHonest ==
  \A a \in Actions : \A i \in DOMAIN world[a] :
    /\ rows[a].notDispatched \/ rows[a].steps[i].notDispatched => world[a][i] \in {"none", "dead"}
    /\ world[a][i] = "sent" =>
         Uncertain(rows[a].steps[i]) /\ rows[a].state \in {"running", "unknown"}

\* No operation of a command takes effect twice, over resumes, recoveries and restarts,
\* unless the step that recorded it was retired.
AtMostOnce ==
  \A a \in Actions : \A i, j \in DOMAIN world[a] :
    /\ i # j /\ rows[a].steps[i].op = rows[a].steps[j].op
    /\ world[a][i] = "done" /\ world[a][j] \in {"done", "sent"}
    => rows[a].steps[i].retired \/ rows[a].steps[j].retired

\* A session slot has one holder at a time.
ClaimExclusivity ==
  \A a, b \in Actions : a # b /\ HoldsSlots(a) /\ HoldsSlots(b) => Slots[a] \cap Slots[b] = {}

\* While an attempt reconciles another, that other one does not run.
ReconciledIdle ==
  \A a, b \in Actions : run[a].pc # "idle" /\ b \in Reconciles[a] => run[b].pc = "idle"

\* After a cancellation is committed, the attempt sends nothing more to Revit: no later save
\* of the attempt may lose the flag the dispatch fence reads.
NoSendAfterCancel ==
  [][\A a \in Actions : \A i \in DOMAIN world[a] :
       asked[a] /\ world[a][i] = "none" => world'[a][i] # "sent"]_vars

\* No settlement or restart takes a recorded success back.  execution.retire does, when its
\* result is gone, and so does the recovery of a bridge request whose Revit ended, but then in
\* a way no resume may repeat.
SuccessKept ==
  [][\A a \in Actions : \A i \in DOMAIN rows[a].steps :
       LET step == rows[a].steps[i]
       IN  step.state = "succeeded" =>
             \/ rows'[a].steps[i].state = "succeeded"
             \/ rows'[a].steps[i].retired /\ world[a][i] = "gone"
             \/ /\ rows[a].state \in {"unknown", "incomplete"}
                /\ step.kind = "native" /\ ~Program[a][step.op].sdk
                /\ rows'[a].steps[i].state = "failed" /\ ~Repeatable(rows'[a].steps[i])]_vars

\* An executor that returned ends the attempt as succeeded, whatever an optional step threw.
ConvenienceHarmless ==
  [][\A a \in Actions :
       run[a].pc = "settling" /\ run[a].err = "returned" /\ Complete(a) =>
         rows'[a].state = "succeeded"]_vars

\* The journal implements the contract of a command, whose effects are what really happened.
Contract == INSTANCE CommandContract WITH
  Required  <- [a \in Actions |-> {n \in DOMAIN Program[a] : ~Program[a][n].optional}],
  answer    <- [a \in Actions |->
                 CASE rows[a].state = "absent" -> "none"
                   [] rows[a].state \in {"waiting", "running"} -> "pending"
                   [] rows[a].state \in {"unknown", "incomplete"} -> "unresolved"
                   [] OTHER -> rows[a].state],
  performed <- [a \in Actions |->
                 {rows[a].steps[i].op : i \in {j \in DOMAIN world[a] :
                    world[a][j] \in {"done", "gone", "found"}}}],
  untouched <- [a \in Actions |-> rows[a].notDispatched]
ImplementsContract == Contract!Spec

\* Every admitted attempt settles: no turn is lost and nobody waits in a circle.
EverySettles ==
  \A a \in Actions : []<>(rows[a].state \notin {"waiting", "running"})

=============================================================================

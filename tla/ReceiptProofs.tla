---------------------------- MODULE ReceiptProofs ----------------------------
(***************************************************************************)
(* What the receipts say is what happened, an operation takes effect once, *)
(* a success stays, a cancelled attempt sends nothing, slots have one      *)
(* holder, and the journal implements the contract of a command: for every *)
(* set of commands and every program of the kind the executors have.       *)
(*                                                                         *)
(* The argument is local to an attempt: what the world did to each effect  *)
(* bounds what its step may say (Truthful), the step being performed says  *)
(* no more than the executor's phase knows (Performing), the file holds    *)
(* the row or the one a lost completion left open (Stored), and everything *)
(* behind the replay cursor belongs to an operation behind the executor's  *)
(* (Behind, Achieved), so that a new step never repeats one in effect.     *)
(***************************************************************************)
EXTENDS ActionJournalProofs

Executing == {"run"} \cup Stepping
Before == {"authorize", "consent", "turn", "turnCheck", "prepare"}

-----------------------------------------------------------------------------
(* The invariant.                                                           *)

\* What the recorded step may say of an effect that ended as w.
Truthful(step, w) ==
  /\ step.notDispatched => step.state \in {"failed", "cancelled"} /\ w \in {"none", "dead"}
  /\ step.state = "succeeded" => w \in {"done", "gone", "found"}
  /\ w = "sent" => Uncertain(step)
  /\ step.retired => step.state = "failed" /\ w \in {"dead", "gone"}
  /\ w = "found" => step.state = "succeeded"

\* The same of a row and all its effects.
TruthfulRow(row, w) ==
  /\ row.notDispatched => row.state \in {"failed", "cancelled"}
  /\ ~row.prepared => row.steps = <<>>
  /\ \A i \in DOMAIN w : /\ Truthful(row.steps[i], w[i])
                         /\ row.notDispatched => w[i] \in {"none", "dead"}
                         /\ w[i] = "sent" => row.state \in {"running", "unknown"}

\* The file holds the row, unless storing its completion failed.
Stored(row, kept) ==
  \/ kept = row
  \/ /\ row.state = "unknown" /\ kept.state \in {"waiting", "running"}
     /\ row.steps = Interrupted(kept.steps)
     /\ row.prepared = kept.prepared /\ row.notDispatched = kept.notDispatched

\* What the phase of an executor says of the step it performs.
Performing(r, row, w) ==
  /\ r.pc \notin {"idle", "authorize", "consent", "settling"} => row.state = "running"
  /\ r.pc \in Executing => row.prepared /\ r.cursor <= Len(row.steps)
  /\ r.pc \in Stepping =>
       LET n == Len(row.steps)
       IN  /\ r.cursor = n /\ row.steps[n].state = "running" /\ row.steps[n].op = r.op
           /\ r.pc \in {"step", "effect"} => w[n] = "none"
           /\ r.pc = "result" => w[n] = "done"
           /\ r.pc = "outcome" =>
                /\ r.err # "returned"
                /\ r.phase = "gate" => w[n] = "none"
                /\ r.phase = "checked" => w[n] = "done"
                /\ r.phase = "effect" /\ r.err \in {"refused", "refused499", "incomplete"} =>
                     w[n] \in {"none", "dead"}
                /\ r.phase = "effect" /\ r.err \in {"cancelled", "failed"} => w[n] = "dead"

\* The effect may still be in force, so that its operation must not begin again.
Held(w) == w \in {"sent", "done"}

\* No two effects of one operation are in force.
Single(program, row, w) ==
  /\ \A i \in DOMAIN w : row.steps[i].op \in DOMAIN program
  /\ \A i, j \in DOMAIN w :
       /\ Held(w[i]) /\ Held(w[j])
       /\ row.steps[i].op = row.steps[j].op
       => i = j

\* Behind the replay cursor only operations the executor has passed are in force.
Behind(r, row, w) ==
  /\ r.op >= 1 /\ (r.pc \in Before => r.op = 1 /\ r.cursor = 0)
  /\ r.pc \in Executing =>
       \A i \in DOMAIN w : i <= r.cursor /\ Held(w[i]) =>
         row.steps[i].op < r.op \/ (r.pc \in Stepping /\ i = Len(row.steps))

InForce(w) == w \in {"done", "gone", "found"}

\* Every operation the executor must not fail at and has passed is in force.
Achieved(program, r, row, w) ==
  \A n \in DOMAIN program :
    /\ ~program[n].optional
    /\ (r.pc \in Executing /\ n < r.op) \/ (r.pc = "settling" /\ r.err = "returned")
    => \E i \in DOMAIN w : InForce(w[i]) /\ row.steps[i].op = n

\* A cancellation of the attempt being executed is in its row.
Told(ask, pending, r, row) ==
  /\ ask => row.state # "absent" /\ (r.pc # "idle" => row.cancelReq)
  /\ pending # {} => row.state # "absent"

Pending(a) == {who \in {"caller", "run"} : <<a, who>> \in cancelling}

Local(a) ==
  /\ TruthfulRow(rows[a], world[a]) /\ TruthfulRow(disk[a], world[a])
  /\ Stored(rows[a], disk[a])
  /\ Performing(run[a], rows[a], world[a])
  /\ Single(Program[a], rows[a], world[a])
  /\ Behind(run[a], rows[a], world[a])
  /\ Achieved(Program[a], run[a], rows[a], world[a])
  /\ Told(asked[a], Pending(a), run[a], rows[a])

ReceiptInv == Typed /\ \A a \in Actions : Local(a)

-----------------------------------------------------------------------------
(* The operators.                                                           *)

LEMMA SeqDomain ==
  ASSUME NEW S, NEW s \in Seq(S)
  PROVE  DOMAIN s = 1..Len(s) /\ (s # <<>> => Len(s) \in 1..Len(s))
BY LenProperties

(* A state as the lemmas below see one attempt of it. *)
LEMMA View ==
  ASSUME Typed, NEW a \in Actions
  PROVE  /\ rows[a] \in Row /\ disk[a] \in Row /\ run[a] \in Run
         /\ rows[a].steps \in Seq(Step) /\ disk[a].steps \in Seq(Step)
         /\ world[a] \in Seq(WorldStates)
         /\ Len(world[a]) = Len(rows[a].steps) /\ Len(world[a]) = Len(disk[a].steps)
         /\ DOMAIN world[a] = 1..Len(rows[a].steps)
         /\ DOMAIN rows[a].steps = 1..Len(rows[a].steps) /\ DOMAIN disk[a].steps = 1..Len(rows[a].steps)
         /\ run[a].pc # "idle" => rows[a].state \in {"waiting", "running"}
         /\ run[a].pc \in Stepping => Len(rows[a].steps) \in 1..Len(rows[a].steps)
<1>1. /\ rows[a] \in Row /\ disk[a] \in Row /\ run[a] \in Run
      /\ rows[a].steps \in Seq(Step) /\ disk[a].steps \in Seq(Step)
      /\ world[a] \in Seq(WorldStates)
      /\ Len(world[a]) = Len(rows[a].steps) /\ Len(world[a]) = Len(disk[a].steps)
  BY DEF Typed, TypeOK, Mirrored, Row
<1>2. run[a].pc \in Stepping => rows[a].steps # <<>>
  BY DEF Typed, Recorded
<1>3. run[a].pc # "idle" => rows[a].state \in {"waiting", "running"}
  BY DEF Typed, Active
<1>4. /\ DOMAIN world[a] = 1..Len(world[a]) /\ DOMAIN rows[a].steps = 1..Len(rows[a].steps)
      /\ DOMAIN disk[a].steps = 1..Len(disk[a].steps)
      /\ rows[a].steps # <<>> => Len(rows[a].steps) \in 1..Len(rows[a].steps)
  BY <1>1, SeqDomain, Zenon
<1>5. Len(disk[a].steps) = Len(rows[a].steps)
  BY <1>1
<1> QED
  BY <1>1, <1>2, <1>3, <1>4, <1>5, Zenon

LEMMA InterruptedIs ==
  ASSUME NEW s \in Seq(Step), NEW i \in DOMAIN s
  PROVE  /\ DOMAIN Interrupted(s) = DOMAIN s
         /\ Interrupted(s)[i] = IF s[i].state = "running" THEN [s[i] EXCEPT !.state = "unknown"]
                                ELSE s[i]
         /\ \A w : Truthful(s[i], w) => Truthful(Interrupted(s)[i], w)
         /\ Interrupted(s)[i].op = s[i].op
<1>1. /\ DOMAIN Interrupted(s) = DOMAIN s
      /\ Interrupted(s)[i] = IF s[i].state = "running" THEN [s[i] EXCEPT !.state = "unknown"]
                             ELSE s[i]
  BY DEF Interrupted
<1>2. s[i] \in Step
  OBVIOUS
<1> QED
  BY <1>1, <1>2 DEF Truthful, Uncertain, Step

(* The catch of step() says no more than the executor's phase knows. *)
LEMMA FailedStepIs ==
  ASSUME NEW step \in Step, NEW w \in WorldStates, NEW err \in Errors,
         NEW phase \in {"gate", "effect", "checked"},
         Truthful(step, w), step.state = "running",
         phase = "gate" => w = "none",
         phase = "checked" => w = "done",
         phase = "effect" /\ err \in {"refused", "refused499", "incomplete"} => w \in {"none", "dead"},
         phase = "effect" /\ err \in {"cancelled", "failed"} => w = "dead"
  PROVE  LET failed == FailedStep(step, err, phase)
         IN  /\ failed \in Step /\ Truthful(failed, w)
             /\ failed.op = step.op /\ failed.retired = step.retired
<1> DEFINE outcome == IF phase = "gate"
        THEN Outcome(IF err = "refused499" THEN "cancelled" ELSE "failed", TRUE)
        ELSE IF phase = "checked"
        THEN IF err \in {"cancelled", "failed", "unknown"} THEN Failure(err)
             ELSE Outcome("failed", FALSE)
        ELSE IF err = "rejected" THEN Outcome("unknown", FALSE)
        ELSE Failure(err)
      denied == step.dispatched /\ outcome.notDispatched
      failed == [step EXCEPT !.state = IF denied THEN "unknown" ELSE outcome.state,
                             !.notDispatched = IF denied THEN FALSE ELSE outcome.notDispatched]
<1>1. FailedStep(step, err, phase) = failed
  BY DEF FailedStep
<1>2. /\ outcome.state \in {"failed", "cancelled", "unknown"} /\ outcome.notDispatched \in BOOLEAN
      /\ outcome.notDispatched => outcome.state # "unknown" /\ w \in {"none", "dead"}
      /\ w = "sent" => outcome.state = "unknown"
  BY DEF Outcome, Failure, Errors
<1> HIDE DEF outcome
<1>3. /\ failed.state = (IF denied THEN "unknown" ELSE outcome.state)
      /\ failed.notDispatched = (IF denied THEN FALSE ELSE outcome.notDispatched)
      /\ failed.op = step.op /\ failed.retired = step.retired /\ failed \in Step
  BY <1>2 DEF Step, StepStates
<1> HIDE DEF failed
<1>4. ~step.retired /\ w # "found"
  BY DEF Truthful
<1>5. Truthful(failed, w)
  BY <1>2, <1>3, <1>4 DEF Truthful, Uncertain
<1> QED
  BY <1>1, <1>3, <1>5

(* A settlement claims nothing that the steps do not say. *)
LEMMA SettledIs ==
  ASSUME NEW prepared \in BOOLEAN, NEW s, NEW w, NEW cause \in Causes,
         ~prepared => s = <<>>, DOMAIN w \subseteq DOMAIN s, s = <<>> => DOMAIN w = {},
         \A i \in DOMAIN w : Truthful(s[i], w[i])
  PROVE  LET settled == Settle(prepared, s, cause)
         IN  /\ settled.notDispatched => /\ settled.state \in {"failed", "cancelled"}
                                         /\ \A i \in DOMAIN w : w[i] \in {"none", "dead"}
             /\ \A i \in DOMAIN w : w[i] = "sent" => settled.state = "unknown"
             /\ settled.state = "succeeded" => cause = "returned"
<1> DEFINE settled == Settle(prepared, s, cause)
<1>1. ASSUME NEW i \in DOMAIN w, w[i] = "sent"
      PROVE  settled.state = "unknown"
  <2>1. Some(s, {"unknown", "running"})
    BY <1>1 DEF Truthful, Uncertain, Some
  <2> QED
    BY <2>1 DEF Settle, Outcome
<1>2. settled.state = "succeeded" => cause = "returned"
  BY DEF Settle, Outcome, Failure
<1>3. settled.notDispatched => settled.state \in {"failed", "cancelled"} /\ (Untouched(s) \/ ~prepared)
  BY DEF Settle, Outcome, Failure
<1>4. Untouched(s) => \A i \in DOMAIN w : w[i] \in {"none", "dead"}
  BY DEF Untouched, NeverRan, Truthful
<1>5. ~prepared => DOMAIN w = {}
  OBVIOUS
<1> QED
  BY <1>1, <1>2, <1>3, <1>4, <1>5

(* What step() throws ends the attempt, or passes an operation the executor need not do. *)
LEMMA ThrowIs ==
  ASSUME NEW a \in Actions, NEW r \in Run, NEW err \in Endings
  PROVE  LET thrown == Throw(a, r, err)
         IN  /\ thrown \in Run /\ thrown.cursor = r.cursor
             /\ \/ thrown.pc = "settling" /\ thrown.err = err /\ thrown.op = r.op
                \/ thrown.pc = "run" /\ thrown.op = r.op + 1 /\ Program[a][r.op].optional
<1>1. Throw(a, r, err) \in Run
  BY ThrowType
<1>2. CASE Program[a][r.op].optional
  BY <1>1, <1>2 DEF Throw, Run
<1>3. CASE ~Program[a][r.op].optional
  BY <1>1, <1>3 DEF Throw, Run, Ends
<1> QED
  BY <1>2, <1>3

-----------------------------------------------------------------------------
(* How one attempt changes.                                                 *)

(* The effects in force are at most those that were held, and none is lost. *)
LEMMA Carries ==
  ASSUME NEW program, NEW r, NEW row, NEW row2, NEW w, NEW w2,
         DOMAIN w2 = DOMAIN w, Len(row2.steps) = Len(row.steps),
         \A i \in DOMAIN w : /\ row2.steps[i].op = row.steps[i].op
                             /\ Held(w2[i]) => Held(w[i])
                             /\ InForce(w[i]) => InForce(w2[i])
  PROVE  /\ Single(program, row, w) => Single(program, row2, w2)
         /\ Behind(r, row, w) => Behind(r, row2, w2)
         /\ Achieved(program, r, row, w) => Achieved(program, r, row2, w2)
<1>1. Single(program, row, w) => Single(program, row2, w2)
  BY DEF Single
<1>2. Behind(r, row, w) => Behind(r, row2, w2)
  BY DEF Behind
<1>3. Achieved(program, r, row, w) => Achieved(program, r, row2, w2)
  BY DEF Achieved
<1> QED
  BY <1>1, <1>2, <1>3

(* Rows that say the same of each step. *)
LEMMA CarriesSteps ==
  ASSUME NEW program, NEW r, NEW row, NEW row2, NEW w, row2.steps = row.steps
  PROVE  /\ Single(program, row, w) => Single(program, row2, w)
         /\ Behind(r, row, w) => Behind(r, row2, w)
         /\ Achieved(program, r, row, w) => Achieved(program, r, row2, w)
BY Carries

(* An execution outside its executor claims nothing. *)
LEMMA Outside ==
  ASSUME NEW program, NEW r, NEW row, NEW w, r.op >= 1, r.pc \notin Executing,
         r.pc \in Before => r.op = 1 /\ r.cursor = 0,
         r.pc = "settling" => r.err # "returned"
  PROVE  Behind(r, row, w) /\ Achieved(program, r, row, w)
BY DEF Behind, Achieved

(* The executor stays at its operation. *)
LEMMA Stays ==
  ASSUME NEW program, NEW r, NEW r2, NEW row, NEW w,
         Behind(r, row, w), Achieved(program, r, row, w),
         r.pc \in Executing, r2.pc \in Executing, r2.op = r.op, r2.cursor = r.cursor,
         r.pc \in Stepping => r2.pc \in Stepping
  PROVE  Behind(r2, row, w) /\ Achieved(program, r2, row, w)
BY DEF Behind, Achieved, Executing, Stepping, Before

(* The executor passes its operation, in force or not needed, or one recorded step. *)
LEMMA Passes ==
  ASSUME NEW program, NEW r \in Run, NEW r2 \in Run, NEW row \in Row, NEW w \in Seq(WorldStates),
         Len(w) = Len(row.steps), Behind(r, row, w), Achieved(program, r, row, w),
         Single(program, row, w), program \in Seq(Op), r.pc \in Executing, r2.pc = "run",
         NEW i \in DOMAIN w, r2.cursor = i, r2.op \in {r.op, r.op + 1},
         \/ r.pc = "run" /\ i = r.cursor + 1
         \/ r.pc \in Stepping /\ i = r.cursor /\ i = Len(w),
         Held(w[i]) => row.steps[i].op < r2.op,
         r2.op = r.op \/ program[r.op].optional
           \/ (InForce(w[i]) /\ row.steps[i].op = r.op)
  PROVE  Behind(r2, row, w) /\ Achieved(program, r2, row, w)
<1>1. r.op \in Nat /\ r.cursor \in Nat /\ r2.op \in Nat
  BY DEF Run
<1>2. DOMAIN w = 1..Len(row.steps) /\ Len(row.steps) \in Nat
  BY SeqDomain, LenProperties
<1>3. \A j \in DOMAIN w : row.steps[j].op \in Nat
  BY <1>2 DEF Single
<1>4. \A j \in DOMAIN w : j <= i /\ Held(w[j]) => row.steps[j].op < r2.op
  <2> SUFFICES ASSUME NEW j \in DOMAIN w, j <= i, j # i, Held(w[j])
               PROVE  row.steps[j].op < r2.op
    OBVIOUS
  <2>1. j <= r.cursor /\ j # Len(row.steps)
    BY <1>1, <1>2
  <2>2. row.steps[j].op < r.op
    BY <2>1 DEF Behind
  <2> QED
    BY <1>1, <1>3, <2>2
<1>5. Behind(r2, row, w)
  <2>1. r2.op >= 1
    BY <1>1 DEF Behind
  <2> QED
    BY <1>4, <2>1 DEF Behind, Stepping, Before
<1>6. Achieved(program, r2, row, w)
  <2> SUFFICES ASSUME NEW n \in DOMAIN program, ~program[n].optional, n < r2.op
               PROVE  \E j \in DOMAIN w : InForce(w[j]) /\ row.steps[j].op = n
    BY DEF Achieved
  <2>1. n \in Nat
    BY SeqDomain
  <2>2. CASE n < r.op
    BY <2>2 DEF Achieved
  <2>3. CASE ~(n < r.op)
    BY <1>1, <2>1, <2>3
  <2> QED
    BY <2>2, <2>3
<1> QED
  BY <1>5, <1>6

(* The effect of the step being performed comes in force, or is refused. *)
LEMMA Happens ==
  ASSUME NEW program, NEW r \in Run, NEW row \in Row, NEW w \in Seq(WorldStates),
         Len(w) = Len(row.steps), Len(w) \in DOMAIN w, NEW x \in WorldStates,
         Single(program, row, w), Behind(r, row, w), Achieved(program, r, row, w),
         r.pc \in Stepping, r.cursor = Len(w), row.steps[Len(w)].op = r.op, w[Len(w)] = "none"
  PROVE  LET w2 == [w EXCEPT ![Len(w)] = x]
         IN  Single(program, row, w2) /\ Behind(r, row, w2) /\ Achieved(program, r, row, w2)
<1> DEFINE n == Len(w)
           w2 == [w EXCEPT ![n] = x]
<1>1. DOMAIN w2 = DOMAIN w /\ DOMAIN w = 1..n /\ n \in Nat
  BY SeqDomain, LenProperties
<1>2. \A i \in DOMAIN w : w2[i] = IF i = n THEN x ELSE w[i]
  BY <1>1
<1>3. \A i \in DOMAIN w : i <= n /\ (Held(w[i]) => i # n)
  BY <1>1 DEF Held
<1>4. r.op \in Nat
  BY DEF Run
<1> HIDE DEF w2
<1>5. \A i \in DOMAIN w : Held(w[i]) => row.steps[i].op < r.op
  BY <1>3 DEF Behind, Executing
<1>6. \A i \in DOMAIN w : Held(w2[i]) => i = n \/ Held(w[i])
  BY <1>2
<1>7. Single(program, row, w2)
  <2>1. \A i \in DOMAIN w : Held(w[i]) => row.steps[i].op # r.op
    BY <1>4, <1>5
  <2> QED
    BY <1>1, <1>6, <2>1 DEF Single
<1>8. Behind(r, row, w2)
  BY <1>1, <1>5, <1>6 DEF Behind
<1>9. Achieved(program, r, row, w2)
  <2>1. \A i \in DOMAIN w : InForce(w[i]) => InForce(w2[i])
    BY <1>2 DEF InForce
  <2> QED
    BY <1>1, <2>1 DEF Achieved
<1> QED
  BY <1>7, <1>8, <1>9 DEF w2

\* Nothing of another attempt changes.
Only(a) ==
  \A b \in Actions : b # a =>
    /\ rows'[b] = rows[b] /\ disk'[b] = disk[b] /\ run'[b] = run[b]
    /\ world'[b] = world[b] /\ asked'[b] = asked[b] /\ Pending(b)' = Pending(b)

LEMMA OnlyKeeps ==
  ASSUME ReceiptInv, Typed', NEW a \in Actions, Only(a), Local(a)'
  PROVE  ReceiptInv'
<1>1. \A b \in Actions : b # a => Local(b)'
  BY DEF ReceiptInv, Local, Only
<1> QED
  BY <1>1 DEF ReceiptInv

(* An execution that moves without a commit. *)
LEMMA MovesTo ==
  ASSUME Typed, NEW a \in Actions, Local(a), NEW next \in Run, Keep(a, next),
         UNCHANGED <<rows, disk, world, asked, cancelling>>,
         next.pc # "idle" => run[a].pc # "idle",
         Performing(next, rows[a], world[a]),
         Behind(next, rows[a], world[a]),
         Achieved(Program[a], next, rows[a], world[a])
  PROVE  Only(a) /\ Local(a)'
<1>1. run'[a] = next /\ \A b \in Actions : b # a => run'[b] = run[b]
  BY DEF Keep, Typed, TypeOK
<1>2. \A b \in Actions : Pending(b)' = Pending(b)
  BY DEF Pending
<1>3. Only(a)
  BY <1>1, <1>2 DEF Only
<1>4. Told(asked[a], Pending(a), next, rows[a])
  BY DEF Local, Told
<1>5. Local(a)'
  BY <1>1, <1>2, <1>4 DEF Local
<1> QED
  BY <1>3, <1>5

(* A committed row and its execution; the steps say the same of the same effects in force. *)
LEMMA CommitsTo ==
  ASSUME Typed, NEW a \in Actions, NEW row, NEW next, NEW w,
         Commit(a, row), Keep(a, next), world' = [world EXCEPT ![a] = w],
         \A b \in Actions : b # a => asked'[b] = asked[b] /\ Pending(b)' = Pending(b),
         TruthfulRow(row, w), Performing(next, row, w), Single(Program[a], row, w),
         Behind(next, row, w), Achieved(Program[a], next, row, w),
         Told(asked'[a], Pending(a)', next, row)
  PROVE  Only(a) /\ Local(a)'
<1>1. run'[a] = next /\ \A b \in Actions : b # a => run'[b] = run[b]
  BY DEF Keep, Typed, TypeOK
<1>2. /\ rows'[a] = row /\ disk'[a] = row
      /\ \A b \in Actions : b # a => rows'[b] = rows[b] /\ disk'[b] = disk[b]
  BY DEF Commit, Typed, TypeOK
<1>3. world'[a] = w /\ \A b \in Actions : b # a => world'[b] = world[b]
  BY DEF Typed, TypeOK
<1>4. Only(a)
  BY <1>1, <1>2, <1>3 DEF Only
<1>5. Local(a)'
  BY <1>1, <1>2, <1>3 DEF Local, Stored
<1> QED
  BY <1>4, <1>5

(* save(): the execution takes the row's cancellation flag. *)
LEMMA Saves ==
  ASSUME NEW a \in Actions, NEW row \in Row, NEW next \in Run, Save(a, row, next)
  PROVE  \E after \in Run :
           /\ Commit(a, row) /\ Keep(a, after)
           /\ after.pc = next.pc /\ after.op = next.op /\ after.cursor = next.cursor
           /\ after.err = next.err /\ after.phase = next.phase
<1> DEFINE after == [next EXCEPT !.known = row.cancelReq]
<1>1. /\ after \in Run /\ after.pc = next.pc /\ after.op = next.op /\ after.cursor = next.cursor
      /\ after.err = next.err /\ after.phase = next.phase
  BY DEF Run, Row
<1>2. Commit(a, row) /\ Keep(a, after)
  BY DEF Save
<1> QED
  BY <1>1, <1>2

(* The attempt ends, or has not begun its executor. *)
LEMMA LocalOutside ==
  ASSUME Typed, NEW a \in Actions, Local(a), NEW next \in Run, Keep(a, next),
         UNCHANGED <<rows, disk, world, asked, cancelling>>,
         run[a].pc # "idle", next.pc \notin Executing, next.op >= 1,
         next.pc \in Before => run[a].pc \in Before /\ next.op = run[a].op /\ next.cursor = run[a].cursor,
         next.pc \in {"idle", "consent", "settling"} \/ rows[a].state = "running",
         next.pc = "settling" => next.err # "returned"
  PROVE  Only(a) /\ Local(a)'
<1>1. Performing(next, rows[a], world[a])
  BY DEF Performing, Executing
<1>2. next.pc \in Before => next.op = 1 /\ next.cursor = 0
  BY DEF Local, Behind
<1> QED
  BY <1>1, <1>2, Outside, MovesTo

-----------------------------------------------------------------------------
(* From admission to the executor.                                          *)

LEMMA EndsIs ==
  ASSUME NEW r \in Run, NEW err \in Endings
  PROVE  /\ Ends(r, err) \in Run /\ Ends(r, err).pc = "settling" /\ Ends(r, err).err = err
         /\ Ends(r, err).op = r.op
BY EndsType DEF Ends, Run

LEMMA GateErrors ==
  ASSUME NEW a \in Actions, NEW flag
  PROVE  Gate(a, flag) = "none" \/ (Gate(a, flag) \in Endings /\ Gate(a, flag) # "returned")
BY DEF Gate, Endings, Errors

(* Where a gate leads. *)
LEMMA GateLeads ==
  ASSUME NEW a \in Actions, NEW r \in Run, NEW pc \in Phases, NEW flag, pc # "settling"
  PROVE  LET gate == Gate(a, flag)
             next == IF gate = "none" THEN [r EXCEPT !.pc = pc] ELSE Ends(r, gate)
         IN  /\ next \in Run /\ next.op = r.op
             /\ \/ next.pc = pc /\ next.cursor = r.cursor
                \/ next.pc = "settling" /\ next.err # "returned"
<1> DEFINE gate == Gate(a, flag)
           on == [r EXCEPT !.pc = pc]
<1>1. gate = "none" \/ (gate \in Endings /\ gate # "returned")
  BY GateErrors
<1>2. on \in Run /\ on.pc = pc /\ on.op = r.op /\ on.cursor = r.cursor
  BY DEF Run
<1> HIDE DEF gate, on
<1>3. gate \in Endings => Ends(r, gate) \in Run /\ Ends(r, gate).pc = "settling"
                          /\ Ends(r, gate).err = gate /\ Ends(r, gate).op = r.op
  BY EndsIs
<1> DEFINE next == IF gate = "none" THEN on ELSE Ends(r, gate)
<1>4. /\ next \in Run /\ next.op = r.op
      /\ \/ next.pc = pc /\ next.cursor = r.cursor
         \/ next.pc = "settling" /\ next.err # "returned"
  <2>1. CASE gate = "none"
    <3>1. next = on
      BY <2>1
    <3> QED
      BY <1>2, <3>1
  <2>2. CASE gate # "none"
    <3>1. next = Ends(r, gate)
      BY <2>2
    <3> QED
      BY <1>1, <1>3, <2>2, <3>1
  <2> QED
    BY <2>1, <2>2
<1> QED
  BY <1>4 DEF gate, on

LEMMA LocalGates ==
  ASSUME Typed, NEW a \in Actions, Local(a), Authorize(a) \/ TurnGate(a) \/ TurnCheck(a)
  PROVE  Only(a) /\ Local(a)'
<1>1. run[a] \in Run /\ run[a].op >= 1
  BY View DEF Local, Behind
<1>2. {"consent", "turn", "turnCheck", "prepare"} \subseteq Phases
      /\ {"refused499", "plain", "rejected"} \subseteq Endings \ {"returned"}
  BY DEF Phases, Endings, Errors
<1>3. \A pc \in Phases : LET next == [run[a] EXCEPT !.pc = pc]
                         IN  /\ next \in Run /\ next.pc = pc
                             /\ next.op = run[a].op /\ next.cursor = run[a].cursor
  BY <1>1 DEF Run
<1> DEFINE Leads(next) == /\ next \in Run /\ next.op = run[a].op
                          /\ next.pc # "settling" => next.cursor = run[a].cursor
                          /\ \/ next.pc \in {"turn", "turnCheck", "prepare"} /\ rows[a].state = "running"
                             \/ next.pc = "consent"
                             \/ next.pc = "settling" /\ next.err # "returned"
<1>4. ASSUME NEW next, Leads(next), Keep(a, next), run[a].pc \in Before,
             UNCHANGED <<rows, disk, world, asked, cancelling>>
      PROVE  Only(a) /\ Local(a)'
  BY <1>1, <1>4, LocalOutside DEF Executing, Stepping, Before
<1>5. \A err \in Endings \ {"returned"} : Leads(Ends(run[a], err))
  BY <1>1, EndsIs
<1>6. Leads([run[a] EXCEPT !.pc = "consent"])
  BY <1>1, <1>2, <1>3
<1>7. rows[a].state = "running" => \A pc \in {"turn", "turnCheck", "prepare"} :
                                     Leads([run[a] EXCEPT !.pc = pc])
  BY <1>1, <1>2, <1>3
<1>8. run[a].pc \in {"turn", "turnCheck"} => rows[a].state = "running"
  BY DEF Local, Performing
<1> HIDE DEF Leads
<1>9. CASE Authorize(a)
  <2>1. \E next : Leads(next) /\ Keep(a, next)
    BY <1>2, <1>5, <1>6, <1>9 DEF Authorize
  <2> QED
    BY <1>4, <1>9, <2>1 DEF Authorize, Before
<1>10. CASE TurnGate(a)
  <2>1. Gate(a, rows[a].cancelReq) = "none" \/ Gate(a, rows[a].cancelReq) \in Endings \ {"returned"}
    BY GateErrors
  <2>2. \E next : Leads(next) /\ Keep(a, next)
    BY <1>5, <1>7, <1>8, <1>10, <2>1 DEF TurnGate
  <2> QED
    BY <1>4, <1>10, <2>2 DEF TurnGate, Before
<1>11. CASE TurnCheck(a)
  <2>1. \E next : Leads(next) /\ Keep(a, next)
    BY <1>2, <1>5, <1>7, <1>8, <1>11 DEF TurnCheck
  <2> QED
    BY <1>4, <1>11, <2>1 DEF TurnCheck, Before
<1> QED
  BY <1>9, <1>10, <1>11

(* A commit that changes no step. *)
LEMMA LocalCommit ==
  ASSUME Typed, NEW a \in Actions, Local(a), NEW row \in Row, NEW next \in Run,
         Commit(a, row), Keep(a, next), world' = world,
         \A b \in Actions : b # a => asked'[b] = asked[b] /\ Pending(b)' = Pending(b),
         row.steps = rows[a].steps, rows[a].prepared => row.prepared,
         row.notDispatched => rows[a].notDispatched /\ row.state = rows[a].state,
         rows[a].state \in {"running", "unknown"} =>
           row.state \in {"running", "unknown"} \/ \A i \in DOMAIN world[a] : world[a][i] # "sent",
         Performing(next, row, world[a]),
         Behind(next, rows[a], world[a]), Achieved(Program[a], next, rows[a], world[a]),
         Told(asked'[a], Pending(a)', next, row)
  PROVE  Only(a) /\ Local(a)'
<1>1. TruthfulRow(row, world[a])
  <2>1. row.notDispatched => row.state \in {"failed", "cancelled"}
    BY DEF Local, TruthfulRow
  <2>2. ~row.prepared => row.steps = <<>>
    BY DEF Local, TruthfulRow
  <2>3. ASSUME NEW i \in DOMAIN world[a]
        PROVE  /\ Truthful(row.steps[i], world[a][i])
               /\ row.notDispatched => world[a][i] \in {"none", "dead"}
               /\ world[a][i] = "sent" => row.state \in {"running", "unknown"}
    BY DEF Local, TruthfulRow
  <2> QED
    BY <2>1, <2>2, <2>3 DEF TruthfulRow
<1>2. /\ Single(Program[a], row, world[a]) /\ Behind(next, row, world[a])
      /\ Achieved(Program[a], next, row, world[a])
  BY CarriesSteps DEF Local
<1>3. world' = [world EXCEPT ![a] = world[a]]
  BY DEF Typed, TypeOK
<1> QED
  BY <1>1, <1>2, <1>3, CommitsTo

LEMMA LocalConsent ==
  ASSUME Typed, NEW a \in Actions, Local(a), Consent(a)
  PROVE  Only(a) /\ Local(a)'
<1>1. rows[a] \in Row /\ run[a] \in Run /\ run[a].op >= 1
  BY View DEF Local, Behind
<1> DEFINE gate == Gate(a, rows[a].cancelReq)
           next == IF gate = "none" THEN [run[a] EXCEPT !.pc = "turn"] ELSE Ends(run[a], gate)
           row == [rows[a] EXCEPT !.state = "running"]
<1>2. /\ row \in Row /\ row.state = "running" /\ row.steps = rows[a].steps
      /\ row.prepared = rows[a].prepared /\ row.notDispatched = rows[a].notDispatched
      /\ row.cancelReq = rows[a].cancelReq
  BY <1>1 DEF Row, RowStates
<1>3. /\ next \in Run /\ next.op = run[a].op
      /\ \/ next.pc = "turn" /\ next.cursor = run[a].cursor
         \/ next.pc = "settling" /\ next.err # "returned"
  <2>1. "turn" \in Phases /\ "turn" # "settling"
    BY DEF Phases
  <2> QED
    BY <1>1, <2>1, GateLeads
<1>4. Save(a, row, next)
  BY DEF Consent
<1> HIDE DEF next, row
<1>5. PICK after \in Run : /\ Commit(a, row) /\ Keep(a, after)
                           /\ after.pc = next.pc /\ after.op = next.op /\ after.err = next.err
                           /\ after.cursor = next.cursor
  BY <1>2, <1>3, <1>4, Saves
<1>6. Performing(after, row, world[a])
  BY <1>2, <1>3, <1>5 DEF Performing, Executing, Stepping
<1>7. Behind(after, rows[a], world[a]) /\ Achieved(Program[a], after, rows[a], world[a])
  <2>1. run[a].op = 1 /\ run[a].cursor = 0
    BY DEF Consent, Local, Behind, Before
  <2> QED
    BY <1>3, <1>5, <2>1, Outside DEF Executing, Stepping, Before
<1>8. Told(asked'[a], Pending(a)', after, row)
  BY <1>2 DEF Consent, Local, Told, Pending
<1>9. ~rows[a].notDispatched
  <2>1. rows[a].state \in {"waiting", "running"}
    BY View DEF Consent
  <2> QED
    BY <2>1 DEF Local, TruthfulRow
<1>10. \A b \in Actions : asked'[b] = asked[b] /\ Pending(b)' = Pending(b)
  BY DEF Consent, Pending
<1> QED
  BY <1>2, <1>5, <1>6, <1>7, <1>8, <1>9, <1>10, LocalCommit DEF Consent

LEMMA LocalPrepare ==
  ASSUME Typed, NEW a \in Actions, Local(a), Prepare(a)
  PROVE  Only(a) /\ Local(a)'
<1>1. /\ rows[a] \in Row /\ run[a] \in Run /\ run[a].op >= 1 /\ rows[a].state = "running"
      /\ run[a].pc = "prepare"
  BY View DEF Prepare, Local, Behind, Performing
<1> DEFINE saved == [rows[a] EXCEPT !.prepared = TRUE]
           flag == IF rows[a].prepared THEN run[a].known ELSE saved.cancelReq
           gate == Gate(a, flag)
           next == IF gate = "none" THEN [run[a] EXCEPT !.pc = "run"] ELSE Ends(run[a], gate)
<1>2. /\ saved \in Row /\ saved.state = "running" /\ saved.steps = rows[a].steps /\ saved.prepared
      /\ saved.cancelReq = rows[a].cancelReq /\ saved.notDispatched = rows[a].notDispatched
  BY <1>1 DEF Row
<1>3. /\ rows[a].prepared => Keep(a, next) /\ UNCHANGED <<rows, disk, parked>>
      /\ ~rows[a].prepared => Save(a, saved, next)
  BY Zenon DEF Prepare
<1> HIDE DEF saved, flag
<1>4. /\ next \in Run /\ next.op = run[a].op
      /\ \/ next.pc = "run" /\ next.cursor = run[a].cursor
         \/ next.pc = "settling" /\ next.err # "returned"
  <2>1. "run" \in Phases /\ "run" # "settling"
    BY DEF Phases
  <2> QED
    BY <1>1, <2>1, GateLeads
<1> HIDE DEF next
<1>5. ASSUME NEW after \in Run, after.pc = next.pc, after.op = next.op, after.err = next.err,
             after.cursor = next.cursor
      PROVE  Behind(after, rows[a], world[a]) /\ Achieved(Program[a], after, rows[a], world[a])
  <2>1. run[a].op = 1 /\ run[a].cursor = 0
    BY <1>1 DEF Local, Behind, Before
  <2>2. CASE after.pc = "run"
    <3>1. after.op = 1 /\ after.cursor = 0
      BY <1>4, <1>5, <2>1, <2>2
    <3>2. /\ \A i \in DOMAIN world[a] : ~(i <= 0)
          /\ \A n \in DOMAIN Program[a] : ~(n < 1)
      <4>1. DOMAIN world[a] = 1..Len(world[a]) /\ DOMAIN Program[a] = 1..Len(Program[a])
        BY View, ConstantsAssumption, SeqDomain
      <4> QED
        BY <4>1
    <3> QED
      BY <2>2, <3>1, <3>2 DEF Behind, Achieved, Before, Executing
  <2>3. CASE after.pc = "settling"
    BY <1>1, <1>4, <1>5, <2>3, Outside DEF Executing, Stepping, Before
  <2> QED
    BY <1>4, <1>5, <2>2, <2>3
<1>6. CASE rows[a].prepared
  <2>1. Performing(next, rows[a], world[a])
    <3>1. Len(rows[a].steps) \in Nat
      BY View, LenProperties
    <3>2. run[a].cursor = 0
      BY <1>1 DEF Local, Behind, Before
    <3> QED
      BY <1>1, <1>4, <1>6, <3>1, <3>2 DEF Performing, Executing, Stepping
  <2> QED
    BY <1>1, <1>3, <1>4, <1>5, <1>6, <2>1, MovesTo DEF Prepare
<1>7. CASE ~rows[a].prepared
  <2>1. PICK after \in Run : /\ Commit(a, saved) /\ Keep(a, after)
                             /\ after.pc = next.pc /\ after.op = next.op /\ after.err = next.err
                             /\ after.cursor = next.cursor
    BY <1>2, <1>3, <1>4, <1>7, Saves
  <2>2. Performing(after, saved, world[a])
    <3>1. Len(rows[a].steps) \in Nat
      BY View, LenProperties
    <3>2. run[a].cursor = 0
      BY <1>1 DEF Local, Behind, Before
    <3> QED
      BY <1>2, <1>4, <2>1, <3>1, <3>2 DEF Performing, Executing, Stepping
  <2>3. Told(asked'[a], Pending(a)', after, saved)
    BY <1>1, <1>2 DEF Prepare, Local, Told, Pending
  <2>4. \A b \in Actions : asked'[b] = asked[b] /\ Pending(b)' = Pending(b)
    BY DEF Prepare, Pending
  <2> QED
    BY <1>1, <1>2, <1>5, <2>1, <2>2, <2>3, <2>4, LocalCommit DEF Prepare
<1> QED
  BY <1>6, <1>7

LEMMA LocalDiscover ==
  ASSUME Typed, NEW a \in Actions, Local(a), Discover(a)
  PROVE  Only(a) /\ Local(a)'
<1>1. rows[a] \in Row /\ run[a] \in Run /\ run[a].pc = "run" /\ rows[a].state = "running"
  BY View DEF Discover, Local, Performing
<1> DEFINE row == [rows[a] EXCEPT !.effects = @ \cup Undiscovered(a)]
<1>2. /\ row \in Row /\ row.steps = rows[a].steps /\ row.state = "running"
      /\ row.prepared = rows[a].prepared /\ row.cancelReq = rows[a].cancelReq
      /\ row.notDispatched = rows[a].notDispatched
  <2>1. Undiscovered(a) \subseteq Resources
    <3>1. Program[a] \in Seq(Op)
      BY ConstantsAssumption
    <3>2. \A n \in DOMAIN Program[a] : Program[a][n] \in Op
      BY <3>1, SeqDomain
    <3>3. \A op \in Op : op.discovers \subseteq Resources
      BY DEF Op
    <3> QED
      BY <3>2, <3>3 DEF Undiscovered
  <2> QED
    BY <1>1, <2>1 DEF Row
<1>3. Save(a, row, run[a])
  BY DEF Discover
<1> HIDE DEF row
<1>4. PICK after \in Run : /\ Commit(a, row) /\ Keep(a, after)
                           /\ after.pc = "run" /\ after.op = run[a].op
                           /\ after.cursor = run[a].cursor
  BY <1>1, <1>2, <1>3, Saves
<1>5. Performing(after, row, world[a])
  BY <1>1, <1>2, <1>4 DEF Local, Performing, Executing, Stepping
<1>6. Behind(after, rows[a], world[a]) /\ Achieved(Program[a], after, rows[a], world[a])
  BY <1>1, <1>4, Stays DEF Local, Executing, Stepping
<1>7. Told(asked'[a], Pending(a)', after, row)
  BY <1>1, <1>2 DEF Discover, Local, Told, Pending
<1>8. \A b \in Actions : asked'[b] = asked[b] /\ Pending(b)' = Pending(b)
  BY DEF Discover, Pending
<1> QED
  BY <1>1, <1>2, <1>4, <1>5, <1>6, <1>7, <1>8, LocalCommit DEF Discover

(* A new attempt has not begun its executor. *)
LEMMA NewRunIs ==
  ASSUME NEW a, NEW resumed \in BOOLEAN
  PROVE  LET r == NewRun(a, resumed)
         IN  r \in Run /\ r.pc = "authorize" /\ r.op = 1 /\ r.cursor = 0
BY DEF NewRun, IdleRun, Run, Phases, Endings, Errors

LEMMA Begun ==
  ASSUME NEW program, NEW r, NEW row, NEW w, r.pc = "authorize", r.op = 1, r.cursor = 0
  PROVE  Performing(r, row, w) /\ Behind(r, row, w) /\ Achieved(program, r, row, w)
BY Outside DEF Performing, Executing, Stepping

LEMMA LocalAdmit ==
  ASSUME Typed, NEW a \in Actions, Local(a), Admit(a) \/ Reject(a)
  PROVE  Only(a) /\ Local(a)'
<1>1. /\ rows[a] \in Row /\ run[a] \in Run /\ rows[a].state = "absent" /\ rows[a].steps = <<>>
      /\ world[a] = <<>> /\ run[a].pc = "idle"
  <2>1. rows[a].state = "absent" /\ rows[a].steps = <<>> /\ run[a].pc = "idle"
    BY DEF Admit, Reject, Typed, Mirrored, Active
  <2>2. Len(world[a]) = 0 /\ world[a] \in Seq(WorldStates)
    BY <2>1, View, EmptySeq
  <2> QED
    BY <2>1, <2>2, View, EmptySeq
<1>2. DOMAIN world[a] = {} /\ world' = [world EXCEPT ![a] = <<>>]
  <2>1. DOMAIN world[a] = 1..0
    BY <1>1, View, EmptySeq
  <2>2. world \in [Actions -> Seq(WorldStates)] /\ world' = world
    BY DEF Admit, Reject, Typed, TypeOK
  <2> QED
    BY <1>1, <2>1, <2>2
<1>3. ~asked[a] /\ Pending(a) = {}
  BY <1>1 DEF Local, Told
<1>4. \A b \in Actions : asked'[b] = asked[b] /\ Pending(b)' = Pending(b)
  BY DEF Admit, Reject, Pending
<1>5. ASSUME NEW row, NEW next, Commit(a, row), Keep(a, next), row.steps = <<>>,
             row.notDispatched => row.state \in {"failed", "cancelled"},
             Performing(next, row, <<>>), Behind(next, row, <<>>), Achieved(Program[a], next, row, <<>>)
      PROVE  Only(a) /\ Local(a)'
  <2>1. TruthfulRow(row, <<>>) /\ Single(Program[a], row, <<>>)
    BY <1>1, <1>2, <1>5 DEF TruthfulRow, Single
  <2>2. Told(asked'[a], Pending(a)', next, row)
    BY <1>3, <1>4 DEF Told
  <2> QED
    BY <1>2, <1>4, <1>5, <2>1, <2>2, CommitsTo
<1>6. CASE Admit(a)
  <2> DEFINE row == [AbsentRow EXCEPT !.state = FirstState(a, Footprint[a]), !.effects = Footprint[a]]
  <2>1. row.steps = <<>> /\ ~row.notDispatched
    BY DEF AbsentRow
  <2>2. Commit(a, row) /\ Keep(a, NewRun(a, FALSE))
    BY <1>6 DEF Admit
  <2> HIDE DEF row
  <2> QED
    BY <1>5, <2>1, <2>2, NewRunIs, Begun
<1>7. CASE Reject(a)
  <2> DEFINE row == [AbsentRow EXCEPT !.state = "failed", !.notDispatched = TRUE,
                                      !.effects = Footprint[a]]
  <2>1. row.steps = <<>> /\ row.state = "failed"
    BY DEF AbsentRow
  <2>2. Commit(a, row) /\ Keep(a, run[a])
    BY <1>7 DEF Reject, Keep, Typed, TypeOK
  <2> HIDE DEF row
  <2>3. /\ Performing(run[a], row, <<>>) /\ Behind(run[a], row, <<>>)
        /\ Achieved(Program[a], run[a], row, <<>>)
    BY <1>1, Outside DEF Performing, Executing, Stepping, Local, Behind, Before
  <2> QED
    BY <1>5, <2>1, <2>2, <2>3
<1> QED
  BY <1>6, <1>7

LEMMA LocalResume ==
  ASSUME Typed, NEW a \in Actions, Local(a), Resume(a)
  PROVE  Only(a) /\ Local(a)'
<1>1. rows[a] \in Row /\ rows[a].state \in {"unknown", "incomplete"}
  BY View DEF Resume
<1> DEFINE row == [rows[a] EXCEPT !.state = FirstState(a, rows[a].effects),
                                  !.cancelReq = FALSE, !.notDispatched = FALSE]
<1>2. /\ row \in Row /\ row.steps = rows[a].steps /\ ~row.notDispatched
      /\ row.prepared = rows[a].prepared /\ row.state # "absent"
  <2>1. FirstState(a, rows[a].effects) \in {"waiting", "running"}
    BY DEF FirstState
  <2> QED
    BY <1>1, <2>1 DEF Row, RowStates
<1>3. Commit(a, row) /\ Keep(a, NewRun(a, TRUE)) /\ world' = world
  BY DEF Resume
<1> HIDE DEF row
<1>4. \A i \in DOMAIN world[a] : world[a][i] # "sent"
  <2>1. \A i \in DOMAIN world[a] : ~Uncertain(rows[a].steps[i])
    BY View DEF Resume
  <2> QED
    BY <2>1 DEF Local, TruthfulRow, Truthful
<1>5. asked' = [asked EXCEPT ![a] = FALSE] /\ cancelling' = cancelling
  BY DEF Resume
<1>6. ~asked'[a] /\ \A b \in Actions : b # a => asked'[b] = asked[b] /\ Pending(b)' = Pending(b)
  BY <1>5 DEF Pending, Typed, TypeOK
<1>7. Told(asked'[a], Pending(a)', NewRun(a, TRUE), row)
  BY <1>2, <1>6 DEF Told
<1> QED
  BY <1>2, <1>3, <1>4, <1>6, <1>7, NewRunIs, Begun, LocalCommit

-----------------------------------------------------------------------------
(* Cancellation and the environment.                                        *)

(* The attempt goes on unless its wait for consent is rejected. *)
LEMMA KeepsOn ==
  ASSUME NEW program, NEW r \in Run, NEW r2 \in Run, NEW row, NEW row2, NEW w,
         Performing(r, row, w), Behind(r, row, w), Achieved(program, r, row, w),
         row2.state = row.state, row2.steps = row.steps, row2.prepared = row.prepared,
         \/ /\ r2.pc = r.pc /\ r2.op = r.op /\ r2.cursor = r.cursor
            /\ r2.err = r.err /\ r2.phase = r.phase
         \/ r.pc = "consent" /\ r2.pc = "settling" /\ r2.op = r.op /\ r2.err # "returned"
  PROVE  Performing(r2, row2, w) /\ Behind(r2, row, w) /\ Achieved(program, r2, row, w)
<1>1. CASE r2.pc = r.pc /\ r2.op = r.op /\ r2.cursor = r.cursor /\ r2.err = r.err /\ r2.phase = r.phase
  BY <1>1 DEF Performing, Behind, Achieved
<1>2. CASE r.pc = "consent" /\ r2.pc = "settling" /\ r2.op = r.op /\ r2.err # "returned"
  <2>1. Performing(r2, row2, w)
    BY <1>2 DEF Performing, Executing, Stepping
  <2>2. Behind(r2, row, w) /\ Achieved(program, r2, row, w)
    BY <1>2, Outside DEF Behind, Executing, Stepping, Before
  <2> QED
    BY <2>1, <2>2
<1> QED
  BY <1>1, <1>2

LEMMA LocalCommitCancel ==
  ASSUME Typed, NEW a \in Actions, NEW who \in {"caller", "run"}, Local(a), CommitCancel(a, who)
  PROVE  Only(a) /\ Local(a)'
<1>1. rows[a] \in Row /\ run[a] \in Run /\ world' = world
  BY View DEF CommitCancel
<1> DEFINE row    == [rows[a] EXCEPT !.cancelReq = TRUE]
           told   == [run[a] EXCEPT !.known = TRUE]
           denied == Ends(run[a], "refused499")
           next   == IF who = "run" THEN told ELSE IF run[a].pc = "consent" THEN denied ELSE run[a]
<1>2. Commit(a, row) /\ Keep(a, next)
  BY DEF CommitCancel
<1>3. /\ row \in Row /\ row.state = rows[a].state /\ row.steps = rows[a].steps /\ row.cancelReq
      /\ row.prepared = rows[a].prepared /\ row.notDispatched = rows[a].notDispatched
  BY <1>1 DEF Row
<1>4. /\ told \in Run /\ told.pc = run[a].pc /\ told.op = run[a].op /\ told.cursor = run[a].cursor
      /\ told.err = run[a].err /\ told.phase = run[a].phase
  BY <1>1 DEF Run
<1>5. denied \in Run /\ denied.pc = "settling" /\ denied.op = run[a].op /\ denied.err # "returned"
  BY <1>1, EndsIs DEF Endings, Errors
<1> HIDE DEF row, told, denied
<1>6. /\ next \in Run
      /\ \/ /\ next.pc = run[a].pc /\ next.op = run[a].op /\ next.cursor = run[a].cursor
            /\ next.err = run[a].err /\ next.phase = run[a].phase
         \/ /\ run[a].pc = "consent" /\ next.pc = "settling" /\ next.op = run[a].op
            /\ next.err # "returned"
  BY <1>1, <1>4, <1>5
<1> HIDE DEF next
<1>7. /\ Performing(next, row, world[a])
      /\ Behind(next, rows[a], world[a]) /\ Achieved(Program[a], next, rows[a], world[a])
  BY <1>1, <1>3, <1>6, KeepsOn DEF Local
<1>8. \A b \in Actions : b # a => asked'[b] = asked[b] /\ Pending(b)' = Pending(b)
  BY DEF CommitCancel, Pending, Typed, TypeOK
<1>9. Told(asked'[a], Pending(a)', next, row)
  <2>1. Pending(a) # {}
    BY DEF CommitCancel, Pending
  <2> QED
    BY <1>3, <2>1 DEF Local, Told
<1> QED
  BY <1>1, <1>2, <1>3, <1>6, <1>7, <1>8, <1>9, LocalCommit

LEMMA LocalCancel ==
  ASSUME Typed, NEW a \in Actions, Local(a), Cancel(a) \/ EvidenceMoves(a)
  PROVE  Only(a) /\ Local(a)'
<1>1. UNCHANGED <<rows, disk, run, world, asked>>
  BY DEF Cancel, EvidenceMoves, journalVars
<1>2. \A b \in Actions : b # a => Pending(b)' = Pending(b)
  BY DEF Cancel, EvidenceMoves, journalVars, Pending
<1>3. Pending(a)' = Pending(a) \/ rows[a].state # "absent"
  BY DEF Cancel, EvidenceMoves, journalVars, Pending
<1>4. Told(asked[a], Pending(a)', run[a], rows[a])
  BY <1>3 DEF Local, Told
<1> QED
  BY <1>1, <1>2, <1>4 DEF Only, Local

LEMMA LocalEnvironment ==
  ASSUME Typed, NEW a \in Actions, Local(a), Environment(a)
  PROVE  Only(a) /\ Local(a)'
<1>1. CASE EvidenceMoves(a)
  BY <1>1, LocalCancel
<1>2. ASSUME NEW i \in DOMAIN world[a], NativePerforms(a, i) \/ ResultGone(a, i)
      PROVE  Only(a) /\ Local(a)'
  <2>1. PICK x \in WorldStates :
          /\ world' = [world EXCEPT ![a] = [@ EXCEPT ![i] = x]]
          /\ \/ world[a][i] = "sent" /\ x \in {"done", "dead"}
             \/ world[a][i] = "done" /\ x = "gone" /\ rows[a].steps[i].state # "running"
    BY <1>2 DEF NativePerforms, ResultGone, WorldStates
  <2> DEFINE w == [world[a] EXCEPT ![i] = x]
  <2>2. UNCHANGED <<rows, disk, run, asked, cancelling>>
    BY <1>2 DEF NativePerforms, ResultGone, journalVars
  <2>3. world' = [world EXCEPT ![a] = w]
    BY <2>1 DEF Typed, TypeOK
  <2>4. DOMAIN w = DOMAIN world[a] /\ \A j \in DOMAIN world[a] : w[j] = IF j = i THEN x ELSE world[a][j]
    BY View
  <2> HIDE DEF w
  <2>5. world'[a] = w /\ \A b \in Actions : b # a => world'[b] = world[b]
    BY <2>3 DEF Typed, TypeOK
  <2>6. ~rows[a].steps[i].retired /\ ~rows[a].steps[i].notDispatched
    BY <2>1 DEF Local, TruthfulRow, Truthful
  <2>7. TruthfulRow(rows[a], w)
    BY <2>1, <2>4, <2>6 DEF Local, TruthfulRow, Truthful
  <2>8. TruthfulRow(disk[a], w)
    <3>1. /\ disk[a].steps[i].state = "succeeded" <=> rows[a].steps[i].state = "succeeded"
          /\ disk[a].steps[i].retired = rows[a].steps[i].retired
      <4>1. CASE disk[a] = rows[a]
        BY <4>1
      <4>2. CASE rows[a].steps = Interrupted(disk[a].steps)
        <5>1. disk[a].steps \in Seq(Step) /\ i \in DOMAIN disk[a].steps /\ disk[a].steps[i] \in Step
          BY View, SeqDomain
        <5>2. rows[a].steps[i] = IF disk[a].steps[i].state = "running"
                                 THEN [disk[a].steps[i] EXCEPT !.state = "unknown"]
                                 ELSE disk[a].steps[i]
          BY <4>2, <5>1, InterruptedIs
        <5> QED
          BY <5>1, <5>2 DEF Step
      <4> QED
        BY <4>1, <4>2 DEF Local, Stored
    <3> QED
      BY <2>1, <2>4, <2>6, <3>1 DEF Local, TruthfulRow, Truthful
  <2>9. Performing(run[a], rows[a], w)
    BY <2>1, <2>4, View DEF Local, Performing, TruthfulRow, Truthful
  <2>10. /\ Single(Program[a], rows[a], w) /\ Behind(run[a], rows[a], w)
         /\ Achieved(Program[a], run[a], rows[a], w)
    <3>1. \A j \in DOMAIN world[a] :
            /\ Held(w[j]) => Held(world[a][j])
            /\ InForce(world[a][j]) => InForce(w[j])
      BY <2>1, <2>4 DEF Held, InForce
    <3> QED
      BY <2>4, <3>1, Carries DEF Local
  <2>11. \A b \in Actions : Pending(b)' = Pending(b)
    BY <2>2 DEF Pending
  <2> QED
    BY <2>2, <2>5, <2>7, <2>8, <2>9, <2>10, <2>11 DEF Only, Local
<1> QED
  BY <1>1, <1>2 DEF Environment

LEMMA LocalStopRun ==
  ASSUME Typed, NEW a \in Actions, Local(a), StopRun
  PROVE  Local(a)'
<1>1. UNCHANGED <<rows, disk, world, asked>> /\ run[a] \in Run
  BY View DEF StopRun
<1> DEFINE denied == Ends(run[a], "refused499")
<1>2. denied \in Run /\ denied.pc = "settling" /\ denied.op = run[a].op /\ denied.err # "returned"
  BY <1>1, EndsIs DEF Endings, Errors
<1>3. run'[a] = run[a] \/ (run[a].pc = "consent" /\ run'[a] = denied)
  BY DEF StopRun
<1> HIDE DEF denied
<1>4. /\ Performing(run'[a], rows[a], world[a])
      /\ Behind(run'[a], rows[a], world[a]) /\ Achieved(Program[a], run'[a], rows[a], world[a])
  BY <1>1, <1>2, <1>3, KeepsOn DEF Local
<1>5. Pending(a)' = Pending(a) \/ run[a].pc # "idle"
  BY DEF StopRun, Pending
<1>6. run[a].pc # "idle" => rows[a].state # "absent"
  BY View
<1>7. run'[a].pc # "idle" => run[a].pc # "idle"
  BY <1>2, <1>3
<1>8. Told(asked[a], Pending(a)', run'[a], rows[a])
  BY <1>5, <1>6, <1>7 DEF Local, Told
<1> QED
  BY <1>1, <1>4, <1>8 DEF Local

-----------------------------------------------------------------------------
(* The executor's steps.                                                    *)

(* The executor moves inside the step it performs, or fails before it has one. *)
LEMMA LocalStepping ==
  ASSUME Typed, NEW a \in Actions, Local(a), NEW next \in Run, Keep(a, next),
         UNCHANGED <<rows, disk, world, asked, cancelling>>,
         run[a].pc \in Stepping, next.pc \in Stepping, next.op = run[a].op,
         next.cursor = run[a].cursor, Performing(next, rows[a], world[a])
  PROVE  Only(a) /\ Local(a)'
BY Stays, MovesTo DEF Local, Executing, Stepping

LEMMA PhaseIs ==
  ASSUME NEW r \in Run, NEW pc \in Phases
  PROVE  LET next == [r EXCEPT !.pc = pc]
         IN  next \in Run /\ next.pc = pc /\ next.op = r.op /\ next.cursor = r.cursor
BY DEF Run

(* An awaited effect fails: what its error may say of the effect. *)
LEMMA LocalOutcome ==
  ASSUME Typed, NEW a \in Actions, Local(a), NEW err \in Endings, err # "returned",
         NEW phase \in {"gate", "effect", "checked"},
         Keep(a, [run[a] EXCEPT !.pc = "outcome", !.err = err, !.phase = phase]),
         UNCHANGED <<rows, disk, world, asked, cancelling>>, run[a].pc \in Stepping,
         phase = "gate" => World(a) = "none",
         phase = "checked" => World(a) = "done",
         phase = "effect" /\ err \in {"refused", "refused499", "incomplete"} =>
           World(a) \in {"none", "dead"},
         phase = "effect" /\ err \in {"cancelled", "failed"} => World(a) = "dead"
  PROVE  Only(a) /\ Local(a)'
<1> DEFINE next == [run[a] EXCEPT !.pc = "outcome", !.err = err, !.phase = phase]
<1>0. run[a] \in Run
  BY View
<1>1. /\ next \in Run /\ next.pc = "outcome" /\ next.err = err /\ next.phase = phase
      /\ next.op = run[a].op /\ next.cursor = run[a].cursor
  BY <1>0 DEF Run, Phases
<1> HIDE DEF next
<1>2. Performing(next, rows[a], world[a])
  BY <1>1 DEF Local, Performing, World, Last, Executing, Stepping
<1> QED
  BY <1>1, <1>2, LocalStepping DEF next, Stepping

LEMMA LocalQuietSteps ==
  ASSUME Typed, NEW a \in Actions, Local(a),
         GateStep(a) \/ RefuseDispatch(a) \/ Answered(a) \/ Declined(a) \/ MarkFails(a) \/ Interrupts(a)
  PROVE  Only(a) /\ Local(a)'
<1>1. run[a] \in Run /\ {"effect", "result"} \subseteq Phases
  BY View DEF Phases
<1>2. {"refused", "refused499", "rejected", "plain", "failed", "cancelled", "unknown"} \subseteq Endings
  BY DEF Endings, Errors
<1>3. run[a].pc \in {"step", "effect"} => World(a) = "none"
  BY DEF Local, Performing, World, Last, Stepping
<1>4. ASSUME NEW pc \in {"effect", "result"}, Keep(a, [run[a] EXCEPT !.pc = pc]),
             UNCHANGED <<rows, disk, world, asked, cancelling>>, run[a].pc \in Stepping,
             pc = "effect" => World(a) = "none", pc = "result" => World(a) = "done"
      PROVE  Only(a) /\ Local(a)'
  <2> DEFINE next == [run[a] EXCEPT !.pc = pc]
  <2>1. next \in Run /\ next.pc = pc /\ next.op = run[a].op /\ next.cursor = run[a].cursor
    BY <1>1, PhaseIs
  <2>2. Keep(a, next)
    BY <1>4
  <2> HIDE DEF next
  <2>3. Performing(next, rows[a], world[a])
    BY <1>4, <2>1 DEF Local, Performing, World, Last, Executing, Stepping
  <2> QED
    BY <1>4, <2>1, <2>2, <2>3, LocalStepping DEF Stepping
<1>5. CASE GateStep(a)
  <2>1. \/ Gate(a, rows[a].cancelReq) = "none"
        \/ Gate(a, rows[a].cancelReq) \in Endings /\ Gate(a, rows[a].cancelReq) # "returned"
    BY GateErrors
  <2> QED
    BY <1>3, <1>4, <1>5, <2>1, LocalOutcome DEF GateStep, Stepping
<1>6. CASE RefuseDispatch(a)
  BY <1>2, <1>3, <1>6, LocalOutcome DEF RefuseDispatch, Stepping
<1>7. CASE Answered(a)
  BY <1>2, <1>4, <1>7, LocalOutcome DEF Answered, Stepping
<1>8. CASE Declined(a)
  BY <1>2, <1>8, LocalOutcome DEF Declined, Stepping
<1>9. CASE MarkFails(a)
  BY <1>2, <1>9, LocalOutcome DEF MarkFails, Unmarked, Stepping
<1>10. CASE Interrupts(a)
  BY <1>2, <1>10, LocalOutcome DEF Interrupts, Stepping
<1> QED
  BY <1>5, <1>6, <1>7, <1>8, <1>9, <1>10


LEMMA LocalEnds ==
  ASSUME Typed, NEW a \in Actions, Local(a),
         PrepareFails(a) \/ ExecutorThrows(a) \/ ExecutorReturns(a)
  PROVE  Only(a) /\ Local(a)'
<1>1. /\ run[a] \in Run /\ run[a].op >= 1 /\ run[a].op \in Nat
      /\ "plain" \in Endings /\ "incomplete" \in Endings /\ "returned" \in Endings
  BY View DEF Local, Behind, Run, Endings, Errors
<1>2. CASE PrepareFails(a) \/ ExecutorThrows(a)
  <2>1. PICK err \in Endings : err # "returned" /\ Keep(a, Ends(run[a], err))
    BY <1>1, <1>2 DEF PrepareFails, ExecutorThrows
  <2> DEFINE next == Ends(run[a], err)
  <2>0. next \in Run /\ next.pc = "settling" /\ next.err = err /\ next.op = run[a].op
    BY <1>1, EndsIs
  <2>2. next \in Run /\ next.pc = "settling" /\ next.err # "returned" /\ next.op >= 1
    BY <1>1, <2>0, <2>1, Zenon
  <2>3. Keep(a, next) /\ run[a].pc # "idle" /\ UNCHANGED <<rows, disk, world, asked, cancelling>>
    BY <1>2, <2>1 DEF PrepareFails, ExecutorThrows
  <2> HIDE DEF next
  <2> QED
    BY <2>2, <2>3, LocalOutside DEF Executing, Stepping, Before
<1>3. CASE ExecutorReturns(a)
  <2> DEFINE next == Ends(run[a], "returned")
  <2>1. next \in Run /\ next.pc = "settling" /\ next.op >= 1
    BY <1>1, EndsIs
  <2>2. /\ Keep(a, next) /\ run[a].pc = "run" /\ run[a].op \notin DOMAIN Program[a]
        /\ UNCHANGED <<rows, disk, world, asked, cancelling>>
    BY <1>3 DEF ExecutorReturns
  <2> HIDE DEF next
  <2>3. \A n \in DOMAIN Program[a] : n < run[a].op
    <3>1. Program[a] \in Seq(Op)
      BY ConstantsAssumption
    <3>2. DOMAIN Program[a] = 1..Len(Program[a]) /\ Len(Program[a]) \in Nat
      BY <3>1, SeqDomain, LenProperties
    <3> QED
      BY <1>1, <2>2, <3>2
  <2>4. Achieved(Program[a], next, rows[a], world[a])
    BY <2>1, <2>2, <2>3 DEF Local, Achieved, Executing, Stepping
  <2>5. Performing(next, rows[a], world[a]) /\ Behind(next, rows[a], world[a])
    BY <2>1 DEF Performing, Behind, Executing, Stepping, Before
  <2> QED
    BY <2>1, <2>2, <2>4, <2>5, MovesTo
<1> QED
  BY <1>2, <1>3

(* The executor passes a recorded step, or what it performs cannot be stored. *)
LEMMA LocalPasses ==
  ASSUME Typed, NEW a \in Actions, Local(a), NEW next \in Run, Keep(a, next),
         UNCHANGED <<rows, disk, world, asked, cancelling>>,
         run[a].pc \in Executing, NEW i \in DOMAIN world[a],
         \/ run[a].pc = "run" /\ i = run[a].cursor + 1
         \/ run[a].pc \in Stepping /\ i = run[a].cursor /\ i = Len(world[a]),
         \/ next.pc = "settling" /\ next.err # "returned" /\ next.op = run[a].op
         \/ /\ next.pc = "run" /\ next.cursor = i /\ next.op \in {run[a].op, run[a].op + 1}
            /\ Held(world[a][i]) => rows[a].steps[i].op < next.op
            /\ next.op = run[a].op \/ Program[a][run[a].op].optional
                 \/ (InForce(world[a][i]) /\ rows[a].steps[i].op = run[a].op)
  PROVE  Only(a) /\ Local(a)'
<1>1. run[a] \in Run /\ run[a].op >= 1 /\ run[a].pc # "idle" /\ Program[a] \in Seq(Op)
  BY View, ConstantsAssumption DEF Local, Behind, Executing, Stepping
<1>2. CASE next.pc = "settling" /\ next.err # "returned" /\ next.op = run[a].op
  BY <1>1, <1>2, LocalOutside DEF Executing, Stepping, Before
<1>3. CASE next.pc # "settling"
  <2>1. rows[a] \in Row /\ world[a] \in Seq(WorldStates) /\ Len(world[a]) = Len(rows[a].steps)
    BY View
  <2>2. Behind(next, rows[a], world[a]) /\ Achieved(Program[a], next, rows[a], world[a])
    BY <1>1, <1>3, <2>1, Passes DEF Local
  <2>3. Performing(next, rows[a], world[a])
    <3>1. i <= Len(rows[a].steps)
      BY View
    <3>2. rows[a].prepared /\ rows[a].state = "running"
      BY DEF Local, Performing, Executing, Stepping
    <3> QED
      BY <1>3, <3>1, <3>2 DEF Performing, Executing, Stepping
  <2> QED
    BY <1>1, <1>3, <2>2, <2>3, MovesTo
<1> QED
  BY <1>2, <1>3

LEMMA LocalReplay ==
  ASSUME Typed, NEW a \in Actions, Local(a), Replay(a) \/ Recheck(a)
  PROVE  Only(a) /\ Local(a)'
<1> DEFINE i == run[a].cursor + 1
           previous == rows[a].steps[i]
           passed   == [run[a] EXCEPT !.cursor = @ + 1]
           on       == [passed EXCEPT !.op = @ + 1]
<1>1. /\ run[a] \in Run /\ run[a].op \in Nat /\ run[a].cursor \in Nat /\ run[a].pc = "run"
      /\ {"plain", "failed"} \subseteq Endings
  BY View DEF Replay, Recheck, AtOp, Run, Endings, Errors
<1>2. i \in DOMAIN world[a] /\ i <= Len(rows[a].steps)
  <2>1. run[a].cursor < Len(rows[a].steps) /\ Len(rows[a].steps) \in Nat
    BY View, LenProperties DEF Replay, Recheck, Last
  <2>2. DOMAIN world[a] = 1..Len(rows[a].steps)
    BY View
  <2> QED
    BY <1>1, <2>1, <2>2
<1>3. UNCHANGED <<rows, disk, world, asked, cancelling>>
  BY DEF Replay, Recheck
<1>4. \/ Keep(a, passed) /\ previous.state = "failed" /\ Repeatable(previous)
      \/ Keep(a, on) /\ previous.op = run[a].op /\ previous.state = "succeeded"
      \/ \E err \in {"plain", "failed"} : Keep(a, Throw(a, passed, err))
  <2>1. CASE Replay(a)
    <3>1. Keep(a, IF run[a].resumed /\ previous.state = "failed"
                  THEN IF Repeatable(previous) THEN passed ELSE Throw(a, passed, "plain")
                  ELSE IF previous.op = run[a].op /\ previous.state = "succeeded" THEN on
                  ELSE Throw(a, passed, "plain"))
      BY <2>1, Zenon DEF Replay
    <3> HIDE DEF passed, on, previous
    <3> QED
      BY <3>1
  <2>2. CASE Recheck(a)
    BY <2>2 DEF Recheck
  <2> QED
    BY <2>1, <2>2
<1>5. /\ passed \in Run /\ passed.cursor = i /\ passed.op = run[a].op /\ passed.pc = "run"
      /\ on \in Run /\ on.cursor = i /\ on.op = run[a].op + 1 /\ on.pc = "run"
  <2>1. i \in Nat /\ run[a].op + 1 \in Nat
    BY <1>1
  <2> HIDE DEF i
  <2>2. /\ passed = [run[a] EXCEPT !.cursor = i] /\ passed \in Run /\ passed.cursor = i
        /\ passed.op = run[a].op /\ passed.pc = "run"
    BY <1>1, <2>1 DEF Run, i
  <2> HIDE DEF passed
  <2>3. on \in Run /\ on.cursor = i /\ on.op = run[a].op + 1 /\ on.pc = "run"
    BY <2>1, <2>2 DEF Run
  <2> QED
    BY <2>2, <2>3
<1>6. ASSUME NEW err \in {"plain", "failed"}
      PROVE  LET t == Throw(a, passed, err)
             IN  /\ t \in Run /\ t.cursor = i
                 /\ \/ t.pc = "settling" /\ t.err = err /\ t.op = run[a].op
                    \/ t.pc = "run" /\ t.op = run[a].op + 1 /\ Program[a][run[a].op].optional
  <2> HIDE DEF passed
  <2>1. LET t == Throw(a, passed, err)
        IN  /\ t \in Run /\ t.cursor = passed.cursor
            /\ \/ t.pc = "settling" /\ t.err = err /\ t.op = passed.op
               \/ t.pc = "run" /\ t.op = passed.op + 1 /\ Program[a][passed.op].optional
    BY <1>1, <1>5, ThrowIs
  <2> QED
    BY <1>5, <2>1
<1>7. Truthful(previous, world[a][i])
  BY <1>2 DEF Local, TruthfulRow
<1>8. previous.op \in DOMAIN Program[a] /\ previous.op \in Nat
  <2>1. previous.op \in DOMAIN Program[a]
    BY <1>2 DEF Local, Single
  <2> QED
    BY <2>1, ConstantsAssumption, SeqDomain
<1>9. Program[a][run[a].op].optional => previous.op < run[a].op + 1
  <2>1. \A n \in DOMAIN Program[a] : n \in Nat /\ n <= Len(Program[a]) /\ Len(Program[a]) \in Nat
    BY ConstantsAssumption, SeqDomain, LenProperties
  <2>2. run[a].op \in DOMAIN Program[a]
    BY DEF Replay, Recheck, AtOp
  <2> QED
    BY <1>1, <1>8, <2>1, <2>2, ExecutorsAssumption
<1> HIDE DEF i, previous, passed, on
<1>10. CASE Keep(a, passed) /\ previous.state = "failed" /\ Repeatable(previous)
  <2>1. ~Held(world[a][i])
    BY <1>7, <1>10 DEF Truthful, Repeatable, Held
  <2> QED
    <3>1. run[a].pc = "run" /\ run[a].pc \in Executing /\ i = run[a].cursor + 1
      BY <1>1 DEF Executing, i
    <3> QED
      BY <1>2, <1>3, <1>5, <1>10, <2>1, <3>1, LocalPasses DEF previous
<1>11. CASE Keep(a, on) /\ previous.op = run[a].op /\ previous.state = "succeeded"
  <2>1. InForce(world[a][i]) /\ rows[a].steps[i].op = run[a].op
    BY <1>7, <1>11 DEF Truthful, InForce, previous
  <2>2. rows[a].steps[i].op < on.op
    BY <1>1, <1>5, <2>1
  <2>3. run[a].pc = "run" /\ run[a].pc \in Executing /\ i = run[a].cursor + 1
    BY <1>1 DEF Executing, i
  <2> QED
    BY <1>2, <1>3, <1>5, <1>11, <2>1, <2>2, <2>3, LocalPasses
<1>12. ASSUME NEW err \in {"plain", "failed"}, Keep(a, Throw(a, passed, err))
       PROVE  Only(a) /\ Local(a)'
  <2> DEFINE thrown == Throw(a, passed, err)
  <2>4. /\ thrown \in Run /\ thrown.cursor = i /\ Keep(a, thrown)
        /\ \/ thrown.pc = "settling" /\ thrown.err = err /\ thrown.op = run[a].op
           \/ thrown.pc = "run" /\ thrown.op = run[a].op + 1 /\ Program[a][run[a].op].optional
    BY <1>6, <1>12
  <2> HIDE DEF thrown
  <2>1. run[a].pc = "run" /\ run[a].pc \in Executing /\ i = run[a].cursor + 1
    BY <1>1 DEF Executing, i
  <2>2. CASE thrown.pc = "settling" /\ thrown.err = err /\ thrown.op = run[a].op
    BY <1>2, <1>3, <2>1, <2>2, <2>4, LocalPasses
  <2>3. CASE thrown.pc = "run" /\ thrown.op = run[a].op + 1 /\ Program[a][run[a].op].optional
    <3>1. rows[a].steps[i].op < thrown.op
      BY <1>9, <2>3 DEF previous
    <3> QED
      BY <1>2, <1>3, <2>1, <2>3, <2>4, <3>1, LocalPasses
  <2> QED
    BY <2>2, <2>3, <2>4
<1> QED
  BY <1>4, <1>10, <1>11, <1>12

LEMMA LocalRecordFails ==
  ASSUME Typed, NEW a \in Actions, Local(a), RecordFails(a)
  PROVE  Only(a) /\ Local(a)'
<1> DEFINE n == Len(world[a])
           thrown == Throw(a, run[a], "plain")
           next == [thrown EXCEPT !.known = rows[a].cancelReq]
<1>1. /\ run[a] \in Run /\ run[a].op \in Nat /\ run[a].pc \in Stepping /\ "plain" \in Endings
      /\ rows[a].cancelReq \in BOOLEAN
  BY View DEF RecordFails, Run, Row, Endings, Errors, Stepping
<1>2. n \in DOMAIN world[a] /\ run[a].cursor = n /\ rows[a].steps[n].op = run[a].op
  BY <1>1, View DEF Local, Performing
<1>3. UNCHANGED <<rows, disk, world, asked, cancelling>> /\ Keep(a, next)
  BY DEF RecordFails
<1>4. /\ thrown \in Run /\ thrown.cursor = n
      /\ \/ thrown.pc = "settling" /\ thrown.err = "plain" /\ thrown.op = run[a].op
         \/ thrown.pc = "run" /\ thrown.op = run[a].op + 1 /\ Program[a][run[a].op].optional
  BY <1>1, <1>2, ThrowIs
<1> HIDE DEF thrown
<1>5. /\ next \in Run /\ next.cursor = thrown.cursor /\ next.pc = thrown.pc
      /\ next.err = thrown.err /\ next.op = thrown.op
  BY <1>1, <1>4 DEF Run
<1> HIDE DEF n, next
<1> QED
  BY <1>1, <1>2, <1>3, <1>4, <1>5, LocalPasses DEF Executing, n

(* The effect of the step being performed is sent, or lands in this process. *)
LEMMA LocalHappens ==
  ASSUME Typed, NEW a \in Actions, Local(a), NEW x \in {"none", "sent", "done"}, NEW next \in Run,
         run[a].pc \in Stepping, World(a) = "none", SetWorld(a, x), Keep(a, next),
         UNCHANGED <<rows, disk, asked, cancelling>>,
         next.pc \in Stepping, next.op = run[a].op, next.cursor = run[a].cursor,
         Performing(next, rows[a], [world[a] EXCEPT ![Len(world[a])] = x])
  PROVE  Only(a) /\ Local(a)'
<1> DEFINE n == Len(world[a])
           w == [world[a] EXCEPT ![n] = x]
<1>1. /\ n \in DOMAIN world[a] /\ Len(rows[a].steps) = n /\ x \in WorldStates
      /\ run[a].cursor = n /\ rows[a].steps[n].op = run[a].op /\ rows[a].state = "running"
      /\ rows[a].steps[n].state = "running" /\ world[a][n] = "none"
  BY View DEF Local, Performing, Stepping, Executing, World, Last, WorldStates
<1>2. world' = [world EXCEPT ![a] = w]
  BY <1>1 DEF SetWorld, Last
<1>3. /\ DOMAIN w = DOMAIN world[a]
      /\ \A i \in DOMAIN world[a] : w[i] = IF i = n THEN x ELSE world[a][i]
  BY <1>1, View
<1>4. /\ Single(Program[a], rows[a], w) /\ Behind(run[a], rows[a], w)
      /\ Achieved(Program[a], run[a], rows[a], w)
  BY <1>1, View, Happens DEF Local
<1> HIDE DEF w
<1>5. TruthfulRow(rows[a], w)
  <2>1. ~rows[a].notDispatched /\ rows[a].steps[n] \in Step /\ ~rows[a].steps[n].notDispatched
        /\ ~rows[a].steps[n].retired
    BY <1>1, View DEF Local, TruthfulRow, Truthful
  <2>2. Truthful(rows[a].steps[n], x)
    BY <1>1, <2>1 DEF Truthful, Uncertain
  <2> QED
    BY <1>1, <1>3, <2>1, <2>2 DEF Local, TruthfulRow
<1>6. disk[a] = rows[a]
  BY <1>1 DEF Local, Stored
<1>7. run'[a] = next /\ \A b \in Actions : b # a => run'[b] = run[b]
  BY DEF Keep, Typed, TypeOK
<1>8. world'[a] = w /\ \A b \in Actions : b # a => world'[b] = world[b]
  BY <1>2 DEF Typed, TypeOK
<1>9. \A b \in Actions : Pending(b)' = Pending(b)
  BY DEF Pending
<1>10. Only(a)
  BY <1>7, <1>8, <1>9 DEF Only
<1>11. Behind(next, rows[a], w) /\ Achieved(Program[a], next, rows[a], w)
  BY <1>4, Stays DEF Executing, Stepping
<1>12. Told(asked[a], Pending(a), next, rows[a])
  <2>1. run[a].pc # "idle"
    BY DEF Stepping
  <2> QED
    BY <2>1 DEF Local, Told
<1>13. Performing(next, rows[a], w)
  BY DEF w
<1>14. Local(a)'
  <2>1. /\ TruthfulRow(rows'[a], world'[a]) /\ TruthfulRow(disk'[a], world'[a])
        /\ Stored(rows'[a], disk'[a]) /\ Performing(run'[a], rows'[a], world'[a])
    BY <1>5, <1>6, <1>7, <1>8, <1>13 DEF Local
  <2>2. /\ Single(Program[a], rows'[a], world'[a]) /\ Behind(run'[a], rows'[a], world'[a])
        /\ Achieved(Program[a], run'[a], rows'[a], world'[a])
        /\ Told(asked'[a], Pending(a)', run'[a], rows'[a])
    BY <1>4, <1>7, <1>8, <1>9, <1>11, <1>12
  <2> QED
    BY <2>1, <2>2 DEF Local
<1> QED
  BY <1>10, <1>14

LEMMA LocalEffects ==
  ASSUME Typed, NEW a \in Actions, Local(a), Land(a) \/ LandFails(a) \/ Dispatch(a)
  PROVE  Only(a) /\ Local(a)'
<1>1. /\ run[a] \in Run /\ run[a].pc = "effect" /\ World(a) = "none"
      /\ {"result", "await", "sent", "outcome"} \subseteq Phases
      /\ {"refused", "incomplete", "plain"} \subseteq Endings
  BY View DEF Land, LandFails, Dispatch, Local, Performing, World, Last, Stepping, Phases, Endings, Errors
<1>2. ASSUME NEW x \in {"none", "sent", "done"}
      PROVE  [world[a] EXCEPT ![Len(world[a])] = x][Len(world[a])] = x
             /\ Len(world[a]) = Len(rows[a].steps)
  <2>1. Len(world[a]) \in DOMAIN world[a] /\ Len(world[a]) = Len(rows[a].steps)
    BY <1>1, View DEF Stepping
  <2> QED
    BY <2>1
<1>3. ASSUME NEW pc \in {"result", "await", "sent"}, Keep(a, [run[a] EXCEPT !.pc = pc]),
             NEW x \in {"sent", "done"}, SetWorld(a, x), UNCHANGED <<rows, disk, asked, cancelling>>,
             pc = "result" => x = "done"
      PROVE  Only(a) /\ Local(a)'
  <2> DEFINE next == [run[a] EXCEPT !.pc = pc]
  <2>1. next \in Run /\ next.pc = pc /\ next.op = run[a].op /\ next.cursor = run[a].cursor
    BY <1>1, PhaseIs
  <2>2. Keep(a, next)
    BY <1>3
  <2> HIDE DEF next
  <2>3. Performing(next, rows[a], [world[a] EXCEPT ![Len(world[a])] = x])
    BY <1>1, <1>2, <1>3, <2>1 DEF Local, Performing, Executing, Stepping
  <2> QED
    BY <1>1, <1>3, <2>1, <2>2, <2>3, LocalHappens DEF Stepping
<1>4. CASE Land(a)
  BY <1>3, <1>4 DEF Land
<1>5. CASE Dispatch(a)
  BY <1>3, <1>5 DEF Dispatch
<1>6. CASE LandFails(a)
  <2>1. PICK err \in {"refused", "incomplete", "plain"}, x \in {"none", "done"} :
          /\ x = "done" => err = "plain"
          /\ SetWorld(a, x)
          /\ Keep(a, [run[a] EXCEPT !.pc = "outcome", !.err = err, !.phase = "effect"])
    BY <1>6 DEF LandFails
  <2> DEFINE next == [run[a] EXCEPT !.pc = "outcome", !.err = err, !.phase = "effect"]
  <2>2. /\ next \in Run /\ next.pc = "outcome" /\ next.err = err /\ next.phase = "effect"
        /\ next.op = run[a].op /\ next.cursor = run[a].cursor
    BY <1>1 DEF Run
  <2>3. Keep(a, next)
    BY <2>1
  <2> HIDE DEF next
  <2>4. Performing(next, rows[a], [world[a] EXCEPT ![Len(world[a])] = x])
    BY <1>1, <1>2, <2>1, <2>2 DEF Local, Performing, Executing, Stepping
  <2>5. UNCHANGED <<rows, disk, asked, cancelling>>
    BY <1>6 DEF LandFails
  <2> QED
    BY <1>1, <2>1, <2>2, <2>3, <2>4, <2>5, LocalHappens DEF Stepping
<1> QED
  BY <1>4, <1>5, <1>6

(* The step being performed is committed anew. *)
LEMMA SetStepIs ==
  ASSUME Typed, NEW a \in Actions, run[a].pc \in Stepping, NEW step \in Step
  PROVE  LET row == SetStep(a, step)
             n == Len(world[a])
         IN  /\ row \in Row /\ DOMAIN row.steps = DOMAIN world[a] /\ Len(row.steps) = n
             /\ n \in DOMAIN world[a] /\ Len(rows[a].steps) = n
             /\ \A i \in DOMAIN world[a] : row.steps[i] = IF i = n THEN step ELSE rows[a].steps[i]
             /\ row.state = rows[a].state /\ row.prepared = rows[a].prepared
             /\ row.notDispatched = rows[a].notDispatched /\ row.cancelReq = rows[a].cancelReq
<1> DEFINE n == Len(world[a])
           steps == [rows[a].steps EXCEPT ![n] = step]
           row == [rows[a] EXCEPT !.steps = steps]
<1>1. /\ rows[a] \in Row /\ rows[a].steps \in Seq(Step) /\ n \in DOMAIN world[a]
      /\ Len(rows[a].steps) = n /\ DOMAIN rows[a].steps = DOMAIN world[a]
  BY View
<1>2. SetStep(a, step) = row
  BY <1>1 DEF SetStep, Last
<1>3. steps \in Seq(Step) /\ Len(steps) = n /\ DOMAIN steps = DOMAIN world[a]
  BY <1>1
<1>4. \A i \in DOMAIN world[a] : steps[i] = IF i = n THEN step ELSE rows[a].steps[i]
  BY <1>1
<1> HIDE DEF steps
<1>5. /\ row \in Row /\ row.steps = steps
      /\ row.state = rows[a].state /\ row.prepared = rows[a].prepared
      /\ row.notDispatched = rows[a].notDispatched /\ row.cancelReq = rows[a].cancelReq
  BY <1>1, <1>3 DEF Row
<1> HIDE DEF row, n
<1> QED
  BY <1>1, <1>2, <1>3, <1>4, <1>5 DEF n

LEMMA LocalSetStep ==
  ASSUME Typed, NEW a \in Actions, Local(a), run[a].pc \in Stepping, NEW step \in Step, NEW next \in Run,
         Commit(a, SetStep(a, step)), Keep(a, next), UNCHANGED <<world, asked, cancelling>>,
         Truthful(step, World(a)), step.op = run[a].op,
         step.retired = rows[a].steps[Len(world[a])].retired,
         \/ next.pc = "settling" /\ next.err # "returned" /\ next.op = run[a].op
         \/ /\ next.pc = "run" /\ next.cursor = run[a].cursor /\ next.op = run[a].op + 1
            /\ Program[a][run[a].op].optional \/ InForce(World(a))
         \/ /\ next.pc = "await" /\ next.cursor = run[a].cursor /\ next.op = run[a].op
            /\ step.state = "running"
  PROVE  Only(a) /\ Local(a)'
<1> DEFINE n == Len(world[a])
           row == SetStep(a, step)
<1>1. /\ row \in Row /\ DOMAIN row.steps = DOMAIN world[a] /\ Len(row.steps) = n
      /\ n \in DOMAIN world[a] /\ Len(rows[a].steps) = n
      /\ \A i \in DOMAIN world[a] : row.steps[i] = IF i = n THEN step ELSE rows[a].steps[i]
      /\ row.state = rows[a].state /\ row.prepared = rows[a].prepared
      /\ row.notDispatched = rows[a].notDispatched /\ row.cancelReq = rows[a].cancelReq
  BY SetStepIs
<1>2. /\ run[a] \in Run /\ run[a].op \in Nat /\ run[a].op >= 1 /\ run[a].cursor = n
      /\ rows[a].state = "running" /\ rows[a].prepared /\ rows[a].steps[n].op = run[a].op
      /\ n = Last(a) /\ World(a) = world[a][n] /\ run[a].pc \in Executing /\ run[a].pc # "idle"
      /\ world[a] \in Seq(WorldStates) /\ Program[a] \in Seq(Op)
  BY View, ConstantsAssumption DEF Local, Performing, Behind, Executing, Stepping, Run, World, Last
<1> HIDE DEF row
<1>3. \A i \in DOMAIN world[a] : row.steps[i].op = rows[a].steps[i].op
  BY <1>1, <1>2
<1>4. /\ Single(Program[a], row, world[a]) /\ Behind(run[a], row, world[a])
      /\ Achieved(Program[a], run[a], row, world[a])
  <2>1. Len(row.steps) = Len(rows[a].steps)
    BY <1>1
  <2>3. /\ Single(Program[a], rows[a], world[a]) /\ Behind(run[a], rows[a], world[a])
        /\ Achieved(Program[a], run[a], rows[a], world[a])
    BY DEF Local
  <2> QED
    BY <1>3, <2>1, <2>3, Carries, Zenon
<1>5. TruthfulRow(row, world[a])
  BY <1>1, <1>2 DEF Local, TruthfulRow
<1>6. Behind(next, row, world[a]) /\ Achieved(Program[a], next, row, world[a])
  <2>1. CASE next.pc = "settling" /\ next.err # "returned" /\ next.op = run[a].op
    BY <1>2, <2>1, Outside DEF Executing, Stepping, Before
  <2>2. CASE next.pc = "await" /\ next.cursor = run[a].cursor /\ next.op = run[a].op
    BY <1>2, <1>4, <2>2, Stays DEF Executing, Stepping
  <2>3. CASE /\ next.pc = "run" /\ next.cursor = run[a].cursor /\ next.op = run[a].op + 1
             /\ Program[a][run[a].op].optional \/ InForce(World(a))
    <3>1. row.steps[n] = step
      BY <1>1
    <3>2. Held(world[a][n]) => row.steps[n].op < next.op
      BY <1>2, <2>3, <3>1
    <3>3. \/ next.op = run[a].op \/ Program[a][run[a].op].optional
          \/ InForce(world[a][n]) /\ row.steps[n].op = run[a].op
      BY <1>2, <2>3, <3>1
    <3>4. next.op \in {run[a].op, run[a].op + 1} /\ next.pc = "run" /\ next.cursor = n
      BY <1>2, <2>3
    <3>5. n = Len(world[a]) /\ Len(world[a]) = Len(row.steps)
      BY <1>1
    <3> HIDE DEF n
    <3> QED
      BY <1>1, <1>2, <1>4, <3>2, <3>3, <3>4, <3>5, Passes
  <2> QED
    BY <2>1, <2>2, <2>3
<1>7. Performing(next, row, world[a])
  BY <1>1, <1>2 DEF Performing, Executing, Stepping
<1>8. Told(asked'[a], Pending(a)', next, row)
  BY <1>1, <1>2 DEF Local, Told, Pending
<1>9. \A b \in Actions : asked'[b] = asked[b] /\ Pending(b)' = Pending(b)
  BY DEF Pending
<1>10. world' = [world EXCEPT ![a] = world[a]]
  BY DEF Typed, TypeOK
<1>11. Commit(a, row)
  BY DEF row
<1> QED
  BY <1>4, <1>5, <1>6, <1>7, <1>8, <1>9, <1>10, <1>11, CommitsTo

LEMMA LocalMark ==
  ASSUME Typed, NEW a \in Actions, Local(a), markDispatched(a)
  PROVE  Only(a) /\ Local(a)'
<1> DEFINE old == rows[a].steps[Len(world[a])]
           step == [old EXCEPT !.dispatched = TRUE]
           next == [run[a] EXCEPT !.pc = "await"]
<1>1. run[a].pc \in {"sent", "await"}
  BY DEF markDispatched, Unmarked
<1>2. /\ run[a] \in Run /\ "await" \in Phases /\ Len(world[a]) = Last(a) /\ old \in Step
      /\ Truthful(old, World(a)) /\ old.op = run[a].op /\ old.state = "running"
  BY <1>1, View DEF Local, TruthfulRow, Performing, Stepping, Executing, World, Last, Phases
<1>3. /\ next \in Run /\ next.pc = "await" /\ next.op = run[a].op /\ next.cursor = run[a].cursor
  BY <1>2, PhaseIs
<1>4. Commit(a, SetStep(a, step)) /\ Keep(a, next) /\ UNCHANGED <<world, asked, cancelling>>
  BY <1>2 DEF markDispatched
<1>5. /\ step \in Step /\ step.op = run[a].op /\ step.state = "running" /\ step.retired = old.retired
      /\ Truthful(step, World(a))
  BY <1>2 DEF Step, Truthful, Uncertain
<1> HIDE DEF step, next
<1> QED
  BY <1>1, <1>3, <1>4, <1>5, LocalSetStep DEF Stepping

LEMMA LocalRecordSuccess ==
  ASSUME Typed, NEW a \in Actions, Local(a), RecordSuccess(a)
  PROVE  Only(a) /\ Local(a)'
<1> DEFINE old == rows[a].steps[Len(world[a])]
           step == [old EXCEPT !.state = "succeeded", !.releases = TheOp(a).stops # {}]
           on == [run[a] EXCEPT !.pc = "run", !.op = @ + 1]
<1>1. run[a].pc = "result"
  BY DEF RecordSuccess
<1>2. /\ run[a] \in Run /\ run[a].op \in Nat /\ Len(world[a]) = Last(a) /\ old \in Step
      /\ Truthful(old, World(a)) /\ old.op = run[a].op /\ old.state = "running" /\ World(a) = "done"
  BY <1>1, View DEF Local, TruthfulRow, Performing, Stepping, Executing, World, Last, Run
<1>3. on \in Run /\ on.pc = "run" /\ on.op = run[a].op + 1 /\ on.cursor = run[a].cursor
  <2>1. "run" \in Phases /\ run[a].op + 1 \in Nat
    BY <1>2 DEF Phases
  <2> QED
    BY <1>2, <2>1 DEF Run
<1>4. Save(a, SetStep(a, step), on) /\ UNCHANGED <<world, asked, cancelling>>
  BY <1>2 DEF RecordSuccess
<1>5. /\ step \in Step /\ step.op = run[a].op /\ step.retired = old.retired
      /\ Truthful(step, World(a)) /\ InForce(World(a))
  BY <1>2 DEF Step, StepStates, Truthful, Uncertain, InForce
<1> HIDE DEF step, on
<1>6. PICK after \in Run : /\ Commit(a, SetStep(a, step)) /\ Keep(a, after)
                           /\ after.pc = on.pc /\ after.op = on.op /\ after.cursor = on.cursor
  <2>1. SetStep(a, step) \in Row
    BY <1>1, <1>5, SetStepIs DEF Stepping
  <2> QED
    BY <1>3, <1>4, <2>1, Saves
<1> QED
  BY <1>1, <1>3, <1>4, <1>5, <1>6, LocalSetStep DEF Stepping

LEMMA LocalRecordFailure ==
  ASSUME Typed, NEW a \in Actions, Local(a), RecordFailure(a)
  PROVE  Only(a) /\ Local(a)'
<1> DEFINE old == rows[a].steps[Len(world[a])]
           step == FailedStep(old, run[a].err, run[a].phase)
           thrown == Throw(a, run[a], run[a].err)
<1>1. run[a].pc = "outcome"
  BY DEF RecordFailure
<1>2. /\ run[a] \in Run /\ Len(world[a]) = Last(a) /\ old \in Step /\ World(a) \in WorldStates
      /\ Truthful(old, World(a)) /\ old.op = run[a].op /\ old.state = "running"
      /\ run[a].phase \in {"gate", "effect", "checked"} /\ run[a].err \in Endings
  BY <1>1, View DEF Local, TruthfulRow, Performing, Stepping, Executing, World, Last, Run
<1>3. /\ thrown \in Run /\ thrown.cursor = run[a].cursor
      /\ \/ thrown.pc = "settling" /\ thrown.err = run[a].err /\ thrown.op = run[a].op
         \/ thrown.pc = "run" /\ thrown.op = run[a].op + 1 /\ Program[a][run[a].op].optional
  BY <1>2, ThrowIs
<1>4. Save(a, SetStep(a, step), thrown) /\ UNCHANGED <<world, asked, cancelling>>
  BY <1>2 DEF RecordFailure
<1>5. run[a].err # "returned"
  BY <1>1 DEF Local, Performing, Stepping
<1>6. /\ step \in Step /\ step.op = run[a].op /\ step.retired = old.retired /\ Truthful(step, World(a))
  <2>1. /\ run[a].phase = "gate" => World(a) = "none"
        /\ run[a].phase = "checked" => World(a) = "done"
        /\ run[a].phase = "effect" /\ run[a].err \in {"refused", "refused499", "incomplete"} =>
             World(a) \in {"none", "dead"}
        /\ run[a].phase = "effect" /\ run[a].err \in {"cancelled", "failed"} => World(a) = "dead"
    BY <1>1, <1>2, View DEF Local, Performing, Stepping, World
  <2>2. run[a].err \in Errors
    BY <1>2, <1>5 DEF Endings
  <2> QED
    BY <1>2, <2>1, <2>2, FailedStepIs
<1> HIDE DEF step, thrown
<1>7. PICK after \in Run : /\ Commit(a, SetStep(a, step)) /\ Keep(a, after)
                           /\ after.pc = thrown.pc /\ after.op = thrown.op
                           /\ after.cursor = thrown.cursor /\ after.err = thrown.err
  <2>1. SetStep(a, step) \in Row
    BY <1>1, <1>6, SetStepIs DEF Stepping
  <2> QED
    BY <1>3, <1>4, <2>1, Saves
<1> QED
  BY <1>1, <1>3, <1>4, <1>5, <1>6, <1>7, LocalSetStep DEF Stepping

(* A new step holds nothing, whatever the earlier ones hold. *)
LEMMA Appends ==
  ASSUME NEW program \in Seq(Op), NEW r \in Run, NEW r2 \in Run, NEW row \in Row, NEW row2,
         NEW w \in Seq(WorldStates), Len(w) = Len(row.steps), NEW step \in Step,
         row2.steps = Append(row.steps, step),
         TruthfulRow(row, w), Single(program, row, w), Behind(r, row, w), Achieved(program, r, row, w),
         row2.state = "running", ~row2.notDispatched, row2.prepared, row.state = "running",
         r.pc = "run", r2.pc = "step", r2.op = r.op, r.cursor = Len(w), r2.cursor = Len(w) + 1,
         r.op \in DOMAIN program, step.op = r.op, step.state = "running", ~step.notDispatched, ~step.retired
  PROVE  LET w2 == Append(w, "none")
         IN  /\ TruthfulRow(row2, w2) /\ Performing(r2, row2, w2)
             /\ Single(program, row2, w2) /\ Behind(r2, row2, w2) /\ Achieved(program, r2, row2, w2)
<1> DEFINE n == Len(w)
           m == n + 1
           w2 == Append(w, "none")
<1>1. /\ row.steps \in Seq(Step) /\ n \in Nat /\ DOMAIN w = 1..n /\ Len(row2.steps) = m
      /\ DOMAIN w2 = 1..m /\ m \in 1..m /\ m \notin DOMAIN w /\ DOMAIN w \subseteq DOMAIN w2
      /\ \A i \in 1..m : i # m => i \in DOMAIN w
      /\ r.op \in Nat /\ r.op >= 1
  BY LenProperties, SeqDomain DEF Row, Run, Behind
<1>2. w2[m] = "none" /\ row2.steps[m] = step
  BY <1>1
<1>3. \A i \in DOMAIN w : w2[i] = w[i] /\ row2.steps[i] = row.steps[i]
  BY <1>1
<1> HIDE DEF w2, m
<1>4. TruthfulRow(row2, w2)
  <2>1. Truthful(step, "none")
    BY DEF Truthful
  <2>2. \A i \in DOMAIN w : Truthful(row.steps[i], w[i])
    BY DEF TruthfulRow
  <2> QED
    BY <1>1, <1>2, <1>3, <2>1, <2>2 DEF TruthfulRow
<1>5. \A i \in DOMAIN w2 : Held(w2[i]) => i \in DOMAIN w /\ Held(w[i])
  BY <1>1, <1>2, <1>3 DEF Held
<1>6. Single(program, row2, w2)
  BY <1>1, <1>2, <1>3, <1>5 DEF Single
<1>7. Behind(r2, row2, w2)
  <2>1. \A i \in DOMAIN w : i <= r.cursor
    BY <1>1
  <2>2. \A i \in DOMAIN w : Held(w[i]) => row.steps[i].op < r.op
    BY <2>1 DEF Behind, Executing, Stepping
  <2> QED
    BY <1>1, <1>3, <1>5, <2>2 DEF Behind, Before
<1>8. Achieved(program, r2, row2, w2)
  <2>1. \A i \in DOMAIN w : InForce(w[i]) => i \in DOMAIN w2 /\ InForce(w2[i])
    BY <1>1, <1>3
  <2> QED
    BY <1>3, <2>1 DEF Achieved, Executing, Stepping
<1>9. Performing(r2, row2, w2)
  BY <1>1, <1>2 DEF Performing, Executing, Stepping, m
<1> QED
  BY <1>4, <1>6, <1>7, <1>8, <1>9 DEF w2

LEMMA LocalBegin ==
  ASSUME Typed, NEW a \in Actions, Local(a), BeginStep(a)
  PROVE  Only(a) /\ Local(a)'
<1> DEFINE step == [op |-> run[a].op, kind |-> TheOp(a).kind, state |-> "running",
                    dispatched |-> FALSE, notDispatched |-> FALSE, retired |-> FALSE,
                    releases |-> FALSE]
           steps == Append(rows[a].steps, step)
           row == [rows[a] EXCEPT !.steps = steps]
           cursor == run[a].cursor + 1
           next == [run[a] EXCEPT !.pc = "step", !.cursor = cursor]
           w == Append(world[a], "none")
<1>1. /\ run[a] \in Run /\ rows[a] \in Row /\ world[a] \in Seq(WorldStates)
      /\ Len(world[a]) = Len(rows[a].steps) /\ run[a].pc = "run" /\ run[a].op \in DOMAIN Program[a]
      /\ run[a].cursor = Len(world[a]) /\ Program[a] \in Seq(Op) /\ run[a].op \in Nat
      /\ rows[a].state = "running" /\ rows[a].prepared
  BY View, ConstantsAssumption DEF BeginStep, AtOp, Last, Local, Performing, Executing, Run
<1>2. step \in Step /\ step.op = run[a].op /\ step.state = "running" /\ ~step.notDispatched /\ ~step.retired
  <2>1. TheOp(a) \in Op
    BY <1>1, SeqDomain DEF TheOp
  <2> QED
    BY <1>1, <2>1 DEF Step, StepStates, Op
<1> HIDE DEF step
<1>3. /\ row \in Row /\ row.steps = steps /\ row.state = "running" /\ row.prepared
      /\ row.cancelReq = rows[a].cancelReq /\ row.notDispatched = rows[a].notDispatched
  <2>1. steps \in Seq(Step)
    BY <1>1, <1>2, AppendProperties DEF Row
  <2> HIDE DEF steps
  <2> QED
    BY <1>1, <2>1 DEF Row
<1>4. next \in Run /\ next.pc = "step" /\ next.op = run[a].op /\ next.cursor = Len(world[a]) + 1
  <2>1. cursor \in Nat /\ "step" \in Phases /\ cursor = Len(world[a]) + 1
    BY <1>1 DEF Run, Phases
  <2> HIDE DEF cursor
  <2> QED
    BY <1>1, <2>1 DEF Run
<1>5. /\ Save(a, row, next) /\ world' = [world EXCEPT ![a] = w]
      /\ UNCHANGED <<asked, cancelling>>
  BY DEF BeginStep, step
<1> HIDE DEF row, next
<1>6. PICK after \in Run : /\ Commit(a, row) /\ Keep(a, after)
                           /\ after.pc = "step" /\ after.op = run[a].op
                           /\ after.cursor = Len(world[a]) + 1
  BY <1>3, <1>4, <1>5, Saves
<1>7. ~rows[a].notDispatched
  BY <1>1 DEF Local, TruthfulRow
<1>8. /\ TruthfulRow(row, w) /\ Performing(after, row, w) /\ Single(Program[a], row, w)
      /\ Behind(after, row, w) /\ Achieved(Program[a], after, row, w)
  <2>1. /\ TruthfulRow(rows[a], world[a]) /\ Single(Program[a], rows[a], world[a])
        /\ Behind(run[a], rows[a], world[a]) /\ Achieved(Program[a], run[a], rows[a], world[a])
    BY DEF Local
  <2> QED
    BY <1>1, <1>2, <1>3, <1>6, <1>7, <2>1, Appends
<1>9. Told(asked'[a], Pending(a)', after, row)
  BY <1>1, <1>3, <1>5 DEF Local, Told, Pending
<1>10. \A b \in Actions : asked'[b] = asked[b] /\ Pending(b)' = Pending(b)
  BY <1>5 DEF Pending
<1> QED
  BY <1>5, <1>6, <1>8, <1>9, <1>10, CommitsTo

LEMMA LocalRetire ==
  ASSUME Typed, NEW a \in Actions, Local(a), Retire(a)
  PROVE  Only(a) /\ Local(a)'
<1> DEFINE i == run[a].cursor + 1
           old == rows[a].steps[i]
           step == [old EXCEPT !.state = "failed", !.retired = TRUE]
           steps == [rows[a].steps EXCEPT ![i] = step]
           row == [rows[a] EXCEPT !.steps = steps]
<1>1. /\ run[a] \in Run /\ rows[a] \in Row /\ run[a].pc = "run" /\ run[a].cursor \in Nat
      /\ rows[a].state = "running" /\ rows[a].prepared /\ rows[a].steps \in Seq(Step)
      /\ world[a] \in Seq(WorldStates)
      /\ Len(rows[a].steps) \in Nat /\ DOMAIN world[a] = 1..Len(rows[a].steps)
      /\ DOMAIN rows[a].steps = 1..Len(rows[a].steps)
      /\ run[a].cursor <= Len(rows[a].steps)
  BY View, LenProperties DEF Retire, AtOp, Local, Performing, Executing, Run
<1>2. i \in DOMAIN world[a] /\ old \in Step /\ Truthful(old, world[a][i])
  <2>1. i \in DOMAIN world[a]
    BY <1>1 DEF Retire, Last
  <2> QED
    BY <1>1, <2>1 DEF Local, TruthfulRow
<1>3. old.op = run[a].op /\ old.state = "succeeded" /\ world[a][i] = "gone"
  BY DEF Retire
<1>4. Save(a, row, run[a]) /\ UNCHANGED <<world, asked, cancelling>>
  BY Zenon DEF Retire
<1>5. /\ step \in Step /\ step.op = old.op /\ step.retired /\ Truthful(step, world[a][i])
  BY <1>2, <1>3 DEF Step, StepStates, Truthful, Uncertain
<1> HIDE DEF step
<1>6. /\ steps \in Seq(Step) /\ Len(steps) = Len(rows[a].steps)
      /\ \A j \in DOMAIN world[a] : steps[j] = IF j = i THEN step ELSE rows[a].steps[j]
  BY <1>1, <1>2, <1>5
<1> HIDE DEF steps
<1>7. /\ row \in Row /\ row.steps = steps /\ row.state = "running" /\ row.prepared
      /\ row.cancelReq = rows[a].cancelReq /\ row.notDispatched = rows[a].notDispatched
  BY <1>1, <1>6 DEF Row
<1> HIDE DEF row, i
<1>8. PICK after \in Run : /\ Commit(a, row) /\ Keep(a, after)
                           /\ after.pc = "run" /\ after.op = run[a].op
                           /\ after.cursor = run[a].cursor
  BY <1>1, <1>4, <1>7, Saves
<1>9. TruthfulRow(row, world[a])
  <2>1. ~row.notDispatched
    BY <1>1, <1>7 DEF Local, TruthfulRow
  <2>2. \A j \in DOMAIN world[a] : Truthful(row.steps[j], world[a][j])
    BY <1>5, <1>6, <1>7 DEF Local, TruthfulRow
  <2> QED
    BY <1>7, <2>1, <2>2 DEF TruthfulRow
<1>10. \A j \in DOMAIN world[a] : row.steps[j].op = rows[a].steps[j].op
  BY <1>3, <1>5, <1>6, <1>7
<1>11. Single(Program[a], row, world[a])
  BY <1>10 DEF Local, Single
<1>12. Behind(after, row, world[a])
  BY <1>1, <1>8, <1>10 DEF Local, Behind, Executing, Stepping, Before
<1>13. Achieved(Program[a], after, row, world[a])
  <2> SUFFICES ASSUME NEW n \in DOMAIN Program[a], ~Program[a][n].optional, n < run[a].op
               PROVE  \E j \in DOMAIN world[a] : InForce(world[a][j]) /\ row.steps[j].op = n
    BY <1>8 DEF Achieved, Executing, Stepping
  <2>1. PICK j \in DOMAIN world[a] : InForce(world[a][j]) /\ rows[a].steps[j].op = n
    BY <1>1 DEF Local, Achieved, Executing
  <2> QED
    BY <1>10, <2>1
<1>14. Performing(after, row, world[a])
  BY <1>1, <1>6, <1>7, <1>8 DEF Performing, Executing, Stepping
<1>15. Told(asked'[a], Pending(a)', after, row)
  BY <1>1, <1>4, <1>7 DEF Local, Told, Pending
<1>16. \A b \in Actions : asked'[b] = asked[b] /\ Pending(b)' = Pending(b)
  BY <1>4 DEF Pending
<1>17. world' = [world EXCEPT ![a] = world[a]]
  BY <1>4 DEF Typed, TypeOK
<1> QED
  BY <1>8, <1>9, <1>11, <1>12, <1>13, <1>14, <1>15, <1>16, <1>17, CommitsTo

-----------------------------------------------------------------------------
(* Settlement, recovery and restart.                                        *)

(* Interrupting the steps of a row changes nothing in force. *)
LEMMA InterruptedRow ==
  ASSUME NEW program, NEW r, NEW row \in Row, NEW w, DOMAIN w = DOMAIN row.steps,
         TruthfulRow(row, w), NEW row2, row2.steps = Interrupted(row.steps), row2.prepared = row.prepared
  PROVE  /\ ~row2.prepared => row2.steps = <<>>
         /\ \A i \in DOMAIN w : Truthful(row2.steps[i], w[i])
         /\ Single(program, row, w) => Single(program, row2, w)
         /\ Behind(r, row, w) => Behind(r, row2, w)
         /\ Achieved(program, r, row, w) => Achieved(program, r, row2, w)
<1>1. row.steps \in Seq(Step) /\ row2.steps \in Seq(Step) /\ Len(row2.steps) = Len(row.steps)
  BY InterruptedType DEF Row
<1>2. ~row2.prepared => row2.steps = <<>>
  BY <1>1, EmptySeq DEF TruthfulRow
<1>3. \A i \in DOMAIN w :
        /\ Truthful(row2.steps[i], w[i])
        /\ row2.steps[i].op = row.steps[i].op
  <2> SUFFICES ASSUME NEW i \in DOMAIN w
               PROVE  /\ Truthful(row2.steps[i], w[i])
                      /\ row2.steps[i].op = row.steps[i].op
    OBVIOUS
  <2>1. i \in DOMAIN row.steps /\ Truthful(row.steps[i], w[i])
    BY DEF TruthfulRow
  <2>2. LET step == Interrupted(row.steps)[i]
        IN  /\ \A x : Truthful(row.steps[i], x) => Truthful(step, x)
            /\ step.op = row.steps[i].op
    BY <1>1, <2>1, InterruptedIs, Zenon
  <2> QED
    BY <2>1, <2>2, Zenon
<1> QED
  BY <1>1, <1>2, <1>3, Carries

(* A settled row says of its effects what settle() proved. *)
LEMMA SettledRow ==
  ASSUME NEW row \in Row, NEW w, NEW cause \in Causes, NEW row2, NEW s,
         ~row.prepared => s = <<>>, DOMAIN w = DOMAIN s, s = <<>> => DOMAIN w = {},
         \A i \in DOMAIN w : Truthful(s[i], w[i]),
         ~row2.prepared => row2.steps = <<>>,
         \A i \in DOMAIN w : Truthful(row2.steps[i], w[i]),
         row2.state = Settle(row.prepared, s, cause).state,
         row2.notDispatched = Settle(row.prepared, s, cause).notDispatched
  PROVE  TruthfulRow(row2, w)
<1>1. row.prepared \in BOOLEAN
  BY DEF Row
<1>2. /\ row2.notDispatched => /\ row2.state \in {"failed", "cancelled"}
                               /\ \A i \in DOMAIN w : w[i] \in {"none", "dead"}
      /\ \A i \in DOMAIN w : w[i] = "sent" => row2.state = "unknown"
  BY <1>1, SettledIs
<1> QED
  BY <1>2 DEF TruthfulRow

LEMMA IdleRunIs ==
  /\ IdleRun \in Run /\ IdleRun.pc = "idle" /\ IdleRun.op = 1
  /\ \A program, row, w : /\ Performing(IdleRun, row, w) /\ Behind(IdleRun, row, w)
                          /\ Achieved(program, IdleRun, row, w)
<1>1. IdleRun \in Run /\ IdleRun.pc = "idle" /\ IdleRun.op = 1
  BY DEF IdleRun, Run, Phases, Endings, Errors
<1> QED
  BY <1>1, Outside DEF Performing, Executing, Stepping, Before

LEMMA LocalComplete ==
  ASSUME Typed, NEW a \in Actions, Local(a), Complete(a)
  PROVE  Only(a) /\ Local(a)'
<1> DEFINE settled == Settle(rows[a].prepared, rows[a].steps, run[a].err)
           row == Finished(a)
<1>1. /\ run[a] \in Run /\ rows[a] \in Row /\ run[a].err \in Causes /\ run[a].pc = "settling"
      /\ DOMAIN world[a] = DOMAIN rows[a].steps /\ rows[a].steps \in Seq(Step)
  BY View DEF Complete, Run, Endings, Causes
<1>2. /\ row.state = settled.state /\ row.notDispatched = settled.notDispatched
      /\ row.steps = Interrupted(rows[a].steps) /\ row.prepared = rows[a].prepared
  BY <1>1 DEF Finished, Row
<1>3. /\ Commit(a, row) /\ Keep(a, IdleRun) /\ UNCHANGED <<world, asked, cancelling>>
  BY DEF Complete
<1>4. row.state # "absent"
  <2>1. run[a].err # "recovered" /\ rows[a].prepared \in BOOLEAN
    BY <1>1 DEF Run, Endings, Errors, Row
  <2>2. settled.state \in SettledStates
    BY <1>1, <2>1, SettleType
  <2> QED
    BY <1>2, <2>2 DEF SettledStates
<1> HIDE DEF row
<1>5. TruthfulRow(rows[a], world[a]) /\ Single(Program[a], rows[a], world[a])
  BY DEF Local
<1>6. /\ ~row.prepared => row.steps = <<>>
      /\ \A i \in DOMAIN world[a] : Truthful(row.steps[i], world[a][i])
      /\ Single(Program[a], row, world[a])
  BY <1>1, <1>2, <1>5, InterruptedRow
<1>7. TruthfulRow(row, world[a])
  <2>1. /\ ~rows[a].prepared => rows[a].steps = <<>>
        /\ \A i \in DOMAIN world[a] : Truthful(rows[a].steps[i], world[a][i])
        /\ rows[a].steps = <<>> => DOMAIN world[a] = {}
    BY <1>1, <1>5, EmptySeq DEF TruthfulRow
  <2> QED
    BY <1>1, <1>2, <1>6, <2>1, SettledRow
<1>8. /\ Performing(IdleRun, row, world[a]) /\ Behind(IdleRun, row, world[a])
      /\ Achieved(Program[a], IdleRun, row, world[a])
  BY IdleRunIs
<1>9. Told(asked'[a], Pending(a)', IdleRun, row)
  BY <1>4, IdleRunIs DEF Told
<1>10. \A b \in Actions : asked'[b] = asked[b] /\ Pending(b)' = Pending(b)
  BY <1>3 DEF Pending
<1>11. world' = [world EXCEPT ![a] = world[a]]
  BY <1>3 DEF Typed, TypeOK
<1> QED
  BY <1>3, <1>6, <1>7, <1>8, <1>9, <1>10, <1>11, CommitsTo

LEMMA LocalCompleteFails ==
  ASSUME Typed, NEW a \in Actions, Local(a), CompleteFails(a)
  PROVE  Only(a) /\ Local(a)'
<1> DEFINE row == [rows[a] EXCEPT !.state = "unknown", !.steps = Interrupted(@),
                                  !.cancelReq = run[a].known]
<1>1. /\ run[a] \in Run /\ rows[a] \in Row /\ run[a].pc = "settling"
      /\ rows[a].state \in {"waiting", "running"}
      /\ DOMAIN world[a] = DOMAIN rows[a].steps
  BY View DEF CompleteFails
<1>2. /\ row.state = "unknown" /\ row.notDispatched = rows[a].notDispatched
      /\ row.steps = Interrupted(rows[a].steps) /\ row.prepared = rows[a].prepared
  BY <1>1 DEF Row
<1>3. rows' = [rows EXCEPT ![a] = row]
  <2>1. rows' = [rows EXCEPT ![a].state = "unknown", ![a].steps = Interrupted(@),
                             ![a].cancelReq = run[a].known]
    BY DEF CompleteFails
  <2> QED
    BY <2>1 DEF Typed, TypeOK
<1>4. /\ Keep(a, IdleRun) /\ UNCHANGED <<disk, world, asked, cancelling>>
  BY DEF CompleteFails
<1> HIDE DEF row
<1>5. /\ rows'[a] = row /\ \A b \in Actions : b # a => rows'[b] = rows[b]
      /\ run'[a] = IdleRun /\ \A b \in Actions : b # a => run'[b] = run[b]
  BY <1>3, <1>4 DEF Keep, Typed, TypeOK
<1>6. disk[a] = rows[a]
  BY <1>1 DEF Local, Stored
<1>7. TruthfulRow(rows[a], world[a]) /\ Single(Program[a], rows[a], world[a]) /\ ~rows[a].notDispatched
  BY <1>1 DEF Local, TruthfulRow
<1>8. /\ ~row.prepared => row.steps = <<>>
      /\ \A i \in DOMAIN world[a] : Truthful(row.steps[i], world[a][i])
      /\ Single(Program[a], row, world[a])
  BY <1>1, <1>2, <1>7, InterruptedRow
<1>9. TruthfulRow(row, world[a])
  BY <1>2, <1>7, <1>8 DEF TruthfulRow
<1>10. Stored(row, disk[a])
  BY <1>1, <1>2, <1>6 DEF Stored
<1>11. \A b \in Actions : Pending(b)' = Pending(b)
  BY <1>4 DEF Pending
<1>12. Told(asked[a], Pending(a)', IdleRun, row)
  BY <1>2, IdleRunIs DEF Told
<1>13. Only(a)
  BY <1>4, <1>5, <1>11 DEF Only
<1>14. Local(a)'
  <2>1. /\ TruthfulRow(rows'[a], world'[a]) /\ TruthfulRow(disk'[a], world'[a])
        /\ Stored(rows'[a], disk'[a]) /\ Single(Program[a], rows'[a], world'[a])
        /\ Told(asked'[a], Pending(a)', run'[a], rows'[a])
    BY <1>4, <1>5, <1>6, <1>7, <1>8, <1>9, <1>10, <1>12
  <2>2. /\ Performing(run'[a], rows'[a], world'[a]) /\ Behind(run'[a], rows'[a], world'[a])
        /\ Achieved(Program[a], run'[a], rows'[a], world'[a])
    BY <1>5, IdleRunIs
  <2> QED
    BY <2>1, <2>2 DEF Local
<1> QED
  BY <1>13, <1>14

(* What recovery proves of a step is true of its effect, as far as it can know it. *)
LEMMA FoundTruthful ==
  ASSUME Typed, NEW a \in Actions, Local(a), NEW steps, NEW i \in DOMAIN world[a],
         steps[i] \in Proven(a, i)
  PROVE  LET w == Found(steps, world[a])[i]
         IN  /\ Truthful(steps[i], w) /\ steps[i].op = rows[a].steps[i].op
             /\ w # world[a][i] => world[a][i] = "none" /\ w = "found" /\ steps[i].state = "succeeded"
<1> DEFINE step == rows[a].steps[i]
           old == world[a][i]
           s == steps[i]
           w == Found(steps, world[a])[i]
<1>1. step \in Step /\ Truthful(step, old)
  <2>1. i \in DOMAIN rows[a].steps /\ rows[a].steps \in Seq(Step)
    BY View
  <2> QED
    BY <2>1 DEF Local, TruthfulRow
<1>2. w = IF old = "none" /\ s.state = "succeeded" THEN "found" ELSE old
  BY View, FoundIs
<1>3. /\ s \in Step /\ s.op = step.op
      /\ \/ s = step
         \/ /\ s.notDispatched => s.state = "failed" /\ old \in {"none", "dead"}
            /\ s.retired => s.state = "failed" /\ old \in {"dead", "gone"}
            /\ s.state = "succeeded" => old \in {"none", "done", "gone"}
            /\ old = "sent" => Uncertain(s)
            /\ old = "found" => step.state # "succeeded"
  BY <1>1, ProvenIs
<1> HIDE DEF step, old, s, w
<1>4. Truthful(s, w)
  BY <1>1, <1>2, <1>3 DEF Truthful, Uncertain
<1> QED
  BY <1>2, <1>3, <1>4 DEF step, old, s, w

LEMMA LocalRecover ==
  ASSUME Typed, NEW a \in Actions, Local(a), Recover(a)
  PROVE  Only(a) /\ Local(a)'
<1>1. /\ rows[a] \in Row /\ rows[a].state \in {"unknown", "incomplete"} /\ rows[a].prepared
      /\ rows[a].steps \in Seq(Step) /\ world[a] \in Seq(WorldStates)
      /\ DOMAIN world[a] = 1..Len(rows[a].steps) /\ DOMAIN rows[a].steps = DOMAIN world[a]
      /\ run[a].pc = "idle" /\ run[a] \in Run
  BY View, RecoverIs
<1>2. PICK steps \in Seq(Step), row \in Row :
        /\ DOMAIN steps = DOMAIN rows[a].steps /\ Len(steps) = Len(rows[a].steps)
        /\ \A i \in DOMAIN steps : steps[i] \in Proven(a, i)
        /\ row.steps = steps /\ row.prepared = rows[a].prepared
        /\ \/ row.state = rows[a].state /\ row.notDispatched = rows[a].notDispatched
           \/ LET settled == Settle(TRUE, steps, "recovered")
              IN  /\ row.state = settled.state /\ row.notDispatched = settled.notDispatched
                  /\ row.state \in SettledStates
        /\ Commit(a, row) /\ Keep(a, run[a])
        /\ world' = [world EXCEPT ![a] = Found(steps, world[a])]
  BY RecoverIs
<1>3. UNCHANGED <<asked, cancelling>>
  BY RecoverIs
<1> DEFINE w == Found(steps, world[a])
           settled == Settle(TRUE, steps, "recovered")
<1>4. w \in Seq(WorldStates) /\ Len(w) = Len(world[a]) /\ DOMAIN w = DOMAIN world[a]
  BY <1>1, FoundIs
<1>5. \A i \in DOMAIN world[a] :
        /\ Truthful(steps[i], w[i]) /\ steps[i].op = rows[a].steps[i].op
        /\ w[i] # world[a][i] => world[a][i] = "none" /\ w[i] = "found" /\ steps[i].state = "succeeded"
  BY <1>1, <1>2, FoundTruthful
<1>6. world' = [world EXCEPT ![a] = w]
  BY <1>2
<1> HIDE DEF w
<1>7. TruthfulRow(row, w)
  <2>1. CASE /\ row.state = settled.state /\ row.notDispatched = settled.notDispatched
    <3>1. "recovered" \in Causes
      BY DEF Causes
    <3>2. steps = <<>> => DOMAIN w = {}
      BY <1>1, <1>2, <1>4
    <3>3. /\ row.notDispatched => /\ row.state \in {"failed", "cancelled"}
                                  /\ \A i \in DOMAIN w : w[i] \in {"none", "dead"}
          /\ \A i \in DOMAIN w : w[i] = "sent" => row.state = "unknown"
      <4>1. /\ TRUE \in BOOLEAN /\ DOMAIN w \subseteq DOMAIN steps
            /\ \A i \in DOMAIN w : Truthful(steps[i], w[i])
        BY <1>1, <1>2, <1>4, <1>5
      <4>2. /\ settled.notDispatched => /\ settled.state \in {"failed", "cancelled"}
                                        /\ \A i \in DOMAIN w : w[i] \in {"none", "dead"}
            /\ \A i \in DOMAIN w : w[i] = "sent" => settled.state = "unknown"
        BY <3>1, <3>2, <4>1, SettledIs
      <4> QED
        BY <2>1, <4>2
    <3> QED
      BY <1>1, <1>2, <1>4, <1>5, <3>3 DEF TruthfulRow
  <2>2. CASE row.state = rows[a].state /\ row.notDispatched = rows[a].notDispatched
    <3>1. ~row.notDispatched
      BY <1>1, <2>2 DEF Local, TruthfulRow
    <3>2. \A i \in DOMAIN w : w[i] = "sent" => row.state \in {"running", "unknown"}
      BY <1>4, <1>5, <2>2 DEF Local, TruthfulRow
    <3> QED
      BY <1>1, <1>2, <1>4, <1>5, <3>1, <3>2 DEF TruthfulRow
  <2> QED
    BY <1>2, <2>1, <2>2
<1>8. Single(Program[a], row, w)
  BY <1>2, <1>4, <1>5 DEF Local, Single, Held
<1>9. Behind(run[a], row, w) /\ Achieved(Program[a], run[a], row, w)
  BY <1>1, Outside DEF Local, Behind, Executing, Stepping, Before
<1>10. Performing(run[a], row, w)
  BY <1>1 DEF Performing, Executing, Stepping
<1>11. Told(asked'[a], Pending(a)', run[a], row)
  BY <1>1, <1>2 DEF Told, SettledStates
<1>12. \A b \in Actions : asked'[b] = asked[b] /\ Pending(b)' = Pending(b)
  BY <1>3 DEF Pending
<1> QED
  BY <1>1, <1>2, <1>4, <1>6, <1>7, <1>8, <1>9, <1>10, <1>11, <1>12, CommitsTo

LEMMA LoadedTruthful ==
  ASSUME NEW row \in Row, NEW w, DOMAIN w = DOMAIN row.steps, TruthfulRow(row, w)
  PROVE  TruthfulRow(Loaded(row), w) /\ Loaded(row).steps = Interrupted(row.steps)
<1> DEFINE s == Interrupted(row.steps)
           settled == Settle(row.prepared, s, "interrupted")
           row2 == Loaded(row)
<1>1. /\ row2.steps = s /\ row2.prepared = row.prepared
      /\ \/ row.state = "running" /\ row2.state = settled.state /\ row2.notDispatched = settled.notDispatched
         \/ row.state = "waiting" /\ row2.state = "cancelled" /\ row2.notDispatched = row.notDispatched
         \/ row2.state = row.state /\ row.state # "running" /\ row2.notDispatched = row.notDispatched
  BY DEF Loaded, Row
<1> HIDE DEF row2
<1>2. /\ ~row2.prepared => row2.steps = <<>>
      /\ \A i \in DOMAIN w : Truthful(row2.steps[i], w[i])
  BY <1>1, InterruptedRow
<1>3. s \in Seq(Step) /\ Len(s) = Len(row.steps) /\ DOMAIN s = DOMAIN w
  BY InterruptedType DEF Row, Interrupted
<1>4. ASSUME row2.state = settled.state, row2.notDispatched = settled.notDispatched
      PROVE  TruthfulRow(row2, w)
  <2>1. "interrupted" \in Causes /\ (s = <<>> => DOMAIN w = {})
    BY <1>3, EmptySeq DEF Causes
  <2>2. (~row.prepared => s = <<>>) /\ \A i \in DOMAIN w : Truthful(s[i], w[i])
    BY <1>1, <1>2
  <2> HIDE DEF s
  <2> QED
    BY <1>2, <1>3, <1>4, <2>1, <2>2, SettledRow
<1>5. ASSUME row2.notDispatched = row.notDispatched, row.state # "running",
             row2.state = row.state \/ (row.state = "waiting" /\ row2.state = "cancelled")
      PROVE  TruthfulRow(row2, w)
  <2>1. /\ row.notDispatched => row.state \in {"failed", "cancelled"}
        /\ \A i \in DOMAIN w : /\ row.notDispatched => w[i] \in {"none", "dead"}
                               /\ w[i] = "sent" => row.state \in {"running", "unknown"}
    BY DEF TruthfulRow
  <2> QED
    BY <1>2, <1>5, <2>1 DEF TruthfulRow
<1>6. TruthfulRow(row2, w)
  <2> HIDE DEF settled
  <2> QED
    BY <1>1, <1>4, <1>5
<1> QED
  BY <1>1, <1>6 DEF row2

LEMMA LocalRestart ==
  ASSUME Typed, NEW a \in Actions, Local(a), Restart
  PROVE  Local(a)'
<1>1. /\ rows[a] \in Row /\ disk[a] \in Row /\ rows[a].steps \in Seq(Step) /\ disk[a].steps \in Seq(Step)
      /\ DOMAIN world[a] = DOMAIN rows[a].steps /\ DOMAIN world[a] = DOMAIN disk[a].steps
      /\ Len(rows[a].steps) = Len(disk[a].steps)
      /\ DOMAIN world[a] = 1..Len(rows[a].steps)
  BY View
<1> DEFINE row == Loaded(disk[a])
<1>2. /\ rows'[a] = row /\ disk'[a] = row /\ run'[a] = IdleRun /\ world' = world
      /\ ~asked'[a] /\ Pending(a)' = {}
  BY DEF Restart, Pending
<1>3. TruthfulRow(disk[a], world[a]) /\ Single(Program[a], rows[a], world[a])
  BY DEF Local
<1>4. TruthfulRow(row, world[a]) /\ row.steps = Interrupted(disk[a].steps)
  BY <1>1, <1>3, LoadedTruthful
<1> HIDE DEF row
<1>5. Single(Program[a], disk[a], world[a])
  <2>1. CASE disk[a] = rows[a]
    BY <1>3, <2>1
  <2>2. CASE rows[a].steps = Interrupted(disk[a].steps)
    <3>1. \A i \in DOMAIN world[a] : Interrupted(disk[a].steps)[i].op = disk[a].steps[i].op
      BY <1>1, InterruptedIs, Zenon
    <3> QED
      BY <1>3, <2>2, <3>1 DEF Single
  <2> QED
    BY <2>1, <2>2 DEF Local, Stored
<1>6. Single(Program[a], row, world[a])
  <2>1. \A i \in DOMAIN world[a] : Interrupted(disk[a].steps)[i].op = disk[a].steps[i].op
    BY <1>1, InterruptedIs, Zenon
  <2> QED
    BY <1>4, <1>5, <2>1 DEF Single
<1>7. Told(asked'[a], Pending(a)', run'[a], row)
  BY <1>2, IdleRunIs DEF Told
<1>8. /\ Performing(run'[a], row, world[a]) /\ Behind(run'[a], row, world[a])
      /\ Achieved(Program[a], run'[a], row, world[a])
  BY <1>2, IdleRunIs
<1> QED
  BY <1>2, <1>4, <1>6, <1>7, <1>8 DEF Local, Stored

LEMMA ReceiptInit == Init => ReceiptInv
<1> SUFFICES ASSUME Init PROVE ReceiptInv
  OBVIOUS
<1>1. Typed
  BY TypedInit
<1>2. ASSUME NEW a \in Actions
      PROVE  Local(a)
  <2>1. rows[a] = AbsentRow /\ disk[a] = AbsentRow /\ run[a] = IdleRun /\ world[a] = <<>>
        /\ ~asked[a] /\ Pending(a) = {}
    BY DEF Init, Pending
  <2>2. DOMAIN world[a] = {}
    BY <2>1
  <2>3. TruthfulRow(AbsentRow, world[a]) /\ Single(Program[a], AbsentRow, world[a])
    BY <2>2 DEF TruthfulRow, Single, AbsentRow
  <2> QED
    BY <2>1, <2>3, IdleRunIs DEF Local, Stored, Told
<1> QED
  BY <1>1, <1>2 DEF ReceiptInv

LEMMA ReceiptAction ==
  ASSUME Typed, NEW a \in Actions, Local(a),
         \/ Requests(a) \/ Gates(a) \/ StepMoves(a) \/ Retire(a) \/ Failures(a)
         \/ Complete(a) \/ Environment(a)
         \/ \E who \in {"caller", "run"} : CommitCancel(a, who)
  PROVE  Only(a) /\ Local(a)'
<1>1. CASE Requests(a)
  BY <1>1, LocalAdmit, LocalResume, LocalCancel, LocalRecover DEF Requests
<1>2. CASE Gates(a)
  BY <1>2, LocalGates, LocalConsent, LocalPrepare DEF Gates
<1>3. CASE StepMoves(a)
  BY <1>3, LocalDiscover, LocalReplay, LocalBegin, LocalQuietSteps, LocalEffects, LocalMark,
     LocalRecordFailure, LocalRecordSuccess, LocalEnds DEF StepMoves
<1>4. CASE Failures(a)
  BY <1>4, LocalEnds, LocalQuietSteps, LocalRecordFails, LocalCompleteFails DEF Failures
<1> QED
  BY <1>1, <1>2, <1>3, <1>4, LocalRetire, LocalComplete, LocalEnvironment, LocalCommitCancel

LEMMA ReceiptNext == ReceiptInv /\ [Next]_vars => ReceiptInv'
<1> SUFFICES ASSUME ReceiptInv, [Next]_vars PROVE ReceiptInv'
  OBVIOUS
<1>1. Typed /\ Typed' /\ \A a \in Actions : Local(a)
  BY TypedNext DEF ReceiptInv
<1>2. CASE UNCHANGED vars
  <2>1. \A a \in Actions : Local(a)'
    BY <1>1, <1>2 DEF vars, Local, Pending
  <2> QED
    BY <1>1, <2>1 DEF ReceiptInv
<1>3. CASE StopRun
  BY <1>1, <1>3, LocalStopRun DEF ReceiptInv
<1>4. CASE Restart
  BY <1>1, <1>4, LocalRestart DEF ReceiptInv
<1>5. ASSUME NEW a \in Actions,
             \/ Requests(a) \/ Gates(a) \/ StepMoves(a) \/ Retire(a) \/ Failures(a)
             \/ Complete(a) \/ Environment(a)
             \/ \E who \in {"caller", "run"} : CommitCancel(a, who)
      PROVE  ReceiptInv'
  BY <1>1, <1>5, ReceiptAction, OnlyKeeps
<1> QED
  BY <1>2, <1>3, <1>4, <1>5 DEF Next

-----------------------------------------------------------------------------
(* The results.                                                             *)

LEMMA Receipts == Spec => []ReceiptInv
BY ReceiptInit, ReceiptNext, PTL DEF Spec

(* "notDispatched proves it never ran", of an attempt and of a step it is claimed for; and an    *)
(* unanswered request leaves its step uncertain and its attempt open: settle(), step() and load(). *)
THEOREM ReceiptsAreHonest == Spec => []ReceiptHonest
<1>1. ReceiptInv => ReceiptHonest
  BY DEF ReceiptInv, Local, TruthfulRow, Truthful, ReceiptHonest
<1> QED
  BY <1>1, Receipts, PTL

(* No operation takes effect twice unless the step that recorded it was retired, over every     *)
(* resume, recovery and restart of the journal.                                                 *)
THEOREM EffectsHappenOnce == Spec => []AtMostOnce
<1>1. ReceiptInv => AtMostOnce
  BY DEF ReceiptInv, Local, Single, Held, AtMostOnce
<1> QED
  BY <1>1, Receipts, PTL

-----------------------------------------------------------------------------
(* The contract of a command, a success that stays, and a cancellation that *)
(* sends nothing: what one step may do to an attempt.                       *)

Ops(row, w) == {row.steps[i].op : i \in {j \in DOMAIN w : InForce(w[j])}}

AnswerOf(row) ==
  CASE row.state = "absent" -> "none"
    [] row.state \in {"waiting", "running"} -> "pending"
    [] row.state \in {"unknown", "incomplete"} -> "unresolved"
    [] OTHER -> row.state

ContractStep(a) ==
  Contract!Same(a) \/ Contract!Submit(a) \/ Contract!Perform(a) \/ Contract!Find(a) \/ Contract!Answer(a)

KeepsSuccess(a, i) ==
  LET step == rows[a].steps[i]
  IN  step.state = "succeeded" =>
        \/ rows'[a].steps[i].state = "succeeded"
        \/ rows'[a].steps[i].retired /\ world[a][i] = "gone"
        \/ /\ rows[a].state \in {"unknown", "incomplete"}
           /\ step.kind = "native" /\ ~Program[a][step.op].sdk
           /\ rows'[a].steps[i].state = "failed" /\ ~Repeatable(rows'[a].steps[i])

Keeps(a) ==
  /\ \A i \in DOMAIN rows[a].steps : KeepsSuccess(a, i)
  /\ \A i \in DOMAIN world[a] : asked[a] /\ world[a][i] = "none" => world'[a][i] # "sent"

Faithful(a) == ContractStep(a) /\ Keeps(a)

LEMMA AnswerIs ==
  ASSUME NEW row \in Row
  PROVE  /\ row.state = "absent" => AnswerOf(row) = "none"
         /\ row.state \in {"waiting", "running"} => AnswerOf(row) = "pending"
         /\ row.state \in {"unknown", "incomplete"} => AnswerOf(row) = "unresolved"
         /\ row.state \in {"succeeded", "failed", "cancelled"} => AnswerOf(row) = row.state
         /\ row.state \in {"absent", "waiting", "running", "unknown", "incomplete", "succeeded",
                           "failed", "cancelled"}
BY DEF AnswerOf, Row, RowStates, SettledStates

LEMMA SameIs ==
  ASSUME NEW a \in Actions, AnswerOf(rows'[a]) = AnswerOf(rows[a]),
         Ops(rows'[a], world'[a]) = Ops(rows[a], world[a]),
         rows'[a].notDispatched = rows[a].notDispatched
  PROVE  Contract!Same(a)
BY DEF Contract!Same, AnswerOf, Ops, InForce

LEMMA SubmitIs ==
  ASSUME NEW a \in Actions, AnswerOf(rows[a]) \in {"none", "unresolved"},
         AnswerOf(rows'[a]) = "pending",
         Ops(rows'[a], world'[a]) = Ops(rows[a], world[a]), ~rows'[a].notDispatched
  PROVE  Contract!Submit(a)
BY DEF Contract!Submit, AnswerOf, Ops, InForce

LEMMA PerformIs ==
  ASSUME NEW a \in Actions, AnswerOf(rows[a]) \in {"pending", "unresolved"},
         AnswerOf(rows'[a]) = AnswerOf(rows[a]), rows'[a].notDispatched = rows[a].notDispatched,
         NEW n, n \notin Ops(rows[a], world[a]),
         Ops(rows'[a], world'[a]) = Ops(rows[a], world[a]) \cup {n}
  PROVE  Contract!Perform(a)
BY DEF Contract!Perform, AnswerOf, Ops, InForce

LEMMA FindIs ==
  ASSUME NEW a \in Actions, AnswerOf(rows[a]) = "unresolved",
         AnswerOf(rows'[a]) \in {"unresolved", "failed", "cancelled"},
         Ops(rows[a], world[a]) \subseteq Ops(rows'[a], world'[a]),
         rows'[a].notDispatched =>
           AnswerOf(rows'[a]) # "unresolved" /\ Ops(rows'[a], world'[a]) = {}
  PROVE  Contract!Find(a)
BY DEF Contract!Find, AnswerOf, Ops, InForce

LEMMA AnswersIs ==
  ASSUME NEW a \in Actions, AnswerOf(rows[a]) \notin {"succeeded", "failed", "cancelled"},
         AnswerOf(rows'[a]) \in {"succeeded", "failed", "cancelled", "unresolved"},
         Ops(rows'[a], world'[a]) = Ops(rows[a], world[a]),
         AnswerOf(rows'[a]) = "succeeded" =>
           \A n \in DOMAIN Program[a] : ~Program[a][n].optional => n \in Ops(rows[a], world[a]),
         rows'[a].notDispatched =>
           AnswerOf(rows'[a]) \in {"failed", "cancelled"} /\ Ops(rows[a], world[a]) = {}
  PROVE  Contract!Answer(a)
BY DEF Contract!Answer, Contract!Final, AnswerOf, Ops, InForce

LEMMA SameOps ==
  ASSUME NEW row, NEW row2, NEW w, NEW w2, DOMAIN w2 = DOMAIN w,
         \A i \in DOMAIN w : /\ row2.steps[i].op = row.steps[i].op
                             /\ InForce(w2[i]) <=> InForce(w[i])
  PROVE  Ops(row2, w2) = Ops(row, w)
<1>1. \A i \in DOMAIN w : i \in {j \in DOMAIN w2 : InForce(w2[j])}
                          <=> i \in {j \in DOMAIN w : InForce(w[j])}
  OBVIOUS
<1> QED
  BY <1>1 DEF Ops

(* The attempt's answer and effects stay as they are. *)
LEMMA Restates ==
  ASSUME Typed, NEW a \in Actions, world'[a] = world[a],
         AnswerOf(rows'[a]) = AnswerOf(rows[a]), rows'[a].notDispatched = rows[a].notDispatched,
         \A i \in DOMAIN world[a] :
           LET step == rows[a].steps[i]
           IN  /\ rows'[a].steps[i].op = step.op
               /\ step.state = "succeeded" => rows'[a].steps[i].state = "succeeded"
  PROVE  Faithful(a)
<1>1. Ops(rows'[a], world'[a]) = Ops(rows[a], world[a])
  BY SameOps DEF InForce
<1>2. DOMAIN rows[a].steps = DOMAIN world[a]
  BY View
<1> QED
  BY <1>1, <1>2, SameIs DEF Faithful, ContractStep, Keeps, KeepsSuccess

LEMMA Unmoved ==
  ASSUME Typed, NEW a \in Actions, rows'[a] = rows[a], world'[a] = world[a]
  PROVE  Faithful(a)
BY Restates

(* The attempt is answered: finally, or until somebody recovers or resumes it. *)
LEMMA Answers ==
  ASSUME Typed, Typed', NEW a \in Actions, world'[a] = world[a], TruthfulRow(rows'[a], world[a]),
         rows[a].state \notin {"succeeded", "failed", "cancelled"},
         rows'[a].state \notin {"absent", "waiting", "running"},
         rows'[a].state = "succeeded" =>
           \A n \in DOMAIN Program[a] : ~Program[a][n].optional => n \in Ops(rows[a], world[a]),
         \A i \in DOMAIN world[a] :
           LET step == rows[a].steps[i]
           IN  /\ rows'[a].steps[i].op = step.op
               /\ step.state = "succeeded" => rows'[a].steps[i].state = "succeeded"
  PROVE  Faithful(a)
<1>1. Ops(rows'[a], world'[a]) = Ops(rows[a], world[a])
  BY SameOps DEF InForce
<1>2. rows[a] \in Row /\ rows'[a] \in Row /\ DOMAIN rows[a].steps = DOMAIN world[a]
  BY View DEF Typed, TypeOK
<1>3. rows'[a].notDispatched => rows'[a].state \in {"failed", "cancelled"} /\ Ops(rows[a], world[a]) = {}
  <2>1. rows'[a].notDispatched => \A i \in DOMAIN world[a] : ~InForce(world[a][i])
    BY DEF TruthfulRow, InForce
  <2> QED
    BY <2>1 DEF TruthfulRow, Ops
<1>4. /\ AnswerOf(rows[a]) \notin {"succeeded", "failed", "cancelled"}
      /\ AnswerOf(rows'[a]) \in {"succeeded", "failed", "cancelled", "unresolved"}
      /\ AnswerOf(rows'[a]) = "succeeded" => rows'[a].state = "succeeded"
      /\ rows'[a].state \in {"failed", "cancelled"} => AnswerOf(rows'[a]) = rows'[a].state
  BY <1>2, AnswerIs
<1>5. Contract!Answer(a)
  BY <1>1, <1>3, <1>4, AnswersIs
<1> QED
  BY <1>2, <1>5 DEF Faithful, ContractStep, Keeps, KeepsSuccess

(* A commit that changes neither the steps nor the answer. *)
LEMMA Recommits ==
  ASSUME Typed, NEW a \in Actions, NEW row \in Row, Commit(a, row), world' = world,
         row.steps = rows[a].steps, row.notDispatched = rows[a].notDispatched,
         row.state = rows[a].state
           \/ (rows[a].state \in {"waiting", "running"} /\ row.state \in {"waiting", "running"})
  PROVE  Faithful(a)
<1>1. rows'[a] = row /\ rows[a] \in Row
  BY View DEF Commit, Typed, TypeOK
<1>2. AnswerOf(row) = AnswerOf(rows[a])
  BY <1>1, AnswerIs DEF AnswerOf
<1> QED
  BY <1>1, <1>2, Restates

LEMMA FaithfulQuiet ==
  ASSUME Typed, NEW a \in Actions,
         \/ Authorize(a) \/ TurnGate(a) \/ TurnCheck(a) \/ PrepareFails(a) \/ ExecutorThrows(a)
         \/ ExecutorReturns(a) \/ Replay(a) \/ Recheck(a) \/ GateStep(a) \/ RefuseDispatch(a)
         \/ Answered(a) \/ Declined(a) \/ MarkFails(a) \/ Interrupts(a) \/ RecordFails(a) \/ Cancel(a)
         \/ EvidenceMoves(a) \/ StopRun
  PROVE  Faithful(a)
<1>1. rows' = rows /\ world' = world
  BY DEF Authorize, TurnGate, TurnCheck, PrepareFails, ExecutorThrows, ExecutorReturns, Replay, Recheck,
         GateStep, RefuseDispatch, Answered, Declined, MarkFails, Interrupts, RecordFails, Cancel, EvidenceMoves,
         StopRun, journalVars
<1> QED
  BY <1>1, Unmoved

LEMMA FaithfulCommits ==
  ASSUME Typed, NEW a \in Actions,
         \/ Consent(a) \/ Prepare(a) \/ Discover(a) \/ \E who \in {"caller", "run"} : CommitCancel(a, who)
  PROVE  Faithful(a)
<1>1. rows[a] \in Row /\ (run[a].pc # "idle" => rows[a].state \in {"waiting", "running"})
  BY View
<1>2. CASE Consent(a)
  <2> DEFINE row == [rows[a] EXCEPT !.state = "running"]
  <2>1. /\ row \in Row /\ row.steps = rows[a].steps /\ row.notDispatched = rows[a].notDispatched
        /\ row.state = "running"
    BY <1>1 DEF Row, RowStates
  <2>2. Commit(a, row) /\ world' = world /\ run[a].pc # "idle"
    BY <1>2 DEF Consent, Save
  <2> HIDE DEF row
  <2> QED
    BY <1>1, <2>1, <2>2, Recommits
<1>3. CASE Prepare(a)
  <2> DEFINE row == [rows[a] EXCEPT !.prepared = TRUE]
  <2>1. /\ row \in Row /\ row.steps = rows[a].steps /\ row.notDispatched = rows[a].notDispatched
        /\ row.state = rows[a].state
    BY <1>1 DEF Row
  <2>2. (Commit(a, row) \/ rows' = rows) /\ world' = world
    BY <1>3 DEF Prepare, Save
  <2> HIDE DEF row
  <2> QED
    BY <2>1, <2>2, Recommits, Unmoved
<1>4. CASE Discover(a)
  <2> DEFINE row == [rows[a] EXCEPT !.effects = @ \cup Undiscovered(a)]
  <2>1. /\ row.steps = rows[a].steps /\ row.notDispatched = rows[a].notDispatched
        /\ row.state = rows[a].state
    BY <1>1 DEF Row
  <2>2. Commit(a, row) /\ world' = world
    BY <1>4 DEF Discover, Save
  <2> HIDE DEF row
  <2>3. rows'[a] = row
    BY <2>2 DEF Commit, Typed, TypeOK
  <2>4. AnswerOf(row) = AnswerOf(rows[a])
    BY <2>1 DEF AnswerOf
  <2> QED
    BY <2>1, <2>2, <2>3, <2>4, Restates
<1>5. ASSUME NEW who \in {"caller", "run"}, CommitCancel(a, who)
      PROVE  Faithful(a)
  <2> DEFINE row == [rows[a] EXCEPT !.cancelReq = TRUE]
  <2>1. /\ row \in Row /\ row.steps = rows[a].steps /\ row.notDispatched = rows[a].notDispatched
        /\ row.state = rows[a].state
    BY <1>1 DEF Row
  <2>2. Commit(a, row) /\ world' = world
    BY <1>5 DEF CommitCancel
  <2> HIDE DEF row
  <2> QED
    BY <2>1, <2>2, Recommits
<1> QED
  BY <1>2, <1>3, <1>4, <1>5

(* An effect comes in force: its operation was not, or was found in force already. *)
LEMMA Performs ==
  ASSUME Typed, NEW a \in Actions, rows'[a] = rows[a],
         NEW i \in DOMAIN world[a], world'[a] = [world[a] EXCEPT ![i] = "done"],
         rows[a].state \in {"running", "unknown"}
  PROVE  Faithful(a)
<1> DEFINE n == rows[a].steps[i].op
<1>1. /\ rows[a] \in Row /\ world[a] \in Seq(WorldStates) /\ DOMAIN rows[a].steps = DOMAIN world[a]
  BY View
<1>2. DOMAIN world'[a] = DOMAIN world[a]
      /\ \A j \in DOMAIN world[a] : world'[a][j] = IF j = i THEN "done" ELSE world[a][j]
  BY <1>1
<1>4. \A j \in DOMAIN world[a] : InForce(world'[a][j])
                                 <=> j = i \/ InForce(world[a][j])
  BY <1>2 DEF InForce
<1>5. Ops(rows[a], world'[a]) = Ops(rows[a], world[a]) \cup {n}
  BY <1>2, <1>4 DEF Ops
<1>6. AnswerOf(rows[a]) \in {"pending", "unresolved"}
  BY <1>1, AnswerIs
<1>7. Contract!Perform(a) \/ Contract!Same(a)
  <2>1. CASE n \in Ops(rows[a], world[a])
    BY <1>5, <2>1, SameIs
  <2>2. CASE n \notin Ops(rows[a], world[a])
    BY <1>5, <1>6, <2>2, PerformIs
  <2> QED
    BY <2>1, <2>2
<1> QED
  BY <1>1, <1>2, <1>7 DEF Faithful, ContractStep, Keeps, KeepsSuccess

(* What is sent was not asked to be cancelled. *)
LEMMA FaithfulEffects ==
  ASSUME Typed, NEW a \in Actions, Local(a), Land(a) \/ LandFails(a) \/ Dispatch(a)
  PROVE  Faithful(a)
<1> DEFINE n == Len(world[a])
<1>1. /\ n \in DOMAIN world[a] /\ world[a] \in Seq(WorldStates) /\ n = Last(a)
      /\ rows[a].state = "running" /\ world[a][n] = "none" /\ rows[a].steps[n].state = "running"
      /\ rows[a].steps[n].op = run[a].op /\ run[a].op \in Nat /\ run[a].cursor = n
      /\ run[a].pc = "effect" /\ rows' = rows /\ DOMAIN rows[a].steps = DOMAIN world[a]
  BY View DEF Land, LandFails, Dispatch, Local, Performing, Executing, Stepping, Last, Run
<1>2. ASSUME NEW x, SetWorld(a, x)
      PROVE  world'[a] = [world[a] EXCEPT ![n] = x]
  BY <1>1, <1>2 DEF SetWorld, Typed, TypeOK
<1>4. CASE SetWorld(a, "done")
  <2>1. world'[a] = [world[a] EXCEPT ![n] = "done"]
    BY <1>2, <1>4
  <2> QED
    BY <1>1, <2>1, Performs
<1>5. CASE SetWorld(a, "none")
  <2>1. world'[a] = world[a]
    BY <1>1, <1>2, <1>5
  <2> QED
    BY <1>1, <2>1, Unmoved
<1>6. CASE Dispatch(a)
  <2>1. world'[a] = [world[a] EXCEPT ![n] = "sent"]
    BY <1>2, <1>6 DEF Dispatch
  <2>2. DOMAIN world'[a] = DOMAIN world[a]
        /\ \A j \in DOMAIN world[a] : world'[a][j] = IF j = n THEN "sent" ELSE world[a][j]
    BY <1>1, <2>1
  <2>3. Ops(rows'[a], world'[a]) = Ops(rows[a], world[a])
    BY <1>1, <2>2, SameOps DEF InForce
  <2>4. ~asked[a]
    BY <1>1, <1>6 DEF Local, Told, Dispatch, dispatchRefusal
  <2> QED
    BY <1>1, <2>3, <2>4, SameIs DEF Faithful, ContractStep, Keeps, KeepsSuccess
<1> QED
  BY <1>4, <1>5, <1>6 DEF Land, LandFails

LEMMA FaithfulEnvironment ==
  ASSUME Typed, NEW a \in Actions, Local(a), NEW i \in DOMAIN world[a],
         NativePerforms(a, i) \/ ResultGone(a, i)
  PROVE  Faithful(a)
<1>1. /\ world[a] \in Seq(WorldStates) /\ rows' = rows /\ DOMAIN rows[a].steps = DOMAIN world[a]
  BY View DEF NativePerforms, ResultGone, journalVars
<1>3. CASE world[a][i] = "sent" /\ world' = [world EXCEPT ![a][i] = "done"]
  <2>1. world'[a] = [world[a] EXCEPT ![i] = "done"]
    BY <1>3 DEF Typed, TypeOK
  <2>2. rows[a].state \in {"running", "unknown"}
    BY <1>3 DEF Local, TruthfulRow
  <2> QED
    BY <1>1, <2>1, <2>2, Performs
<1>4. ASSUME NEW x \in {"dead", "gone"}, world' = [world EXCEPT ![a][i] = x],
             world[a][i] = IF x = "dead" THEN "sent" ELSE "done"
      PROVE  Faithful(a)
  <2>1. world'[a] = [world[a] EXCEPT ![i] = x]
    BY <1>4 DEF Typed, TypeOK
  <2>2. DOMAIN world'[a] = DOMAIN world[a]
        /\ \A j \in DOMAIN world[a] : world'[a][j] = IF j = i THEN x ELSE world[a][j]
    BY <1>1, <2>1
  <2>3. Ops(rows'[a], world'[a]) = Ops(rows[a], world[a])
    BY <1>1, <1>4, <2>2, SameOps DEF InForce
  <2> QED
    BY <1>1, <1>4, <2>2, <2>3, SameIs DEF Faithful, ContractStep, Keeps, KeepsSuccess
<1> QED
  BY <1>3, <1>4 DEF NativePerforms, ResultGone

LEMMA FaithfulBegin ==
  ASSUME Typed, NEW a \in Actions, Local(a), BeginStep(a)
  PROVE  Faithful(a)
<1>1. PICK step : /\ world' = [world EXCEPT ![a] = Append(@, "none")]
                  /\ Commit(a, [rows[a] EXCEPT !.steps = Append(@, step)])
  BY DEF BeginStep, Save
<1> DEFINE w == Append(world[a], "none")
           steps == Append(rows[a].steps, step)
           row == [rows[a] EXCEPT !.steps = steps]
           m == Len(world[a]) + 1
<1>2. /\ rows[a] \in Row /\ rows[a].steps \in Seq(Step) /\ world[a] \in Seq(WorldStates)
      /\ Len(world[a]) = Len(rows[a].steps) /\ DOMAIN world[a] = 1..Len(world[a])
      /\ DOMAIN rows[a].steps = DOMAIN world[a]
      /\ Len(world[a]) \in Nat
  BY View, LenProperties
<1>3. world'[a] = w /\ rows'[a] = row
  BY <1>1 DEF Commit, Typed, TypeOK
<1>4. /\ row.steps = steps /\ row.state = rows[a].state /\ row.notDispatched = rows[a].notDispatched
  BY <1>2 DEF Row
<1>5. /\ DOMAIN w = 1..m /\ w[m] = "none" /\ DOMAIN world[a] \subseteq DOMAIN w
      /\ \A i \in 1..m : i = m \/ i \in DOMAIN world[a]
      /\ \A i \in DOMAIN world[a] : w[i] = world[a][i] /\ steps[i] = rows[a].steps[i]
  BY <1>2
<1> HIDE DEF w, steps, row
<1>6. Ops(row, w) = Ops(rows[a], world[a])
  <2>1. \A i \in DOMAIN w : InForce(w[i])
                            <=> i \in DOMAIN world[a] /\ InForce(world[a][i])
    BY <1>4, <1>5 DEF InForce
  <2> QED
    BY <1>4, <1>5, <2>1 DEF Ops
<1>7. AnswerOf(row) = AnswerOf(rows[a])
  BY <1>4 DEF AnswerOf
<1> QED
  BY <1>2, <1>3, <1>4, <1>5, <1>6, <1>7, SameIs DEF Faithful, ContractStep, Keeps, KeepsSuccess

LEMMA FaithfulRecords ==
  ASSUME Typed, NEW a \in Actions, Local(a), markDispatched(a) \/ RecordSuccess(a) \/ RecordFailure(a)
  PROVE  Faithful(a)
<1> DEFINE n == Len(world[a])
           old == rows[a].steps[n]
<1>1. /\ n = Last(a) /\ n \in DOMAIN world[a] /\ old \in Step /\ old.state = "running"
      /\ run[a].pc \in Stepping /\ run[a].phase \in {"gate", "effect", "checked"} /\ run[a].err \in Endings
  BY View DEF markDispatched, Unmarked, RecordSuccess, RecordFailure, Local, Performing, Executing,
              Stepping, Last, Run
<1>2. PICK step \in Step : /\ Commit(a, SetStep(a, step)) /\ world' = world
                           /\ step.op = old.op
  <2>1. CASE markDispatched(a)
    <3> DEFINE step == [old EXCEPT !.dispatched = TRUE]
    <3>1. step \in Step /\ step.op = old.op /\ step.retired = old.retired
      BY <1>1 DEF Step
    <3>2. Commit(a, SetStep(a, step)) /\ world' = world
      BY <1>1, <2>1 DEF markDispatched
    <3> QED
      BY <3>1, <3>2
  <2>2. CASE RecordSuccess(a)
    <3> DEFINE step == [old EXCEPT !.state = "succeeded", !.releases = TheOp(a).stops # {}]
    <3>1. step \in Step /\ step.op = old.op /\ step.retired = old.retired
      BY <1>1 DEF Step, StepStates
    <3>2. Commit(a, SetStep(a, step)) /\ world' = world
      BY <1>1, <2>2 DEF RecordSuccess, Save
    <3> QED
      BY <3>1, <3>2
  <2>3. CASE RecordFailure(a)
    <3> DEFINE step == FailedStep(old, run[a].err, run[a].phase)
    <3>1. step \in Step /\ step.op = old.op /\ step.retired = old.retired
      <4>1. step \in Step
        BY <1>1, FailedStepType
      <4> QED
        BY <1>1, <4>1 DEF FailedStep, Step
    <3>2. Commit(a, SetStep(a, step)) /\ world' = world
      BY <1>1, <2>3 DEF RecordFailure, Save
    <3> QED
      BY <3>1, <3>2
  <2> QED
    BY <2>1, <2>2, <2>3
<1> DEFINE row == SetStep(a, step)
<1>3. /\ row \in Row
      /\ \A i \in DOMAIN world[a] : row.steps[i] = IF i = n THEN step ELSE rows[a].steps[i]
      /\ row.state = rows[a].state /\ row.notDispatched = rows[a].notDispatched
  BY <1>1, SetStepIs
<1> HIDE DEF row
<1>4. rows'[a] = row
  BY <1>2 DEF Commit, Typed, TypeOK, row
<1>5. AnswerOf(row) = AnswerOf(rows[a])
  BY <1>3 DEF AnswerOf
<1>6. \A i \in DOMAIN world[a] :
        LET s == rows[a].steps[i]
        IN  /\ row.steps[i].op = s.op
            /\ s.state = "succeeded" => row.steps[i].state = "succeeded"
  BY <1>1, <1>2, <1>3
<1> QED
  BY <1>2, <1>3, <1>4, <1>5, <1>6, Restates

LEMMA FaithfulRetire ==
  ASSUME Typed, NEW a \in Actions, Local(a), Retire(a)
  PROVE  Faithful(a)
<1> DEFINE i == run[a].cursor + 1
           old == rows[a].steps[i]
           step == [old EXCEPT !.state = "failed", !.retired = TRUE]
           steps == [rows[a].steps EXCEPT ![i] = step]
           row == [rows[a] EXCEPT !.steps = steps]
<1>1. /\ rows[a] \in Row /\ rows[a].steps \in Seq(Step) /\ DOMAIN rows[a].steps = DOMAIN world[a]
      /\ run[a].cursor \in Nat /\ DOMAIN world[a] = 1..Len(rows[a].steps) /\ Len(rows[a].steps) \in Nat
      /\ rows[a].state \in {"waiting", "running"}
  BY View, LenProperties DEF Retire, AtOp, Run
<1>2. i \in DOMAIN world[a] /\ old \in Step /\ Truthful(old, world[a][i])
  <2>1. i \in DOMAIN world[a]
    BY <1>1 DEF Retire, Last
  <2> QED
    BY <1>1, <2>1 DEF Local, TruthfulRow
<1>3. old.state = "succeeded" /\ world[a][i] = "gone" /\ Commit(a, row) /\ world' = world
  BY Zenon DEF Retire, Save
<1>4. rows'[a] = row /\ world'[a] = world[a]
  BY <1>3 DEF Commit, Typed, TypeOK
<1>5. /\ row.steps = steps /\ row.state = rows[a].state /\ row.notDispatched = rows[a].notDispatched
  BY <1>1 DEF Row
<1>6. /\ step.retired /\ step.op = old.op
      /\ \A j \in DOMAIN world[a] : steps[j] = IF j = i THEN step ELSE rows[a].steps[j]
  BY <1>1, <1>2, <1>3 DEF Step, Truthful
<1> HIDE DEF step, steps, row, i
<1>7. Ops(row, world[a]) = Ops(rows[a], world[a])
  BY <1>5, <1>6, SameOps
<1>8. AnswerOf(row) = AnswerOf(rows[a])
  BY <1>5 DEF AnswerOf
<1>9. Contract!Same(a)
  BY <1>4, <1>5, <1>7, <1>8, SameIs
<1>10. \A j \in DOMAIN world[a] : KeepsSuccess(a, j)
  BY <1>3, <1>4, <1>5, <1>6 DEF KeepsSuccess
<1> QED
  BY <1>1, <1>4, <1>9, <1>10 DEF Faithful, ContractStep, Keeps

LEMMA FaithfulRequests ==
  ASSUME Typed, Typed', NEW a \in Actions, Local(a), Local(a)', Admit(a) \/ Reject(a) \/ Resume(a)
  PROVE  Faithful(a)
<1>1. /\ rows[a] \in Row /\ rows'[a] \in Row /\ world' = world
      /\ DOMAIN rows[a].steps = DOMAIN world[a]
      /\ rows[a].state = "absent" => DOMAIN world[a] = {}
  <2>1. rows[a].state = "absent" => rows[a].steps = <<>>
    BY DEF Typed, Mirrored
  <2>2. DOMAIN rows[a].steps = DOMAIN world[a]
    BY View
  <2>3. rows[a].steps = <<>> => DOMAIN world[a] = {}
    BY <2>2
  <2> QED
    BY <2>1, <2>2, <2>3, View DEF Admit, Reject, Resume, Typed, TypeOK
<1>2. CASE Admit(a)
  <2> DEFINE row == [AbsentRow EXCEPT !.state = FirstState(a, Footprint[a]), !.effects = Footprint[a]]
  <2>1. rows'[a] = row /\ rows[a].state = "absent"
    BY <1>2 DEF Admit, Commit, Typed, TypeOK
  <2>2. row.state \in {"waiting", "running"} /\ ~row.notDispatched
    BY DEF AbsentRow, FirstState
  <2>3. AnswerOf(rows[a]) = "none" /\ AnswerOf(rows'[a]) = "pending"
    BY <1>1, <2>1, <2>2, AnswerIs
  <2>4. Ops(rows'[a], world'[a]) = Ops(rows[a], world[a])
    BY <1>1, <2>1, SameOps
  <2> QED
    BY <1>1, <2>1, <2>2, <2>3, <2>4, SubmitIs DEF Faithful, ContractStep, Keeps
<1>3. CASE Reject(a)
  <2> DEFINE row == [AbsentRow EXCEPT !.state = "failed", !.notDispatched = TRUE,
                                      !.effects = Footprint[a]]
  <2>1. rows'[a] = row /\ rows[a].state = "absent"
    BY <1>3 DEF Reject, Commit, Typed, TypeOK
  <2>2. row.state = "failed"
    BY DEF AbsentRow
  <2>3. TruthfulRow(rows'[a], world[a])
    BY <1>1 DEF Local
  <2> HIDE DEF row
  <2> QED
    BY <1>1, <2>1, <2>2, <2>3, Answers
<1>4. CASE Resume(a)
  <2> DEFINE row == [rows[a] EXCEPT !.state = FirstState(a, rows[a].effects),
                                    !.cancelReq = FALSE, !.notDispatched = FALSE]
  <2>1. rows'[a] = row /\ rows[a].state \in {"unknown", "incomplete"}
    BY <1>4 DEF Resume, Commit, Typed, TypeOK
  <2>2. row.state \in {"waiting", "running"} /\ ~row.notDispatched /\ row.steps = rows[a].steps
    BY <1>1 DEF Row, FirstState
  <2> HIDE DEF row
  <2>3. AnswerOf(rows[a]) = "unresolved" /\ AnswerOf(rows'[a]) = "pending"
    BY <1>1, <2>1, <2>2, AnswerIs
  <2>4. Ops(rows'[a], world'[a]) = Ops(rows[a], world[a])
    BY <1>1, <2>1, <2>2, SameOps
  <2>5. \A i \in DOMAIN rows[a].steps : KeepsSuccess(a, i)
    BY <2>1, <2>2 DEF KeepsSuccess
  <2> QED
    BY <1>1, <2>1, <2>2, <2>3, <2>4, <2>5, SubmitIs DEF Faithful, ContractStep, Keeps
<1> QED
  BY <1>2, <1>3, <1>4

LEMMA InterruptedKeeps ==
  ASSUME NEW s \in Seq(Step), NEW i \in DOMAIN s
  PROVE  /\ Interrupted(s)[i].op = s[i].op
         /\ Interrupted(s)[i].state = "succeeded" <=> s[i].state = "succeeded"
<1>1. s[i] \in Step
  OBVIOUS
<1> QED
  BY <1>1, InterruptedIs DEF Step

LEMMA FaithfulComplete ==
  ASSUME Typed, Typed', NEW a \in Actions, Local(a), Local(a)', Complete(a) \/ CompleteFails(a)
  PROVE  Faithful(a)
<1>1. /\ rows[a] \in Row /\ world' = world /\ rows[a].steps \in Seq(Step)
      /\ DOMAIN rows[a].steps = DOMAIN world[a] /\ rows[a].state \in {"waiting", "running"}
      /\ run[a].pc = "settling" /\ run[a].err \in Endings /\ rows[a].prepared \in BOOLEAN
  BY View DEF Complete, CompleteFails, Run, Row
<1> DEFINE settled == Settle(rows[a].prepared, rows[a].steps, run[a].err)
<1>2. /\ rows'[a].steps = Interrupted(rows[a].steps)
      /\ rows'[a].state = "unknown" \/ rows'[a].state = settled.state
  <2>1. CASE Complete(a)
    <3>1. rows'[a] = Finished(a)
      BY <2>1 DEF Complete, Commit, Typed, TypeOK
    <3> QED
      BY <1>1, <3>1 DEF Finished, Row
  <2>2. CASE CompleteFails(a)
    <3>1. rows'[a] = [rows[a] EXCEPT !.state = "unknown", !.steps = Interrupted(@),
                                     !.cancelReq = run[a].known]
      BY <2>2 DEF CompleteFails, Typed, TypeOK
    <3> QED
      BY <1>1, <3>1 DEF Row
  <2> QED
    BY <2>1, <2>2
<1>3. /\ settled.state \in SettledStates
      /\ settled.state = "succeeded" => run[a].err = "returned"
  <2>1. run[a].err \in Causes /\ run[a].err # "recovered"
    BY <1>1 DEF Causes, Endings, Errors
  <2>2. /\ ~rows[a].prepared => rows[a].steps = <<>>
        /\ rows[a].steps = <<>> => DOMAIN world[a] = {}
        /\ \A i \in DOMAIN world[a] : Truthful(rows[a].steps[i], world[a][i])
    BY <1>1, EmptySeq DEF Local, TruthfulRow
  <2> QED
    BY <1>1, <2>1, <2>2, SettledIs, SettleType
<1> HIDE DEF settled
<1>4. rows'[a].state \notin {"absent", "waiting", "running"}
  BY <1>2, <1>3 DEF SettledStates
<1>5. rows'[a].state = "succeeded" =>
        \A n \in DOMAIN Program[a] : ~Program[a][n].optional => n \in Ops(rows[a], world[a])
  BY <1>1, <1>2, <1>3 DEF Local, Achieved, Ops
<1>6. TruthfulRow(rows'[a], world[a])
  BY <1>1 DEF Local
<1>7. \A i \in DOMAIN world[a] :
        LET step == rows[a].steps[i]
        IN  /\ rows'[a].steps[i].op = step.op
            /\ step.state = "succeeded" => rows'[a].steps[i].state = "succeeded"
  BY <1>1, <1>2, InterruptedKeeps
<1> QED
  BY <1>1, <1>4, <1>5, <1>6, <1>7, Answers

LEMMA FaithfulRecover ==
  ASSUME Typed, Typed', NEW a \in Actions, Local(a), Local(a)', Recover(a)
  PROVE  Faithful(a)
<1>1. /\ rows[a] \in Row /\ rows'[a] \in Row /\ rows[a].state \in {"unknown", "incomplete"}
      /\ DOMAIN rows[a].steps = DOMAIN world[a] /\ rows[a].steps \in Seq(Step)
      /\ world[a] \in Seq(WorldStates)
  BY View, RecoverIs DEF Typed, TypeOK
<1>2. PICK steps \in Seq(Step) :
        /\ DOMAIN steps = DOMAIN rows[a].steps
        /\ \A i \in DOMAIN steps : steps[i] \in Proven(a, i)
        /\ rows'[a].steps = steps
        /\ \/ rows'[a].state = rows[a].state
           \/ /\ rows'[a].state = Settle(TRUE, steps, "recovered").state
              /\ rows'[a].state \in SettledStates
        /\ world'[a] = Found(steps, world[a])
  <2>1. PICK steps \in Seq(Step), row \in Row :
          /\ DOMAIN steps = DOMAIN rows[a].steps
          /\ \A i \in DOMAIN steps : steps[i] \in Proven(a, i)
          /\ row.steps = steps
          /\ \/ row.state = rows[a].state
             \/ /\ row.state = Settle(TRUE, steps, "recovered").state
                /\ row.state \in SettledStates
          /\ Commit(a, row)
          /\ world' = [world EXCEPT ![a] = Found(steps, world[a])]
    BY RecoverIs
  <2>2. rows'[a] = row /\ world'[a] = Found(steps, world[a])
    BY <2>1 DEF Commit, Typed, TypeOK
  <2> QED
    BY <2>1, <2>2
<1>3. \A i \in DOMAIN world[a] :
        /\ rows'[a].steps[i].op = rows[a].steps[i].op
        /\ world'[a][i] # world[a][i] => world[a][i] = "none"
  BY <1>1, <1>2, FoundTruthful
<1>4. DOMAIN world'[a] = DOMAIN world[a]
  BY <1>1, <1>2, FoundIs
<1>5. Ops(rows[a], world[a]) \subseteq Ops(rows'[a], world'[a])
  <2>1. \A i \in DOMAIN world[a] : InForce(world[a][i]) => InForce(world'[a][i])
    BY <1>3 DEF InForce
  <2> QED
    BY <1>3, <1>4, <2>1 DEF Ops
<1>6. rows'[a].notDispatched =>
        rows'[a].state \in {"failed", "cancelled"} /\ Ops(rows'[a], world'[a]) = {}
  <2>1. TruthfulRow(rows'[a], world'[a])
    BY DEF Local
  <2>2. rows'[a].notDispatched => \A i \in DOMAIN world'[a] : ~InForce(world'[a][i])
    BY <2>1 DEF TruthfulRow, InForce
  <2> QED
    BY <2>1, <2>2 DEF TruthfulRow, Ops
<1>7. rows'[a].state \in {"unknown", "incomplete", "failed", "cancelled"}
  <2>1. Settle(TRUE, steps, "recovered").state # "succeeded"
    BY DEF Settle, Outcome, Failure
  <2> QED
    BY <1>1, <1>2, <2>1 DEF SettledStates
<1>8. Contract!Find(a)
  <2>1. /\ AnswerOf(rows[a]) = "unresolved"
        /\ AnswerOf(rows'[a]) \in {"unresolved", "failed", "cancelled"}
        /\ rows'[a].state \in {"failed", "cancelled"} => AnswerOf(rows'[a]) = rows'[a].state
    BY <1>1, <1>7, AnswerIs
  <2> QED
    BY <1>5, <1>6, <2>1, FindIs
<1>9. ASSUME NEW i \in DOMAIN rows[a].steps
      PROVE  KeepsSuccess(a, i)
  <2> DEFINE step == rows[a].steps[i]
             s == steps[i]
             w == world[a][i]
  <2>1. step \in Step /\ Truthful(step, w) /\ s \in Proven(a, i)
    BY <1>1, <1>2 DEF Local, TruthfulRow
  <2>2. \/ s = step
        \/ /\ w = "found" => step.state # "succeeded"
           /\ step.state = "succeeded" /\ w \in {"done", "gone"} =>
                /\ step.kind = "native" /\ ~Program[a][step.op].sdk
                /\ s.state \in {"succeeded", "failed"} /\ ~s.notDispatched /\ ~s.retired
    BY <2>1, ProvenIs
  <2>3. step.state = "succeeded" => w \in {"done", "gone", "found"}
    BY <2>1 DEF Truthful
  <2>4. rows'[a].steps[i] = s
    BY <1>2
  <2> HIDE DEF step, s, w
  <2> QED
    BY <1>1, <2>2, <2>3, <2>4 DEF KeepsSuccess, Repeatable, step
<1>10. \A i \in DOMAIN world[a] : world[a][i] = "none" => world'[a][i] # "sent"
  BY <1>1, <1>2, FoundIs
<1> QED
  BY <1>8, <1>9, <1>10 DEF Faithful, ContractStep, Keeps

LEMMA FaithfulRestart ==
  ASSUME Typed, Typed', NEW a \in Actions, Local(a), Local(a)', Restart
  PROVE  Faithful(a)
<1> DEFINE s == Interrupted(disk[a].steps)
           settled == Settle(disk[a].prepared, s, "interrupted")
           row == Loaded(disk[a])
<1>1. /\ rows[a] \in Row /\ disk[a] \in Row /\ world' = world
      /\ rows[a].steps \in Seq(Step) /\ disk[a].steps \in Seq(Step)
      /\ DOMAIN rows[a].steps = DOMAIN world[a] /\ DOMAIN disk[a].steps = DOMAIN world[a]
      /\ rows'[a] = row
  BY View DEF Restart
<1>2. /\ row.steps = s
      /\ \/ disk[a].state = "running" /\ row.state = settled.state
         \/ disk[a].state = "waiting" /\ row.state = "cancelled"
         \/ disk[a].state \notin {"waiting", "running"} /\ row.state = disk[a].state
              /\ row.notDispatched = disk[a].notDispatched
  BY <1>1 DEF Loaded, Row
<1>3. settled.state \in SettledStates /\ settled.state # "succeeded"
  <2>1. disk[a].prepared \in BOOLEAN /\ "interrupted" \in Causes /\ "interrupted" \notin Errors
    BY <1>1 DEF Row, Causes, Errors
  <2>2. settled.state \in SettledStates
    BY <2>1, SettleType
  <2> QED
    BY <2>1, <2>2 DEF Settle, Outcome, Failure
<1> HIDE DEF settled, row
<1>4. \A i \in DOMAIN world[a] :
        LET step == rows[a].steps[i]
        IN  /\ s[i].op = step.op
            /\ step.state = "succeeded" => s[i].state = "succeeded"
  <2>1. \A i \in DOMAIN world[a] :
          /\ s[i].op = disk[a].steps[i].op
          /\ s[i].state = "succeeded" <=> disk[a].steps[i].state = "succeeded"
    BY <1>1, InterruptedKeeps
  <2>2. disk[a] = rows[a] \/ rows[a].steps = s
    BY DEF Local, Stored
  <2> QED
    BY <2>1, <2>2
<1>5. CASE disk[a].state \in {"waiting", "running"}
  <2>1. rows[a].state \in {"waiting", "running", "unknown"}
    BY <1>5 DEF Local, Stored
  <2>2. row.state \notin {"absent", "waiting", "running", "succeeded"}
    BY <1>2, <1>3, <1>5 DEF SettledStates
  <2>3. TruthfulRow(rows'[a], world[a])
    BY <1>1 DEF Local
  <2> QED
    BY <1>1, <1>2, <1>4, <2>1, <2>2, <2>3, Answers
<1>6. CASE disk[a].state \notin {"waiting", "running"}
  <2>1. disk[a] = rows[a]
    BY <1>6 DEF Local, Stored
  <2>2. row.state = rows[a].state /\ row.notDispatched = rows[a].notDispatched
    BY <1>2, <1>6, <2>1
  <2>3. AnswerOf(row) = AnswerOf(rows[a])
    BY <2>2 DEF AnswerOf
  <2> QED
    BY <1>1, <1>2, <1>4, <2>2, <2>3, Restates
<1> QED
  BY <1>5, <1>6

LEMMA FaithfulAction ==
  ASSUME Typed, Typed', NEW a \in Actions, Local(a), Local(a)',
         \/ Requests(a) \/ Gates(a) \/ StepMoves(a) \/ Retire(a) \/ Failures(a)
         \/ Complete(a) \/ Environment(a)
         \/ \E who \in {"caller", "run"} : CommitCancel(a, who)
  PROVE  Faithful(a)
<1>1. CASE Requests(a)
  BY <1>1, FaithfulRequests, FaithfulQuiet, FaithfulRecover DEF Requests
<1>2. CASE Gates(a)
  BY <1>2, FaithfulQuiet, FaithfulCommits DEF Gates
<1>3. CASE StepMoves(a)
  BY <1>3, FaithfulQuiet, FaithfulCommits, FaithfulBegin, FaithfulEffects, FaithfulRecords DEF StepMoves
<1>4. CASE Failures(a)
  BY <1>4, FaithfulQuiet, FaithfulComplete DEF Failures
<1>5. CASE Environment(a)
  BY <1>5, FaithfulQuiet, FaithfulEnvironment DEF Environment
<1> QED
  BY <1>1, <1>2, <1>3, <1>4, <1>5, FaithfulRetire, FaithfulComplete, FaithfulCommits

LEMMA FaithfulNext ==
  ASSUME ReceiptInv, ReceiptInv', [Next]_vars
  PROVE  \A a \in Actions : Faithful(a)
<1> SUFFICES ASSUME NEW b \in Actions
             PROVE  Faithful(b)
  OBVIOUS
<1>1. Typed /\ Typed' /\ \A a \in Actions : Local(a) /\ Local(a)'
  BY DEF ReceiptInv
<1>2. CASE UNCHANGED vars
  BY <1>1, <1>2, Unmoved DEF vars
<1>3. CASE StopRun
  BY <1>1, <1>3, FaithfulQuiet
<1>4. CASE Restart
  BY <1>1, <1>4, FaithfulRestart
<1>5. ASSUME NEW a \in Actions,
             \/ Requests(a) \/ Gates(a) \/ StepMoves(a) \/ Retire(a) \/ Failures(a)
             \/ Complete(a) \/ Environment(a)
             \/ \E who \in {"caller", "run"} : CommitCancel(a, who)
      PROVE  Faithful(b)
  <2>1. CASE a = b
    BY <1>1, <1>5, <2>1, FaithfulAction
  <2>2. CASE a # b
    <3>1. Only(a)
      BY <1>1, <1>5, ReceiptAction
    <3> QED
      BY <1>1, <2>2, <3>1, Unmoved DEF Only
  <2> QED
    BY <2>1, <2>2
<1> QED
  BY <1>2, <1>3, <1>4, <1>5 DEF Next

LEMMA ContractInit == Init => Contract!Init
<1> SUFFICES ASSUME Init PROVE Contract!Init
  OBVIOUS
<1>1. \A a \in Actions : rows[a] = AbsentRow /\ world[a] = <<>>
  BY DEF Init
<1>2. \A a \in Actions : /\ rows[a].state = "absent" /\ rows[a].notDispatched = FALSE
                         /\ DOMAIN world[a] = {}
  BY <1>1 DEF AbsentRow
<1>3. \A a \in Actions : {rows[a].steps[i].op : i \in {j \in DOMAIN world[a] :
                    world[a][j] \in {"done", "gone", "found"}}} = {}
  BY <1>2
<1> QED
  BY <1>2, <1>3 DEF Contract!Init

-----------------------------------------------------------------------------
(* A later save() never loses a cancellation that the dispatch fence must see: once it is        *)
(* committed, the attempt hands nothing more to Revit.                                          *)
THEOREM CancelIsFinal == Spec => NoSendAfterCancel
<1>1. ReceiptInv /\ ReceiptInv' /\ [Next]_vars =>
        \A a \in Actions : \A i \in DOMAIN world[a] :
          asked[a] /\ world[a][i] = "none" => world'[a][i] # "sent"
  BY FaithfulNext DEF Faithful, Keeps
<1> QED
  BY <1>1, Receipts, PTL DEF Spec, NoSendAfterCancel

(* No settlement or restart takes a recorded success back.  execution.retire does, once its      *)
(* result is gone, and so may recover() when it reads a bridge request again, but then the step  *)
(* is failed in a way no resume may repeat.                                                      *)
THEOREM SuccessStays == Spec => SuccessKept
<1>1. ReceiptInv /\ ReceiptInv' /\ [Next]_vars =>
        \A a \in Actions : \A i \in DOMAIN rows[a].steps : KeepsSuccess(a, i)
  BY FaithfulNext DEF Faithful, Keeps
<1> QED
  BY <1>1, Receipts, PTL DEF Spec, SuccessKept, KeepsSuccess

(* The journal implements the contract of a command, under the refinement mapping of Contract: an *)
(* operation takes effect only before a final answer, "succeeded" means all of it was done, "not *)
(* dispatched" none of it, a recovery only adds what it finds in effect, and a final answer stays. *)
THEOREM KeepsItsContract == Spec => ImplementsContract
<1>1. ReceiptInv /\ ReceiptInv' /\ [Next]_vars => Contract!Next
  BY FaithfulNext DEF Faithful, ContractStep, Contract!Next
<1> QED
  BY <1>1, ContractInit, Receipts, PTL DEF Spec, ImplementsContract, Contract!Spec

-----------------------------------------------------------------------------
(***************************************************************************)
(* What a request keeps out while it may still change Revit, and who holds *)
(* a session slot, for every set of commands, footprint and claim.         *)
(*                                                                         *)
(* The turn (TurnInv) orders the attempts in this process and the receipts *)
(* (ReceiptInv) say that an attempt with a request in flight is open.  What*)
(* joins them: whoever began a step has had its turn, for ever (HadTurn);  *)
(* nobody executes an attempt that an open one reconciles (KeptOut), and a *)
(* reconciled attempt has nothing in flight (ReconciledUnsent).             *)
(***************************************************************************)

\* Every effect of the row is known.
Known(row) == \A i \in DOMAIN row.steps : ~Uncertain(row.steps[i])

\* Nothing of it is on its way to Revit.
Unsent(w) == \A i \in DOMAIN w : w[i] # "sent"

\* The row keeps nobody out of a session slot.
Yields(row) == row.state = "absent" \/ ~HoldsClaims(row)

\* While a row that reconciles another is open, that one is not executed.
KeptOut ==
  \A a, b \in Actions : isOpen(rows[a]) /\ b \in Reconciles[a] =>
    run[b].pc = "idle" /\ rows[b].state # "absent"

\* An executing attempt reconciles only what has nothing on its way.
ReconciledUnsent ==
  \A a, b \in Actions : run[a].pc # "idle" /\ b \in Reconciles[a] => Unsent(world[b])

\* Before an attempt's first step every earlier overlapping row was closed or reconciled, and no
\* closed row opens again.
HadTurn ==
  \A a, b \in Actions :
    rows[a].steps # <<>> /\ Earlier(b, a) /\ effectsOverlap(Footprint[a], Footprint[b]) =>
      ~isOpen(rows[b]) \/ b \in Reconciles[a]

FlightInv == KeptOut /\ ReconciledUnsent /\ HadTurn /\ ClaimExclusivity

-----------------------------------------------------------------------------
(* What one step may do to the claims of an attempt.                        *)

\* A recorded success stays as it is, unless it releases nothing.
StepsKept(a) ==
  \A i \in DOMAIN rows[a].steps :
    rows[a].steps[i].state = "succeeded" =>
      \/ i \in DOMAIN rows'[a].steps /\ rows'[a].steps[i] = rows[a].steps[i]
      \/ Program[a][rows[a].steps[i].op].stops = {}

Steady(a) ==
  /\ StepsKept(a)
  /\ Yields(rows[a]) => Yields(rows'[a])
  /\ Unsent(world[a]) => run[a].pc # "idle" \/ Unsent(world'[a])
  /\ rows'[a].steps # <<>> => rows[a].steps # <<>> \/ run[a].pc \in InsidePhases

LEMMA KnownUnsent ==
  ASSUME Typed, NEW a \in Actions, Local(a), Known(rows[a])
  PROVE  Unsent(world[a])
<1>1. DOMAIN world[a] = DOMAIN rows[a].steps
  BY View
<1> QED
  BY <1>1 DEF Local, TruthfulRow, Truthful, Known, Unsent

LEMMA SteadySame ==
  ASSUME NEW a \in Actions, rows'[a].steps = rows[a].steps, rows'[a].state = rows[a].state,
         rows'[a].notDispatched = rows[a].notDispatched,
         Unsent(world[a]) => run[a].pc # "idle" \/ Unsent(world'[a])
  PROVE  Steady(a)
BY DEF Steady, StepsKept, Yields, HoldsClaims

(* The attempt being executed holds its claims. *)
LEMMA SteadyActive ==
  ASSUME Typed, NEW a \in Actions, run[a].pc # "idle", StepsKept(a),
         rows'[a].steps # <<>> => rows[a].steps # <<>> \/ run[a].pc \in InsidePhases
  PROVE  Steady(a)
<1>1. ~Yields(rows[a])
  BY DEF Typed, Active, Yields, HoldsClaims
<1> QED
  BY <1>1 DEF Steady

(* The environment sends nothing. *)
LEMMA SteadyEnvironment ==
  ASSUME Typed, NEW a \in Actions, Environment(a)
  PROVE  Steady(a)
<1>1. rows' = rows /\ world[a] \in Seq(WorldStates)
  BY View DEF Environment, EvidenceMoves, NativePerforms, ResultGone, journalVars
<1>2. Unsent(world[a]) => Unsent(world'[a])
  <2>1. CASE world' = world
    BY <2>1
  <2>2. ASSUME NEW i \in DOMAIN world[a], NEW w \in {"done", "dead", "gone"},
               world' = [world EXCEPT ![a][i] = w]
        PROVE  Unsent(world[a]) => Unsent(world'[a])
    <3>1. world'[a] = [world[a] EXCEPT ![i] = w]
      BY <2>2 DEF Typed, TypeOK
    <3> QED
      BY <1>1, <3>1 DEF Unsent
  <2> QED
    BY <2>1, <2>2 DEF Environment, EvidenceMoves, NativePerforms, ResultGone
<1> QED
  BY <1>1, <1>2, SteadySame

LEMMA SteadyQuiet ==
  ASSUME Typed, NEW a \in Actions,
         \/ Authorize(a) \/ TurnGate(a) \/ TurnCheck(a) \/ PrepareFails(a) \/ ExecutorThrows(a)
         \/ ExecutorReturns(a) \/ Replay(a) \/ Recheck(a) \/ GateStep(a) \/ RefuseDispatch(a)
         \/ Answered(a) \/ Declined(a) \/ MarkFails(a) \/ Interrupts(a) \/ RecordFails(a) \/ Cancel(a)
         \/ Land(a) \/ LandFails(a) \/ Dispatch(a) \/ Environment(a)
  PROVE  Steady(a)
<1>1. CASE Land(a) \/ LandFails(a) \/ Dispatch(a)
  <2>1. rows' = rows /\ run[a].pc # "idle"
    BY <1>1 DEF Land, LandFails, Dispatch
  <2> QED
    BY <2>1, SteadySame
<1>2. CASE Environment(a)
  BY <1>2, SteadyEnvironment
<1>3. CASE ~(Land(a) \/ LandFails(a) \/ Dispatch(a) \/ Environment(a))
  <2>1. rows' = rows /\ world' = world
    BY <1>3 DEF Authorize, TurnGate, TurnCheck, PrepareFails, ExecutorThrows, ExecutorReturns, Replay,
           Recheck, GateStep, RefuseDispatch, Answered, Declined, MarkFails, Interrupts, RecordFails, Cancel
  <2> QED
    BY <2>1, SteadySame
<1> QED
  BY <1>1, <1>2, <1>3

LEMMA SteadyCommits ==
  ASSUME Typed, NEW a \in Actions,
         \/ Consent(a) \/ Prepare(a) \/ Discover(a) \/ \E who \in {"caller", "run"} : CommitCancel(a, who)
  PROVE  Steady(a)
<1>1. rows[a] \in Row
  BY View
<1>2. CASE Consent(a)
  <2> DEFINE row == [rows[a] EXCEPT !.state = "running"]
  <2>1. row.steps = rows[a].steps
    BY <1>1 DEF Row
  <2>2. rows'[a] = row /\ run[a].pc # "idle"
    BY <1>2 DEF Consent, Save, Commit, Typed, TypeOK
  <2> HIDE DEF row
  <2>3. StepsKept(a)
    BY <2>1, <2>2 DEF StepsKept
  <2> QED
    BY <2>1, <2>2, <2>3, SteadyActive
<1>3. CASE Prepare(a)
  <2> DEFINE row == [rows[a] EXCEPT !.prepared = TRUE]
  <2>1. /\ row.steps = rows[a].steps /\ row.notDispatched = rows[a].notDispatched
        /\ row.state = rows[a].state
    BY <1>1 DEF Row
  <2>2. (rows'[a] = row \/ rows' = rows) /\ world' = world
    BY <1>3 DEF Prepare, Save, Commit, Typed, TypeOK
  <2> HIDE DEF row
  <2> QED
    BY <2>1, <2>2, SteadySame
<1>4. CASE Discover(a)
  <2> DEFINE row == [rows[a] EXCEPT !.effects = @ \cup Undiscovered(a)]
  <2>1. /\ row.steps = rows[a].steps /\ row.notDispatched = rows[a].notDispatched
        /\ row.state = rows[a].state
    BY <1>1 DEF Row
  <2>2. rows'[a] = row /\ world' = world
    BY <1>4 DEF Discover, Save, Commit, Typed, TypeOK
  <2> HIDE DEF row
  <2> QED
    BY <2>1, <2>2, SteadySame
<1>5. ASSUME NEW who \in {"caller", "run"}, CommitCancel(a, who)
      PROVE  Steady(a)
  <2> DEFINE row == [rows[a] EXCEPT !.cancelReq = TRUE]
  <2>1. /\ row.steps = rows[a].steps /\ row.notDispatched = rows[a].notDispatched
        /\ row.state = rows[a].state
    BY <1>1 DEF Row
  <2>2. rows'[a] = row /\ world' = world
    BY <1>5 DEF CommitCancel, Commit, Typed, TypeOK
  <2> HIDE DEF row
  <2> QED
    BY <2>1, <2>2, SteadySame
<1> QED
  BY <1>2, <1>3, <1>4, <1>5

LEMMA SteadyRecords ==
  ASSUME Typed, NEW a \in Actions, Local(a), markDispatched(a) \/ RecordSuccess(a) \/ RecordFailure(a)
  PROVE  Steady(a)
<1> DEFINE n == Len(world[a])
           old == rows[a].steps[n]
<1>1. /\ n = Last(a) /\ n \in DOMAIN world[a] /\ old \in Step /\ old.state = "running"
      /\ run[a].pc \in Stepping /\ run[a].phase \in {"gate", "effect", "checked"} /\ run[a].err \in Endings
      /\ DOMAIN rows[a].steps = DOMAIN world[a] /\ run[a].pc # "idle" /\ rows[a].steps # <<>>
  BY View DEF markDispatched, Unmarked, RecordSuccess, RecordFailure, Local, Performing, Executing,
              Stepping, Last, Run
<1>2. PICK step \in Step : Commit(a, SetStep(a, step))
  <2>1. CASE markDispatched(a)
    <3>1. [old EXCEPT !.dispatched = TRUE] \in Step
      BY <1>1 DEF Step
    <3> QED
      BY <1>1, <2>1, <3>1 DEF markDispatched
  <2>2. CASE RecordSuccess(a)
    <3>1. [old EXCEPT !.state = "succeeded", !.releases = TheOp(a).stops # {}] \in Step
      BY <1>1 DEF Step, StepStates
    <3> QED
      BY <1>1, <2>2, <3>1 DEF RecordSuccess, Save
  <2>3. CASE RecordFailure(a)
    <3>1. FailedStep(old, run[a].err, run[a].phase) \in Step
      BY <1>1, <2>3, FailedStepType DEF RecordFailure, Local, Performing, Endings
    <3> QED
      BY <1>1, <2>3, <3>1 DEF RecordFailure, Save
  <2> QED
    BY <2>1, <2>2, <2>3
<1> DEFINE row == SetStep(a, step)
<1>3. /\ DOMAIN row.steps = DOMAIN world[a]
      /\ \A i \in DOMAIN world[a] : row.steps[i] = IF i = n THEN step ELSE rows[a].steps[i]
  BY <1>1, SetStepIs
<1>4. rows'[a] = row
  BY <1>2 DEF Commit, Typed, TypeOK
<1> HIDE DEF row
<1>5. StepsKept(a)
  BY <1>1, <1>3, <1>4 DEF StepsKept
<1> QED
  BY <1>1, <1>5, SteadyActive

LEMMA SteadyBegin ==
  ASSUME Typed, NEW a \in Actions, BeginStep(a)
  PROVE  Steady(a)
<1>1. PICK step : Commit(a, [rows[a] EXCEPT !.steps = Append(@, step)])
  BY DEF BeginStep, Save
<1> DEFINE steps == Append(rows[a].steps, step)
           row == [rows[a] EXCEPT !.steps = steps]
<1>2. /\ rows[a] \in Row /\ rows[a].steps \in Seq(Step) /\ run[a].pc \in InsidePhases
      /\ run[a].pc # "idle"
  BY View DEF BeginStep, AtOp, InsidePhases
<1>3. rows'[a] = row
  BY <1>1 DEF Commit, Typed, TypeOK
<1>4. row.steps = steps
  BY <1>2 DEF Row
<1>5. \A i \in DOMAIN rows[a].steps : i \in DOMAIN steps /\ steps[i] = rows[a].steps[i]
  BY <1>2
<1> HIDE DEF steps, row
<1>6. StepsKept(a)
  BY <1>3, <1>4, <1>5 DEF StepsKept
<1> QED
  BY <1>2, <1>6, SteadyActive

LEMMA SteadyRetire ==
  ASSUME Typed, NEW a \in Actions, Local(a), Retire(a)
  PROVE  Steady(a)
<1> DEFINE i == run[a].cursor + 1
           old == rows[a].steps[i]
           step == [old EXCEPT !.state = "failed", !.retired = TRUE]
           steps == [rows[a].steps EXCEPT ![i] = step]
           row == [rows[a] EXCEPT !.steps = steps]
<1>1. /\ rows[a] \in Row /\ rows[a].steps \in Seq(Step) /\ run[a].pc \in InsidePhases
      /\ run[a].pc # "idle" /\ DOMAIN rows[a].steps = DOMAIN world[a]
      /\ DOMAIN rows[a].steps = 1..Len(rows[a].steps) /\ Len(rows[a].steps) \in Nat /\ run[a].cursor \in Nat
  BY View, LenProperties DEF Retire, AtOp, InsidePhases, Run
<1>2. Commit(a, row) /\ Program[a][old.op].retirable
  BY Zenon DEF Retire, Save
<1>3. rows'[a] = row
  BY <1>2 DEF Commit, Typed, TypeOK
<1>4. row.steps = steps
  BY <1>1 DEF Row
<1>5. i \in DOMAIN world[a]
  BY <1>1 DEF Retire, Last
<1>6. old.op \in DOMAIN Program[a]
  BY <1>5 DEF Local, Single
<1>7. Program[a][old.op].stops = {}
  BY <1>2, <1>6, ExecutorsAssumption
<1>8. DOMAIN steps = DOMAIN rows[a].steps /\ \A j \in DOMAIN steps : j # i => steps[j] = rows[a].steps[j]
  BY <1>1
<1> HIDE DEF steps, row, i
<1>9. StepsKept(a)
  BY <1>3, <1>4, <1>7, <1>8 DEF StepsKept
<1> QED
  BY <1>1, <1>9, SteadyActive DEF i

LEMMA SteadyComplete ==
  ASSUME Typed, NEW a \in Actions, Complete(a) \/ CompleteFails(a)
  PROVE  Steady(a)
<1>1. rows[a] \in Row /\ rows[a].steps \in Seq(Step) /\ run[a].pc # "idle"
  BY View DEF Complete, CompleteFails
<1>2. rows'[a].steps = Interrupted(rows[a].steps)
  <2>1. CASE Complete(a)
    <3>1. rows'[a] = Finished(a)
      BY <2>1 DEF Complete, Commit, Typed, TypeOK
    <3> QED
      BY <1>1, <3>1 DEF Finished, Row
  <2>2. CASE CompleteFails(a)
    <3>1. rows'[a] = [rows[a] EXCEPT !.state = "unknown", !.steps = Interrupted(@),
                                     !.cancelReq = run[a].known]
      BY <2>2 DEF CompleteFails, Typed, TypeOK
    <3> QED
      BY <1>1, <3>1 DEF Row
  <2> QED
    BY <2>1, <2>2
<1>3. \A i \in DOMAIN rows[a].steps :
        rows[a].steps[i].state = "succeeded" => Interrupted(rows[a].steps)[i] = rows[a].steps[i]
  BY <1>1, InterruptedIs
<1>4. DOMAIN Interrupted(rows[a].steps) = DOMAIN rows[a].steps
  BY DEF Interrupted
<1>5. StepsKept(a)
  BY <1>2, <1>3, <1>4 DEF StepsKept
<1>6. Interrupted(rows[a].steps) # <<>> => rows[a].steps # <<>>
  BY <1>4
<1> QED
  BY <1>1, <1>2, <1>5, <1>6, SteadyActive

(* Recovery changes a recorded success only where it releases nothing. *)
LEMMA SteadyRecover ==
  ASSUME Typed, NEW a \in Actions, Local(a), Recover(a)
  PROVE  Steady(a)
<1>1. /\ rows[a].steps \in Seq(Step) /\ rows[a].state \in {"unknown", "incomplete"}
      /\ world[a] \in Seq(WorldStates) /\ DOMAIN rows[a].steps = DOMAIN world[a]
  BY View, RecoverIs
<1>2. PICK steps \in Seq(Step) :
        /\ DOMAIN steps = DOMAIN rows[a].steps
        /\ \A i \in DOMAIN steps : steps[i] \in Proven(a, i)
        /\ rows'[a].steps = steps /\ world'[a] = Found(steps, world[a])
  <2>1. PICK steps \in Seq(Step), row \in Row :
          /\ DOMAIN steps = DOMAIN rows[a].steps
          /\ \A i \in DOMAIN steps : steps[i] \in Proven(a, i)
          /\ row.steps = steps /\ Commit(a, row)
          /\ world' = [world EXCEPT ![a] = Found(steps, world[a])]
    BY RecoverIs
  <2> QED
    BY <2>1 DEF Commit, Typed, TypeOK
<1>3. ASSUME NEW i \in DOMAIN rows[a].steps, rows[a].steps[i].state = "succeeded"
      PROVE  steps[i] = rows[a].steps[i] \/ Program[a][rows[a].steps[i].op].stops = {}
  <2> DEFINE step == rows[a].steps[i]
  <2>1. step \in Step /\ Truthful(step, world[a][i]) /\ step.op \in DOMAIN Program[a]
    BY <1>1 DEF Local, TruthfulRow, Single
  <2>2. \/ steps[i] = step
        \/ world[a][i] # "found" /\ (world[a][i] \in {"done", "gone"} => ~Program[a][step.op].sdk)
    BY <1>2, <1>3, <2>1, ProvenIs
  <2>3. world[a][i] \in {"done", "gone", "found"}
    BY <1>3, <2>1 DEF Truthful
  <2> QED
    BY <2>1, <2>2, <2>3, ExecutorsAssumption
<1>4. StepsKept(a)
  BY <1>2, <1>3 DEF StepsKept
<1>5. Unsent(world[a]) => Unsent(world'[a])
  BY <1>1, <1>2, FoundIs DEF Unsent
<1>6. ~Yields(rows[a])
  BY <1>1 DEF Yields, HoldsClaims
<1>7. rows'[a].steps # <<>> => rows[a].steps # <<>>
  BY <1>1, <1>2
<1> QED
  BY <1>4, <1>5, <1>6, <1>7 DEF Steady

(* load() settles what the file left open and keeps everything else. *)
LEMMA SteadyRestart ==
  ASSUME Typed, NEW a \in Actions, Local(a), Restart
  PROVE  StepsKept(a) /\ (Yields(rows[a]) => Yields(rows'[a])) /\ (rows'[a].steps # <<>> => rows[a].steps # <<>>)
<1> DEFINE s == Interrupted(disk[a].steps)
           row == Loaded(disk[a])
<1>1. /\ rows[a] \in Row /\ disk[a] \in Row
      /\ rows[a].steps \in Seq(Step) /\ disk[a].steps \in Seq(Step)
      /\ DOMAIN rows[a].steps = DOMAIN disk[a].steps
      /\ rows'[a] = row
  BY View DEF Restart
<1>2. /\ row.steps = s
      /\ disk[a].state \notin {"waiting", "running"} =>
           row.state = disk[a].state /\ row.notDispatched = disk[a].notDispatched
  BY <1>1 DEF Loaded, Row
<1> HIDE DEF row
<1>3. /\ DOMAIN s = DOMAIN disk[a].steps
      /\ \A i \in DOMAIN s : disk[a].steps[i].state # "running" => s[i] = disk[a].steps[i]
  BY DEF Interrupted
<1>4. disk[a] = rows[a] \/ (rows[a].steps = s /\ rows[a].state = "unknown")
  BY DEF Local, Stored
<1>5. StepsKept(a)
  BY <1>1, <1>2, <1>3, <1>4 DEF StepsKept
<1>6. rows'[a].steps # <<>> => rows[a].steps # <<>>
  BY <1>1, <1>2, <1>3
<1>7. ASSUME Yields(rows[a])
      PROVE  Yields(rows'[a])
  <2>1. disk[a] = rows[a] /\ disk[a].state \notin {"waiting", "running"}
    BY <1>4, <1>7 DEF Yields, HoldsClaims
  <2>2. CASE rows[a].state = "absent"
    BY <1>1, <1>2, <2>1, <2>2 DEF Yields
  <2>3. CASE ~HoldsClaims(rows[a])
    <3>1. \A i \in DOMAIN s : NeverRan(s[i])
      BY <1>3, <2>1, <2>3 DEF HoldsClaims, NeverRan
    <3> QED
      BY <1>1, <1>2, <2>1, <2>3, <3>1 DEF Yields, HoldsClaims
  <2> QED
    BY <1>7, <2>2, <2>3 DEF Yields
<1> QED
  BY <1>5, <1>6, <1>7

-----------------------------------------------------------------------------
(* Slot claims.                                                             *)

(* A recorded stop releases what it names for ever. *)
LEMMA ReleasedStays ==
  ASSUME \A b \in Actions : StepsKept(b), NEW a \in Actions, Released(a)
  PROVE  Released(a)'
<1>1. PICK b \in Actions : \E i \in DOMAIN rows[b].steps :
        LET step == rows[b].steps[i]
        IN  /\ step.kind = "native" /\ step.state = "succeeded" /\ step.dispatched /\ step.releases
            /\ a \in Program[b][step.op].stops
  BY DEF Released
<1>2. PICK i \in DOMAIN rows[b].steps :
        LET step == rows[b].steps[i]
        IN  /\ step.kind = "native" /\ step.state = "succeeded" /\ step.dispatched /\ step.releases
            /\ a \in Program[b][step.op].stops
  BY <1>1
<1>3. i \in DOMAIN rows'[b].steps /\ rows'[b].steps[i] = rows[b].steps[i]
  BY <1>2 DEF StepsKept
<1> QED
  BY <1>2, <1>3 DEF Released

LEMMA SlotsStay ==
  ASSUME \A b \in Actions : StepsKept(b), NEW a \in Actions, HoldsSlots(a)',
         Yields(rows[a]) => Yields(rows'[a])
  PROVE  HoldsSlots(a)
<1>1. ~Yields(rows[a])
  BY DEF HoldsSlots, Yields, HoldsClaims
<1>2. ~Released(a)
  BY ReleasedStays DEF HoldsSlots
<1> QED
  BY <1>1, <1>2 DEF HoldsSlots, Yields

(* Only admission and resumption claim slots, and they look at every holder. *)
LEMMA ClaimsExclude ==
  ASSUME ClaimExclusivity, NEW a \in Actions, \A b \in Actions : StepsKept(b),
         \A b \in Actions : b # a => (Yields(rows[b]) => Yields(rows'[b])),
         \/ Yields(rows[a]) => Yields(rows'[a])
         \/ \A b \in Actions \ {a} : HoldsSlots(b) => Slots[a] \cap Slots[b] = {}
  PROVE  ClaimExclusivity'
<1>1. \A b \in Actions : b # a /\ HoldsSlots(b)' => HoldsSlots(b)
  BY SlotsStay
<1>2. CASE Yields(rows[a]) => Yields(rows'[a])
  <2>1. HoldsSlots(a)' => HoldsSlots(a)
    BY <1>2, SlotsStay
  <2> QED
    BY <1>1, <2>1 DEF ClaimExclusivity
<1>3. CASE \A b \in Actions \ {a} : HoldsSlots(b) => Slots[a] \cap Slots[b] = {}
  BY <1>1, <1>3 DEF ClaimExclusivity
<1> QED
  BY <1>2, <1>3

-----------------------------------------------------------------------------
(* The invariant is kept.                                                   *)

(* By an action that opens nothing and lets nobody in but past the turn. *)
LEMMA FlightGentle ==
  ASSUME TurnInv, FlightInv, NEW a \in Actions, Gentle(a), Only(a), Steady(a)
  PROVE  FlightInv'
<1>1. \A b \in Actions : b # a => Steady(b)
  BY SteadySame DEF Gentle, Only
<1>2. ClaimExclusivity'
  BY <1>1, ClaimsExclude DEF FlightInv, Steady
<1>3. /\ \A b \in Actions : isOpen(rows'[b]) => isOpen(rows[b])
      /\ \A b \in Actions : run'[b].pc # "idle" => run[b].pc # "idle"
      /\ \A b \in Actions : rows'[b].state = "absent" <=> rows[b].state = "absent"
  BY DEF Gentle
<1>4. KeptOut'
  <2> SUFFICES ASSUME NEW b \in Actions, NEW c \in Actions, isOpen(rows'[b]), c \in Reconciles[b]
               PROVE  run'[c].pc = "idle" /\ rows'[c].state # "absent"
    BY DEF KeptOut, isOpen
  <2> QED
    BY <1>3 DEF FlightInv, KeptOut
<1>5. ReconciledUnsent'
  <2> SUFFICES ASSUME NEW b \in Actions, NEW c \in Actions, run'[b].pc # "idle", c \in Reconciles[b]
               PROVE  Unsent(world'[c])
    BY DEF ReconciledUnsent, Unsent
  <2>1. Unsent(world[c]) /\ run[c].pc = "idle"
    BY <1>3 DEF FlightInv, ReconciledUnsent, TurnInv, Reconciling
  <2> QED
    BY <1>1, <2>1 DEF Steady
<1>6. HadTurn'
  <2> SUFFICES ASSUME NEW b \in Actions, NEW c \in Actions, rows'[b].steps # <<>>, Earlier(c, b)',
                      effectsOverlap(Footprint[b], Footprint[c]), isOpen(rows'[c])
               PROVE  c \in Reconciles[b]
    BY DEF HadTurn, effectsOverlap, isOpen
  <2>1. Earlier(c, b) /\ isOpen(rows[c])
    BY <1>3 DEF Gentle, Earlier
  <2>2. rows[b].steps # <<>> \/ Inside(b)
    BY <1>1, InsideIs DEF Steady
  <2> QED
    BY <2>1, <2>2 DEF FlightInv, HadTurn, TurnInv, HasTurn
<1> QED
  BY <1>2, <1>4, <1>5, <1>6 DEF FlightInv

(* By an action that commits nothing. *)
LEMMA FlightQuiet ==
  ASSUME FlightInv, rows' = rows, born' = born, world' = world,
         \A b \in Actions : run'[b].pc # "idle" => run[b].pc # "idle"
  PROVE  FlightInv'
<1>1. KeptOut' /\ ReconciledUnsent'
  BY DEF FlightInv, KeptOut, ReconciledUnsent, Unsent, isOpen
<1>2. HadTurn'
  BY DEF FlightInv, HadTurn, isOpen, Earlier, effectsOverlap
<1>3. ClaimExclusivity'
  BY DEF FlightInv, ClaimExclusivity, HoldsSlots, Released
<1> QED
  BY <1>1, <1>2, <1>3 DEF FlightInv

LEMMA FlightAdmit ==
  ASSUME TurnInv, TurnInv', ReceiptInv, FlightInv, NEW a \in Actions, Admit(a) \/ Reject(a)
  PROVE  FlightInv'
<1> DEFINE row == rows'[a]
<1>1. rows \in [Actions -> Row] /\ run \in [Actions -> Run]
  BY DEF TurnInv, Typed, TypeOK
<1>2. /\ row.steps = <<>> /\ (Admit(a) \/ Yields(row)) /\ row.state # "absent"
      /\ \A b \in Actions : b # a => rows'[b] = rows[b]
  <2>1. CASE Admit(a)
    <3> DEFINE new == [AbsentRow EXCEPT !.state = FirstState(a, Footprint[a]),
                                        !.effects = Footprint[a]]
    <3>1. new.steps = <<>> /\ new.state # "absent"
      BY DEF AbsentRow, FirstState
    <3>2. Commit(a, new)
      BY <2>1 DEF Admit
    <3> HIDE DEF new
    <3> QED
      BY <1>1, <2>1, <3>1, <3>2 DEF Commit
  <2>2. CASE Reject(a)
    <3> DEFINE new == [AbsentRow EXCEPT !.state = "failed", !.notDispatched = TRUE,
                                        !.effects = Footprint[a]]
    <3>1. new.steps = <<>> /\ new.state = "failed" /\ new.notDispatched
      BY DEF AbsentRow
    <3>2. Commit(a, new)
      BY <2>2 DEF Reject
    <3>3. Yields(new)
      BY <3>1 DEF Yields, HoldsClaims
    <3> HIDE DEF new
    <3> QED
      BY <1>1, <3>1, <3>2, <3>3 DEF Commit
  <2> QED
    BY <2>1, <2>2
<1> HIDE DEF row
<1>3. rows[a].state = "absent" /\ Insert(a) /\ Typed /\ Ordered
  BY DEF Admit, Reject, TurnInv
<1>4. /\ \A b \in Actions : b # a => run'[b] = run[b]
      /\ Reject(a) => run' = run
  BY <1>1 DEF Admit, Reject, Keep
<1>5. rows[a].steps = <<>> /\ run[a].pc = "idle"
  BY <1>3 DEF Typed, Mirrored, Active
<1>6. \A b \in Actions : ~Earlier(a, b)' /\ (b # a => born'[b] = born[b])
  BY <1>2, <1>3, InsertLast DEF row
<1>7. Admit(a) => Admissible(a, Footprint[a])
  BY DEF Admit
<1>8. \A b \in Actions : StepsKept(b)
  BY <1>2, <1>5 DEF StepsKept
<1>9. ClaimExclusivity'
  BY <1>2, <1>7, <1>8, ClaimsExclude DEF FlightInv, Admissible, row
<1>10. KeptOut'
  <2> SUFFICES ASSUME NEW b \in Actions, NEW c \in Actions, isOpen(rows'[b]), c \in Reconciles[b]
               PROVE  run'[c].pc = "idle" /\ rows'[c].state # "absent"
    BY DEF KeptOut, isOpen
  <2>1. CASE b = a
    <3>1. Admit(a)
      BY <1>2, <2>1 DEF Yields, HoldsClaims, isOpen, OpenStates, row
    <3>2. Reconcilable(c) /\ c # a
      BY <1>7, <2>1, <3>1, ConstantsAssumption DEF Admissible
    <3> QED
      BY <1>2, <1>4, <3>2 DEF Reconcilable
  <2>2. CASE b # a
    <3>1. run[c].pc = "idle" /\ rows[c].state # "absent"
      BY <1>2, <2>2 DEF FlightInv, KeptOut
    <3> QED
      BY <1>2, <1>3, <1>4, <3>1
  <2> QED
    BY <2>1, <2>2
<1>11. ReconciledUnsent'
  <2> SUFFICES ASSUME NEW b \in Actions, NEW c \in Actions, run'[b].pc # "idle", c \in Reconciles[b]
               PROVE  Unsent(world'[c])
    BY DEF ReconciledUnsent, Unsent
  <2>1. world' = world
    BY DEF Admit, Reject
  <2>2. CASE b = a
    <3>1. Reconcilable(c)
      BY <1>4, <1>5, <1>7, <2>2 DEF Admissible
    <3>2. Known(rows[c])
      BY <3>1 DEF Reconcilable, Known
    <3> QED
      BY <2>1, <3>2, KnownUnsent DEF ReceiptInv
  <2>3. CASE b # a
    BY <1>4, <2>1, <2>3 DEF FlightInv, ReconciledUnsent
  <2> QED
    BY <2>2, <2>3
<1>12. HadTurn'
  <2> SUFFICES ASSUME NEW b \in Actions, NEW c \in Actions, rows'[b].steps # <<>>, Earlier(c, b)',
                      effectsOverlap(Footprint[b], Footprint[c]), isOpen(rows'[c])
               PROVE  c \in Reconciles[b]
    BY DEF HadTurn, effectsOverlap, isOpen
  <2>1. b # a /\ c # a
    BY <1>2, <1>6 DEF row
  <2>2. rows[b].steps # <<>> /\ Earlier(c, b) /\ isOpen(rows[c])
    BY <1>2, <1>6, <2>1 DEF Earlier
  <2> QED
    BY <2>2 DEF FlightInv, HadTurn
<1> QED
  BY <1>9, <1>10, <1>11, <1>12 DEF FlightInv

LEMMA FlightResume ==
  ASSUME TurnInv, ReceiptInv, FlightInv, NEW a \in Actions, Resume(a)
  PROVE  FlightInv'
<1> DEFINE row == [rows[a] EXCEPT !.state = FirstState(a, rows[a].effects),
                                  !.cancelReq = FALSE, !.notDispatched = FALSE]
<1>1. rows \in [Actions -> Row] /\ run \in [Actions -> Run]
  BY DEF TurnInv, Typed, TypeOK
<1>2. row.steps = rows[a].steps /\ row.state \in {"waiting", "running"}
  BY <1>1 DEF Row, FirstState
<1>3. rows' = [rows EXCEPT ![a] = row]
  BY DEF Resume, Commit
<1> HIDE DEF row
<1>4. /\ rows'[a].steps = rows[a].steps /\ rows'[a].state \in {"waiting", "running"}
      /\ \A b \in Actions : b # a => rows'[b] = rows[b]
  BY <1>1, <1>2, <1>3
<1>5. \A b \in Actions : b # a => run'[b] = run[b]
  BY <1>1 DEF Resume, Keep
<1>6. rows[a].state \in {"unknown", "incomplete"} /\ born' = born /\ Admissible(a, rows[a].effects)
  BY DEF Resume
<1>7. ClaimExclusivity'
  <2>1. \A b \in Actions : StepsKept(b)
    BY <1>4 DEF StepsKept
  <2> QED
    BY <1>4, <1>6, <2>1, ClaimsExclude DEF FlightInv, Admissible
<1>8. \A c \in Reconciles[a] : c \in Actions /\ c # a /\ Reconcilable(c)
  BY <1>6, ConstantsAssumption DEF Admissible
<1>9. KeptOut'
  <2> SUFFICES ASSUME NEW b \in Actions, NEW c \in Actions, isOpen(rows'[b]), c \in Reconciles[b]
               PROVE  run'[c].pc = "idle" /\ rows'[c].state # "absent"
    BY DEF KeptOut, isOpen
  <2>1. CASE b = a
    BY <1>4, <1>5, <1>8, <2>1 DEF Reconcilable
  <2>2. CASE b # a
    <3>1. isOpen(rows[b])
      BY <1>4, <2>2
    <3>2. c # a
      <4>1. c = a => HoldsReconciliation(b, a)
        BY <3>1 DEF HoldsReconciliation, HoldsClaims, isOpen, OpenStates
      <4> QED
        BY <2>2, <4>1 DEF Resume
    <3> QED
      BY <1>4, <1>5, <3>1, <3>2 DEF FlightInv, KeptOut
  <2> QED
    BY <2>1, <2>2
<1>10. ReconciledUnsent'
  <2> SUFFICES ASSUME NEW b \in Actions, NEW c \in Actions, run'[b].pc # "idle", c \in Reconciles[b]
               PROVE  Unsent(world'[c])
    BY DEF ReconciledUnsent, Unsent
  <2>1. world' = world
    BY DEF Resume
  <2>2. CASE b = a
    <3>1. Known(rows[c])
      BY <1>8, <2>2 DEF Reconcilable, Known
    <3> QED
      BY <2>1, <3>1, KnownUnsent DEF ReceiptInv
  <2>3. CASE b # a
    BY <1>5, <2>1, <2>3 DEF FlightInv, ReconciledUnsent
  <2> QED
    BY <2>2, <2>3
<1>11. HadTurn'
  <2> SUFFICES ASSUME NEW b \in Actions, NEW c \in Actions, rows'[b].steps # <<>>, Earlier(c, b)',
                      effectsOverlap(Footprint[b], Footprint[c]), isOpen(rows'[c])
               PROVE  c \in Reconciles[b]
    BY DEF HadTurn, effectsOverlap, isOpen
  <2>1. rows[b].steps # <<>> /\ Earlier(c, b) /\ isOpen(rows[c])
    BY <1>4, <1>6 DEF Earlier, isOpen, OpenStates
  <2> QED
    BY <2>1 DEF FlightInv, HadTurn
<1> QED
  BY <1>7, <1>9, <1>10, <1>11 DEF FlightInv

LEMMA FlightRestart ==
  ASSUME TurnInv, ReceiptInv, FlightInv, Restart
  PROVE  FlightInv'
<1>1. \A a \in Actions : run'[a].pc = "idle" /\ rows'[a] = Loaded(disk[a])
  BY IdleType DEF Restart
<1>2. \A a \in Actions : /\ StepsKept(a) /\ (Yields(rows[a]) => Yields(rows'[a]))
                         /\ rows'[a].steps # <<>> => rows[a].steps # <<>>
  BY SteadyRestart DEF ReceiptInv
<1>3. \A a \in Actions : /\ rows'[a].state = "absent" => rows[a].state = "absent"
                         /\ isOpen(rows'[a]) => isOpen(rows[a])
  <2> TAKE a \in Actions
  <2>1. disk[a] \in Row /\ rows[a] \in Row
    BY DEF ReceiptInv, Typed, TypeOK
  <2>2. rows'[a].state = "absent" <=> disk[a].state = "absent"
    BY <1>1, <2>1, LoadedType
  <2>3. disk[a] = rows[a] \/ (rows[a].state = "unknown" /\ disk[a].state \in {"waiting", "running"})
    BY DEF ReceiptInv, Local, Stored
  <2>4. rows'[a].state = disk[a].state \/ disk[a].state \in {"waiting", "running"}
    BY <1>1, <2>1 DEF Loaded, Row
  <2> QED
    BY <2>2, <2>3, <2>4 DEF isOpen, OpenStates
<1>4. ClaimExclusivity'
  <2> SUFFICES ASSUME NEW a \in Actions, NEW b \in Actions, a # b, HoldsSlots(a)', HoldsSlots(b)'
               PROVE  Slots[a] \cap Slots[b] = {}
    BY DEF ClaimExclusivity
  <2>1. HoldsSlots(a) /\ HoldsSlots(b)
    BY <1>2, SlotsStay
  <2> QED
    BY <2>1 DEF FlightInv, ClaimExclusivity
<1>5. KeptOut' /\ ReconciledUnsent'
  BY <1>1, <1>3 DEF FlightInv, KeptOut, ReconciledUnsent, isOpen
<1>6. HadTurn'
  <2> SUFFICES ASSUME NEW b \in Actions, NEW c \in Actions, rows'[b].steps # <<>>, Earlier(c, b)',
                      effectsOverlap(Footprint[b], Footprint[c]), isOpen(rows'[c])
               PROVE  c \in Reconciles[b]
    BY DEF HadTurn, effectsOverlap, isOpen
  <2>1. Earlier(c, b)
    BY DEF Earlier, Restart
  <2> QED
    BY <1>2, <1>3, <2>1 DEF FlightInv, HadTurn
<1> QED
  BY <1>4, <1>5, <1>6 DEF FlightInv

LEMMA FlightInit == Init => FlightInv
<1> SUFFICES ASSUME Init PROVE FlightInv
  OBVIOUS
<1>1. \A a \in Actions : rows[a].state = "absent" /\ run[a].pc = "idle" /\ rows[a].steps = <<>>
  BY IdleType DEF Init, AbsentRow
<1> QED
  BY <1>1 DEF FlightInv, KeptOut, ReconciledUnsent, HadTurn, ClaimExclusivity, HoldsSlots, isOpen, OpenStates

LEMMA FlightNext ==
  ASSUME TurnInv, TurnInv', ReceiptInv, FlightInv, [Next]_vars
  PROVE  FlightInv'
<1>1. Typed /\ \A a \in Actions : Local(a)
  BY DEF ReceiptInv
<1>2. ASSUME NEW a \in Actions, Gentle(a), Only(a), Steady(a)
      PROVE  FlightInv'
  BY <1>2, FlightGentle
<1>3. ASSUME NEW a \in Actions, Requests(a)
      PROVE  FlightInv'
  <2>1. CASE Cancel(a) \/ Recover(a)
    BY <1>1, <1>2, <1>3, <2>1, GentleSettling, ReceiptAction, SteadyQuiet, SteadyRecover
  <2> QED
    BY <1>3, <2>1, FlightAdmit, FlightResume DEF Requests
<1>4. ASSUME NEW a \in Actions, Gates(a)
      PROVE  FlightInv'
  <2>1. CASE TurnCheck(a)
    <3>1. rows' = rows /\ born' = born /\ world' = world /\ run[a].pc # "idle"
      BY <2>1 DEF TurnCheck
    <3>2. \A b \in Actions : b # a => run'[b] = run[b]
      BY <1>1, <2>1 DEF TurnCheck, Keep, Typed, TypeOK
    <3> QED
      BY <3>1, <3>2, FlightQuiet
  <2> QED
    BY <1>1, <1>2, <1>4, <2>1, GentleGates, ReceiptAction, SteadyQuiet, SteadyCommits DEF Gates
<1>5. ASSUME NEW a \in Actions, StepMoves(a) \/ Retire(a)
      PROVE  FlightInv'
  <2>1. Steady(a)
    BY <1>1, <1>5, SteadyQuiet, SteadyCommits, SteadyRecords, SteadyBegin, SteadyRetire DEF StepMoves
  <2> QED
    BY <1>1, <1>2, <1>5, <2>1, GentleSteps, ReceiptAction
<1>6. ASSUME NEW a \in Actions, Failures(a)
      PROVE  FlightInv'
  <2>1. Steady(a)
    BY <1>1, <1>6, SteadyQuiet, SteadyComplete DEF Failures
  <2> QED
    BY <1>1, <1>2, <1>6, <2>1, GentleFailures, ReceiptAction
<1>7. ASSUME NEW a \in Actions, Complete(a) \/ Environment(a)
      PROVE  FlightInv'
  BY <1>1, <1>2, <1>7, GentleSettling, ReceiptAction, SteadyQuiet, SteadyComplete
<1>8. ASSUME NEW a \in Actions, NEW who \in {"caller", "run"}, CommitCancel(a, who)
      PROVE  FlightInv'
  BY <1>1, <1>2, <1>8, GentleCancel, ReceiptAction, SteadyCommits
<1>9. CASE StopRun
  <2>1. \A b \in Actions : run'[b].pc # "idle" => run[b].pc # "idle"
    BY <1>9 DEF StopRun
  <2> QED
    BY <1>9, <2>1, FlightQuiet DEF StopRun
<1>10. CASE UNCHANGED vars
  BY <1>10, FlightQuiet DEF vars
<1> QED
  BY <1>3, <1>4, <1>5, <1>6, <1>7, <1>8, <1>9, <1>10, FlightRestart DEF Next

LEMMA Flights == Spec => [](TurnInv /\ ReceiptInv /\ FlightInv)
BY TurnInit, TurnNext, ReceiptInit, ReceiptNext, FlightInit, FlightNext, PTL DEF Spec

(* A request Revit may still perform keeps every overlapping attempt outside waitForTurn, also    *)
(* after the host lost it to an interruption, a failed commit, a recovery or a restart.          *)
THEOREM InFlightKeepsOut == Spec => []NoOverlapInFlight
<1>1. TurnInv /\ ReceiptInv /\ FlightInv => NoOverlapInFlight
  <2> SUFFICES ASSUME TurnInv, ReceiptInv, FlightInv, NEW a \in Actions, NEW b \in Actions, a # b,
                      effectsOverlap(Footprint[a], Footprint[b]), Inside(b),
                      NEW i \in DOMAIN world[a], world[a][i] = "sent"
               PROVE  FALSE
    BY DEF NoOverlapInFlight
  <2>1. Typed /\ Local(a)
    BY DEF ReceiptInv
  <2>2. /\ i \in DOMAIN rows[a].steps /\ Uncertain(rows[a].steps[i])
        /\ rows[a].state \in {"running", "unknown"}
    <3>1. DOMAIN world[a] = DOMAIN rows[a].steps
      BY <2>1, View
    <3> QED
      BY <2>1, <3>1 DEF Local, TruthfulRow, Truthful
  <2>3. rows[a].steps # <<>> /\ isOpen(rows[a]) /\ ~Unsent(world[a])
    BY <2>2 DEF isOpen, OpenStates, Unsent
  <2>4. run[b].pc # "idle" /\ isOpen(rows[b]) /\ rows[b].state # "absent"
    BY <2>1 DEF Typed, Active, Inside, isOpen, OpenStates
  <2>5. Earlier(a, b) \/ Earlier(b, a)
    <3>1. \A c \in {a, b} : born[c] \in Nat /\ born[c] # 0
      BY <2>1, <2>2, <2>4 DEF TurnInv, Ordered, Typed, TypeOK
    <3>2. born[a] # born[b]
      BY <3>1 DEF TurnInv, Ordered
    <3> QED
      BY <3>1, <3>2 DEF Earlier
  <2>6. CASE Earlier(a, b)
    <3>1. effectsOverlap(Footprint[b], Footprint[a])
      BY DEF effectsOverlap
    <3>2. a \in Reconciles[b]
      BY <2>3, <2>6, <3>1 DEF TurnInv, HasTurn
    <3> QED
      BY <2>3, <2>4, <3>2 DEF FlightInv, ReconciledUnsent
  <2>7. CASE Earlier(b, a)
    <3>1. b \in Reconciles[a]
      BY <2>3, <2>4, <2>7 DEF FlightInv, HadTurn
    <3> QED
      BY <2>3, <2>4, <3>1 DEF FlightInv, KeptOut
  <2> QED
    BY <2>5, <2>6, <2>7
<1> QED
  BY <1>1, Flights, PTL

(* A session slot has one holder at a time: admission and resumption compare with every holder, a *)
(* released claim stays released, and no settlement, recovery or restart revives one.            *)
THEOREM OneHolder == Spec => []ClaimExclusivity
<1>1. FlightInv => ClaimExclusivity
  BY DEF FlightInv
<1> QED
  BY <1>1, Flights, PTL

=============================================================================

------------------------- MODULE ActionJournalProofs -------------------------
(***************************************************************************)
(* The journal's types, and the mutual exclusion of overlapping attempts,  *)
(* for every set of commands, program, footprint and reconciliation claim. *)
(***************************************************************************)
EXTENDS ActionJournal, MCSettlement, FiniteSetTheorems, SequenceTheorems, TLAPS

-----------------------------------------------------------------------------
(* Type correctness.                                                        *)

Stepping == {"step", "effect", "sent", "await", "outcome", "result"}
Budget == [attempts : Nat, cancels : Nat, faults : Nat, restarts : Nat]

\* An executor that awaits an effect has recorded the step.
Recorded == \A a \in Actions : run[a].pc \in Stepping => rows[a].steps # <<>>

\* Only an active row is being executed.
Active == \A a \in Actions : run[a].pc # "idle" => rows[a].state \in {"waiting", "running"}

\* Memory and file know the same commands and as many steps of each.
Mirrored ==
  \A a \in Actions : /\ Len(disk[a].steps) = Len(rows[a].steps)
                     /\ disk[a].state = "absent" <=> rows[a].state = "absent"
                     /\ rows[a].state = "absent" => rows[a].steps = <<>>

Typed == TypeOK /\ Recorded /\ Active /\ Mirrored

\* What each next state of an execution must say.
Fits(next, row) ==
  /\ next.pc \in Stepping => row.steps # <<>>
  /\ next.pc # "idle" => row.state \in {"waiting", "running"}

(* Only the execution of a moved. *)
LEMMA TypedKeep ==
  ASSUME Typed, NEW a \in Actions, NEW next \in Run, Keep(a, next), Fits(next, rows[a]),
         UNCHANGED <<rows, disk, born, asked, runStopped, stale, world>>,
         parked' \subseteq Actions, cancelling' \subseteq Actions \X {"caller", "run"},
         budget' \in Budget
  PROVE  Typed'
BY DEF Typed, TypeOK, Recorded, Active, Mirrored, Fits, Keep, Budget

(* A committed row of a with as many steps as before, and its execution. *)
LEMMA TypedCommit ==
  ASSUME Typed, NEW a \in Actions, NEW row \in Row, NEW next \in Run,
         Commit(a, row), Keep(a, next), Fits(next, row),
         Len(row.steps) = Len(rows[a].steps),
         row.state = "absent" => rows[a].state = "absent",
         born' \in [Actions -> Nat], asked' \in [Actions -> BOOLEAN],
         cancelling' \subseteq Actions \X {"caller", "run"},
         UNCHANGED <<runStopped, stale, world>>, budget' \in Budget
  PROVE  Typed'
<1>1. row.state = "absent" => row.steps = <<>>
  BY DEF Typed, TypeOK, Mirrored, Row
<1> QED
  BY <1>1 DEF Typed, TypeOK, Recorded, Active, Mirrored, Fits, Keep, Commit, Budget

(* What save() leaves of the two. *)
LEMMA TypedSave ==
  ASSUME Typed, NEW a \in Actions, NEW row \in Row, NEW next \in Run,
         Save(a, row, next), Fits(next, row),
         Len(row.steps) = Len(rows[a].steps),
         row.state = "absent" => rows[a].state = "absent",
         UNCHANGED <<born, cancelling, asked, runStopped, stale, world, budget>>
  PROVE  Typed'
<1> DEFINE after == [next EXCEPT !.known = row.cancelReq]
<1>1. after \in Run /\ after.pc = next.pc
  BY DEF Run, Row
<1>2. Commit(a, row) /\ Keep(a, after)
  BY DEF Save
<1> HIDE DEF after
<1>3. Fits(after, row)
  BY <1>1 DEF Fits
<1> QED
  BY <1>1, <1>2, <1>3, TypedCommit DEF Typed, TypeOK, Budget

(* The ways an action changes an execution. *)
LEMMA RunMoves ==
  ASSUME NEW r \in Run, NEW pc \in Phases, NEW n \in Nat, NEW err \in Endings,
         NEW phase \in {"gate", "effect", "checked"}, NEW known \in BOOLEAN
  PROVE  /\ [r EXCEPT !.pc = pc] \in Run
         /\ [r EXCEPT !.pc = pc, !.op = n] \in Run
         /\ [r EXCEPT !.pc = pc, !.cursor = n] \in Run
         /\ [r EXCEPT !.pc = pc, !.err = err] \in Run
         /\ [r EXCEPT !.pc = pc, !.err = err, !.phase = phase] \in Run
         /\ [r EXCEPT !.cursor = n] \in Run
         /\ [r EXCEPT !.op = n] \in Run
         /\ [r EXCEPT !.known = known] \in Run
BY DEF Run

LEMMA EndsType ==
  ASSUME NEW r \in Run, NEW err \in Endings
  PROVE  Ends(r, err) \in Run /\ Ends(r, err).pc = "settling"
BY DEF Ends, Run, Phases

LEMMA ThrowType ==
  ASSUME NEW a \in Actions, NEW r \in Run, NEW err \in Endings
  PROVE  Throw(a, r, err) \in Run /\ Throw(a, r, err).pc \in {"run", "settling"}
<1>1. r.op \in Nat /\ r.op + 1 \in Nat
  BY DEF Run
<1> DEFINE n == r.op + 1
<1>2. n \in Nat
  BY <1>1
<1>3. Throw(a, r, err) = Ends(r, err) \/ Throw(a, r, err) = [r EXCEPT !.pc = "run", !.op = n]
  BY DEF Throw
<1> HIDE DEF n
<1>4. [r EXCEPT !.pc = "run", !.op = n] \in Run /\ [r EXCEPT !.pc = "run", !.op = n].pc = "run"
  BY <1>2 DEF Run, Phases
<1> QED
  BY <1>3, <1>4, EndsType

LEMMA GateType ==
  ASSUME NEW a \in Actions, NEW flag \in BOOLEAN
  PROVE  Gate(a, flag) \in {"none", "refused499", "rejected"}
BY DEF Gate

(* What the bounds leave. *)
LEMMA BudgetType ==
  ASSUME NEW b \in Budget
  PROVE  /\ b.faults > 0 => [b EXCEPT !.faults = @ - 1] \in Budget
         /\ b.attempts > 0 => [b EXCEPT !.attempts = @ - 1] \in Budget
         /\ b.cancels > 0 => [b EXCEPT !.cancels = @ - 1] \in Budget
         /\ b.restarts > 0 => [b EXCEPT !.restarts = @ - 1] \in Budget
<1>1. \A n \in Nat : n > 0 => n - 1 \in Nat
  OBVIOUS
<1>2. \A n \in Nat : /\ [b EXCEPT !.faults = n] \in Budget /\ [b EXCEPT !.attempts = n] \in Budget
                     /\ [b EXCEPT !.cancels = n] \in Budget /\ [b EXCEPT !.restarts = n] \in Budget
  BY DEF Budget
<1>3. b.faults \in Nat /\ b.attempts \in Nat /\ b.cancels \in Nat /\ b.restarts \in Nat
  BY DEF Budget
<1> QED
  BY <1>1, <1>2, <1>3, Zenon

LEMMA FaultType == Typed /\ StorageFault => budget' \in Budget
BY BudgetType DEF Typed, TypeOK, StorageFault, Budget

(* The ways an action changes a row and its steps. *)
LEMMA RowMoves ==
  ASSUME NEW row \in Row, NEW state \in RowStates, NEW flag \in BOOLEAN, NEW denied \in BOOLEAN,
         NEW effects \in SUBSET Resources, NEW steps \in Seq(Step)
  PROVE  /\ [row EXCEPT !.state = state] \in Row
         /\ [row EXCEPT !.state = state, !.notDispatched = denied] \in Row
         /\ [row EXCEPT !.state = state, !.cancelReq = flag, !.notDispatched = denied] \in Row
         /\ [row EXCEPT !.prepared = flag] \in Row
         /\ [row EXCEPT !.cancelReq = flag] \in Row
         /\ [row EXCEPT !.effects = effects] \in Row
         /\ [row EXCEPT !.steps = steps] \in Row
         /\ [row EXCEPT !.state = state, !.steps = steps] \in Row
         /\ [row EXCEPT !.state = state, !.steps = steps, !.cancelReq = flag] \in Row
         /\ [row EXCEPT !.state = state, !.notDispatched = denied, !.steps = steps] \in Row
         /\ [row EXCEPT !.state = state, !.notDispatched = denied, !.steps = steps,
                        !.cancelReq = flag] \in Row
BY DEF Row

LEMMA InterruptedType ==
  ASSUME NEW s \in Seq(Step)
  PROVE  Interrupted(s) \in Seq(Step) /\ Len(Interrupted(s)) = Len(s)
<1>1. \A i \in 1..Len(s) : s[i] \in Step
  OBVIOUS
<1>2. \A i \in DOMAIN s : [s[i] EXCEPT !.state = "unknown"] \in Step
  BY <1>1 DEF Step, StepStates
<1>3. Interrupted(s) = [i \in 1..Len(s) |-> IF s[i].state = "running"
                          THEN [s[i] EXCEPT !.state = "unknown"] ELSE s[i]]
  BY DEF Interrupted
<1> QED
  BY <1>1, <1>2, <1>3

LEMMA SettleType ==
  ASSUME NEW p \in BOOLEAN, NEW s, NEW cause \in Causes
  PROVE  /\ Settle(p, s, cause).state \in SettledStates \cup {"none"}
         /\ cause # "recovered" => Settle(p, s, cause).state \in SettledStates
         /\ Settle(p, s, cause).notDispatched \in BOOLEAN
<1>1. Settle(p, s, cause).state \in SettledStates \cup {"none"}
  BY DEF Settle, Outcome, SettledStates, Failure
<1>2. cause # "recovered" => Settle(p, s, cause).state \in SettledStates
  BY DEF Settle, Outcome, SettledStates, Failure, Explained, Causes
<1>3. Settle(p, s, cause).notDispatched \in BOOLEAN
  BY DEF Settle, Outcome, Failure, Untouched
<1> QED
  BY <1>1, <1>2, <1>3

LEMMA FailedStepType ==
  ASSUME NEW step \in Step, NEW err \in Endings, NEW phase \in {"gate", "effect", "checked"}
  PROVE  FailedStep(step, err, phase) \in Step
BY DEF FailedStep, Failure, Outcome, Step, StepStates, Endings, Errors

(* The last recorded step, replaced. *)
LEMMA SetStepType ==
  ASSUME Typed, NEW a \in Actions, NEW step \in Step, rows[a].steps # <<>>
  PROVE  /\ SetStep(a, step) \in Row
         /\ SetStep(a, step).state = rows[a].state
         /\ Len(SetStep(a, step).steps) = Len(rows[a].steps)
         /\ SetStep(a, step).steps # <<>>
<1> DEFINE s == [rows[a].steps EXCEPT ![Last(a)] = step]
<1>1. rows[a] \in Row /\ rows[a].steps \in Seq(Step)
  BY DEF Typed, TypeOK, Row
<1>2. s \in Seq(Step) /\ Len(s) = Len(rows[a].steps)
  <2>1. Last(a) \in 1..Len(rows[a].steps)
    BY <1>1, LenProperties DEF Last
  <2> QED
    BY <1>1, <2>1, ExceptSeq
<1>3. SetStep(a, step) = [rows[a] EXCEPT !.steps = s]
  BY DEF SetStep
<1> HIDE DEF s
<1>4. s # <<>>
  BY <1>1, <1>2
<1> QED
  BY <1>1, <1>2, <1>3, <1>4 DEF Row

(* What a recovery read may say of a step, and of which effects. *)
LEMMA VerdictIs ==
  ASSUME NEW op, NEW step \in Step, NEW w, NEW v \in Verdicts(op, step, w)
  PROVE  /\ v.state \in {"succeeded", "failed", "cancelled", "unknown"}
         /\ v.notDispatched \in BOOLEAN /\ v.retired \in BOOLEAN
         /\ v.notDispatched => v.state = "failed" /\ w \in {"none", "dead"}
         /\ v.retired => v.state = "failed" /\ w \in {"dead", "gone"}
         /\ v.state = "succeeded" => w \in {"none", "done", "gone"}
         /\ w = "none" /\ v.state = "succeeded" => step.kind # "native"
         /\ w = "sent" => v.state = "unknown"
         /\ w = "found" => step.state # "succeeded"
         /\ step.state = "succeeded" /\ step.kind = "native" => ~op.sdk
         /\ step.state = "succeeded" /\ w \in {"done", "gone"} =>
              /\ step.kind = "native" /\ ~op.sdk
              /\ v.state \in {"succeeded", "failed"} /\ ~v.notDispatched /\ ~v.retired
<1>1. \A state : /\ Verdict(state).state = state
                 /\ Verdict(state).notDispatched = FALSE /\ Verdict(state).retired = FALSE
  BY DEF Verdict
<1>2. /\ NotDispatched.state = "failed" /\ NotDispatched.notDispatched = TRUE
      /\ NotDispatched.retired = FALSE
      /\ Replaceable.state = "failed" /\ Replaceable.notDispatched = FALSE
      /\ Replaceable.retired = TRUE
  BY DEF NotDispatched, Replaceable
<1>3. CASE v \in WitnessVerdicts(step.kind, w) /\ step.state # "succeeded"
  <2>1. \/ v = Verdict("succeeded") /\ (w = "done" \/ (w = "none" /\ step.kind # "native"))
        \/ v = Verdict("unknown")
    BY <1>3 DEF WitnessVerdicts
  <2> QED
    BY <1>1, <1>3, <2>1
<1>4. CASE v \in SdkVerdicts(op, w) /\ step.state # "succeeded"
  <2>1. \/ v = NotDispatched /\ w \in {"none", "dead"}
        \/ v = Verdict("succeeded") /\ w \in {"done", "gone"}
        \/ v = Verdict("failed") /\ w \in {"done", "dead", "gone"}
        \/ v = Verdict("cancelled") /\ w = "dead"
        \/ v = Replaceable /\ w \in {"dead", "gone"}
    BY <1>4 DEF SdkVerdicts
  <2> QED
    BY <1>1, <1>2, <1>4, <2>1
<1>5. CASE v \in NativeVerdicts(w) /\ step.kind = "native" /\ (step.state = "succeeded" => ~op.sdk)
  <2>1. \/ v = Verdict("failed") /\ w \in {"none", "done", "dead"}
        \/ v = Verdict("succeeded") /\ w = "done"
        \/ v = NotDispatched /\ w = "dead"
        \/ v = Verdict("cancelled") /\ w = "dead"
    BY <1>5 DEF NativeVerdicts
  <2>2. CASE v = Verdict("failed") /\ w \in {"none", "done", "dead"}
    <3>1. v.state = "failed" /\ v.notDispatched = FALSE /\ v.retired = FALSE
      BY <1>1, <2>2
    <3> QED
      BY <1>5, <2>2, <3>1
  <2>3. CASE v = Verdict("succeeded") /\ w = "done"
    <3>1. v.state = "succeeded" /\ v.notDispatched = FALSE /\ v.retired = FALSE
      BY <1>1, <2>3
    <3> QED
      BY <1>5, <2>3, <3>1
  <2>4. CASE v = NotDispatched /\ w = "dead"
    <3>1. v.state = "failed" /\ v.notDispatched = TRUE /\ v.retired = FALSE
      BY <1>2, <2>4
    <3>2. step.state # "succeeded" \/ w \notin {"done", "gone"}
      BY <2>4
    <3> QED
      BY <1>5, <2>4, <3>1, <3>2
  <2>5. CASE v = Verdict("cancelled") /\ w = "dead"
    <3>1. v.state = "cancelled" /\ v.notDispatched = FALSE /\ v.retired = FALSE
      BY <1>1, <2>5
    <3>2. step.state # "succeeded" \/ w \notin {"done", "gone"}
      BY <2>5
    <3> QED
      BY <1>5, <2>5, <3>1, <3>2
  <2> QED
    BY <2>1, <2>2, <2>3, <2>4, <2>5
<1> QED
  BY <1>3, <1>4, <1>5 DEF Verdicts

(* A step as recovery leaves it. *)
LEMMA ProvenIs ==
  ASSUME NEW a \in Actions, NEW i, rows[a].steps[i] \in Step, NEW s \in Proven(a, i)
  PROVE  /\ s \in Step
         /\ LET step == rows[a].steps[i]
                w == world[a][i]
            IN  /\ s.op = step.op
                /\ \/ s = step
                   \/ /\ s.notDispatched => s.state = "failed" /\ w \in {"none", "dead"}
                      /\ s.retired => s.state = "failed" /\ w \in {"dead", "gone"}
                      /\ s.state = "succeeded" => w \in {"none", "done", "gone"}
                      /\ w = "sent" => Uncertain(s)
                      /\ w = "found" => step.state # "succeeded"
                      /\ step.state = "succeeded" /\ step.kind = "native" => ~Program[a][step.op].sdk
                      /\ step.state = "succeeded" /\ w \in {"done", "gone"} =>
                           /\ step.kind = "native" /\ ~Program[a][step.op].sdk
                           /\ s.state \in {"succeeded", "failed"} /\ ~s.notDispatched /\ ~s.retired
<1> DEFINE step == rows[a].steps[i]
           w == world[a][i]
           op == Program[a][step.op]
<1>1. CASE s = step
  BY <1>1
<1>2. CASE s # step
  <2>1. PICK v \in Verdicts(op, step, w) :
          s = [step EXCEPT !.state = v.state, !.notDispatched = v.notDispatched, !.retired = v.retired]
    BY <1>2 DEF Proven
  <2>2. step \in Step
    OBVIOUS
  <2> HIDE DEF op, w, step
  <2>3. /\ v.state \in {"succeeded", "failed", "cancelled", "unknown"}
        /\ v.notDispatched \in BOOLEAN /\ v.retired \in BOOLEAN
        /\ v.notDispatched => v.state = "failed" /\ w \in {"none", "dead"}
        /\ v.retired => v.state = "failed" /\ w \in {"dead", "gone"}
        /\ v.state = "succeeded" => w \in {"none", "done", "gone"}
        /\ w = "sent" => v.state = "unknown"
        /\ w = "found" => step.state # "succeeded"
        /\ step.state = "succeeded" /\ step.kind = "native" => ~op.sdk
        /\ step.state = "succeeded" /\ w \in {"done", "gone"} =>
              /\ step.kind = "native" /\ ~op.sdk
              /\ v.state \in {"succeeded", "failed"} /\ ~v.notDispatched /\ ~v.retired
    BY <2>1, <2>2, VerdictIs
  <2>4. /\ s.state = v.state /\ s.notDispatched = v.notDispatched /\ s.retired = v.retired
        /\ s.op = step.op /\ s \in Step
    <3> DEFINE state == v.state
               denied == v.notDispatched
               gone == v.retired
    <3>1. /\ state \in {"succeeded", "failed", "cancelled", "unknown"}
          /\ denied \in BOOLEAN /\ gone \in BOOLEAN
          /\ s = [step EXCEPT !.state = state, !.notDispatched = denied, !.retired = gone]
      BY <2>1, <2>3
    <3> HIDE DEF state, denied, gone
    <3>2. /\ s.state = state /\ s.notDispatched = denied /\ s.retired = gone
          /\ s.op = step.op /\ s \in Step
      BY <2>2, <3>1 DEF Step, StepStates
    <3> QED
      BY <3>2 DEF state, denied, gone
  <2>5. w = "sent" => Uncertain(s)
    BY <2>3, <2>4 DEF Uncertain
  <2> QED
    BY <2>3, <2>4, <2>5 DEF op, w, step
<1> QED
  BY <1>1, <1>2

LEMMA FoundIs ==
  ASSUME NEW w \in Seq(WorldStates), NEW steps
  PROVE  /\ Found(steps, w) \in Seq(WorldStates) /\ Len(Found(steps, w)) = Len(w)
         /\ DOMAIN Found(steps, w) = DOMAIN w
         /\ \A i \in DOMAIN w : Found(steps, w)[i] =
              IF w[i] = "none" /\ steps[i].state = "succeeded" THEN "found" ELSE w[i]
<1>1. DOMAIN w = 1..Len(w) /\ Len(w) \in Nat /\ \A i \in DOMAIN w : w[i] \in WorldStates
  BY LenProperties, ElementOfSeq
<1>2. DOMAIN Found(steps, w) = DOMAIN w
      /\ \A i \in DOMAIN w : Found(steps, w)[i] =
           IF w[i] = "none" /\ steps[i].state = "succeeded" THEN "found" ELSE w[i]
  BY DEF Found
<1>3. \A i \in 1..Len(w) : Found(steps, w)[i] \in WorldStates
  BY <1>1, <1>2 DEF WorldStates
<1>4. Found(steps, w) \in [1..Len(w) -> WorldStates]
  BY <1>1, <1>2, <1>3 DEF Found
<1> QED
  BY <1>1, <1>2, <1>4, IsASeq, LenProperties

(* What recovery commits. *)
LEMMA RecoverIs ==
  ASSUME Typed, NEW a \in Actions, Recover(a)
  PROVE  /\ rows[a].state \in {"unknown", "incomplete"} /\ rows[a].prepared /\ run[a].pc = "idle"
         /\ \E steps \in Seq(Step), row \in Row :
              /\ DOMAIN steps = DOMAIN rows[a].steps /\ Len(steps) = Len(rows[a].steps)
              /\ \A i \in DOMAIN steps : steps[i] \in Proven(a, i)
              /\ row.steps = steps /\ row.prepared = rows[a].prepared
              /\ row.effects = rows[a].effects /\ row.cancelReq = rows[a].cancelReq
              /\ \/ row.state = rows[a].state /\ row.notDispatched = rows[a].notDispatched
                 \/ LET settled == Settle(TRUE, steps, "recovered")
                    IN  /\ row.state = settled.state /\ row.notDispatched = settled.notDispatched
                        /\ row.state \in SettledStates
              /\ Commit(a, row) /\ Keep(a, run[a])
              /\ world' = [world EXCEPT ![a] = Found(steps, world[a])]
         /\ UNCHANGED <<born, run, cancelling, asked, runStopped, stale, budget>>
<1>1. /\ rows[a] \in Row /\ rows[a].steps \in Seq(Step)
      /\ rows[a].state \in {"unknown", "incomplete"} /\ rows[a].prepared
      /\ UNCHANGED <<born, run, cancelling, asked, runStopped, stale, budget>>
  BY DEF Recover, Typed, TypeOK, Row
<1>2. run[a].pc = "idle" /\ Keep(a, run[a])
  BY <1>1 DEF Keep, Typed, Active, TypeOK
<1>3. PICK s \in [DOMAIN rows[a].steps -> UNION {Proven(a, i) : i \in DOMAIN rows[a].steps}] :
          /\ \A i \in DOMAIN s : s[i] \in Proven(a, i)
          /\ LET settled == Settle(TRUE, s, "recovered")
                 row == [rows[a] EXCEPT !.steps = s]
             IN  Commit(a, IF settled.state = "none" THEN row
                           ELSE [row EXCEPT !.state = settled.state,
                                            !.notDispatched = settled.notDispatched])
          /\ world' = [world EXCEPT ![a] = Found(s, world[a])]
  BY DEF Recover
<1>4. \A i \in DOMAIN s : s[i] \in Step
  <2> SUFFICES ASSUME NEW i \in DOMAIN s PROVE s[i] \in Step
    OBVIOUS
  <2>1. rows[a].steps[i] \in Step
    BY <1>1, <1>3
  <2> QED
    BY <1>3, <2>1, ProvenIs
<1>5. DOMAIN s = DOMAIN rows[a].steps /\ s \in Seq(Step) /\ Len(s) = Len(rows[a].steps)
  BY <1>1, <1>3, <1>4
<1> DEFINE settled == Settle(TRUE, s, "recovered")
           row == IF settled.state = "none" THEN [rows[a] EXCEPT !.steps = s]
                  ELSE [[rows[a] EXCEPT !.steps = s] EXCEPT !.state = settled.state,
                                                !.notDispatched = settled.notDispatched]
<1>6. settled.state \in SettledStates \cup {"none"} /\ settled.notDispatched \in BOOLEAN
  BY SettleType DEF Causes
<1>7. Commit(a, row) /\ world' = [world EXCEPT ![a] = Found(s, world[a])]
  BY <1>3
<1> HIDE DEF settled
<1>8. /\ row \in Row /\ row.steps = s /\ row.prepared = rows[a].prepared
      /\ row.effects = rows[a].effects /\ row.cancelReq = rows[a].cancelReq
      /\ \/ row.state = rows[a].state /\ row.notDispatched = rows[a].notDispatched
         \/ /\ row.state = settled.state /\ row.notDispatched = settled.notDispatched
            /\ row.state \in SettledStates
  BY <1>1, <1>5, <1>6 DEF Row, RowStates
<1> HIDE DEF row
<1> QED
  BY <1>1, <1>2, <1>3, <1>5, <1>7, <1>8 DEF settled

(* Each action keeps the types. *)
LEMMA TypedRequests ==
  ASSUME Typed, NEW a \in Actions, Requests(a)
  PROVE  Typed'
<1> USE ConstantsAssumption
<1>1. AbsentRow \in Row /\ AbsentRow.steps = <<>> /\ IdleRun \in Run
  BY DEF AbsentRow, IdleRun, Row, Run, RowStates, SettledStates, Phases, Endings, Errors
<1>2. \A resumed \in BOOLEAN : NewRun(a, resumed) \in Run /\ NewRun(a, resumed).pc = "authorize"
  BY <1>1 DEF NewRun, IdleRun, Run, Phases
<1>3. \A effects : FirstState(a, effects) \in {"waiting", "running"}
  BY DEF FirstState
<1>4. rows[a] \in Row /\ run[a] \in Run /\ Footprint[a] \in SUBSET Resources
  BY DEF Typed, TypeOK
<1>5. Cardinality({b \in Actions : born[b] > 0}) \in Nat
  BY FS_CardinalityType, FS_Subset
<1>6. Insert(a) => born' \in [Actions -> Nat]
  BY <1>5 DEF Insert, Typed, TypeOK
<1>7. CASE Admit(a)
  <2> DEFINE row == [AbsentRow EXCEPT !.state = FirstState(a, Footprint[a]), !.effects = Footprint[a]]
  <2>1. row \in Row /\ row.steps = <<>> /\ row.state \in {"waiting", "running"}
    BY <1>1, <1>3, <1>4 DEF AbsentRow, Row, RowStates
  <2>2. Len(rows[a].steps) = 0
    BY <1>7 DEF Admit, Typed, Mirrored
  <2>3. Commit(a, row) /\ Keep(a, NewRun(a, FALSE))
    BY <1>7 DEF Admit
  <2> HIDE DEF row
  <2>4. Fits(NewRun(a, FALSE), row)
    BY <1>2, <2>1 DEF Fits, Stepping
  <2> QED
    BY <1>2, <1>6, <1>7, <2>1, <2>2, <2>3, <2>4, TypedCommit DEF Admit, Typed, TypeOK, Budget
<1>8. CASE Reject(a)
  <2> DEFINE row == [AbsentRow EXCEPT !.state = "failed", !.notDispatched = TRUE,
                                      !.effects = Footprint[a]]
  <2>1. row \in Row /\ row.steps = <<>> /\ row.state = "failed"
    BY <1>1, <1>4 DEF AbsentRow, Row, RowStates, SettledStates
  <2>2. Len(rows[a].steps) = 0 /\ run[a].pc = "idle"
    BY <1>8 DEF Reject, Typed, Mirrored, Active
  <2>3. Commit(a, row) /\ Keep(a, run[a])
    BY <1>4, <1>8 DEF Reject, Keep, Typed, TypeOK
  <2> HIDE DEF row
  <2>4. Fits(run[a], row)
    BY <2>2 DEF Fits, Stepping
  <2> QED
    BY <1>4, <1>6, <1>8, <2>1, <2>2, <2>3, <2>4, TypedCommit DEF Reject, Typed, TypeOK, Budget
<1>9. CASE Resume(a)
  <2> DEFINE row == [rows[a] EXCEPT !.state = FirstState(a, rows[a].effects),
                                    !.cancelReq = FALSE, !.notDispatched = FALSE]
  <2>1. row \in Row /\ row.steps = rows[a].steps /\ row.state \in {"waiting", "running"}
    <3> DEFINE first == FirstState(a, rows[a].effects)
    <3>1. first \in {"waiting", "running"}
      BY <1>3
    <3>2. row = [rows[a] EXCEPT !.state = first, !.cancelReq = FALSE, !.notDispatched = FALSE]
      OBVIOUS
    <3> HIDE DEF first, row
    <3> QED
      BY <1>4, <3>1, <3>2 DEF Row, RowStates
  <2>2. Commit(a, row) /\ Keep(a, NewRun(a, TRUE))
    BY <1>9 DEF Resume
  <2> HIDE DEF row
  <2>3. Fits(NewRun(a, TRUE), row)
    BY <1>2, <2>1 DEF Fits, Stepping
  <2>4. budget' \in Budget /\ asked' \in [Actions -> BOOLEAN]
    BY <1>9, BudgetType DEF Resume, Typed, TypeOK, Budget
  <2> QED
    BY <1>2, <1>9, <2>1, <2>2, <2>3, <2>4, TypedCommit DEF Resume, Typed, TypeOK
<1>10. CASE Cancel(a)
  <2>1. Keep(a, run[a]) /\ Fits(run[a], rows[a])
    BY <1>4, <1>10 DEF Cancel, Keep, Fits, Typed, TypeOK, Recorded, Active
  <2>2. budget' \in Budget
    BY <1>10, BudgetType DEF Cancel, Typed, TypeOK, Budget
  <2>3. cancelling' \subseteq Actions \X {"caller", "run"}
    BY <1>10 DEF Cancel, Typed, TypeOK
  <2> QED
    BY <1>4, <1>10, <2>1, <2>2, <2>3, TypedKeep DEF Cancel, Typed, TypeOK
<1>11. CASE Recover(a)
  <2>1. PICK steps \in Seq(Step), row \in Row :
          /\ Len(steps) = Len(rows[a].steps) /\ row.steps = steps
          /\ row.state = rows[a].state \/ row.state \in SettledStates
          /\ Commit(a, row) /\ Keep(a, run[a])
          /\ world' = [world EXCEPT ![a] = Found(steps, world[a])]
    BY <1>11, RecoverIs
  <2>2. /\ rows[a].state \in {"unknown", "incomplete"} /\ run[a].pc = "idle"
        /\ UNCHANGED <<born, run, cancelling, asked, runStopped, stale, budget>>
    BY <1>11, RecoverIs
  <2> DEFINE w == Found(steps, world[a])
  <2>3. world[a] \in Seq(WorldStates) /\ Len(world[a]) = Len(rows[a].steps)
    BY DEF Typed, TypeOK
  <2>4. w \in Seq(WorldStates) /\ Len(w) = Len(rows[a].steps)
    BY <2>3, FoundIs
  <2> HIDE DEF w
  <2>5. world' = [world EXCEPT ![a] = w]
    BY <2>1 DEF w
  <2>6. row.state \notin {"absent", "waiting", "running"} /\ rows[a].state # "absent"
    BY <2>1, <2>2 DEF SettledStates
  <2>7. /\ rows' = [rows EXCEPT ![a] = row] /\ disk' = [disk EXCEPT ![a] = row] /\ parked' = {}
        /\ \A b \in Actions : b # a => rows'[b] = rows[b] /\ disk'[b] = disk[b] /\ world'[b] = world[b]
        /\ rows'[a] = row /\ disk'[a] = row /\ world'[a] = w
    BY <2>1, <2>5 DEF Commit, Typed, TypeOK
  <2>8. Len(row.steps) = Len(w) /\ row.state # "absent"
    BY <2>1, <2>4, <2>6
  <2>9. TypeOK'
    BY <2>1, <2>2, <2>4, <2>5, <2>7, <2>8 DEF Typed, TypeOK
  <2>10. Recorded' /\ Active'
    BY <2>2, <2>7 DEF Typed, Recorded, Active, Stepping
  <2>11. Mirrored'
    BY <2>7, <2>8 DEF Typed, Mirrored
  <2> QED
    BY <2>9, <2>10, <2>11 DEF Typed
<1> QED
  BY <1>7, <1>8, <1>9, <1>10, <1>11 DEF Requests

(* The next execution state of a gate. *)
LEMMA AfterGate ==
  ASSUME NEW a \in Actions, NEW r \in Run, NEW pc \in Phases, NEW flag \in BOOLEAN
  PROVE  LET gate == Gate(a, flag)
             next == IF gate = "none" THEN [r EXCEPT !.pc = pc] ELSE Ends(r, gate)
         IN  next \in Run /\ next.pc \in {pc, "settling"}
<1> DEFINE gate == Gate(a, flag)
<1>1. gate = "none" \/ gate \in Endings
  BY GateType DEF Endings, Errors
<1> HIDE DEF gate
<1>2. [r EXCEPT !.pc = pc] \in Run /\ [r EXCEPT !.pc = pc].pc = pc
  BY DEF Run
<1>3. gate \in Endings => Ends(r, gate) \in Run /\ Ends(r, gate).pc = "settling"
  BY EndsType
<1>4. LET next == IF gate = "none" THEN [r EXCEPT !.pc = pc] ELSE Ends(r, gate)
      IN  next \in Run /\ next.pc \in {pc, "settling"}
  BY <1>1, <1>2, <1>3
<1> QED
  BY <1>4 DEF gate

LEMMA TypedGates ==
  ASSUME Typed, NEW a \in Actions, Gates(a)
  PROVE  Typed'
<1>1. rows[a] \in Row /\ run[a] \in Run /\ rows[a].cancelReq \in BOOLEAN /\ run[a].known \in BOOLEAN
  BY DEF Typed, TypeOK, Row, Run
<1>2. run[a].pc # "idle" /\ rows[a].state \in {"waiting", "running"}
  BY DEF Gates, Authorize, Consent, TurnGate, TurnCheck, Prepare, Typed, Active
<1>3. budget \in Budget /\ parked \subseteq Actions /\ cancelling \subseteq Actions \X {"caller", "run"}
  BY DEF Typed, TypeOK, Budget
<1>4. \A next : next.pc \notin Stepping => Fits(next, rows[a])
  BY <1>2 DEF Fits
<1>5. ASSUME NEW next \in Run, next.pc \notin Stepping, Keep(a, next),
             UNCHANGED <<rows, disk, born, cancelling, asked, runStopped, stale, world, budget>>,
             parked' \subseteq Actions
      PROVE  Typed'
  BY <1>3, <1>4, <1>5, TypedKeep
<1> USE DEF Stepping
<1>6. {"consent", "turn", "turnCheck", "prepare", "run"} \subseteq Phases
  BY DEF Phases
<1>7. \A err \in {"refused499", "plain", "rejected"} :
        Ends(run[a], err) \in Run /\ Ends(run[a], err).pc = "settling"
  BY <1>1, EndsType DEF Endings, Errors
<1>8. \A pc \in Phases : [run[a] EXCEPT !.pc = pc] \in Run /\ [run[a] EXCEPT !.pc = pc].pc = pc
  BY <1>1 DEF Run
<1>9. CASE Authorize(a)
  <2>1. PICK next : /\ next \in {Ends(run[a], "refused499"), Ends(run[a], "plain"),
                                  Ends(run[a], "rejected"), [run[a] EXCEPT !.pc = "consent"]}
                    /\ Keep(a, next)
    BY <1>9, Zenon DEF Authorize
  <2>2. next \in Run /\ next.pc \in {"settling", "consent"}
    BY <1>6, <1>7, <1>8, <2>1
  <2> QED
    BY <1>3, <1>5, <1>9, <2>1, <2>2 DEF Authorize
<1>10. CASE Consent(a)
  <2> DEFINE gate == Gate(a, rows[a].cancelReq)
             next == IF gate = "none" THEN [run[a] EXCEPT !.pc = "turn"] ELSE Ends(run[a], gate)
             row  == [rows[a] EXCEPT !.state = "running"]
  <2>1. next \in Run /\ next.pc \in {"turn", "settling"}
    BY <1>1, <1>6, AfterGate
  <2>2. row \in Row /\ row.state = "running" /\ row.steps = rows[a].steps
    BY <1>1 DEF Row, RowStates
  <2>3. Save(a, row, next)
    BY <1>10 DEF Consent
  <2> HIDE DEF next, row
  <2>4. Fits(next, row)
    BY <2>1, <2>2 DEF Fits
  <2> QED
    BY <1>10, <2>1, <2>2, <2>3, <2>4, TypedSave DEF Consent
<1>12. CASE TurnGate(a)
  <2> DEFINE gate == Gate(a, rows[a].cancelReq)
             next == IF gate = "none" THEN [run[a] EXCEPT !.pc = "turnCheck"] ELSE Ends(run[a], gate)
  <2>1. next \in Run /\ next.pc \in {"turnCheck", "settling"}
    BY <1>1, <1>6, AfterGate
  <2>2. Keep(a, next)
    BY <1>12 DEF TurnGate
  <2> HIDE DEF next
  <2> QED
    BY <1>3, <1>5, <1>12, <2>1, <2>2 DEF TurnGate
<1>13. CASE TurnCheck(a)
  <2>1. PICK next : /\ next \in {Ends(run[a], "plain"), [run[a] EXCEPT !.pc = "prepare"],
                                  [run[a] EXCEPT !.pc = "turn"]}
                    /\ Keep(a, next) /\ parked' \in {parked, parked \cup {a}}
    BY <1>13, Zenon DEF TurnCheck
  <2>2. next \in Run /\ next.pc \in {"settling", "prepare", "turn"}
    BY <1>6, <1>7, <1>8, <2>1
  <2> QED
    BY <1>3, <1>5, <1>13, <2>1, <2>2 DEF TurnCheck
<1>14. CASE Prepare(a)
  <2> DEFINE saved == [rows[a] EXCEPT !.prepared = TRUE]
             flag == IF rows[a].prepared THEN run[a].known ELSE saved.cancelReq
             gate == Gate(a, flag)
             next == IF gate = "none" THEN [run[a] EXCEPT !.pc = "run"] ELSE Ends(run[a], gate)
  <2>1. /\ saved \in Row /\ saved.state = rows[a].state /\ saved.steps = rows[a].steps
        /\ saved.cancelReq \in BOOLEAN
    BY <1>1 DEF Row
  <2>2. /\ rows[a].prepared => Keep(a, next) /\ UNCHANGED <<rows, disk, parked>>
        /\ ~rows[a].prepared => Save(a, saved, next)
    BY <1>14, Zenon DEF Prepare
  <2> HIDE DEF saved
  <2>3. flag \in BOOLEAN
    BY <1>1, <2>1
  <2> HIDE DEF flag
  <2>4. next \in Run /\ next.pc \in {"run", "settling"}
    BY <1>1, <1>6, <2>3, AfterGate
  <2> HIDE DEF next
  <2>5. Fits(next, saved)
    BY <1>2, <2>1, <2>4 DEF Fits
  <2>6. CASE rows[a].prepared
    BY <1>3, <1>5, <1>14, <2>2, <2>4, <2>6 DEF Prepare
  <2>7. CASE ~rows[a].prepared
    BY <1>2, <1>14, <2>1, <2>2, <2>4, <2>5, <2>7, TypedSave DEF Prepare
  <2> QED
    BY <2>6, <2>7
<1> QED
  BY <1>9, <1>10, <1>12, <1>13, <1>14 DEF Gates

(* An executor's step replaced in the committed row. *)
LEMMA TypedSetStep ==
  ASSUME Typed, NEW a \in Actions, NEW step \in Step, NEW next \in Run,
         run[a].pc \in Stepping, next.pc # "idle",
         \/ Save(a, SetStep(a, step), next)
         \/ Commit(a, SetStep(a, step)) /\ Keep(a, next),
         UNCHANGED <<born, cancelling, asked, runStopped, stale, world, budget>>
  PROVE  Typed'
<1>1. rows[a].steps # <<>> /\ rows[a].state \in {"waiting", "running"}
  BY DEF Typed, Recorded, Active, Stepping
<1> DEFINE row == SetStep(a, step)
<1>2. row \in Row /\ row.state = rows[a].state /\ Len(row.steps) = Len(rows[a].steps) /\ row.steps # <<>>
  BY <1>1, SetStepType
<1> HIDE DEF row
<1>3. Fits(next, row)
  BY <1>1, <1>2 DEF Fits
<1>4. CASE Save(a, row, next)
  BY <1>1, <1>2, <1>3, <1>4, TypedSave
<1>5. CASE Commit(a, row) /\ Keep(a, next)
  BY <1>1, <1>2, <1>3, <1>5, TypedCommit DEF Typed, TypeOK, Budget
<1> QED
  BY <1>4, <1>5 DEF row

(* An executor that moves without a commit, and what becomes of its last effect. *)
LEMMA TypedMove ==
  ASSUME Typed, NEW a \in Actions, NEW next \in Run, Keep(a, next),
         next.pc # "idle", run[a].pc # "idle",
         next.pc \in Stepping => run[a].pc \in Stepping,
         UNCHANGED <<rows, disk, born, cancelling, asked, runStopped, stale>>,
         parked' = parked, budget' \in Budget,
         \/ UNCHANGED world
         \/ run[a].pc \in Stepping /\ \E w \in WorldStates : SetWorld(a, w)
  PROVE  Typed'
<1>1. world' \in [Actions -> Seq(WorldStates)] /\ \A b \in Actions : Len(world'[b]) = Len(world[b])
  <2>1. ASSUME NEW w \in WorldStates, SetWorld(a, w), run[a].pc \in Stepping
        PROVE  world' \in [Actions -> Seq(WorldStates)] /\ \A b \in Actions : Len(world'[b]) = Len(world[b])
    <3> DEFINE s == [world[a] EXCEPT ![Last(a)] = w]
    <3>1. world' = [world EXCEPT ![a] = s]
      BY <2>1 DEF SetWorld
    <3>2. world[a] \in Seq(WorldStates)
      BY DEF Typed, TypeOK
    <3>3. Last(a) \in 1..Len(world[a])
      <4>1. rows[a].steps \in Seq(Step) /\ rows[a].steps # <<>> /\ Len(world[a]) = Len(rows[a].steps)
        BY <2>1 DEF Typed, TypeOK, Recorded, Row
      <4> QED
        BY <4>1, LenProperties DEF Last
    <3>4. s \in Seq(WorldStates) /\ Len(s) = Len(world[a])
      BY <2>1, <3>2, <3>3, ExceptSeq
    <3> HIDE DEF s
    <3> QED
      BY <3>1, <3>4 DEF Typed, TypeOK
  <2> QED
    BY <2>1 DEF Typed, TypeOK
<1> QED
  BY <1>1 DEF Typed, TypeOK, Recorded, Active, Mirrored, Keep, Budget

LEMMA TypedSteps ==
  ASSUME Typed, NEW a \in Actions, StepMoves(a) \/ Retire(a)
  PROVE  Typed'
<1> USE ConstantsAssumption
<1>1. rows[a] \in Row /\ run[a] \in Run /\ rows[a].steps \in Seq(Step) /\ budget \in Budget
  BY DEF Typed, TypeOK, Row, Budget
<1>2. run[a].op \in Nat /\ run[a].cursor \in Nat /\ run[a].op + 1 \in Nat /\ run[a].cursor + 1 \in Nat
  BY <1>1 DEF Run
<1>3. run[a].pc # "idle" => rows[a].state \in {"waiting", "running"}
  BY DEF Typed, Active
<1>4. run[a].pc \in Stepping => rows[a].steps # <<>>
  BY DEF Typed, Recorded
<1>5. {"run", "step", "effect", "sent", "await", "outcome", "result", "settling"} \subseteq Phases
  BY DEF Phases
<1>6. \A pc \in Phases : [run[a] EXCEPT !.pc = pc] \in Run /\ [run[a] EXCEPT !.pc = pc].pc = pc
  BY <1>1 DEF Run
<1>7. \A err \in Endings, phase \in {"gate", "effect", "checked"} :
        LET next == [run[a] EXCEPT !.pc = "outcome", !.err = err, !.phase = phase]
        IN  next \in Run /\ next.pc = "outcome"
  BY <1>1 DEF Run, Phases
<1>8. {"plain", "failed", "refused", "refused499", "cancelled", "incomplete", "rejected", "unknown",
       "returned"} \subseteq Endings
  BY DEF Endings, Errors
<1>9. {"none", "sent", "done"} \subseteq WorldStates
  BY DEF WorldStates
<1>10. run[a].pc \in Stepping => Len(rows[a].steps) > 0 /\ rows[a].steps[Last(a)] \in Step
  BY <1>1, <1>4, LenProperties, ElementOfSeq DEF Last
<1>11. AtOp(a) => TheOp(a) \in Op
  BY DEF AtOp, TheOp
<1>12. CASE Discover(a)
  <2> DEFINE row == [rows[a] EXCEPT !.effects = @ \cup Undiscovered(a)]
  <2>1. Undiscovered(a) \subseteq Resources
    <3>1. Program[a] \in Seq(Op)
      OBVIOUS
    <3>2. \A n \in DOMAIN Program[a] : Program[a][n] \in Op
      BY <3>1
    <3>3. \A op \in Op : op.discovers \subseteq Resources
      BY DEF Op
    <3> QED
      BY <3>2, <3>3, Zenon DEF Undiscovered
  <2>2. row \in Row /\ row.state = rows[a].state /\ row.steps = rows[a].steps
    BY <1>1, <2>1 DEF Row
  <2>3. Save(a, row, run[a]) /\ run[a].pc = "run"
    BY <1>12 DEF Discover
  <2> HIDE DEF row
  <2>4. Fits(run[a], row)
    BY <1>3, <2>2, <2>3 DEF Fits, Stepping
  <2> QED
    BY <1>1, <1>12, <2>2, <2>3, <2>4, TypedSave DEF Discover
<1>13. CASE Replay(a)
  <2> DEFINE passed == [run[a] EXCEPT !.cursor = @ + 1]
             n == run[a].op + 1
  <2>1. passed \in Run /\ passed.pc = "run" /\ passed.op = run[a].op
    BY <1>1, <1>2, <1>13 DEF Run, Replay, AtOp
  <2>2. Throw(a, passed, "plain") \in Run /\ Throw(a, passed, "plain").pc \in {"run", "settling"}
    BY <1>8, <2>1, ThrowType
  <2> HIDE DEF passed
  <2>3. n \in Nat /\ [passed EXCEPT !.op = @ + 1] = [passed EXCEPT !.op = n]
    BY <1>2, <2>1
  <2> HIDE DEF n
  <2>4. [passed EXCEPT !.op = n] \in Run /\ [passed EXCEPT !.op = n].pc = "run"
    BY <2>1, <2>3 DEF Run
  <2>5. PICK next \in {passed, Throw(a, passed, "plain"), [passed EXCEPT !.op = n]} : Keep(a, next)
    BY <1>13, <2>3, Zenon DEF Replay, passed
  <2>6. next \in Run /\ next.pc \in {"run", "settling"}
    BY <2>1, <2>2, <2>4, <2>5
  <2> QED
    BY <1>1, <1>13, <2>5, <2>6, TypedMove DEF Replay, AtOp, Stepping
<1>14. CASE Retire(a)
  <2> DEFINE i == run[a].cursor + 1
             step == [rows[a].steps[i] EXCEPT !.state = "failed", !.retired = TRUE]
             s == [rows[a].steps EXCEPT ![i] = step]
             row == [rows[a] EXCEPT !.steps[i] = [@ EXCEPT !.state = "failed", !.retired = TRUE]]
  <2>1. i \in 1..Len(rows[a].steps)
    <3>1. run[a].cursor < Len(rows[a].steps)
      BY <1>14 DEF Retire, Last
    <3> QED
      BY <1>1, <1>2, <3>1, LenProperties
  <2>2. rows[a].steps[i] \in Step
    BY <1>1, <2>1, ElementOfSeq
  <2>3. step \in Step
    BY <2>2 DEF Step, StepStates
  <2>4. s \in Seq(Step) /\ Len(s) = Len(rows[a].steps)
    BY <1>1, <2>1, <2>3, ExceptSeq
  <2>5. row = [rows[a] EXCEPT !.steps = s]
    OBVIOUS
  <2>6. Save(a, row, run[a]) /\ run[a].pc = "run"
    BY <1>14 DEF Retire, AtOp
  <2> HIDE DEF s, row
  <2>7. row \in Row /\ row.state = rows[a].state /\ row.steps = s
    BY <1>1, <2>4, <2>5 DEF Row
  <2>8. Fits(run[a], row)
    BY <1>3, <2>6, <2>7 DEF Fits, Stepping
  <2> QED
    BY <1>1, <1>14, <2>4, <2>6, <2>7, <2>8, TypedSave DEF Retire
<1>15. CASE BeginStep(a)
  <2> DEFINE step == [op |-> run[a].op, kind |-> TheOp(a).kind, state |-> "running",
                      dispatched |-> FALSE, notDispatched |-> FALSE, retired |-> FALSE,
                      releases |-> FALSE]
             s == Append(rows[a].steps, step)
             row == [rows[a] EXCEPT !.steps = s]
             n == run[a].cursor + 1
             next == [[run[a] EXCEPT !.pc = "step", !.cursor = n] EXCEPT !.known = row.cancelReq]
             w == Append(world[a], "none")
  <2>1. TheOp(a).kind \in Kinds
    BY <1>11, <1>15 DEF BeginStep, Op
  <2>2. step \in Step
    BY <1>2, <2>1 DEF Step, StepStates
  <2>3. world[a] \in Seq(WorldStates) /\ Len(world[a]) = Len(rows[a].steps)
    BY DEF Typed, TypeOK
  <2>4. rows' = [rows EXCEPT ![a] = row] /\ disk' = [disk EXCEPT ![a] = row] /\ parked' = {}
    BY <1>15 DEF BeginStep, Save, Commit
  <2>5. run' = [run EXCEPT ![a] = next] /\ world' = [world EXCEPT ![a] = w]
    BY <1>15 DEF BeginStep, Save, Keep
  <2> HIDE DEF step
  <2>6. s \in Seq(Step) /\ s # <<>> /\ Len(s) = Len(rows[a].steps) + 1
    <3>1. \A q \in Seq(Step), e \in Step :
            Append(q, e) \in Seq(Step) /\ Append(q, e) # <<>> /\ Len(Append(q, e)) = Len(q) + 1
      BY AppendProperties
    <3> QED
      BY <1>1, <2>2, <3>1, Zenon
  <2>7. w \in Seq(WorldStates) /\ Len(w) = Len(s)
    <3>1. "none" \in WorldStates
      BY <1>9
    <3>2. \A q \in Seq(WorldStates), e \in WorldStates :
            Append(q, e) \in Seq(WorldStates) /\ Len(Append(q, e)) = Len(q) + 1
      BY AppendProperties
    <3> QED
      BY <2>3, <2>6, <3>1, <3>2, Zenon
  <2> HIDE DEF s, w
  <2>8. row \in Row /\ row.state = rows[a].state /\ row.steps = s /\ row.cancelReq \in BOOLEAN
    BY <1>1, <2>6 DEF Row
  <2> HIDE DEF row, n
  <2>9. n \in Nat
    BY <1>2 DEF n
  <2>10. next \in Run /\ next.pc = "step"
    BY <1>1, <1>5, <2>8, <2>9 DEF Run
  <2>11. rows[a].state \in {"waiting", "running"}
    BY <1>3, <1>15 DEF BeginStep, AtOp
  <2> HIDE DEF next
  <2> QED
    <3> USE <2>4, <2>5, <2>6, <2>7, <2>8, <2>10, <2>11
    <3>1. rows' \in [Actions -> Row] /\ disk' \in [Actions -> Row] /\ run' \in [Actions -> Run]
      BY DEF Typed, TypeOK
    <3>2. world' \in [Actions -> Seq(WorldStates)] /\ \A b \in Actions : Len(world'[b]) = Len(rows'[b].steps)
      BY DEF Typed, TypeOK
    <3>3. TypeOK'
      BY <1>15, <3>1, <3>2 DEF BeginStep, Typed, TypeOK
    <3>4. Recorded' /\ Active'
      BY DEF Typed, TypeOK, Recorded, Active
    <3>5. Mirrored'
      BY DEF Typed, TypeOK, Mirrored
    <3> QED
      BY <3>3, <3>4, <3>5 DEF Typed
<1>16. ASSUME NEW next \in Run, Keep(a, next), run[a].pc \in Stepping, next.pc # "idle",
              UNCHANGED <<rows, disk, born, parked, cancelling, asked, runStopped, stale>>,
              budget' \in Budget,
              UNCHANGED world \/ \E w \in WorldStates : SetWorld(a, w)
       PROVE  Typed'
  BY <1>16, TypedMove DEF Stepping
<1>17. CASE GateStep(a)
  <2> DEFINE gate == Gate(a, rows[a].cancelReq)
  <2>1. gate \in {"none", "refused499", "rejected"}
    BY <1>1, GateType DEF Row
  <2>2. Keep(a, IF gate = "none" THEN [run[a] EXCEPT !.pc = "effect"]
                ELSE [run[a] EXCEPT !.pc = "outcome", !.err = gate, !.phase = "gate"])
    BY <1>17 DEF GateStep
  <2> HIDE DEF gate
  <2>3. PICK next \in Run : Keep(a, next) /\ next.pc # "idle"
    BY <1>5, <1>6, <1>7, <1>8, <2>1, <2>2
  <2> QED
    BY <1>1, <1>16, <1>17, <2>3 DEF GateStep, Stepping
<1>18. CASE Land(a)
  BY <1>1, <1>5, <1>6, <1>9, <1>16, <1>18 DEF Land, Stepping
<1>19. CASE LandFails(a)
  <2>1. PICK err \in {"refused", "incomplete", "plain"}, w \in {"none", "done"} :
          /\ SetWorld(a, w)
          /\ Keep(a, [run[a] EXCEPT !.pc = "outcome", !.err = err, !.phase = "effect"])
    BY <1>19 DEF LandFails
  <2> QED
    BY <1>1, <1>7, <1>8, <1>9, <1>16, <1>19, <2>1 DEF LandFails, Stepping
<1>20. CASE RefuseDispatch(a)
  <2>1. PICK err \in {"refused", "refused499"} :
          /\ StorageFault \/ UNCHANGED budget
          /\ Keep(a, [run[a] EXCEPT !.pc = "outcome", !.err = err, !.phase = "effect"])
    BY <1>20 DEF RefuseDispatch
  <2>2. budget' \in Budget
    BY <1>1, <2>1, FaultType
  <2> QED
    BY <1>1, <1>7, <1>8, <1>16, <1>20, <2>1, <2>2 DEF RefuseDispatch, Stepping
<1>21. CASE Dispatch(a)
  <2>1. PICK pc \in {"await", "sent"} : Keep(a, [run[a] EXCEPT !.pc = pc])
    BY <1>21 DEF Dispatch
  <2> QED
    BY <1>1, <1>5, <1>6, <1>9, <1>16, <1>21, <2>1 DEF Dispatch, Stepping
<1>22. CASE markDispatched(a)
  <2> DEFINE step == [rows[a].steps[Last(a)] EXCEPT !.dispatched = TRUE]
             next == [run[a] EXCEPT !.pc = "await"]
  <2>1. run[a].pc \in Stepping
    BY <1>22 DEF markDispatched, Unmarked, Stepping
  <2>2. step \in Step
    BY <1>10, <2>1 DEF Step
  <2>3. next \in Run /\ next.pc = "await"
    BY <1>5, <1>6
  <2>4. Commit(a, SetStep(a, step)) /\ Keep(a, next)
    BY <1>22 DEF markDispatched
  <2> HIDE DEF step, next
  <2> QED
    BY <1>22, <2>1, <2>2, <2>3, <2>4, TypedSetStep DEF markDispatched
<1>23. CASE Answered(a)
  <2>1. PICK next \in Run : Keep(a, next) /\ next.pc # "idle"
    BY <1>5, <1>6, <1>7, <1>8, <1>23, ZenonT(60) DEF Answered
  <2> QED
    BY <1>1, <1>16, <1>23, <2>1 DEF Answered, Stepping
<1>24. CASE Declined(a)
  <2>1. PICK next \in Run : Keep(a, next) /\ next.pc # "idle"
    BY <1>7, <1>8, <1>24 DEF Declined
  <2> QED
    BY <1>1, <1>16, <1>24, <2>1 DEF Declined, Stepping
<1>25. CASE RecordFailure(a)
  <2> DEFINE step == FailedStep(rows[a].steps[Last(a)], run[a].err, run[a].phase)
             next == Throw(a, run[a], run[a].err)
  <2>1. run[a].pc \in Stepping
    BY <1>25 DEF RecordFailure, Stepping
  <2>2. step \in Step
    BY <1>1, <1>10, <2>1, FailedStepType DEF Run
  <2>3. next \in Run /\ next.pc \in {"run", "settling"}
    BY <1>1, ThrowType DEF Run
  <2>4. Save(a, SetStep(a, step), next)
    BY <1>25 DEF RecordFailure
  <2> HIDE DEF step, next
  <2> QED
    BY <1>25, <2>1, <2>2, <2>3, <2>4, TypedSetStep DEF RecordFailure
<1>26. CASE RecordSuccess(a)
  <2> DEFINE released == TheOp(a).stops # {}
             step == [rows[a].steps[Last(a)] EXCEPT !.state = "succeeded", !.releases = released]
             n == run[a].op + 1
             next == [run[a] EXCEPT !.pc = "run", !.op = n]
  <2>1. run[a].pc \in Stepping
    BY <1>26 DEF RecordSuccess, Stepping
  <2>2. Save(a, SetStep(a, step), next)
    BY <1>26 DEF RecordSuccess
  <2>3. released \in BOOLEAN /\ n \in Nat
    BY <1>2
  <2> HIDE DEF released, n
  <2>4. step \in Step
    BY <1>10, <2>1, <2>3 DEF Step, StepStates
  <2>5. next \in Run /\ next.pc = "run"
    BY <1>1, <2>3 DEF Run, Phases
  <2> HIDE DEF step, next
  <2> QED
    BY <1>26, <2>1, <2>2, <2>4, <2>5, TypedSetStep DEF RecordSuccess
<1>27. CASE ExecutorReturns(a)
  <2> DEFINE next == Ends(run[a], "returned")
  <2>1. next \in Run /\ next.pc = "settling"
    BY <1>1, <1>8, EndsType
  <2>2. Keep(a, next)
    BY <1>27 DEF ExecutorReturns
  <2> HIDE DEF next
  <2> QED
    BY <1>1, <1>27, <2>1, <2>2, TypedMove DEF ExecutorReturns, Stepping
<1>28. CASE Recheck(a)
  <2> DEFINE passed == [run[a] EXCEPT !.cursor = @ + 1]
  <2>1. passed \in Run
    BY <1>1, <1>2 DEF Run
  <2>2. run[a].pc = "run"
    BY <1>28 DEF Recheck, AtOp
  <2> HIDE DEF passed
  <2>3. PICK err \in {"plain", "failed"} : Keep(a, Throw(a, passed, err))
    BY <1>28 DEF Recheck, passed
  <2>4. Throw(a, passed, err) \in Run /\ Throw(a, passed, err).pc \in {"run", "settling"}
    BY <1>8, <2>1, ThrowType
  <2> QED
    BY <1>1, <1>28, <2>2, <2>3, <2>4, TypedMove DEF Recheck, Stepping
<1> QED
  BY <1>12, <1>13, <1>14, <1>15, <1>17, <1>18, <1>19, <1>20, <1>21, <1>22, <1>23, <1>24, <1>25,
     <1>26, <1>27, <1>28 DEF StepMoves

LEMMA IdleType == IdleRun \in Run /\ IdleRun.pc = "idle"
BY DEF IdleRun, Run, Phases, Endings, Errors

LEMMA TypedFailures ==
  ASSUME Typed, NEW a \in Actions, Failures(a)
  PROVE  Typed'
<1>1. rows[a] \in Row /\ run[a] \in Run /\ rows[a].cancelReq \in BOOLEAN
  BY DEF Typed, TypeOK, Row
<1>2. budget' \in Budget
  BY FaultType DEF Failures, PrepareFails, MarkFails, Interrupts, RecordFails, ExecutorThrows,
                   CompleteFails
<1>3. {"plain", "unknown", "incomplete"} \subseteq Endings
  BY DEF Endings, Errors
<1>4. \A err \in Endings : Ends(run[a], err) \in Run /\ Ends(run[a], err).pc = "settling"
  BY <1>1, EndsType
<1>5. \A err \in Endings :
        LET next == [run[a] EXCEPT !.pc = "outcome", !.err = err, !.phase = "effect"]
        IN  next \in Run /\ next.pc = "outcome"
  BY <1>1 DEF Run, Phases
<1> USE DEF Stepping
<1>6. CASE PrepareFails(a)
  BY <1>1, <1>2, <1>3, <1>4, <1>6, TypedMove DEF PrepareFails
<1>7. CASE MarkFails(a)
  BY <1>1, <1>2, <1>3, <1>5, <1>7, TypedMove DEF MarkFails, Unmarked
<1>8. CASE Interrupts(a)
  BY <1>1, <1>2, <1>3, <1>5, <1>8, TypedMove DEF Interrupts
<1>9. CASE RecordFails(a)
  <2> DEFINE thrown == Throw(a, run[a], "plain")
             next == [thrown EXCEPT !.known = rows[a].cancelReq]
  <2>1. thrown \in Run /\ thrown.pc \in {"run", "settling"}
    BY <1>1, <1>3, ThrowType
  <2>2. Keep(a, next)
    BY <1>9 DEF RecordFails
  <2> HIDE DEF thrown
  <2>3. next \in Run /\ next.pc \in {"run", "settling"}
    BY <1>1, <2>1 DEF Run
  <2> HIDE DEF next
  <2> QED
    BY <1>1, <1>2, <1>9, <2>2, <2>3, TypedMove DEF RecordFails
<1>10. CASE ExecutorThrows(a)
  BY <1>1, <1>2, <1>3, <1>4, <1>10, TypedMove DEF ExecutorThrows
<1>11. CASE CompleteFails(a)
  <2> DEFINE s == Interrupted(rows[a].steps)
             row == [rows[a] EXCEPT !.state = "unknown", !.steps = s, !.cancelReq = run[a].known]
  <2>1. s \in Seq(Step) /\ Len(s) = Len(rows[a].steps)
    BY <1>1, InterruptedType DEF Row
  <2>2. rows' = [rows EXCEPT ![a] = row]
    BY <1>1, <1>11 DEF CompleteFails, Typed, TypeOK, Row
  <2>3. run' = [run EXCEPT ![a] = IdleRun]
    BY <1>11 DEF CompleteFails, Keep
  <2> HIDE DEF s
  <2>4. row \in Row /\ row.state = "unknown" /\ row.steps = s
    BY <1>1, <2>1 DEF Row, RowStates, SettledStates, Run
  <2> HIDE DEF row
  <2>5. rows[a].state # "absent"
    BY <1>11 DEF CompleteFails, Typed, Active
  <2> HIDE DEF row
  <2>6. rows' \in [Actions -> Row] /\ run' \in [Actions -> Run]
    BY <2>2, <2>3, <2>4, IdleType DEF Typed, TypeOK
  <2>7. \A b \in Actions : Len(world'[b]) = Len(rows'[b].steps)
    BY <1>11, <2>1, <2>2, <2>4 DEF CompleteFails, Typed, TypeOK
  <2>8. TypeOK'
    BY <1>2, <1>11, <2>6, <2>7 DEF CompleteFails, Typed, TypeOK, Budget
  <2>9. Recorded' /\ Active'
    BY <2>2, <2>3, IdleType DEF Typed, TypeOK, Recorded, Active
  <2>10. Mirrored'
    BY <1>11, <2>1, <2>2, <2>4, <2>5, ZenonT(60) DEF CompleteFails, Typed, TypeOK, Mirrored
  <2> QED
    BY <2>8, <2>9, <2>10 DEF Typed
<1> QED
  BY <1>6, <1>7, <1>8, <1>9, <1>10, <1>11 DEF Failures

LEMMA TypedComplete ==
  ASSUME Typed, NEW a \in Actions, Complete(a)
  PROVE  Typed'
<1>1. rows[a] \in Row /\ run[a] \in Run /\ rows[a].steps \in Seq(Step)
  BY DEF Typed, TypeOK, Row
<1> DEFINE settled == Settle(rows[a].prepared, rows[a].steps, run[a].err)
           s == Interrupted(rows[a].steps)
           row == [rows[a] EXCEPT !.state = settled.state, !.notDispatched = settled.notDispatched,
                                  !.steps = s, !.cancelReq = run[a].known]
<1>2. settled.state \in SettledStates /\ settled.notDispatched \in BOOLEAN
  <2>1. rows[a].prepared \in BOOLEAN /\ run[a].err \in Causes /\ run[a].err # "recovered"
    BY <1>1 DEF Row, Run, Endings, Errors, Causes
  <2> QED
    BY <2>1, SettleType
<1>3. s \in Seq(Step) /\ Len(s) = Len(rows[a].steps)
  BY <1>1, InterruptedType
<1>4. Commit(a, row) /\ Keep(a, IdleRun)
  BY DEF Complete, Finished
<1> HIDE DEF settled, s
<1>5. row \in Row /\ row.steps = s /\ row.state \in SettledStates
  BY <1>1, <1>2, <1>3 DEF Row, RowStates, Run
<1> HIDE DEF row
<1>6. Fits(IdleRun, row) /\ row.state # "absent"
  BY <1>5, IdleType DEF Fits, Stepping, SettledStates
<1> QED
  BY <1>3, <1>4, <1>5, <1>6, IdleType, TypedCommit DEF Complete, Typed, TypeOK, Budget

LEMMA TypedCommitCancel ==
  ASSUME Typed, NEW a \in Actions, NEW who \in {"caller", "run"}, CommitCancel(a, who)
  PROVE  Typed'
<1>1. rows[a] \in Row /\ run[a] \in Run
  BY DEF Typed, TypeOK
<1> DEFINE row == [rows[a] EXCEPT !.cancelReq = TRUE]
<1>2. row \in Row /\ row.state = rows[a].state /\ row.steps = rows[a].steps
  BY <1>1 DEF Row
<1> DEFINE told   == [run[a] EXCEPT !.known = TRUE]
           denied == Ends(run[a], "refused499")
           next   == IF who = "run" THEN told ELSE IF run[a].pc = "consent" THEN denied ELSE run[a]
<1>3. Commit(a, row) /\ Keep(a, next)
  BY DEF CommitCancel
<1>4. told \in Run /\ told.pc = run[a].pc
  BY <1>1 DEF Run
<1>5. denied \in Run /\ denied.pc = "settling"
  BY <1>1, EndsType DEF Endings, Errors
<1> HIDE DEF told, denied
<1>6. next \in Run /\ (next.pc = run[a].pc \/ (next.pc = "settling" /\ run[a].pc = "consent"))
  BY <1>1, <1>4, <1>5
<1> HIDE DEF next
<1>7. Fits(next, row)
  BY <1>2, <1>6 DEF Fits, Stepping, Typed, Recorded, Active
<1>8. asked' \in [Actions -> BOOLEAN] /\ cancelling' \subseteq Actions \X {"caller", "run"}
  BY DEF CommitCancel, Typed, TypeOK
<1> QED
  BY <1>2, <1>3, <1>6, <1>7, <1>8, TypedCommit DEF CommitCancel, Typed, TypeOK, Budget

LEMMA TypedEnvironment ==
  ASSUME Typed, NEW a \in Actions, Environment(a)
  PROVE  Typed'
<1>1. CASE EvidenceMoves(a)
  <2>1. budget' \in Budget /\ stale' \subseteq Actions
    BY <1>1, FaultType DEF EvidenceMoves, Typed, TypeOK
  <2> QED
    BY <1>1, <2>1 DEF EvidenceMoves, journalVars, Typed, TypeOK, Recorded, Active, Mirrored, Budget
<1>2. ASSUME NEW i \in DOMAIN world[a], NativePerforms(a, i) \/ ResultGone(a, i)
      PROVE  Typed'
  <2>1. PICK w \in WorldStates : world' = [world EXCEPT ![a] = [@ EXCEPT ![i] = w]]
    BY <1>2 DEF NativePerforms, ResultGone, WorldStates
  <2>2. world[a] \in Seq(WorldStates) /\ i \in 1..Len(world[a])
    BY DEF Typed, TypeOK
  <2> DEFINE s == [world[a] EXCEPT ![i] = w]
  <2>3. s \in Seq(WorldStates) /\ Len(s) = Len(world[a])
    BY <2>2, ExceptSeq
  <2>4. world' = [world EXCEPT ![a] = s]
    BY <2>1 DEF Typed, TypeOK
  <2> HIDE DEF s
  <2>5. UNCHANGED <<rows, disk, born, run, parked, cancelling, asked, runStopped, stale, budget>>
    BY <1>2 DEF NativePerforms, ResultGone, journalVars
  <2> QED
    BY <2>3, <2>4, <2>5 DEF Typed, TypeOK, Recorded, Active, Mirrored
<1> QED
  BY <1>1, <1>2 DEF Environment

LEMMA TypedStopRun ==
  ASSUME Typed, StopRun
  PROVE  Typed'
<1> USE ConstantsAssumption
<1>1. \A a \in Actions : Ends(run[a], "refused499") \in Run /\ Ends(run[a], "refused499").pc = "settling"
  BY EndsType DEF Typed, TypeOK, Endings, Errors
<1>2. run' \in [Actions -> Run] /\ \A a \in Actions :
        run'[a].pc = run[a].pc \/ (run'[a].pc = "settling" /\ run[a].pc = "consent")
  <2>1. run' = [a \in Actions |-> IF a \in Pea /\ run[a].pc = "consent" /\ rows[a].effects # {}
                                  THEN Ends(run[a], "refused499") ELSE run[a]]
    BY DEF StopRun
  <2>2. \A a \in Actions : run[a] \in Run
    BY DEF Typed, TypeOK
  <2>3. \A a \in Actions : /\ run'[a] \in Run
                           /\ \/ run'[a].pc = run[a].pc
                              \/ run'[a].pc = "settling" /\ run[a].pc = "consent"
    <3> TAKE a \in Actions
    <3> DEFINE denied == Ends(run[a], "refused499")
    <3>1. (run'[a] = denied /\ run[a].pc = "consent") \/ run'[a] = run[a]
      BY <2>1
    <3>2. denied \in Run /\ denied.pc = "settling"
      BY <1>1
    <3> HIDE DEF denied
    <3> QED
      BY <2>2, <3>1, <3>2
  <2> QED
    BY <2>1, <2>3
<1>3. cancelling' \subseteq Actions \X {"caller", "run"}
  BY DEF StopRun, Typed, TypeOK
<1>4. budget' \in Budget
  BY BudgetType DEF StopRun, Typed, TypeOK, Budget
<1> QED
  <2>1. TypeOK'
    BY <1>2, <1>3, <1>4 DEF StopRun, Typed, TypeOK, Budget
  <2>2. Recorded' /\ Active'
    BY <1>2 DEF StopRun, Typed, Recorded, Active, Stepping
  <2>3. Mirrored'
    BY DEF StopRun, Typed, Mirrored
  <2> QED
    BY <2>1, <2>2, <2>3 DEF Typed

LEMMA LoadedType ==
  ASSUME NEW row \in Row
  PROVE  /\ Loaded(row) \in Row
         /\ Len(Loaded(row).steps) = Len(row.steps)
         /\ Loaded(row).effects = row.effects
         /\ Loaded(row).state = "absent" <=> row.state = "absent"
<1> DEFINE s == Interrupted(row.steps)
           settled == Settle(row.prepared, s, "interrupted")
<1>1. s \in Seq(Step) /\ Len(s) = Len(row.steps)
  BY InterruptedType DEF Row
<1>2. settled.state \in SettledStates /\ settled.notDispatched \in BOOLEAN
  BY SettleType DEF Causes, Row
<1>3. Loaded(row) = IF row.state = "waiting" THEN [row EXCEPT !.state = "cancelled", !.steps = s]
                    ELSE IF row.state = "running"
                    THEN [row EXCEPT !.state = settled.state,
                                     !.notDispatched = settled.notDispatched, !.steps = s]
                    ELSE [row EXCEPT !.steps = s]
  BY DEF Loaded
<1> HIDE DEF s, settled
<1>4. "absent" \notin SettledStates /\ "cancelled" \in SettledStates
  BY DEF SettledStates
<1> QED
  BY <1>1, <1>2, <1>3, <1>4 DEF Row, RowStates

LEMMA TypedRestart ==
  ASSUME Typed, Restart
  PROVE  Typed'
<1>1. \A a \in Actions : /\ rows'[a] = Loaded(disk[a]) /\ disk[a] \in Row
                         /\ run'[a] = IdleRun
  BY DEF Restart, Typed, TypeOK
<1>2. \A a \in Actions : /\ rows'[a] \in Row /\ Len(rows'[a].steps) = Len(rows[a].steps)
                         /\ rows'[a].state = "absent" <=> rows[a].state = "absent"
  BY <1>1, LoadedType DEF Typed, Mirrored
<1>3. budget' \in Budget
  BY BudgetType DEF Restart, Typed, TypeOK, Budget
<1>4. rows' \in [Actions -> Row] /\ disk' = rows' /\ run' \in [Actions -> Run]
  BY <1>1, <1>2, IdleType DEF Restart
<1>5. TypeOK'
  BY <1>2, <1>3, <1>4 DEF Restart, Typed, TypeOK, Budget
<1>6. Recorded' /\ Active'
  BY <1>1, IdleType DEF Recorded, Active, Stepping
<1>7. \A a \in Actions : rows'[a].state = "absent" => rows'[a].steps = <<>>
  <2> TAKE a \in Actions
  <2>1. rows'[a].state = "absent" => Len(rows'[a].steps) = 0 /\ rows'[a].steps \in Seq(Step)
    BY <1>2 DEF Typed, TypeOK, Mirrored, Row
  <2> QED
    BY <2>1, EmptySeq
<1>8. Mirrored'
  BY <1>4, <1>7 DEF Mirrored
<1> QED
  BY <1>5, <1>6, <1>8 DEF Typed

LEMMA TypedInit == Init => Typed
<1> SUFFICES ASSUME Init PROVE Typed
  OBVIOUS
<1> USE ConstantsAssumption
<1>1. AbsentRow \in Row /\ AbsentRow.steps = <<>> /\ AbsentRow.state = "absent"
  BY DEF AbsentRow, Row, RowStates
<1>2. TypeOK
  <2>1. world \in [Actions -> Seq(WorldStates)] /\ \A a \in Actions : Len(world[a]) = Len(rows[a].steps)
    BY <1>1 DEF Init
  <2>2. budget \in Budget
    BY DEF Init, Budget
  <2> QED
    BY <1>1, <2>1, <2>2, IdleType DEF Init, TypeOK, Budget
<1>3. Recorded /\ Active /\ Mirrored
  BY <1>1, IdleType DEF Init, Recorded, Active, Mirrored, Stepping
<1> QED
  BY <1>2, <1>3 DEF Typed

LEMMA TypedNext == Typed /\ [Next]_vars => Typed'
<1>1. ASSUME Typed, UNCHANGED vars
      PROVE  Typed'
  BY <1>1 DEF vars, Typed, TypeOK, Recorded, Active, Mirrored
<1>2. ASSUME Typed, Next
      PROVE  Typed'
  BY <1>2, TypedRequests, TypedGates, TypedSteps, TypedFailures, TypedComplete, TypedEnvironment,
     TypedCommitCancel, TypedStopRun, TypedRestart DEF Next
<1> QED
  BY <1>1, <1>2

(* The journal's state keeps its shape: in particular an executor inside a step has recorded it,
   only active rows are executed, and the file holds as many steps of a row as memory does. *)
THEOREM TypeCorrect == Spec => []TypeOK
<1>1. Typed => TypeOK
  BY DEF Typed
<1> QED
  BY <1>1, TypedInit, TypedNext, PTL DEF Spec

-----------------------------------------------------------------------------
(* Mutual exclusion.                                                        *)
(*                                                                         *)
(* Rows keep their order of admission for ever, and an attempt past        *)
(* waitForTurn has no earlier open overlapping row but those it reconciles.*)
(* No action but admission opens a row that was closed, and an admitted    *)
(* row comes last; a resumed row was open all the time; and a reconciled   *)
(* attempt cannot be resumed while its claim is held.                      *)

\* A row's effects never lose its binding's footprint, in memory or in the file.
EffectsCover ==
  \A a \in Actions : /\ rows[a].state # "absent" => Footprint[a] \subseteq rows[a].effects
                     /\ disk[a].state # "absent" => Footprint[a] \subseteq disk[a].effects

\* Rows are numbered in their order of admission.
Ordered ==
  /\ \A a \in Actions : born[a] = 0 <=> rows[a].state = "absent"
  /\ \A a \in Actions : born[a] <= Cardinality({b \in Actions : born[b] > 0})
  /\ \A a, b \in Actions : born[a] = born[b] /\ born[a] > 0 => a = b

\* While an attempt reconciles another, that one exists and is not executed.
Reconciling ==
  \A a, b \in Actions : run[a].pc # "idle" /\ b \in Reconciles[a] =>
    run[b].pc = "idle" /\ rows[b].state # "absent"

\* Past waitForTurn, every earlier overlapping row is closed or reconciled.
HasTurn ==
  \A a, b \in Actions :
    Inside(a) /\ Earlier(b, a) /\ effectsOverlap(Footprint[a], Footprint[b]) =>
      ~isOpen(rows[b]) \/ b \in Reconciles[a]

TurnInv == Typed /\ EffectsCover /\ Ordered /\ Reconciling /\ HasTurn

-----------------------------------------------------------------------------
(* Most actions only touch one attempt, open nothing and let nobody in.     *)

InsidePhases == {"prepare", "run", "step", "effect", "sent", "await", "outcome", "result"}

Gentle(a) ==
  /\ born' = born
  /\ \A b \in Actions : b # a => rows'[b] = rows[b] /\ disk'[b] = disk[b] /\ run'[b] = run[b]
  /\ rows'[a].state = "absent" <=> rows[a].state = "absent"
  /\ isOpen(rows'[a]) => isOpen(rows[a])
  /\ rows[a].effects \subseteq rows'[a].effects
  /\ disk'[a] = disk[a] \/ disk'[a] = rows'[a]
  /\ run'[a].pc # "idle" => run[a].pc # "idle"
  /\ run'[a].pc \in InsidePhases => run[a].pc \in InsidePhases

LEMMA InsideIs == \A a : Inside(a) <=> run[a].pc \in InsidePhases
BY DEF Inside, InsidePhases

LEMMA InsideWas == \A a : Inside(a)' <=> run'[a].pc \in InsidePhases
BY DEF Inside, InsidePhases

LEMMA GentleKeeps ==
  ASSUME TurnInv, Typed', NEW a \in Actions, Gentle(a)
  PROVE  TurnInv'
<1>1. \A b \in Actions : rows'[b].state = "absent" <=> rows[b].state = "absent"
  BY DEF Gentle
<1>2. \A b \in Actions : run'[b].pc # "idle" => run[b].pc # "idle"
  BY DEF Gentle
<1>3. \A b \in Actions : isOpen(rows'[b]) => isOpen(rows[b])
  BY DEF Gentle
<1>4. \A b \in Actions : Inside(b)' => Inside(b)
  BY InsideIs, InsideWas DEF Gentle
<1>5. EffectsCover'
  BY <1>1 DEF Gentle, TurnInv, EffectsCover
<1>6. Ordered'
  BY <1>1 DEF Gentle, TurnInv, Ordered
<1>7. Reconciling'
  BY <1>1, <1>2 DEF TurnInv, Reconciling
<1>8. HasTurn'
  <2> SUFFICES ASSUME NEW b \in Actions, NEW c \in Actions, Inside(b)', Earlier(c, b)',
                      effectsOverlap(Footprint[b], Footprint[c]), isOpen(rows'[c])
               PROVE  c \in Reconciles[b]
    BY DEF HasTurn, effectsOverlap, isOpen
  <2>1. Inside(b) /\ Earlier(c, b) /\ isOpen(rows[c])
    BY <1>3, <1>4 DEF Gentle, Earlier
  <2> QED
    BY <2>1 DEF TurnInv, HasTurn
<1> QED
  BY <1>5, <1>6, <1>7, <1>8 DEF TurnInv

(* Nothing of a row but its steps and flags changes. *)
LEMMA GentleCommit ==
  ASSUME Typed, NEW a \in Actions, NEW row, NEW next,
         \/ Commit(a, row)
         \/ UNCHANGED <<rows, disk>> /\ row = rows[a],
         Keep(a, next), born' = born,
         row.state = "absent" <=> rows[a].state = "absent",
         isOpen(row) => isOpen(rows[a]),
         rows[a].effects \subseteq row.effects,
         next.pc # "idle" => run[a].pc # "idle",
         next.pc \in InsidePhases => run[a].pc \in InsidePhases
  PROVE  Gentle(a)
<1>1. rows \in [Actions -> Row] /\ disk \in [Actions -> Row] /\ run \in [Actions -> Run]
  BY DEF Typed, TypeOK
<1>2. /\ rows'[a] = row /\ (disk'[a] = disk[a] \/ disk'[a] = row)
      /\ \A b \in Actions : b # a => rows'[b] = rows[b] /\ disk'[b] = disk[b]
  BY <1>1 DEF Commit
<1>3. run'[a] = next /\ \A b \in Actions : b # a => run'[b] = run[b]
  BY <1>1 DEF Keep
<1> QED
  BY <1>2, <1>3 DEF Gentle

(* An executor works in its own row, whose effects only grow. *)
LEMMA GentleInside ==
  ASSUME Typed, NEW a \in Actions, NEW row, NEW next,
         run[a].pc \in InsidePhases,
         \/ Commit(a, row)
         \/ UNCHANGED <<rows, disk>> /\ row = rows[a],
         Keep(a, next), born' = born,
         row.state = rows[a].state, rows[a].effects \subseteq row.effects
  PROVE  Gentle(a)
BY GentleCommit DEF InsidePhases, isOpen

LEMMA GentleSetStep ==
  ASSUME NEW a \in Actions, NEW step
  PROVE  Typed => /\ SetStep(a, step).state = rows[a].state
                  /\ SetStep(a, step).effects = rows[a].effects
BY DEF SetStep, Typed, TypeOK, Row

LEMMA GentleSteps ==
  ASSUME Typed, NEW a \in Actions, StepMoves(a) \/ Retire(a)
  PROVE  Gentle(a)
<1>1. rows[a] \in Row
  BY DEF Typed, TypeOK
<1>2. ASSUME NEW next, Keep(a, next), UNCHANGED <<rows, disk, born>>, run[a].pc \in InsidePhases
      PROVE  Gentle(a)
  BY <1>2, GentleInside
<1>3. ASSUME NEW step, NEW next, born' = born, run[a].pc \in InsidePhases,
             \/ Save(a, SetStep(a, step), next)
             \/ Commit(a, SetStep(a, step)) /\ Keep(a, next)
      PROVE  Gentle(a)
  BY <1>3, GentleSetStep, GentleInside DEF Save
<1>4. CASE Discover(a)
  <2> DEFINE row == [rows[a] EXCEPT !.effects = @ \cup Undiscovered(a)]
  <2>1. row.state = rows[a].state /\ rows[a].effects \subseteq row.effects
    BY <1>1 DEF Row
  <2>2. Commit(a, row) /\ \E next : Keep(a, next)
    BY <1>4 DEF Discover, Save
  <2> HIDE DEF row
  <2> QED
    BY <1>4, <2>1, <2>2, GentleInside DEF Discover, InsidePhases
<1>5. CASE Replay(a)
  <2>1. PICK next : Keep(a, next)
    BY <1>5 DEF Replay
  <2> QED
    BY <1>2, <1>5, <2>1 DEF Replay, AtOp, InsidePhases
<1>6. CASE Retire(a)
  <2> DEFINE i == run[a].cursor + 1
             row == [rows[a] EXCEPT !.steps[i] = [@ EXCEPT !.state = "failed", !.retired = TRUE]]
  <2>1. row.state = rows[a].state /\ row.effects = rows[a].effects
    BY <1>1 DEF Row
  <2>2. Commit(a, row) /\ \E next : Keep(a, next)
    BY <1>6 DEF Retire, Save
  <2> HIDE DEF row
  <2> QED
    BY <1>6, <2>1, <2>2, GentleInside DEF Retire, AtOp, InsidePhases
<1>7. CASE BeginStep(a)
  <2>1. PICK s : Commit(a, [rows[a] EXCEPT !.steps = s]) /\ \E next : Keep(a, next)
    BY <1>7 DEF BeginStep, Save
  <2> DEFINE row == [rows[a] EXCEPT !.steps = s]
  <2>2. row.state = rows[a].state /\ row.effects = rows[a].effects
    BY <1>1 DEF Row
  <2>3. Commit(a, row)
    BY <2>1
  <2>4. PICK next : Keep(a, next)
    BY <2>1
  <2> HIDE DEF row
  <2> QED
    BY <1>7, <2>2, <2>3, <2>4, GentleInside DEF BeginStep, AtOp, InsidePhases
<1>8. CASE GateStep(a)
  BY <1>2, <1>8 DEF GateStep, InsidePhases
<1>9. CASE Land(a) \/ LandFails(a)
  BY <1>2, <1>9 DEF Land, LandFails, InsidePhases
<1>10. CASE RefuseDispatch(a) \/ Dispatch(a)
  BY <1>2, <1>10 DEF RefuseDispatch, Dispatch, InsidePhases
<1>11. CASE markDispatched(a)
  BY <1>3, <1>11 DEF markDispatched, Unmarked, InsidePhases
<1>12. CASE Answered(a) \/ Declined(a)
  BY <1>2, <1>12 DEF Answered, Declined, InsidePhases
<1>13. CASE RecordFailure(a)
  BY <1>3, <1>13 DEF RecordFailure, InsidePhases
<1>14. CASE RecordSuccess(a)
  BY <1>3, <1>14 DEF RecordSuccess, InsidePhases
<1>15. CASE ExecutorReturns(a)
  BY <1>2, <1>15 DEF ExecutorReturns, InsidePhases
<1>16. CASE Recheck(a)
  <2>1. PICK next : Keep(a, next)
    BY <1>16 DEF Recheck
  <2> QED
    BY <1>2, <1>16, <2>1 DEF Recheck, AtOp, InsidePhases
<1> QED
  BY <1>4, <1>5, <1>6, <1>7, <1>8, <1>9, <1>10, <1>11, <1>12, <1>13, <1>14, <1>15, <1>16 DEF StepMoves

LEMMA GentleFailures ==
  ASSUME Typed, NEW a \in Actions, Failures(a)
  PROVE  Gentle(a)
<1>1. rows[a] \in Row
  BY DEF Typed, TypeOK
<1>2. ASSUME NEW next, Keep(a, next), UNCHANGED <<rows, disk, born>>, run[a].pc \in InsidePhases
      PROVE  Gentle(a)
  BY <1>2, GentleInside
<1>3. CASE PrepareFails(a) \/ ExecutorThrows(a)
  BY <1>2, <1>3 DEF PrepareFails, ExecutorThrows, InsidePhases
<1>4. CASE MarkFails(a) \/ Interrupts(a) \/ RecordFails(a)
  BY <1>2, <1>4 DEF MarkFails, Unmarked, Interrupts, RecordFails, InsidePhases
<1>5. CASE CompleteFails(a)
  <2>1. /\ rows'[a].state = "unknown" /\ rows'[a].effects = rows[a].effects
        /\ \A b \in Actions : b # a => rows'[b] = rows[b]
    BY <1>1, <1>5 DEF CompleteFails, Typed, TypeOK, Row
  <2>2. run'[a].pc = "idle" /\ \A b \in Actions : b # a => run'[b] = run[b]
    BY <1>5, IdleType DEF CompleteFails, Keep, Typed, TypeOK
  <2>3. rows[a].state \in {"waiting", "running"}
    BY <1>5 DEF CompleteFails, Typed, Active
  <2> QED
    BY <1>5, <2>1, <2>2, <2>3 DEF CompleteFails, Gentle, isOpen, OpenStates, InsidePhases
<1> QED
  BY <1>3, <1>4, <1>5 DEF Failures

LEMMA GentleGates ==
  ASSUME Typed, NEW a \in Actions,
         Authorize(a) \/ Consent(a) \/ TurnGate(a) \/ Prepare(a)
  PROVE  Gentle(a)
<1>1. rows[a] \in Row /\ run[a] \in Run
  BY DEF Typed, TypeOK
<1> DEFINE outs == {"consent", "turn", "turnCheck", "settling"}
<1>2. \A err : Ends(run[a], err).pc = "settling"
  BY <1>1 DEF Ends, Run
<1>3. \A pc : [run[a] EXCEPT !.pc = pc].pc = pc
  BY <1>1 DEF Run
<1>4. ASSUME NEW next, Keep(a, next), UNCHANGED <<rows, disk, born>>, run[a].pc # "idle",
             next.pc \in outs
      PROVE  Gentle(a)
  BY <1>4, GentleCommit DEF InsidePhases
<1>5. CASE Authorize(a) \/ TurnGate(a)
  <2>1. PICK next : Keep(a, next) /\ next.pc \in outs
    BY <1>2, <1>3, <1>5 DEF Authorize, TurnGate
  <2> QED
    BY <1>4, <1>5, <2>1 DEF Authorize, TurnGate
<1>6. CASE Consent(a)
  <2> DEFINE row == [rows[a] EXCEPT !.state = "running"]
  <2>1. row.state = "running" /\ row.effects = rows[a].effects
    BY <1>1 DEF Row
  <2> DEFINE gate == Gate(a, rows[a].cancelReq)
             next == IF gate = "none" THEN [run[a] EXCEPT !.pc = "turn"] ELSE Ends(run[a], gate)
             after == [next EXCEPT !.known = row.cancelReq]
  <2>2. next \in Run /\ next.pc \in {"turn", "settling"}
    BY <1>1, AfterGate DEF Row, Phases
  <2>3. Commit(a, row) /\ Keep(a, after)
    BY <1>6 DEF Consent, Save
  <2> HIDE DEF next
  <2>4. after.pc \in outs
    BY <2>2 DEF Run
  <2>5. rows[a].state \in {"waiting", "running"} /\ run[a].pc = "consent"
    BY <1>6 DEF Consent, Typed, Active
  <2> HIDE DEF row, after
  <2> QED
    BY <1>6, <2>1, <2>3, <2>4, <2>5, GentleCommit DEF Consent, isOpen, OpenStates, InsidePhases
<1>7. CASE Prepare(a)
  <2> DEFINE saved == [rows[a] EXCEPT !.prepared = TRUE]
  <2>1. saved.state = rows[a].state /\ saved.effects = rows[a].effects
    BY <1>1 DEF Row
  <2>2. PICK next : Keep(a, next) /\ (Commit(a, saved) \/ UNCHANGED <<rows, disk>>)
    BY <1>7 DEF Prepare, Save
  <2>3. run[a].pc \in InsidePhases
    BY <1>7 DEF Prepare, InsidePhases
  <2> HIDE DEF saved
  <2>4. CASE Commit(a, saved)
    BY <1>7, <2>1, <2>2, <2>3, <2>4, GentleInside DEF Prepare
  <2>5. CASE UNCHANGED <<rows, disk>>
    BY <1>7, <2>2, <2>3, <2>5, GentleInside DEF Prepare
  <2> QED
    BY <2>2, <2>4, <2>5
<1> QED
  BY <1>5, <1>6, <1>7

LEMMA GentleSettling ==
  ASSUME Typed, NEW a \in Actions, Complete(a) \/ Cancel(a) \/ Recover(a) \/ Environment(a)
  PROVE  Gentle(a)
<1>1. rows[a] \in Row /\ run[a] \in Run
  BY DEF Typed, TypeOK
<1>2. ASSUME UNCHANGED <<rows, disk, run, born>>
      PROVE  Gentle(a)
  BY <1>2 DEF Gentle, isOpen
<1>3. CASE Complete(a)
  <2>1. Finished(a).effects = rows[a].effects /\ Finished(a).state \in SettledStates
    <3>1. rows[a].prepared \in BOOLEAN /\ run[a].err \in Causes /\ run[a].err # "recovered"
      BY <1>1 DEF Row, Run, Endings, Errors, Causes
    <3> DEFINE settled == Settle(rows[a].prepared, rows[a].steps, run[a].err)
               s == Interrupted(rows[a].steps)
    <3>2. settled.state \in SettledStates
      BY <3>1, SettleType
    <3>3. Finished(a) = [rows[a] EXCEPT !.state = settled.state, !.notDispatched = settled.notDispatched,
                                        !.steps = s, !.cancelReq = run[a].known]
      BY DEF Finished
    <3> HIDE DEF settled, s
    <3> QED
      BY <1>1, <3>2, <3>3 DEF Row
  <2>2. Commit(a, Finished(a)) /\ Keep(a, IdleRun)
    BY <1>3 DEF Complete
  <2>3. rows[a].state \in {"waiting", "running"}
    BY <1>3 DEF Complete, Typed, Active
  <2>4. rows[a].state # "absent" /\ Finished(a).state # "absent" /\ isOpen(rows[a])
    BY <2>1, <2>3 DEF isOpen, OpenStates, SettledStates
  <2> QED
    BY <1>3, <2>1, <2>2, <2>4, IdleType, GentleCommit DEF Complete, InsidePhases
<1>4. CASE Cancel(a)
  BY <1>2, <1>4 DEF Cancel
<1>5. CASE Recover(a)
  <2>1. PICK row \in Row :
          /\ row.effects = rows[a].effects
          /\ row.state = rows[a].state \/ row.state \in SettledStates
          /\ Commit(a, row) /\ Keep(a, run[a])
    BY <1>5, RecoverIs
  <2>2. rows[a].state \in {"unknown", "incomplete"} /\ born' = born
    BY <1>5, RecoverIs
  <2>3. isOpen(rows[a]) /\ rows[a].state # "absent" /\ row.state # "absent"
    BY <2>1, <2>2 DEF isOpen, OpenStates, SettledStates
  <2> QED
    BY <2>1, <2>2, <2>3, GentleCommit
<1>6. CASE Environment(a)
  BY <1>2, <1>6 DEF Environment, EvidenceMoves, NativePerforms, ResultGone, journalVars
<1> QED
  BY <1>3, <1>4, <1>5, <1>6

LEMMA GentleCancel ==
  ASSUME Typed, NEW a \in Actions, NEW who \in {"caller", "run"}, CommitCancel(a, who)
  PROVE  Gentle(a)
<1>1. rows[a] \in Row /\ run[a] \in Run
  BY DEF Typed, TypeOK
<1> DEFINE row    == [rows[a] EXCEPT !.cancelReq = TRUE]
           told   == [run[a] EXCEPT !.known = TRUE]
           denied == Ends(run[a], "refused499")
           next   == IF who = "run" THEN told ELSE IF run[a].pc = "consent" THEN denied ELSE run[a]
<1>2. Commit(a, row) /\ Keep(a, next)
  BY DEF CommitCancel
<1>3. row.state = rows[a].state /\ row.effects = rows[a].effects
  BY <1>1 DEF Row
<1>4. told.pc = run[a].pc /\ denied.pc = "settling"
  BY <1>1 DEF Run, Ends
<1> HIDE DEF row, told, denied
<1>5. next.pc = run[a].pc \/ (next.pc = "settling" /\ run[a].pc = "consent")
  BY <1>4
<1> HIDE DEF next
<1>6. isOpen(row) => isOpen(rows[a])
  BY <1>3 DEF isOpen
<1> QED
  BY <1>2, <1>3, <1>5, <1>6, GentleCommit DEF CommitCancel, InsidePhases

-----------------------------------------------------------------------------
(* The actions that open a row, or let an attempt in.                       *)

(* An inserted row comes after all the others. *)
LEMMA InsertLast ==
  ASSUME Typed, Ordered, NEW a \in Actions, Insert(a), rows[a].state = "absent",
         rows'[a].state # "absent", \A b \in Actions : b # a => rows'[b] = rows[b]
  PROVE  Ordered' /\ \A b \in Actions : ~Earlier(a, b)' /\ (b # a => born'[b] = born[b])
<1> USE ConstantsAssumption
<1> DEFINE old == {b \in Actions : born[b] > 0}
           n == Cardinality(old)
<1>1. IsFiniteSet(old) /\ n \in Nat
  BY FS_Subset, FS_CardinalityType
<1>2. born \in [Actions -> Nat] /\ born[a] = 0 /\ a \notin old
  BY DEF Typed, TypeOK, Ordered
<1>3. born' = [born EXCEPT ![a] = 1 + n]
  BY DEF Insert
<1>4. Cardinality(old \cup {a}) = n + 1
  BY <1>1, <1>2, FS_AddElement
<1>5. \A b \in Actions : born[b] <= n
  BY DEF Ordered
<1> HIDE DEF n, old
<1>6. born'[a] = 1 + n /\ \A b \in Actions : b # a => born'[b] = born[b]
  BY <1>2, <1>3
<1>7. \A b \in Actions : born[b] \in Nat
  BY <1>2
<1>8. {b \in Actions : born'[b] > 0} = old \cup {a}
  BY <1>1, <1>6 DEF old
<1>9. \A b \in Actions : born'[b] = 0 <=> rows'[b].state = "absent"
  <2> TAKE b \in Actions
  <2>1. CASE b = a
    BY <1>1, <1>6, <2>1
  <2>2. CASE b # a
    BY <1>6, <2>2 DEF Ordered
  <2> QED
    BY <2>1, <2>2
<1>10. \A b \in Actions : born'[b] \in Nat /\ born'[b] <= n + 1 /\ (b # a => born'[b] < born'[a])
  <2> TAKE b \in Actions
  <2>1. n \in Nat /\ born[b] \in Nat /\ born[b] <= n
    BY <1>1, <1>5, <1>7
  <2>2. CASE b = a
    BY <1>6, <2>1, <2>2
  <2>3. CASE b # a
    BY <1>6, <2>1, <2>3
  <2> QED
    BY <2>2, <2>3
<1>11. \A b, c \in Actions : born'[b] = born'[c] /\ born'[b] > 0 => b = c
  <2> TAKE b, c \in Actions
  <2>1. CASE b # a /\ c # a
    BY <1>6, <2>1 DEF Ordered
  <2>2. CASE (b = a) # (c = a)
    BY <1>10, <2>2
  <2> QED
    BY <2>1, <2>2
<1>12. Ordered'
  <2>1. Cardinality({b \in Actions : born'[b] > 0}) = n + 1
    BY <1>4, <1>8
  <2>2. \A b \in Actions : born'[b] <= Cardinality({c \in Actions : born'[c] > 0})
    BY <1>10, <2>1
  <2> QED
    BY <1>9, <1>11, <2>2, Zenon DEF Ordered
<1>13. \A b \in Actions : ~(born'[a] < born'[b])
  BY <1>10
<1> QED
  BY <1>6, <1>12, <1>13 DEF Earlier

LEMMA AdmitKeeps ==
  ASSUME TurnInv, Typed', NEW a \in Actions, Admit(a) \/ Reject(a)
  PROVE  TurnInv'
<1> DEFINE row == rows'[a]
<1>1. rows \in [Actions -> Row] /\ disk \in [Actions -> Row] /\ run \in [Actions -> Run]
  BY DEF TurnInv, Typed, TypeOK
<1>2. /\ row = disk'[a] /\ row.effects = Footprint[a] /\ row.state \in {"waiting", "running", "failed"}
      /\ \A b \in Actions : b # a => rows'[b] = rows[b] /\ disk'[b] = disk[b]
  <2>1. \A effects : FirstState(a, effects) \in {"waiting", "running"}
    BY DEF FirstState
  <2>2. CASE Admit(a)
    <3> DEFINE new == [AbsentRow EXCEPT !.state = FirstState(a, Footprint[a]),
                                        !.effects = Footprint[a]]
    <3>1. new.effects = Footprint[a] /\ new.state = FirstState(a, Footprint[a])
      BY DEF AbsentRow
    <3>2. Commit(a, new)
      BY <2>2 DEF Admit
    <3> HIDE DEF new
    <3> QED
      BY <1>1, <2>1, <3>1, <3>2 DEF Commit
  <2>3. CASE Reject(a)
    <3> DEFINE new == [AbsentRow EXCEPT !.state = "failed", !.notDispatched = TRUE,
                                        !.effects = Footprint[a]]
    <3>1. new.effects = Footprint[a] /\ new.state = "failed"
      BY DEF AbsentRow
    <3>2. Commit(a, new)
      BY <2>3 DEF Reject
    <3> HIDE DEF new
    <3> QED
      BY <1>1, <3>1, <3>2 DEF Commit
  <2> QED
    BY <2>2, <2>3
<1> HIDE DEF row
<1>3. rows[a].state = "absent" /\ row.state # "absent" /\ Insert(a)
  BY <1>2 DEF Admit, Reject
<1>4. run[a].pc = "idle"
  BY <1>3 DEF TurnInv, Typed, Active
<1>5. /\ \A b \in Actions : b # a => run'[b] = run[b]
      /\ Reject(a) => run'[a] = run[a]
      /\ Admit(a) => run'[a].pc = "authorize"
  BY <1>1 DEF Admit, Reject, Keep, NewRun, IdleRun
<1>6. ~Inside(a)'
  BY <1>4, <1>5 DEF Inside
<1>7. EffectsCover'
  BY <1>2 DEF TurnInv, EffectsCover, row
<1>8. Ordered' /\ \A b \in Actions : ~Earlier(a, b)' /\ (b # a => born'[b] = born[b])
  BY <1>2, <1>3, InsertLast DEF TurnInv, row
<1>9. Reconciling'
  <2> SUFFICES ASSUME NEW b \in Actions, NEW c \in Actions, run'[b].pc # "idle", c \in Reconciles[b]
               PROVE  run'[c].pc = "idle" /\ rows'[c].state # "absent"
    BY DEF Reconciling
  <2>1. CASE b = a
    <3>1. Reconcilable(c)
      BY <1>4, <1>5, <2>1 DEF Admit, Reject, Admissible
    <3>2. c # a
      BY <2>1, ConstantsAssumption
    <3> QED
      BY <1>2, <1>5, <3>1, <3>2 DEF Reconcilable
  <2>2. CASE b # a
    <3>1. run[b].pc # "idle"
      BY <1>5, <2>2
    <3>2. run[c].pc = "idle" /\ rows[c].state # "absent"
      BY <3>1 DEF TurnInv, Reconciling
    <3> QED
      BY <1>2, <1>3, <1>5, <3>2
  <2> QED
    BY <2>1, <2>2
<1>10. HasTurn'
  <2> SUFFICES ASSUME NEW b \in Actions, NEW c \in Actions, Inside(b)', Earlier(c, b)',
                      effectsOverlap(Footprint[b], Footprint[c]), isOpen(rows'[c])
               PROVE  c \in Reconciles[b]
    BY DEF HasTurn, effectsOverlap, isOpen
  <2>1. b # a /\ c # a
    BY <1>6, <1>8
  <2>2. Inside(b) /\ Earlier(c, b) /\ isOpen(rows[c])
    BY <1>2, <1>5, <1>8, <2>1 DEF Inside, Earlier
  <2> QED
    BY <2>2 DEF TurnInv, HasTurn
<1> QED
  BY <1>7, <1>8, <1>9, <1>10 DEF TurnInv

LEMMA ResumeKeeps ==
  ASSUME TurnInv, Typed', NEW a \in Actions, Resume(a)
  PROVE  TurnInv'
<1> DEFINE row == [rows[a] EXCEPT !.state = FirstState(a, rows[a].effects),
                                  !.cancelReq = FALSE, !.notDispatched = FALSE]
<1>1. rows \in [Actions -> Row] /\ disk \in [Actions -> Row] /\ run \in [Actions -> Run]
  BY DEF TurnInv, Typed, TypeOK
<1>2. row.effects = rows[a].effects /\ row.state \in {"waiting", "running"}
  BY <1>1 DEF Row, FirstState
<1>3. rows' = [rows EXCEPT ![a] = row] /\ disk' = [disk EXCEPT ![a] = row]
  BY DEF Resume, Commit
<1> HIDE DEF row
<1>4. /\ rows'[a] = row /\ disk'[a] = row
      /\ \A b \in Actions : b # a => rows'[b] = rows[b] /\ disk'[b] = disk[b]
  BY <1>1, <1>3
<1>5. run'[a].pc = "authorize" /\ \A b \in Actions : b # a => run'[b] = run[b]
  BY <1>1 DEF Resume, Keep, NewRun, IdleRun
<1>6. rows[a].state \in {"unknown", "incomplete"} /\ born' = born
  BY DEF Resume
<1>7. EffectsCover'
  BY <1>2, <1>4, <1>6 DEF TurnInv, EffectsCover
<1>8. Ordered'
  BY <1>2, <1>4, <1>6 DEF TurnInv, Ordered
<1>9. Reconciling'
  <2> SUFFICES ASSUME NEW b \in Actions, NEW c \in Actions, run'[b].pc # "idle", c \in Reconciles[b]
               PROVE  run'[c].pc = "idle" /\ rows'[c].state # "absent"
    BY DEF Reconciling
  <2>1. c # b
    BY ConstantsAssumption
  <2>2. CASE b = a
    <3>1. Reconcilable(c)
      BY <2>2 DEF Resume, Admissible
    <3> QED
      BY <1>4, <1>5, <2>1, <2>2, <3>1 DEF Reconcilable
  <2>3. CASE b # a
    <3>1. run[b].pc # "idle" /\ rows[b].state \in {"waiting", "running"}
      BY <1>5, <2>3 DEF TurnInv, Typed, Active
    <3>2. c # a
      <4>1. c = a => HoldsReconciliation(b, a)
        BY <3>1 DEF HoldsReconciliation, HoldsClaims
      <4> QED
        BY <2>3, <4>1 DEF Resume
    <3>3. run[c].pc = "idle" /\ rows[c].state # "absent"
      BY <3>1 DEF TurnInv, Reconciling
    <3> QED
      BY <1>4, <1>5, <3>2, <3>3
  <2> QED
    BY <2>2, <2>3
<1>10. HasTurn'
  <2> SUFFICES ASSUME NEW b \in Actions, NEW c \in Actions, Inside(b)', Earlier(c, b)',
                      effectsOverlap(Footprint[b], Footprint[c]), isOpen(rows'[c])
               PROVE  c \in Reconciles[b]
    BY DEF HasTurn, effectsOverlap, isOpen
  <2>1. b # a /\ Inside(b)
    BY <1>5 DEF Inside
  <2>2. Earlier(c, b)
    BY <1>6 DEF Earlier
  <2>3. isOpen(rows[c])
    BY <1>4, <1>6 DEF isOpen, OpenStates
  <2> QED
    BY <2>1, <2>2, <2>3 DEF TurnInv, HasTurn
<1> QED
  BY <1>7, <1>8, <1>9, <1>10 DEF TurnInv

LEMMA TurnCheckKeeps ==
  ASSUME TurnInv, Typed', NEW a \in Actions, TurnCheck(a)
  PROVE  TurnInv'
<1>1. rows \in [Actions -> Row] /\ run \in [Actions -> Run] /\ run[a] \in Run
  BY DEF TurnInv, Typed, TypeOK
<1>2. rows' = rows /\ disk' = disk /\ born' = born
  BY DEF TurnCheck
<1>3. run[a].pc = "turnCheck" /\ rows[a].state \in {"waiting", "running"}
  BY DEF TurnCheck, TurnInv, Typed, Active
<1>4. \A b \in Actions : b # a => run'[b] = run[b]
  BY <1>1 DEF TurnCheck, Keep
<1>5. Blockers(a) # {} => run'[a].pc \in {"settling", "turn"}
  <2> SUFFICES ASSUME Blockers(a) # {}
               PROVE  run'[a].pc \in {"settling", "turn"}
    OBVIOUS
  <2>1. Ends(run[a], "plain").pc = "settling" /\ [run[a] EXCEPT !.pc = "turn"].pc = "turn"
    BY <1>1 DEF Ends, Run
  <2>2. PICK next \in {Ends(run[a], "plain"), [run[a] EXCEPT !.pc = "turn"]} : Keep(a, next)
    BY Zenon DEF TurnCheck
  <2>3. run'[a] = next
    BY <1>1, <2>2 DEF Keep
  <2> QED
    BY <2>1, <2>2, <2>3
<1>6. EffectsCover' /\ Ordered'
  BY <1>2 DEF TurnInv, EffectsCover, Ordered
<1>7. Reconciling'
  BY <1>2, <1>3, <1>4 DEF TurnInv, Reconciling
<1>8. HasTurn'
  <2> SUFFICES ASSUME NEW b \in Actions, NEW c \in Actions, Inside(b)', Earlier(c, b)',
                      effectsOverlap(Footprint[b], Footprint[c]), isOpen(rows'[c])
               PROVE  c \in Reconciles[b]
    BY DEF HasTurn, effectsOverlap, isOpen
  <2>1. Earlier(c, b) /\ isOpen(rows[c])
    BY <1>2 DEF Earlier
  <2>2. CASE b # a
    <3>1. Inside(b)
      BY <1>4, <2>2 DEF Inside
    <3> QED
      BY <2>1, <3>1 DEF TurnInv, HasTurn
  <2>3. CASE b = a
    <3>1. Blockers(a) = {}
      BY <1>5, <2>3 DEF Inside
    <3>2. Footprint[a] \subseteq rows[a].effects
      BY <1>3 DEF TurnInv, EffectsCover
    <3>3. rows[c].state # "absent"
      BY <2>1 DEF isOpen, OpenStates
    <3>4. Footprint[c] \subseteq rows[c].effects
      BY <3>3 DEF TurnInv, EffectsCover
    <3>5. effectsOverlap(rows[a].effects, rows[c].effects)
      BY <2>3, <3>2, <3>4 DEF effectsOverlap
    <3> QED
      BY <2>1, <2>3, <3>1, <3>5 DEF Blockers
  <2> QED
    BY <2>2, <2>3
<1> QED
  BY <1>6, <1>7, <1>8 DEF TurnInv

LEMMA StopRunKeeps ==
  ASSUME TurnInv, Typed', StopRun
  PROVE  TurnInv'
<1>1. rows' = rows /\ disk' = disk /\ born' = born
  BY DEF StopRun
<1>2. \A a \in Actions : run'[a].pc = run[a].pc \/ (run'[a].pc = "settling" /\ run[a].pc = "consent")
  <2> TAKE a \in Actions
  <2> DEFINE denied == Ends(run[a], "refused499")
  <2>1. run[a] \in Run
    BY DEF TurnInv, Typed, TypeOK
  <2>2. denied.pc = "settling"
    BY <2>1 DEF Ends, Run
  <2>3. (run'[a] = denied /\ run[a].pc = "consent") \/ run'[a] = run[a]
    BY DEF StopRun
  <2> HIDE DEF denied
  <2> QED
    BY <2>2, <2>3
<1>3. EffectsCover' /\ Ordered'
  BY <1>1 DEF TurnInv, EffectsCover, Ordered
<1>4. Reconciling'
  BY <1>1, <1>2 DEF TurnInv, Reconciling
<1>5. \A a \in Actions : Inside(a)' => Inside(a)
  BY <1>2 DEF Inside
<1>6. HasTurn'
  BY <1>1, <1>5 DEF TurnInv, HasTurn, Earlier, effectsOverlap, isOpen
<1> QED
  BY <1>3, <1>4, <1>6 DEF TurnInv

LEMMA RestartKeeps ==
  ASSUME TurnInv, Typed', Restart
  PROVE  TurnInv'
<1>1. \A a \in Actions : run'[a].pc = "idle" /\ rows'[a] = Loaded(disk[a]) /\ disk'[a] = rows'[a]
  BY IdleType DEF Restart
<1>2. \A a \in Actions : disk[a] \in Row
  BY DEF TurnInv, Typed, TypeOK
<1>3. \A a \in Actions : /\ rows'[a].effects = disk[a].effects
                         /\ rows'[a].state = "absent" <=> disk[a].state = "absent"
  BY <1>1, <1>2, LoadedType
<1>4. EffectsCover'
  BY <1>1, <1>3 DEF TurnInv, EffectsCover
<1>5. Ordered'
  BY <1>3 DEF Restart, TurnInv, Ordered, Typed, Mirrored
<1>6. Reconciling' /\ HasTurn'
  BY <1>1 DEF Reconciling, HasTurn, Inside
<1> QED
  BY <1>4, <1>5, <1>6 DEF TurnInv

LEMMA TurnInit == Init => TurnInv
<1> SUFFICES ASSUME Init PROVE TurnInv
  OBVIOUS
<1> USE ConstantsAssumption
<1>1. \A a \in Actions : /\ rows[a].state = "absent" /\ disk[a].state = "absent"
                         /\ born[a] = 0 /\ run[a].pc = "idle"
  BY IdleType DEF Init, AbsentRow
<1>2. EffectsCover /\ Reconciling /\ HasTurn
  BY <1>1 DEF EffectsCover, Reconciling, HasTurn, Inside
<1>3. Ordered
  <2>1. {b \in Actions : born[b] > 0} = {}
    BY <1>1
  <2>2. Cardinality({b \in Actions : born[b] > 0}) = 0
    BY <2>1, FS_EmptySet
  <2> QED
    <3>1. \A a \in Actions : born[a] = 0 /\ rows[a].state = "absent" /\ ~(born[a] > 0)
      BY <1>1
    <3>2. \A a \in Actions : born[a] <= Cardinality({b \in Actions : born[b] > 0})
      BY <2>2, <3>1
    <3> QED
      BY <3>1, <3>2, Zenon DEF Ordered
<1> QED
  BY <1>2, <1>3, TypedInit DEF TurnInv

LEMMA TurnNext == TurnInv /\ [Next]_vars => TurnInv'
<1> SUFFICES ASSUME TurnInv, [Next]_vars
             PROVE  TurnInv'
  OBVIOUS
<1>1. Typed /\ Typed'
  BY TypedNext DEF TurnInv
<1>2. ASSUME NEW a \in Actions, Gentle(a)
      PROVE  TurnInv'
  BY <1>1, <1>2, GentleKeeps
<1>3. ASSUME NEW a \in Actions, Requests(a)
      PROVE  TurnInv'
  BY <1>1, <1>2, <1>3, AdmitKeeps, ResumeKeeps, GentleSettling DEF Requests
<1>4. ASSUME NEW a \in Actions, Gates(a)
      PROVE  TurnInv'
  BY <1>1, <1>2, <1>4, TurnCheckKeeps, GentleGates DEF Gates
<1>5. ASSUME NEW a \in Actions, StepMoves(a) \/ Retire(a) \/ Failures(a)
      PROVE  TurnInv'
  BY <1>1, <1>2, <1>5, GentleSteps, GentleFailures
<1>6. ASSUME NEW a \in Actions, Complete(a) \/ Environment(a)
      PROVE  TurnInv'
  BY <1>1, <1>2, <1>6, GentleSettling
<1>7. ASSUME NEW a \in Actions, NEW who \in {"caller", "run"}, CommitCancel(a, who)
      PROVE  TurnInv'
  BY <1>1, <1>2, <1>7, GentleCancel
<1>8. CASE StopRun \/ Restart
  BY <1>1, <1>8, StopRunKeeps, RestartKeeps
<1>9. CASE UNCHANGED vars
  BY <1>1, <1>9 DEF vars, TurnInv, EffectsCover, Ordered, Reconciling, HasTurn, Inside, Earlier, isOpen
<1> QED
  BY <1>3, <1>4, <1>5, <1>6, <1>7, <1>8, <1>9 DEF Next

(* Two attempts whose footprints overlap are never both past waitForTurn: not after a resume in
   an old place, a reconciliation, a failed commit, a recovery or a restart. *)
THEOREM Excluded == Spec => []Exclusion
<1>1. TurnInv => Exclusion
  <2> SUFFICES ASSUME TurnInv, NEW a \in Actions, NEW b \in Actions, a # b,
                      effectsOverlap(Footprint[a], Footprint[b]), Inside(a), Inside(b)
               PROVE  FALSE
    BY DEF Exclusion
  <2>1. \A c \in {a, b} : isOpen(rows[c]) /\ run[c].pc # "idle" /\ born[c] \in Nat /\ born[c] # 0
    BY DEF TurnInv, Typed, TypeOK, Active, Ordered, Inside, isOpen, OpenStates
  <2>2. Earlier(a, b) \/ Earlier(b, a)
    <3>1. born[a] # born[b]
      BY <2>1 DEF TurnInv, Ordered
    <3> QED
      BY <2>1, <3>1 DEF Earlier
  <2>3. effectsOverlap(Footprint[b], Footprint[a])
    BY DEF effectsOverlap
  <2>4. a \in Reconciles[b] \/ b \in Reconciles[a]
    BY <2>1, <2>2, <2>3 DEF TurnInv, HasTurn
  <2> QED
    BY <2>1, <2>4 DEF TurnInv, Reconciling
<1> QED
  BY <1>1, TurnInit, TurnNext, PTL DEF Spec

(* An attempt another one reconciles is not executed meanwhile. *)
THEOREM ReconciledStaysIdle == Spec => []ReconciledIdle
<1>1. TurnInv => ReconciledIdle
  BY DEF TurnInv, Reconciling, ReconciledIdle
<1> QED
  BY <1>1, TurnInit, TurnNext, PTL DEF Spec

-----------------------------------------------------------------------------
(* The settlement comment, for attempts of any length: an attempt is a     *)
(* preparation and the steps recorded after it, apart from the journal.     *)

(* Steps exist only after the preparation of their attempt. *)
StepsPrepared == ~ready => recorded = <<>>

(* settle keeps the promises of its comment for every list of steps and every ending. *)
LEMMA SettleIsSound ==
  ASSUME NEW p \in BOOLEAN, NEW s, NEW cause \in Causes, ~p => s = <<>>
  PROVE  SettlesSoundly(p, s, cause)
<1> DEFINE settled == Settle(p, s, cause)
<1>1. Some(s, {"unknown", "running"}) => settled.state = "unknown"
  BY DEF Settle, Outcome
<1>2. ExternalEffect(s) /\ cause # "returned" => settled.state \notin {"failed", "succeeded"}
  <2> SUFFICES ASSUME ExternalEffect(s), cause # "returned"
               PROVE  settled.state \notin {"failed", "succeeded"}
    OBVIOUS
  <2>1. p
    BY DEF ExternalEffect
  <2> QED
    BY <2>1 DEF Settle, Outcome
<1>3. settled.notDispatched =>
        \A i \in DOMAIN s : ~s[i].dispatched /\ s[i].state \in {"failed", "cancelled"}
  <2> SUFFICES ASSUME settled.notDispatched, NEW i \in DOMAIN s
               PROVE  ~s[i].dispatched /\ s[i].state \in {"failed", "cancelled"}
    OBVIOUS
  <2>1. p
    OBVIOUS
  <2>2. Untouched(s)
    BY <2>1 DEF Settle, Outcome
  <2> QED
    BY <2>2 DEF Untouched, NeverRan
<1> QED
  BY <1>1, <1>2, <1>3 DEF SettlesSoundly

(* Completion and load never meet settle's null, and recovery of failed or cancelled steps
   does not either: the assertions after the calls of settle hold. *)
LEMMA SettleIsTotal ==
  ASSUME NEW p \in BOOLEAN, NEW s, NEW cause \in Causes, ~p => s = <<>>
  PROVE  SettlesAlways(p, s, cause)
<1>1. cause # "recovered" => Settle(p, s, cause).state \in SettledStates
  BY DEF Settle, Outcome, Explained, Causes, SettledStates
<1>2. cause = "recovered" /\ Some(s, {"failed", "cancelled"}) =>
        Settle(p, s, cause).state # "none"
  BY DEF Settle, Outcome, Explained, Some, Errors
<1> QED
  BY <1>1, <1>2 DEF SettlesAlways

LEMMA AttemptInvariant == AttemptSpec => [](ready \in BOOLEAN /\ StepsPrepared)
<1>1. AttemptInit => ready \in BOOLEAN /\ StepsPrepared
  BY DEF AttemptInit, StepsPrepared
<1>2. ready \in BOOLEAN /\ StepsPrepared /\ [AttemptNext]_<<ready, recorded>> => (ready \in BOOLEAN /\ StepsPrepared)'
  BY DEF StepsPrepared, AttemptNext, AttemptPrepare
<1> QED
  BY <1>1, <1>2, PTL DEF AttemptSpec

(* Whatever steps an attempt recorded and however it ends, its answer hides no uncertain step,
   erases no external effect and claims "not dispatched" only of steps never dispatched. *)
THEOREM SettlementSound == AttemptSpec => []Sound
<1>1. ready \in BOOLEAN /\ StepsPrepared => Sound
  BY SettleIsSound DEF StepsPrepared, Sound
<1> QED
  BY <1>1, AttemptInvariant, PTL

(* Whatever steps an attempt recorded, it gets an answer. *)
THEOREM SettlementTotal == AttemptSpec => []Always
<1>1. ready \in BOOLEAN /\ StepsPrepared => Always
  BY SettleIsTotal DEF StepsPrepared, Always
<1> QED
  BY <1>1, AttemptInvariant, PTL

=============================================================================

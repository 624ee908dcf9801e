# A formal model of the Pe.Tools host

Pe.Tools is a suite of Revit add-ins with Pea, an agent that works on the same documents as the
person in front of them. What decides whether its promises hold — one change at a time, no change
without consent, a truthful receipt of what happened, a conversation and a document that survive
crashes — is the local TypeScript host (`src/ts/apps/host/src` and `src/ts/packages/runtime/src`).
This directory models that core in TLA+, checks it with TLC and proves theorems about it with TLAPS.

    tlc -workers 2 -config MCActionJournalContract.cfg MCActionJournal # any run: cfg, MC module
    tlapm ActionJournalProofs.tla                                      # any proof module

`PROJECT.json` lists the runs, the mutants, the hazards with their lines, and the source lines of
every definition.

## 1. The system

### Components

| Component | State it keeps | Operations | Model |
| --- | --- | --- | --- |
| Action journal (`action-journal.ts`, `command-executor.ts`) | receipts in memory in insertion order, listeners, pending attempts, waits for consent | invoke, resume, cancel, recover, step, effect, retire, publishWork, validateDispatch, markDispatched, dispatchRefusal, load | `Settlement`, `ActionJournal`, `CommandContract` |
| Journal storage (same file, `legacy-action-journal.ts`) | the file, `torn`, `header`, `lines`, revisions | load, commit, compact | `JournalStorage`, `RevisionStore` |
| Revit bridge, host side (`bridge.ts`, `revoke.ts`) | sessions by id, per connection a request registry, a gate chain and a depth; one chain of revocations | Registration, StateSync, Response, close, invoke, op.cancel, cancelQueued | `RevitBridge` |
| Run consent (`run-consent.ts`, doors in `control.ts`) | one entry per run with waiters and a timer, answered requests | open, assertOpen, authorize, decide, checkpoint, close, closeAll | `RunConsent` |
| SDK dispatch (`sdk-dispatch.ts`, `native-receipts.ts`) | a native step given to the pe-revit CLI | dispatch, read a receipt | folded into `ActionJournal` |
| Durable Work (`route-workspace.ts`, `route-document-store.ts`) | one document per key, revisions, set-aside documents, inverses and accepted writes of this lifetime | apply, commit of the host, restore, start fresh, carry-over, observe | `RouteWorkspace`, `WorkRegister` |
| Owner reads and streams (`owner-read.ts`, `resource-stream.ts`, `host-log.ts`, the page's `harness-client.ts` and `thread-stream.ts`) | active reads, one mailbox per connection, a durable log in segments, a page's cursor | append, prune, replay, publish, pull, observe, follow | `HostLog`, `ThreadStream`; the owner read and the tail in `RouteWorkspace` |
| Harness threads (`harness/threads.ts`) | per conversation: running prompt, queue, the connection and child process, retirements, questions, the event log | prompt (steer, queue), cancel, run, ensure, retire, idle, delete, shutdown, restart | `HarnessThread`, `TurnLedger` |
| Bridge agent in Revit (`BridgeAgent.cs`, `BridgeRequestPump.cs`) | socket, in-flight requests, throttle | read loop, handle, cancel, reconnect | the environment of `RevitBridge` |
| Scheduled tasks, notices | a clock and its missed runs | start, catch up | not modelled |
| Call route, sessions, acquisition | custody of documents and sessions | calls, launches, stops | not modelled |
| Host lifecycle | the claimed port, the running package | start, replace, update | not modelled |
| Browser keeper | lock and guardian of an attached browser | attach, detach | not modelled |
| Action domains (families, schedules, takeoff, ducts, gateway, pages) | none of their own | bind, prepare, execute, recover | constants of `ActionJournal` |
| Web shell, auth and ingress, algorithms, contracts, C# libraries, shells and tools | — | — | not modelled, see section 8 |

### How they interact

A caller (a person, a page, Pea) submits a command. The journal admits it under its lock, asks
`RunConsents` for consent when an agent run submitted it, waits for its turn among commands of
overlapping effects, prepares it, and runs its executor. The executor performs recorded steps. A
native step goes through `RevitBridge.invoke`: the bridge calls back into the journal
(`bridgeValidateDispatch` asynchronously, `bridgeDispatchRefusal` synchronously at the decision,
`markBridgeDispatched` after the write). A stop of a run reaches the journal through a listener of
the consent registry; the removal of a document's grant reaches the bridge through `revoke.ts`
and a census of the journal. A restart of the host loses everything but the journal file.

A prompt reaches a conversation over HTTP; the thread runs one turn at a time against a harness
process it starts, keeps warm and retires. Its events go to `events.jsonl` and to the host log, from
which a page follows the conversation. Commands of the agent that runs in the turn go through the
consent registry and the journal; what they publish, and what a person edits, is durable Work, which
pages observe.

### Where it is hard

- Awaits everywhere: a gate is awaited, and what it found is used after it. The same row lives as
  a committed receipt and as the copy in an attempt's closure; `cancel()` of a thread captures a turn,
  a connection and a child before its await.
- A command can fail before dispatch, after it, or without anybody knowing. Storage can fail at any
  commit; the host can die at any point; Revit can go on without the host.
- A resumed attempt keeps its old place in the order of turns. A refused steer goes back into a queue
  that moved on meanwhile.
- A Revit process reconnects under the same id while its old socket still closes; a harness process
  dies while its successor starts.
- A person's stop, a countdown, the end of a delegated run and a restart race the same answer.
- A page that fell behind must not show a hole, trust a history it did not see, or go back in time.

What makes each component correct is the list of properties in section 4; `PROJECT.json` ties
every hazard to the line where it bites and to its properties, or says why none covers it.

## 2. Plan

Done, in this order:

1. The journal: `Settlement` (pure decisions), `CommandContract` (what a command promises),
   `ActionJournal` (implements the contract), `JournalStorage` (the file).
2. `RevitBridge` and `RunConsent`.
3. Theorems about the journal (shape, exclusion of turns, idleness of what is reconciled, soundness
   of settlement) and about run consent (every safety property of its run).
4. `HarnessThread` against the abstract `TurnLedger`; `HostLog` and the page that follows it in
   `ThreadStream`; `RouteWorkspace` against the abstract `WorkRegister`.
5. Theorems about the bridge.
6. Theorems about the rest of the journal (honest receipts, effects at most once, claims, the
   refinement of `CommandContract`), about Work (its safety properties and the refinement of
   `WorkRegister`), about a conversation (its safety properties and the refinement of `TurnLedger`) and
   about its stream (the log and the page that follows it).
7. Theorems about the journal's file: what a commit acknowledged, and the refinement of
   `RevisionStore`.

Left:

8. A composition of journal, bridge and consent, with the bridge refining the part of the world
   `ActionJournal` assumes; the failing compaction of `JournalStorage` inside the journal's commit.
9. Archive, fork, heads and targets of a thread; scheduled tasks; the page-side owner of readings
   (generations, watchdog, back-off); acquisition custody; host lifecycle; browser keeper; the pump
   inside Revit.

## 3. Modules

A component module declares CONSTANTS with named assumptions, one action per operation or per
stretch between two awaits, and its properties. `MC*` modules hold the small instances. `Bug...`
operators are plausible slips; each stands before the definition it distorts, and a property is
trusted because a slip violates it.

**`Settlement`** — `failure`, the catch of `step`, `interruptedSteps`, `settle` and `holdsClaims`
as pure operators over receipts cut down to the fields those functions read. `MCSettlement` lets
TLC record every attempt of a few steps and settle it in every way.

**`ActionJournal`** — `rows` and `disk` are the receipts in memory and in the file (they differ
only after a failed commit); `born` is insertion order; `run` is the attempt's fiber: where it is,
which operation, how far its replay got, the error it carries and, in `known`, the cancellation
flag of the closure's own copy of the row, which `save` refreshes and `gate` reads; `parked` are
registered turn listeners; `cancelling` the cancellation commits behind the lock. `world` is a
ghost: what really became of each step's effect. `asked` is a ghost of committed cancellations.
`Admit`, `Reject` and `Resume` are the three ends of `invoke`'s admission; `Authorize` to
`Prepare` the awaits before the executor; `Replay` to `RecordSuccess` the life of a step;
`Complete`, `CompleteFails` the end; `Cancel`, `CommitCancel`, `StopRun`, `Recover`, `Restart` the
rest. `Recover` reads every native step again whatever it says, every unknown step, and all steps of
an incomplete row, and overwrites each with a verdict of its executor: `NativeVerdicts` (Revit's
receipt, or a process that is gone, which answers failed also for what was done or recorded as
succeeded), `SdkVerdicts` (the CLI's receipt, a request it never admitted, a dead supervisor, which
also retires), `WitnessVerdicts` (a file with the recorded hash, a record of a Families run). What
recovery finds in place without the command having put it there is `"found"` in `world`; a resume asks
such evidence again (`Recheck`). An executor is the constant `Program`, a sequence of operations with the traits that matter
(native by bridge or CLI, file, publication; optional, checked, retirable, recovered by a witness of
its own; what it discovers, which slot it frees).

**`CommandContract`** — the abstract specification: an operation takes effect at most once and only
while the command has no final answer; `succeeded` only when all required ones did; "not dispatched"
only when none did; an answer is final. An operation may also be found in place, by a recovery that
looks at the file and not at who wrote it. `ActionJournal` instantiates it with a refinement mapping
from rows and world (`ImplementsContract`).

**`JournalStorage`** — a file is what `split("\n")` makes of it: a sequence of texts, the last of
which has no newline after it. A write continues that last text, so that a fragment, an empty text
behind the last newline and the fence the next append writes need no case of their own. Commits,
compactions, loads and both kinds of early end of a write (crash, failure) are actions; `Cuts` says
which cuts an instance considers. **`RevisionStore`** is what journal and file promise each other
while no append has failed: one revision per receipt, in memory and in the file. A commit advances
both at once, a start takes what is stored, a stop in the middle of a commit stores a first part of its
rows. `JournalStorage` instantiates it with what memory answers while it runs and what a load would
read (`ImplementsStore`), so that what a compaction, its failure, a fence or a header does
to the file is nothing the store can tell.

**`RevitBridge`** — one Revit process. `link` and `current` are its connections and the one in the
sessions map; `queueTail`, `queueDepth` the gate chain; `req[r]` is the fiber of one request with
its registry entry (`phase`) and its reserved reply; `revocations` the promise chain. An action is
what one fiber does between two awaits: `PassGate`, `PassFence`, `Validated` and the decision
(`Again`, `DecideRefused`, `Dispatch`), then `Marked` and `Reported`. Processes share nothing but the
revocation chain, so one is enough. A sweep of the chain cancels its ids in one step: the code awaits
between ids, but no request passes the fence before the sweep is over. What Revit
answers is one of `Replies`: it performed the request, failed it, dropped it before it began, stopped
it at a checkpoint, does not know, or cannot be decoded; `Observed` maps each, and the loss of a
connection, to what `invokeBridge` reports. The native side of `op.cancel` shows in the answers dropped
and stopped. A connection registers only when the process's earlier ones are
dead at Revit's end, as its agent does. `withdrawn` is a ghost of requests cancelled behind the gate.

**`RunConsent`** — `runs` is the registry, a request is named by the root that asked it, `command`
and `promise` are the journal's side of `authorize()`, `ask` is what the transcript recorded and
`writes` a ghost of checkpoints passed. A command that is cancelled stops waiting but stays among
the waiters, as `Promise.race` leaves it. Identities are never reused, as `open` enforces. A
forgotten run is one that a restarted host does not know. Callers other than Pea never wait and are
left out.

**`HarnessThread`** — one conversation. `msg` are the prompt requests and, once admitted, the run of
each: `Send`, `Learned`, `Steer` and `Admit` are the stretches of `prompt()`, `Turn...` those of `run()`
(settling the predecessor, taking or cooling the warm process, `ensure()`, the prompt, the after-turn
hook). `cut` is what a `cancel()` captured before its await, `use` a request that goes through
`ensure()` outside a turn, `retires` the stops of processes by who asked for them, `conn` the
connections with the run whose identity their process has. `log` is what `events.jsonl` says of each
prompt id. Crash, death of a process, delete and shutdown are faults. **`TurnLedger`** is what a
conversation promises about ids: one turn at a time, an id runs at most once, a settled id is over,
nothing is sent to a harness twice. Its `state` is what `turnState()` answers: "unknown" stands for
null, also for a prompt that was taken out of the queue to be steered (`TakeOut`, `PutBack`) and for a
turn that a stop of its thread cut off (`Lose`); its `told` is how far the log says the prompt has
come. `Twice` are the ids of prompts with attachments that a client repeats: a second request of those
may be admitted as well (`Again`), since `prompt()` does not look at the id again after it has learned
what the harness reads.

**`HostLog`** — the segments of the durable log: append, roll, prune, torn last line, resume of the
counter at start, deletion of a conversation. `Entries` are the places of its readable lines, `At` what
stands there; `Only` keeps the wanted members of a sequence in order. **`ThreadStream`** extends it with the host's transcript,
the connection's lane, the socket, and the page: reading a body, following from its cursor, gaps,
resyncs. The page's two sources (body and stream) are separate on purpose: their merge is what can
leave a hole.

**`RouteWorkspace`** — the Work of one document under its two keys, `op` the operation that runs
with its awaits of the store as steps; `records` (a set of the inverses a restore may use, the
oldest of which leaves when the window is full) and `accepted` what undo knows; `reader`, `slot`,
`tail` the page's observation at the host; `page` what it shows and still offers to undo. `touched`
is a ghost of foreign writes. **`WorkRegister`** is the Work as a register with a revision.

## 4. Runs

| Run | Checks | Instance and why it is enough |
| --- | --- | --- |
| `settlement` | `Sound` | all attempts of up to three steps: the rules compare at most a success, a failure and an uncertain step |
| `journal_commands` | `NoOverlapInFlight`, `ReceiptHonest`, `AtMostOnce`, `EverySettles`, `NoSendAfterCancel`, `SuccessKept`, `ImplementsContract` | two commands of one document: a file before a checked bridge write, so that a partial success is resumed, and a CLI operation that discovers more effects; one cancel, one fault, one resume, one restart |
| `journal_sessions` | `ClaimExclusivity`, `Exclusion`, `ReconciledIdle` | a launch, the stop that frees its slot and reconciles it, and a competing launch: the smallest circle of old and new places; a restart, a resume and a retired result |
| `journal_convenience` | `ConvenienceHarmless` (violated) | see findings |
| `storage` | `ImplementsStore`, `Acknowledged` | cuts inside lines by crashes and failures, a failing compaction, a floor of one line: two receipts, up to three revisions of each |
| `storage_failed` | `CommandsKept` (violated) | see findings |
| `bridge` | `Honest`, `SerialUninterrupted`, `LossIsReal`, `DepthBounded`, `FenceHolds`, `EveryReports` | two casts: two requests, one journaled, a reconnect and a revocation; and three requests at a queue of two (in flight, waiting, refused) on one connection that may be lost, one of whose callers may go away anywhere; Revit answers in every way in both |
| `bridge_interrupted` | `Serial` (violated) | see findings |
| `consent` | `Consented`, `NoneStranded`, `AuthorizedFinish`, `OneAnswer`, `EveryAnswered` | a root, its delegate and an independent run, a command each, under fairness: delegates relate to one root only |
| `thread` | `OneTurn`, `OwnIdentity`, `Accounted`, `PromisesKept`, `CancelEnds`, `QueueMoves` | nine casts of up to three prompts, a retry, a retry of a prompt with attachments, a cancel, a use outside a turn, a crash, a death, a delete or shutdown: each brings the faults that meet its requests |
| `thread_stream` | `Replayable`, `CursorSafe`, `NoHole`, `NeverBack`, `CatchesUp` | three events of one conversation (one too large for the log, one after which the body is read again) in a log of two segments of two entries; a lane of two; five casts of two faults each |
| `work` | `RestoreHonest`, `HistoryWhole`, `OneRegister`, `OldKept`, `ViewCurrent` | two fields of two values; five casts: four writes and restores in a row, a carry-over and an older version's document each with a failing store and a restart, a page that connects twice, a page from before a restart |

A cast is an initial state in which the requests and faults it leaves out are already over; the `MC`
modules list them. Casts keep every hazard within reach of five minutes where the full product of
requests and faults is not.

What they show, in words. **Commands:** overlapping commands never run together, also over resumes,
reconciliations, lost answers and restarts; nothing that may have happened is reported as not
dispatched, and what nobody knows stays visibly unknown; recovery takes a recorded success back only
when the Revit behind it ended, and so that no resume repeats it; a committed cancellation stops every later
send although the code keeps two copies of the row; no operation is repeated by a resume; session
slots have one holder; every admitted command settles. **Storage:** what a commit acknowledged
stays in the file over cut and failed writes, and is what a load that accepts the file finds; only a
failed append can make load reject it (`storage_failed`); while no append has failed, what loads is what memory held, and a host
that dies while it commits leaves a first part of the rows.
**Bridge:** a refusal is reported only for what Revit never saw or dropped unperformed, a request cancelled
behind the gate never reaches it, Revit is done with whatever else has a settled verdict,
replies are lost only with their own connection, the queue is counted exactly, requests stay serial
while nobody goes away, nothing is sent while a revocation is out or after the journal refused, and
every request is reported. **Consent:** one answer decides a run tree, and everybody who waited hears that one; the end of a delegate
strands nobody; a completed run lets its authorised commands
finish. **Threads:** one turn runs at a time, in a process that has that turn's identity; its questions
name it; every accepted prompt is queued, running, or ended in the log; ids run at most once and are sent at
most once, over retries, steers and restarts; a cancelled turn ends and a queue does not stay behind. **Streams:** ids are not
used twice, a reconnect skips nothing, a page shows no hole, never goes back and catches up.
**Work:** one register, over carry-over, failures and restarts; an undo never takes back a foreign
write; an older version's document is never lost; a page offers to undo only an unbroken history and
shows the Work in the end.

**Bounds.** Every bound is a constant: `MaxAttempts`, `MaxSteps`, `MaxCancels`, `MaxFaults`,
`MaxRestarts` (journal), `MaxRecorded` (settlement), `Floor`, `MaxRevision`, `MaxCrashes`,
`MaxFaults` (storage), `MaxConnections`, `MaxRevocations` (bridge), `MaxConns`, `MaxCrashes`,
`MaxDeaths`, `MaxEnds` (thread), `MaxSeq`, `MaxId`, `MaxWire`, `MaxCrashes`, `MaxDrops`,
`MaxResyncs`, `MaxForgets` (stream), `MaxAsides`, `MaxRequests`, `MaxRestores`, `MaxVisits`,
`MaxCrashes`, `MaxFailures` (Work). They only
disable steps. Their values allow each hazard once, and twice where a second one meets the traces of
the first (crashes, storage failures, connections). The sizes of the program — `MAX_QUEUED_OPS`, the
compaction floor, segments and their number, the frames of a lane, the windows of undo — are small so
that the full queue, the rewrite, the pruned segment and the overrun reader happen.

**Deadlock** is not checked: a host with nothing left to do, and a bounded instance, stop. The liveness
properties are the ones against waiting for ever.

**Fairness.** Only what the code's own scheduling justifies is fair, and weakly except where named.

- Journal: a command whose fiber can move moves, one weak fairness per command (the event loop is fair
  and the lock is a promise chain), and Revit answers what it received or the session ends.
- Bridge: while fibers, the cleanup of a dead socket, the census of a revocation or Revit can move, one
  of them does. Each such move brings a request or a revocation further, so one condition is enough.
- Consent: the timer fires, a resolved promise resumes.
- Threads: each message's run goes on, and so do cancels that captured their turn, uses, starts of
  processes and stops. A turn's answer is fair only once its process was told to stop or died: a
  harness may think for ever.
- Streams: a stopped host is started again, sockets carry what is pulled, the page reads, reopens and
  gets its bodies. What a page needs to learn of a host it lost (its resync) is fair only while it
  shows nothing.
- Work: a begun operation goes on, a page reconnects, what a connection holds is read. The begin of a
  read is strongly fair: operations and reads pass one queue, so a read is repeatedly, not steadily,
  first in it.

Nothing makes a person, a reconnect of Revit, a cancel, a recovery, a resume or a fault happen.

## 5. Findings

Three runs end in a violation, each of a sentence in the repository (quoted in `PROJECT.json`).

- `journal_convenience` — a schedule push whose Work rebind throws ends `unknown`, although the
  comment says that nothing the rebind throws changes the outcome: the failed publication is a
  recorded, uncertain step.
- `storage_failed` — an append that fails part-way leaves a fragment in the middle of the file, and
  the next load refuses the whole file. So does an append that fails with its lines complete (the
  next commit writes the same revisions again), and one that fails before the version line of a new
  file (the next commit writes a newline before it). `MCJournalStorageNewline.cfg` reaches the same
  end without a failed append: a crash that loses only the last newline is not seen as a torn tail,
  and the next line is joined to the last one.
- `bridge_interrupted` — a caller that goes away opens its gate while a request is still in flight, and
  Revit gets two ordinary requests at once.

Two more disagreements can be reproduced with definitions that no run lists:

- `MCHarnessThreadOrphan.cfg` checks `NothingOutlives`: a delete or shutdown that meets a connection
  whose start then fails leaves the process alive (`threads.ts:1297-1312`, against the comment at 1353).
- `ThreadStream.NeitherReplays`: a body that lands after later events restarts the follower behind
  them, and the page applies them again (`thread-stream.ts:47-50`, `:99`).

Met while modelling, and what the models do with them:

- Threads. The exit handler of a process whose start failed clears the connection that came after
  it; a cancel then reaches nobody (`Bereft`, excepted in `CancelEnds`). After learning a harness's
  attachment support no look at the id follows, so a retry is admitted beside its first request
  (`Twice`, `Again`): it may be queued or run again, and is not sent again (`run-consent.ts:78` refuses its second run). `turnState()` answers null
  for a prompt whose steer waits for an interrupt and for one a stop cut off, although its comment has
  null for an id never admitted (`threads.ts:1664`). A
  turn that ends by itself leaves its questions open. `retire()` clears `retiring` for whoever
  retires next. A prompt with `delivery: "queue"` that lands during the last retirement overtakes
  older queued prompts, and refused steers are put back by an index that moved. A restarted host
  skips a conversation whose `events.jsonl` has a torn line. A failing append inside a run leaves
  `running` set for ever.
- Streams. A reader whose cursor lies more than `logFrames` behind never catches up (`Overrun`,
  excepted in `CatchesUp`; `resource-stream.ts:53-57`, `:178`). A crash between the transcript's append
  and the log's leaves an event no stream announces. Each deletion of a conversation opens a segment.
- Work. Carry-over is two writes: a crash between them leaves both copies. Nothing is carried
  over Work that is there, which is why `OneRegister` holds; the staged copy just stays. Neither a carry-over
  nor a recovered store is told to a page whose last read failed or found nothing (`Untold`).
- Bridge. A request cancelled during its validation loses its mark when the connection drops
  (`bridge.ts:359`, `:607`), is marked dispatched and reported unsettled instead of cancelled. It never
  reaches Revit (`Honest`).
- Hazards without a property: a write after a stop or a restart is kept back by the test in `checkpoint`
  alone (`run-consent.ts:194`), which is the guard of `Checkpoint`; a recovery that proves a stop but has no releases keeps the slot
  (`action-journal.ts:1753`); a cancel between the authorize gate and its wait is heard late (1609);
  a command waiting for consent at a restart keeps its claims (1873); a compaction that fails after a
  durable append fails the admission (1952); ids of a revocation that never queue are remembered for
  ever (`bridge.ts:676`); a Revit that never answers holds its gate (646); the countdown may be that of
  a command cancelled meanwhile (`run-consent.ts:139`).

The passing journal runs hold with the storage of a commit taken as all or
nothing; what a partial write does to the file is the subject of `JournalStorage`.

## 6. Theorems

All proofs are for arbitrary constants under the ASSUMEs of the component modules.

- **`ActionJournalProofs`** — `TypeCorrect`: `Spec => []TypeOK`. `TypeOK` alone is not inductive: a
  fiber that works on "the last step" needs that a step exists, an admitted row that it is in the
  order of insertion, and what an executor discovers that the operation is in the program. The
  strengthening adds these facts about where a fiber can be, and each action has its own lemma.
  `Excluded`: `Spec => []Exclusion`, and `ReconciledStaysIdle`: `Spec => []ReconciledIdle`. Exclusion
  compares two attempts past their turn, but the check of a turn only looks at earlier open rows that
  it does not reconcile. The inductive invariant `TurnInv` therefore says that a running fiber belongs
  to an open row, that insertion numbers are distinct, that of two overlapping attempts the later one
  passed its turn only when the earlier was no longer open, and that an attempt can come back
  (`Resume`) only when no reconciler holds it and no later overlapping one is unresolved; a reconciler
  holds its claim as long as it runs, so what it names stays idle. Also there: `SettlementSound` and
  `SettlementTotal`, the comment of `settle` for attempts of any number of steps. Their lemmas follow
  the order of the code's decisions; the invariant is only that steps exist after preparation.
- **`ReceiptProofs`** — `ReceiptsAreHonest`, `EffectsHappenOnce`, `CancelIsFinal`, `SuccessStays`, and
  `KeepsItsContract`: every step of the journal is one of `CommandContract` or a stutter. A receipt is
  honest by itself in no inductive way: what a step of the row says must agree with the world both in
  memory and on disk (a failed commit leaves them apart, a restart goes back to the disk), with the
  place of the fiber that performs it (`Performing`), with the error it carries (`Behind`, `Achieved`),
  with the operations already done (`Single`: the replay of a resume skips exactly those), and with the
  flag in the closure's own copy of the row (`Told`: a committed cancellation is in one copy or the
  other before any dispatch decides). `ReceiptInv` is `Typed` and these parts for each command on its
  own, so that the lemmas speak of one row, one fiber and one world. Two facts about executors are
  assumed (`ExecutorsAssumption`), and the code is the reason: the only executor that catches the
  failure of a step is the schedule push around its last one (`schedule-actions.ts:496-511`), and the
  only one that retires steps is the session start (`instances-actions.ts:597`), whose steps stop nothing; a step that stops a process is a CLI request, whose recorded success no
  recovery reads again. What a native receipt says is taken as true of Revit: it has none for a request
  that was never admitted. The verdicts of a recovery keep the invariant because each is
  compatible with the world it was read from (`Held`, `InForce`: a recorded success is in force, was found,
  or is gone). `SuccessStays` says what is left: a success is taken back by `execution.retire`, or by the
  recovery of a bridge request whose Revit ended, never so that it is repeated. Also there: `InFlightKeepsOut`: `Spec => []NoOverlapInFlight`, and `OneHolder`:
  `Spec => []ClaimExclusivity`, on `TurnInv` and `ReceiptInv`. A request that is still in flight belongs
  to an open row (`ReceiptHonest`), but its fiber may be gone; what keeps an overlapping command out is
  that before its first step every earlier overlapping row was closed or reconciled and that no closed
  row opens again (`HadTurn`), and that a reconciler works only on rows whose fate is known
  (`KeptOut`, `ReconciledUnsent`).
- **`RunConsentProofs`** — every safety property of `RunConsent`: `ConsentTyped`, `NobodyStranded`,
  `AlwaysConsented`, `GrantsLast` and `AnswersStay`, for any tree of runs and any
  commands. `NoneStranded` is inductive beside the types, since closing a run answers its own waiters
  and those it left with its root. `AuthorizedFinish` and `Consented` are not: a command that is about
  to resume with its decision must be covered too, every waiter must belong to an open run of the same
  tree that has no answer yet, and the transcript must agree with the registry as long as that remembers
  the run. `OneAnswer` rests on the same: who waits, waits for a request the transcript has open.

- **`RevitBridgeProofs`** — every safety property of the run `bridge`: `EvidenceTrue`, `GateSerial`,
  `FenceKept`, `LossesReal`, `DepthExact`, `BridgeTyped`. Each needs its own strengthening. The depth is
  inductive beside the types. A loss is real because connections of a process live one after the other
  (`Ordered`). The evidence needs that nothing is at Revit before the dispatch, and that a request
  cancelled behind the gate keeps its mark or loses its connection first (`Evidence`). The fence needs
  that revocations are swept in their order and that whoever passed it read a swept one (`Swept`). The
  order of the gate needs ranks along the chain of promises: `InOrder` says that the ranks of a connection's
  requests are all different, that its tail has the greatest, and that whoever passed the gate has only
  settled requests before it — which is exactly what an interruption breaks.

- **`RouteWorkspaceProofs`** — `WorkIsARegister` (the refinement of `WorkRegister`), `RestoresAreHonest`,
  `HistoriesAreWhole` and `OldDocumentsStay`, for any fields, values, patches and windows. `WorkInv` says
  where a running operation is and what it has read and written (`Stepped`: a staged carry-over equals
  the Work it came from, a persist has the next revision), that every remembered inverse was made after
  the last foreign write of the paths it takes back (`Barriers`), and that each acknowledged write is one
  step and what a page trusts a stretch of them (`Chained`). That a set of revisions has a latest one is
  proved from the order of the naturals (`LeastExists`: a minimal counterexample through `WFMin` needs no
  induction schema).
- **`HarnessThreadProofs`** — `OneTurnAtATime`, `ProcessServesItsTurn`, `PromptsAreAccountedFor` and
  `PromisesHold`, the refinement of `TurnLedger`. `ThreadInv` has one part per shared piece of state:
  who works is the turn that `t.running` names (`Serial`); from the moment a turn has got rid of the
  process it found, every live process it can reach carries its identity (`Serving`); the queue is the
  queued messages, each once (`Lined`); a captured cancel belongs to a message that is cancelling
  (`Asking`); and what the log has open is waited for by a message, or is the newest prompt, which runs
  (`Open`). The lemmas about `run()`, `steer()` and `drain()` speak of any messages, log and queue, as the
  functions do, so that `TurnOver`, a refused steer and a prompt share them. The promise needs more
  (`LedgerInv`): what was admitted and did not run yet has an id of its own that the log says to wait, or
  does not know (`Once`) — which is what `t.admitting` and the look at the log are for — and what
  ended was heard of before (`Heard`), and nothing is sent that the log does not have (`Logged`). Retries of
  prompts with attachments are in the theorem: `TurnLedger` names what it allows them (`Again`), a second
  place in the queue or a second turn, but no second send. One cast of `thread` has such a retry.

- **`ThreadStreamProofs`** — every safety property of `ThreadStream`: `SaidIsReplayable`,
  `ReconnectsAreSafe`, `NoHoles` and `NothingIsTakenBack`, for any sizes of segments, lanes and lines.
  The inductive invariant `StreamInv` has three parts, since the host does not depend on the page. The log
  (`LogInv`): segments are named in order, the ids of a segment lie between its name and the next one's
  and rise from line to line, the tail ends with the last id or was opened behind it (`TailTells`, which is
  what a restart reads its counter from), and what was said of the conversation is there from the oldest
  segment on (`KeepsOurs`). A crash may leave a whole line whose id the host has not counted; `LogInv`
  carries that id as a witness until the host is up again. What is under way (`WiresInv`): each frame is a
  gap or an event that was said — nothing about its order, for the page's rule needs none. The page
  (`PageInv`): a body shows everything said up to its cursor, a body under way is no older than the one
  shown (or than what was applied, when none is shown), and body and tail have no hole (`Shows`).
  The model filters and flattens sequences by recursive functions (`Only`, and `FlattenSeq` of the library).
  That those functions exist, and what they hold, is proved without an induction schema: a least length
  where it fails is a contradiction (`Least`, by `WFMin` on the naturals).
- **`JournalStorageProofs`** — `AcknowledgedStays`: `Spec => []Acknowledged`, `KeepsTheStore`:
  `Spec => ImplementsStore`, and `CrashesKeepCommands`: `Spec => []CommandsKept`, for any receipts,
  revisions, floor and faults. A load reads the whole file, so the inductive invariant `StorageInv`
  says what the file holds: no cut leaves a whole line without its newline, nor less than the version
  line (`Ended`); every acknowledged revision has a line of its own (`Kept`), which is what survives a
  fence after a failed append, and is in the memory of a journal that loaded the file; and until an append fails every text but the last is a receipt, its
  revisions rise, and the greatest of each receipt is the one in memory (`Mirrored`). A running journal
  must also remember enough to write after its file (`Remembered`). The lemmas follow the writes: what
  stands where in `Write(f, texts)`, what a cut leaves of it, what a commit and a compaction write.
  That a set of revisions has a greatest, which `ReadBack` chooses, is proved through `WFMin` again.
  The refinement has one lemma per action, over what is `Seen` of a state: whether the journal runs,
  what it answers with, what a load finds, and whether it accepts the file.
  The hypothesis `InsideCuts` (`Cuts \subseteq {"inside", "failed"}`) is the promise's own limit:
  with a cut before the last newline or in the version line it is false, which section 5 shows. For
  `CrashesKeepCommands` no append may fail either: the run `storage_failed` is the counterexample.
  The journal, not the file, makes receipt ids; that none is called "version" or "fragment" only keeps
  the pieces of the model apart (`StorageAssumption`).

Only model-checked, and why:

- Liveness (`EverySettles`, `EveryReports`, `EveryAnswered`, `CancelEnds`, `QueueMoves`, `CatchesUp`,
  `ViewCurrent`): fairness and ENABLED are outside the prover.
- The runs that end in a violation: a counterexample is not a theorem.

Every safety invariant and action property of a passing run is proved. The type invariants of the
journal and of run consent are proved and no longer listed by a run.

## 7. Abstractions a reader should know

- Documents, files, sessions and payloads are resources that two footprints share or not; wording,
  schemas and telemetry are left out.
- A commit of the journal is one step, since all commits pass one promise chain. Observations before
  the lock (`list`, `recover`'s reads) are combined with the decision under it when the code re-checks
  the row it observed.
- The countdown and all other delays are a choice: a timer may fire at any time while it is set.
- `Interruptible` is a constant because a caller's interruption breaks `Serial` (section 5). In `bridge`
  one caller of three may go away; that interruptions meet revocations and reconnects without harm to
  the safety properties is proved rather than run (section 6).
- The texts of prompts, questions and tool calls are left out; an id and its content are one value, so
  the refusal of an id that comes back with another content does not occur.
- A page's two connections (body over HTTP, stream over the socket) may be answered in any order.
- One document and one page stand for Work: documents share nothing but the process.

## 8. Not modelled

Algorithms on floating-point data (ducts, takeoff), views of the web application, HTTP, tokens and
identity plumbing, generated contracts, the C# libraries that call the Revit API on its one thread,
installers and development tools: no concurrency of their own, or nothing a small instance would
show. Most of the repository's lines are of these kinds. The one-time import of older journal formats
and of older Work records runs once and is covered by its own tests.

Of threads: archive and snooze, fork, heads and targets, element names, a change of the endpoint's
model, the waiting marker and the scheduled launch. Of streams: the page-side owner of all readings,
which appears only as the resync it reports. Of Work: census, salvage and raw reads, which change
nothing. The components of section 2 that are left are listed in `PROJECT.json` with their sources.

------------------------------ MODULE HarnessThread ------------------------------
(***************************************************************************)
(* One conversation of the host (ts/apps/host/src/harness/threads.ts): the *)
(* prompts sent to it, the turns that run them one after another, the      *)
(* harness process each turn starts and retires, and the requests that use *)
(* a process outside a turn.  An action runs from one await of the source  *)
(* to the next.  The harness itself, plugin hooks and process exits are    *)
(* the environment.                                                        *)
(***************************************************************************)
EXTENDS Naturals, Sequences, FiniteSets, SequencesExt

CONSTANTS
  Messages,   \* POST prompt requests
  Ids,        \* the prompt ids clients mint
  IdOf,       \* the id of each message: a retry repeats the id and the content
  Stops,      \* POST cancel requests
  Uses,       \* model, trait and creation requests: what goes through ensure() outside a turn
  None,
  Attached,   \* the messages that carry attachments
  MaxConns,   \* connections of one host process
  MaxCrashes, MaxDeaths, MaxEnds

ASSUME ThreadAssumption ==
  /\ IsFiniteSet(Messages) /\ IsFiniteSet(Ids) /\ IsFiniteSet(Stops) /\ IsFiniteSet(Uses)
  /\ None \notin Messages \cup Ids \cup Stops \cup Uses /\ Messages \cap Stops = {}
  /\ IdOf \in [Messages -> Ids] /\ Attached \subseteq Messages /\ MaxConns \in Nat /\ MaxCrashes \in Nat /\ MaxDeaths \in Nat /\ MaxEnds \in Nat

Conns == 1 .. MaxConns
NoConn == 0
\* Who called retire(): a run before its own connection, a run at its end, the idle timer.
Tokens == (Messages \X {"warm", "last"}) \cup {<<None, "idle">>}
NoToken == <<None, "none">>

VARIABLES
  running,    \* t.running
  queue,      \* t.queue
  turn,       \* t.turn: the message whose run it is
  live,       \* t.live
  child,      \* t.child
  session,    \* whether t.session is other than "closed"
  retiring,   \* t.retiring
  stopped,    \* t.stopped, and whether the child was stopped then: "no", "stopping", "stopped"
  asks,       \* t.pending and t.questions: the process that asked and the turn named
  msg,        \* where each prompt request and its run are
  cut,        \* the cancel() each request is in: what it captured before its await
  use,        \* where each request outside a turn is
  conn,       \* the connections: phase, the run of their context, whether the process lives
  retires,    \* the retirements under way
  capable,    \* meta.promptCapabilities is known
  opened,     \* the run identities RunConsents holds
  log,        \* events.jsonl: what it says of each prompt id
  latest,     \* the id of its newest prompt event
  faults      \* restarts, deaths of processes, deletes and shutdowns so far

turns == <<running, queue, turn>>
process == <<live, child, session, retiring>>
vars == <<turns, process, stopped, asks, msg, cut, use, conn, retires, capable, opened, log, latest, faults>>

-----------------------------------------------------------------------------
Fresh == [at |-> "unsent", delivery |-> "steer", home |-> 0, on |-> NoConn, token |-> NoToken]
NoCut == [step |-> "none", id |-> None, turn |-> None, live |-> NoConn, child |-> NoConn]
NoProcess == [phase |-> "none", run |-> None, alive |-> FALSE, told |-> None]
Done == [Fresh EXCEPT !.at = "done"]
Unused == [at |-> "idle", on |-> NoConn, token |-> NoToken]
Unlogged == [queued |-> FALSE, prompts |-> 0, sent |-> 0, cancelled |-> FALSE, end |-> "none"]

Steering == {"cancelling", "racing"}
Working == {"settling", "warming", "cooling", "preparing", "connecting", "prompting", "after"}

Dead(c) == [NoProcess EXCEPT !.phase = conn[c].phase]

\* t.steers and t.admitting, from the requests inside steer().
Steers(ms) == {m \in Messages : ms[m].at \in Steering}
Admitting == {IdOf[m] : m \in {n \in Steers(msg) : msg[n].home = 0}}

Settled(c) == c # NoConn => conn[c].phase \in {"ready", "failed"}
Free(token) == token # NoToken => ~retires[token].busy
Known(id) == log[id].queued \/ log[id].prompts > 0

Busy ==
  \/ \E u \in Uses : use[u].at \in {"ensuring", "using"}
  \/ \E c \in Conns : conn[c].phase \in {"preparing", "starting"}

CanIdle ==
  /\ child # NoConn /\ live # NoConn /\ stopped = "no"
  /\ ~Busy /\ running = None /\ retiring = NoToken /\ asks = {}

-----------------------------------------------------------------------------
\* retire(): the child is detached at once and stopped later, under the caller's token.
Retire(token) ==
  /\ retiring' = token
  /\ retires' = [retires EXCEPT ![token] = [busy |-> TRUE, child |-> child]]
  /\ child' = NoConn /\ live' = NoConn /\ session' = FALSE

\* The retirement ends.  Whichever it is clears t.retiring.
Retired(token) ==
  /\ retires[token].busy
  /\ retires' = [retires EXCEPT ![token].busy = FALSE, ![token].child = NoConn]
  /\ conn' = [c \in Conns |-> IF c = retires[token].child THEN Dead(c) ELSE conn[c]]
  /\ retiring' = NoToken
  /\ UNCHANGED <<turns, live, child, session, stopped, asks, msg, cut, use, capable, opened, log, latest, faults>>

\* The idle timer.
IdleRetire ==
  /\ CanIdle /\ Free(<<None, "idle">>)
  /\ Retire(<<None, "idle">>)
  /\ UNCHANGED <<turns, stopped, asks, msg, cut, use, conn, capable, opened, log, latest, faults>>

\* ensure() once no retirement is awaited: the connection there is, or a new one.
NewConn(c) == conn[c].phase = "none" /\ \A d \in Conns : conn[d].phase = "none" => c <= d
Ensured(c) ==
  IF live # NoConn
  THEN c = live /\ UNCHANGED <<live, session, conn>>
  ELSE /\ NewConn(c)
       /\ live' = c /\ session' = TRUE
       /\ conn' = [conn EXCEPT ![c].phase = "preparing"]

-----------------------------------------------------------------------------
\* The synchronous part of run(): a run identity opened before fails at once, after its prompt is logged.
Reused(id) == id \in opened

Run(ms, lg, m) ==
  LET id == IdOf[m] IN
  /\ running' = id /\ turn' = m /\ latest' = id
  /\ opened' = opened \cup {id}
  /\ log' = [lg EXCEPT ![id].prompts = lg[id].prompts + 1,
                       ![id].end = IF Reused(id) THEN "ended" ELSE lg[id].end]
  /\ msg' = [ms EXCEPT ![m].at = IF Reused(id) THEN "after" ELSE "settling",
                       ![m].token = retiring, ![m].home = 0, ![m].on = NoConn]

\* drain(): the oldest queued prompt runs once nothing runs and no steer waits.
Drain(ms, lg, q) ==
  IF running = None /\ Steers(ms) = {} /\ stopped = "no" /\ q # <<>>
  THEN Run(ms, lg, Head(q)) /\ queue' = Tail(q)
  ELSE /\ msg' = ms /\ log' = lg /\ queue' = q
       /\ UNCHANGED <<running, turn, opened, latest>>

\* The synchronous part of cancel(): it is logged, the turn's asks end, and what is there is captured.
Cut(a) == cut' = [cut EXCEPT ![a] = [step |-> "asking", id |-> running, turn |-> turn, live |-> live, child |-> child]]
CancelLogged(lg) == [lg EXCEPT ![running].cancelled = TRUE]

\* steer(): runs at once when nothing runs, else cancels the running turn first.
Steer(ms, lg, m) ==
  IF running # None
  THEN /\ msg' = [ms EXCEPT ![m].at = "cancelling"]
       /\ log' = CancelLogged(lg) /\ Cut(m) /\ asks' = {}
       /\ UNCHANGED <<running, turn, opened, latest>>
  ELSE /\ IF stopped = "no"
          THEN Run(ms, lg, m)
          ELSE msg' = [ms EXCEPT ![m] = Done] /\ log' = lg /\ UNCHANGED <<running, turn, opened, latest>>
       /\ cut' = [cut EXCEPT ![m] = NoCut] /\ UNCHANGED asks

-----------------------------------------------------------------------------
\* The prompt door after its checks: behind the running turn, or a steer.
Admit(m, delivery) ==
  LET ms == [msg EXCEPT ![m] = Fresh] IN
  IF delivery = "queue" /\ (running # None \/ Steers(msg) # {})
  THEN /\ queue' = Append(queue, m)
       /\ msg' = [ms EXCEPT ![m].at = "queued"]
       /\ log' = [log EXCEPT ![IdOf[m]].queued = TRUE]
       /\ UNCHANGED <<running, turn, opened, latest, cut, asks>>
  ELSE Steer(ms, log, m) /\ UNCHANGED queue

BugForgetsAdmitting(id) == Known(id)

\* A retry of what the log holds, or of what is being admitted, is answered as it stands.
Repeated(id) == Known(id) \/ id \in Admitting
Learns(m) == m \in Attached /\ ~capable
Answer(m) ==
  /\ msg' = [msg EXCEPT ![m] = Done]
  /\ UNCHANGED <<turns, asks, cut, opened, log, latest>>

\* POST /pe/threads/:id/prompt.
Send(m, delivery) ==
  /\ msg[m].at = "unsent" /\ stopped = "no"
  /\ \/ Repeated(IdOf[m]) /\ Answer(m) /\ UNCHANGED <<live, session, conn>>
     \/ ~Repeated(IdOf[m]) /\ ~Learns(m) /\ Admit(m, delivery) /\ UNCHANGED <<live, session, conn>>
     \/ /\ ~Repeated(IdOf[m]) /\ Learns(m)
        /\ LET ms == [msg EXCEPT ![m].at = "learning", ![m].delivery = delivery] IN
           IF retiring # NoToken
           THEN msg' = [ms EXCEPT ![m].token = retiring] /\ UNCHANGED <<live, session, conn>>
           ELSE \E c \in Conns : Ensured(c) /\ msg' = [ms EXCEPT ![m].on = c]
        /\ UNCHANGED <<turns, asks, cut, opened, log, latest>>
  /\ UNCHANGED <<child, retiring, stopped, use, retires, capable, faults>>

\* ensure() of a request that waited for a retirement.
LearnEnsures(m) ==
  /\ msg[m].at = "learning" /\ msg[m].on = NoConn /\ Free(msg[m].token)
  /\ IF stopped = "no"
     THEN \E c \in Conns : Ensured(c) /\ msg' = [msg EXCEPT ![m].on = c, ![m].token = NoToken]
     ELSE msg' = [msg EXCEPT ![m] = Done] /\ UNCHANGED <<live, session, conn>>
  /\ UNCHANGED <<turns, child, retiring, stopped, asks, cut, use, retires, capable, opened, log, latest, faults>>

\* The harness said what it reads: the request goes on from where its checks ended.
Learned(m) ==
  /\ msg[m].at = "learning" /\ msg[m].on # NoConn /\ Settled(msg[m].on)
  /\ IF capable THEN Admit(m, msg[m].delivery) ELSE Answer(m)
  /\ UNCHANGED <<process, stopped, use, conn, retires, capable, faults>>

\* POST queue {action: "steer"}: the prompt leaves the queue, remembering its place.
QueueSteer(m) ==
  /\ msg[m].at = "queued" /\ stopped = "no"
  /\ \E i \in DOMAIN queue :
       /\ queue[i] = m
       /\ queue' = RemoveAt(queue, i)
       /\ Steer([msg EXCEPT ![m].home = i], log, m)
  /\ UNCHANGED <<process, stopped, use, conn, retires, capable, faults>>

\* POST queue {action: "cancel"}.
QueueDrop(m) ==
  /\ msg[m].at = "queued" /\ stopped = "no"
  /\ \E i \in DOMAIN queue : queue[i] = m /\ queue' = RemoveAt(queue, i)
  /\ msg' = [msg EXCEPT ![m] = Done]
  /\ log' = [log EXCEPT ![IdOf[m]].end = "dropped"]
  /\ UNCHANGED <<running, turn, process, stopped, asks, cut, use, conn, retires, capable, opened, latest, faults>>

\* POST cancel.
Stop(s) ==
  /\ cut[s].step = "none" /\ running # None /\ stopped = "no"
  /\ Cut(s) /\ log' = CancelLogged(log) /\ asks' = {}
  /\ UNCHANGED <<turns, process, stopped, msg, use, conn, retires, capable, opened, latest, faults>>

-----------------------------------------------------------------------------
\* cancel() after its await: the connection it captured still serves the turn it captured.
Current(a) == running = cut[a].id /\ live = cut[a].live /\ child = cut[a].child

Prompting(c) == \E m \in Messages : msg[m].at = "prompting" /\ msg[m].on = c

\* The ACP cancel, when it is still meant for this connection; a harness without a prompt ignores it.
\* A request outside steer() is answered.
Cancelled(a) ==
  /\ cut[a].step = "asking" /\ Settled(cut[a].live)
  /\ LET c == cut[a].live IN
       conn' = IF c # NoConn /\ conn[c].phase = "ready" /\ conn[c].alive /\ Prompting(c) /\ Current(a)
               THEN [conn EXCEPT ![c].told = cut[a].id] ELSE conn
  /\ IF a \in Messages
     THEN cut' = [cut EXCEPT ![a].step = "racing"] /\ msg' = [msg EXCEPT ![a].at = "racing"]
     ELSE cut' = [cut EXCEPT ![a].step = "done"] /\ UNCHANGED msg
  /\ UNCHANGED <<turns, process, stopped, asks, use, retires, capable, opened, log, latest, faults>>

BugLosesPrompt(m) == queue

\* steer() gives up: the prompt goes back where it was and the queue resumes.
PutBack(m) == InsertAt(queue, IF msg[m].home > Len(queue) THEN Len(queue) + 1 ELSE msg[m].home, m)
Refused(m) ==
  /\ IF msg[m].home > 0
     THEN Drain([msg EXCEPT ![m].at = "queued", ![m].home = 0], log, PutBack(m))
     ELSE Drain([msg EXCEPT ![m] = Done], log, queue)
  /\ cut' = [cut EXCEPT ![m] = NoCut]
  /\ UNCHANGED <<process, stopped, asks, use, conn, retires, capable, faults>>

\* The write to a dead harness throws while it is still the current one.
CancelThrows(m) ==
  /\ msg[m].at = "cancelling" /\ Settled(cut[m].live) /\ cut[m].live # NoConn
  /\ conn[cut[m].live].phase = "ready" /\ ~conn[cut[m].live].alive /\ Current(m)
  /\ Refused(m)

\* The turn outlived INTERRUPT_MS.
Outlived(m) ==
  /\ msg[m].at = "racing" /\ msg[cut[m].turn].at # "over"
  /\ Refused(m)

BugRunsUnseen(m) ==
  /\ msg[m].at = "racing" /\ msg[cut[m].turn].at = "over" /\ stopped = "no"
  /\ Run(msg, log, m)
  /\ cut' = [cut EXCEPT ![m] = NoCut]
  /\ UNCHANGED <<queue, process, stopped, asks, use, conn, retires, capable, faults>>

\* The turn it interrupted ended: another may run by now and is interrupted in its turn.
Interrupted(m) ==
  /\ msg[m].at = "racing" /\ msg[cut[m].turn].at = "over"
  /\ Steer(msg, log, m)
  /\ UNCHANGED <<queue, process, stopped, use, conn, retires, capable, faults>>

-----------------------------------------------------------------------------
At(m, phase) == msg' = [msg EXCEPT ![m].at = phase, ![m].on = NoConn, ![m].token = NoToken]

\* The end of a turn, as its catch and its normal path log it: a stopped thread logs no failure.
EndTurn(m, how) ==
  /\ At(m, "after")
  /\ log' = IF how = "failed" /\ stopped # "no" THEN log ELSE [log EXCEPT ![IdOf[m]].end = "ended"]

BugKeepsWarm(m) == At(m, "preparing") /\ UNCHANGED <<process, retires>>

\* A child that was there before the turn has no identity of this turn: it is retired.
Cool(m) ==
  IF child # NoConn
  THEN Retire(<<m, "warm">>) /\ msg' = [msg EXCEPT ![m].at = "cooling", ![m].on = NoConn, ![m].token = <<m, "warm">>]
  ELSE At(m, "preparing") /\ UNCHANGED <<process, retires>>

\* The turn waited for the retirement it found.
TurnSettled(m) ==
  /\ msg[m].at = "settling" /\ Free(msg[m].token)
  /\ IF live # NoConn
     THEN /\ msg' = [msg EXCEPT ![m].at = "warming", ![m].on = live, ![m].token = NoToken]
          /\ UNCHANGED <<process, retires>>
     ELSE Cool(m)
  /\ UNCHANGED <<turns, stopped, asks, cut, use, conn, capable, opened, log, latest, faults>>

\* It waited for the connection it found.
TurnWarmed(m) ==
  /\ msg[m].at = "warming" /\ Settled(msg[m].on)
  /\ Cool(m)
  /\ UNCHANGED <<turns, stopped, asks, cut, use, conn, capable, opened, log, latest, faults>>

TurnCooled(m) ==
  /\ msg[m].at = "cooling" /\ Free(msg[m].token)
  /\ At(m, "preparing")
  /\ UNCHANGED <<turns, process, stopped, asks, cut, use, conn, retires, capable, opened, log, latest, faults>>

\* prepare() or the turn.before hook failed.
PrepareFails(m) ==
  /\ msg[m].at = "preparing" /\ EndTurn(m, "failed")
  /\ UNCHANGED <<turns, process, stopped, asks, cut, use, conn, retires, capable, opened, latest, faults>>

\* A cancel logged so far keeps the turn from connecting.  Its ensure() finds no retirement to wait for.
Prepared(m) ==
  /\ msg[m].at = "preparing"
  /\ \/ log[IdOf[m]].cancelled /\ EndTurn(m, "ended") /\ UNCHANGED <<live, session, conn>>
     \/ /\ ~log[IdOf[m]].cancelled /\ stopped = "no"
        /\ \E c \in Conns : Ensured(c) /\ msg' = [msg EXCEPT ![m].at = "connecting", ![m].on = c]
        /\ UNCHANGED log
     \/ /\ ~log[IdOf[m]].cancelled /\ stopped # "no"
        /\ EndTurn(m, "failed") /\ UNCHANGED <<live, session, conn>>
  /\ UNCHANGED <<turns, child, retiring, stopped, asks, cut, use, retires, capable, opened, latest, faults>>

BugSendsAnyway(m) ==
  /\ msg[m].at = "connecting" /\ Settled(msg[m].on)
  /\ \/ conn[msg[m].on].phase = "failed" /\ EndTurn(m, "failed")
     \/ /\ conn[msg[m].on].phase = "ready"
        /\ msg' = [msg EXCEPT ![m].at = "prompting"]
        /\ log' = [log EXCEPT ![IdOf[m]].sent = @ + 1]
  /\ UNCHANGED <<turns, process, stopped, asks, cut, use, conn, retires, capable, opened, latest, faults>>

\* The connection is there: the prompt goes to it unless a cancel was logged meanwhile.
TurnPrompts(m) ==
  /\ msg[m].at = "connecting" /\ Settled(msg[m].on)
  /\ LET id == IdOf[m] IN
     \/ conn[msg[m].on].phase = "failed" /\ EndTurn(m, "failed")
     \/ conn[msg[m].on].phase = "ready" /\ log[id].cancelled /\ EndTurn(m, "ended")
     \/ /\ conn[msg[m].on].phase = "ready" /\ ~log[id].cancelled
        /\ msg' = [msg EXCEPT ![m].at = "prompting"]
        /\ log' = [log EXCEPT ![id].sent = @ + 1]
  /\ UNCHANGED <<turns, process, stopped, asks, cut, use, conn, retires, capable, opened, latest, faults>>

\* The harness answers or refuses the prompt, or the connection closes under it.
TurnAnswered(m) ==
  /\ msg[m].at = "prompting"
  /\ \/ conn[msg[m].on].alive /\ EndTurn(m, "ended")
     \/ EndTurn(m, "failed")
  /\ UNCHANGED <<turns, process, stopped, asks, cut, use, conn, retires, capable, opened, latest, faults>>

\* The turn.after hook is over: nothing runs and the process of the turn is retired.
TurnAfter(m) ==
  /\ msg[m].at = "after"
  /\ running' = None
  /\ Retire(<<m, "last">>)
  /\ msg' = [msg EXCEPT ![m].at = "last", ![m].token = <<m, "last">>]
  /\ UNCHANGED <<queue, turn, stopped, asks, cut, use, conn, capable, opened, log, latest, faults>>

BugNeverDrains(m) ==
  /\ msg[m].at = "last" /\ Free(msg[m].token)
  /\ At(m, "over")
  /\ UNCHANGED <<turns, process, stopped, asks, cut, use, conn, retires, capable, opened, log, latest, faults>>

TurnOver(m) ==
  /\ msg[m].at = "last" /\ Free(msg[m].token)
  /\ Drain([msg EXCEPT ![m].at = "over", ![m].token = NoToken], log, queue)
  /\ UNCHANGED <<process, stopped, asks, cut, use, conn, retires, capable, faults>>

-----------------------------------------------------------------------------
\* connect() after its preparation: one immutable context per process, that of the turn running now.
Spawn(c) ==
  /\ conn[c].phase = "preparing" /\ stopped = "no"
  /\ conn' = [conn EXCEPT ![c].phase = "starting", ![c].run = running, ![c].alive = TRUE]
  /\ child' = c
  /\ UNCHANGED <<turns, live, session, retiring, stopped, asks, msg, cut, use, retires, capable, opened, log, latest, faults>>

Connected(c) ==
  /\ conn[c].phase = "starting" /\ conn[c].alive
  /\ conn' = [conn EXCEPT ![c].phase = "ready"]
  /\ session' = TRUE /\ capable' = TRUE
  /\ UNCHANGED <<turns, live, child, retiring, stopped, asks, msg, cut, use, retires, opened, log, latest, faults>>

\* An error event of the thread names the turn that runs.
ErrorLogged == IF running = None THEN log ELSE [log EXCEPT ![running].end = "ended"]

\* The provider is gone, the thread stopped, the harness refused the session, or its process died.
ConnectFails(c) ==
  /\ conn[c].phase \in {"preparing", "starting"}
  /\ conn' = [conn EXCEPT ![c].phase = "failed"]
  /\ IF live = c /\ stopped = "no"
     THEN live' = NoConn /\ session' = FALSE /\ log' = ErrorLogged
     ELSE UNCHANGED <<live, session, log>>
  /\ UNCHANGED <<turns, child, retiring, stopped, asks, msg, cut, use, retires, capable, opened, latest, faults>>

\* A harness process dies by itself; the host hears of it in a later step.
Dies(c) ==
  /\ conn[c].alive /\ faults.deaths < MaxDeaths
  /\ conn' = [conn EXCEPT ![c] = Dead(c)]
  /\ faults' = [faults EXCEPT !.deaths = @ + 1]
  /\ UNCHANGED <<turns, process, stopped, asks, msg, cut, use, retires, capable, opened, log, latest>>

ExitHeard ==
  /\ child # NoConn /\ ~conn[child].alive /\ session
  /\ child' = NoConn /\ live' = NoConn /\ session' = FALSE
  /\ asks' = {} /\ log' = ErrorLogged
  /\ UNCHANGED <<turns, retiring, stopped, msg, cut, use, conn, retires, capable, opened, latest, faults>>

Hears(c) == child = c /\ stopped = "no"

\* requestPermission and createElicitation: a detached process is answered at once and asks nobody.
Ask(c) ==
  /\ conn[c].alive /\ conn[c].phase = "ready" /\ asks = {}
  /\ Hears(c)
  /\ asks' = {[by |-> c, turn |-> running]}
  /\ UNCHANGED <<turns, process, stopped, msg, cut, use, conn, retires, capable, opened, log, latest, faults>>

AnswerAsk ==
  /\ asks # {} /\ asks' = {}
  /\ UNCHANGED <<turns, process, stopped, msg, cut, use, conn, retires, capable, opened, log, latest, faults>>

-----------------------------------------------------------------------------
\* useLive(): a model, a trait, or the first connection of a new thread.
UseStarts(u) ==
  /\ use[u].at = "idle" /\ stopped = "no"
  /\ IF retiring # NoToken
     THEN use' = [use EXCEPT ![u].at = "ensuring", ![u].token = retiring] /\ UNCHANGED <<live, session, conn>>
     ELSE \E c \in Conns : Ensured(c) /\ use' = [use EXCEPT ![u].at = "using", ![u].on = c]
  /\ UNCHANGED <<turns, child, retiring, stopped, asks, msg, cut, retires, capable, opened, log, latest, faults>>

UseEnsures(u) ==
  /\ use[u].at = "ensuring" /\ Free(use[u].token)
  /\ IF stopped = "no"
     THEN \E c \in Conns : Ensured(c) /\ use' = [use EXCEPT ![u] = [at |-> "using", on |-> c, token |-> NoToken]]
     ELSE use' = [use EXCEPT ![u] = [Unused EXCEPT !.at = "done"]] /\ UNCHANGED <<live, session, conn>>
  /\ UNCHANGED <<turns, child, retiring, stopped, asks, msg, cut, retires, capable, opened, log, latest, faults>>

UseEnds(u) ==
  /\ use[u].at = "using" /\ Settled(use[u].on)
  /\ use' = [use EXCEPT ![u] = [Unused EXCEPT !.at = "done"]]
  /\ UNCHANGED <<turns, process, stopped, asks, msg, cut, conn, retires, capable, opened, log, latest, faults>>

-----------------------------------------------------------------------------
\* Delete and host shutdown: stop().
StopThread ==
  /\ stopped = "no" /\ faults.ends < MaxEnds
  /\ stopped' = "stopping" /\ session' = FALSE
  /\ faults' = [faults EXCEPT !.ends = @ + 1]
  /\ UNCHANGED <<turns, live, child, retiring, asks, msg, cut, use, conn, retires, capable, opened, log, latest>>

StopChild ==
  /\ stopped = "stopping" /\ Free(retiring)
  /\ stopped' = "stopped"
  /\ conn' = [c \in Conns |-> IF c = child THEN Dead(c) ELSE conn[c]]
  /\ UNCHANGED <<turns, process, asks, msg, cut, use, retires, capable, opened, log, latest, faults>>

\* Restart recovery: the last prompt without an end failed, queued prompts are dropped.
Recovered ==
  [i \in Ids |->
    IF i = latest /\ log[i].end = "none" THEN [log[i] EXCEPT !.end = "ended"]
    ELSE IF log[i].queued /\ log[i].prompts = 0 /\ log[i].end = "none" THEN [log[i] EXCEPT !.end = "dropped"]
    ELSE log[i]]

\* The host dies, or is shut down, and starts again: its processes ended with it.
Restart ==
  /\ faults.crashes < MaxCrashes
  /\ faults' = [faults EXCEPT !.crashes = @ + 1]
  /\ running' = None /\ queue' = <<>> /\ turn' = None
  /\ live' = NoConn /\ child' = NoConn /\ session' = FALSE /\ retiring' = NoToken
  /\ stopped' = "no" /\ asks' = {} /\ opened' = {}
  /\ msg' = [m \in Messages |-> IF msg[m].at = "unsent" THEN Fresh ELSE Done]
  /\ cut' = [a \in Messages \cup Stops |-> NoCut]
  /\ use' = [u \in Uses |-> IF use[u].at = "idle" THEN use[u] ELSE [Unused EXCEPT !.at = "done"]]
  /\ conn' = [c \in Conns |-> NoProcess]
  /\ retires' = [k \in Tokens |-> [busy |-> FALSE, child |-> NoConn]]
  /\ log' = Recovered
  /\ UNCHANGED <<capable, latest>>

-----------------------------------------------------------------------------
\* A thread as it is loaded or created: nothing runs.
Quiet ==
  /\ running = None /\ queue = <<>> /\ turn = None
  /\ live = NoConn /\ child = NoConn /\ session = FALSE /\ retiring = NoToken
  /\ stopped = "no" /\ asks = {} /\ opened = {}
  /\ conn = [c \in Conns |-> NoProcess]
  /\ retires = [k \in Tokens |-> [busy |-> FALSE, child |-> NoConn]]
  /\ log = [i \in Ids |-> Unlogged] /\ latest = None

Init ==
  /\ Quiet /\ capable = FALSE
  /\ msg = [m \in Messages |-> Fresh]
  /\ cut = [a \in Messages \cup Stops |-> NoCut]
  /\ use = [u \in Uses |-> Unused]
  /\ faults = [crashes |-> 0, deaths |-> 0, ends |-> 0]

TurnStep(m) ==
  \/ TurnSettled(m) \/ TurnWarmed(m) \/ TurnCooled(m) \/ PrepareFails(m) \/ Prepared(m)
  \/ TurnPrompts(m) \/ TurnAnswered(m) \/ TurnAfter(m) \/ TurnOver(m)

Next ==
  \/ \E m \in Messages, d \in {"steer", "queue"} : Send(m, d)
  \/ \E m \in Messages :
       \/ LearnEnsures(m) \/ Learned(m) \/ QueueSteer(m) \/ QueueDrop(m)
       \/ CancelThrows(m) \/ Outlived(m) \/ Interrupted(m) \/ TurnStep(m)
  \/ \E s \in Stops : Stop(s)
  \/ \E a \in Messages \cup Stops : Cancelled(a)
  \/ \E u \in Uses : UseStarts(u) \/ UseEnsures(u) \/ UseEnds(u)
  \/ \E c \in Conns : Spawn(c) \/ Connected(c) \/ ConnectFails(c) \/ Dies(c) \/ Ask(c)
  \/ \E k \in Tokens : Retired(k)
  \/ IdleRetire \/ ExitHeard \/ AnswerAsk \/ StopThread \/ StopChild \/ Restart

Spec == Init /\ [][Next]_vars

-----------------------------------------------------------------------------
\* What the host and its timers do by themselves, and what a harness owes: it ends a prompt it was
\* told to cancel, or whose process died, and a start or a stop of a process comes to an end.
Moves(m) ==
  \/ LearnEnsures(m) \/ Learned(m) \/ Cancelled(m) \/ Interrupted(m) \/ Outlived(m)
  \/ TurnSettled(m) \/ TurnWarmed(m) \/ TurnCooled(m) \/ Prepared(m) \/ TurnPrompts(m)
  \/ TurnAfter(m) \/ TurnOver(m)
  \/ TurnAnswered(m) /\ (conn[msg[m].on].told # None \/ ~conn[msg[m].on].alive)

Background ==
  \/ \E s \in Stops : Cancelled(s)
  \/ \E u \in Uses : UseEnsures(u) \/ UseEnds(u)
  \/ \E c \in Conns : Spawn(c) \/ Connected(c) \/ ConnectFails(c)
  \/ \E k \in Tokens : Retired(k)
  \/ ExitHeard \/ StopChild

Fairness == WF_vars(Background) /\ \A m \in Messages : WF_vars(Moves(m))
FairSpec == Spec /\ Fairness

-----------------------------------------------------------------------------
TypeOK ==
  /\ running \in Ids \cup {None} /\ turn \in Messages \cup {None} /\ queue \in Seq(Messages)
  /\ live \in Conns \cup {NoConn} /\ child \in Conns \cup {NoConn} /\ session \in BOOLEAN
  /\ retiring \in Tokens \cup {NoToken}
  /\ stopped \in {"no", "stopping", "stopped"}
  /\ running # None => turn # None /\ IdOf[turn] = running

\* One turn runs at a time, whatever steers, queues and ends overlap, and t.running names it.
OneTurn ==
  /\ TypeOK
  /\ \A m, n \in Messages : msg[m].at \in Working /\ msg[n].at \in Working => m = n
  /\ \A m \in Messages : msg[m].at \in Working => running = IdOf[m]

\* A process serves the turn whose identity it carries ("delayed MCP and shell invocations can never
\* acquire a later turn"), also one that was warmed outside any turn: a prompt goes only to a process
\* of its own turn, and an open question of a turn's process is shown under no later turn.
OwnIdentity ==
  /\ \A m \in Messages : msg[m].at = "prompting" /\ conn[msg[m].on].alive => conn[msg[m].on].run = IdOf[m]
  /\ \A a \in asks : a.turn # None /\ conn[a.by].run # None => a.turn = conn[a.by].run

\* Every prompt the transcript holds is accounted for, also after a restart.  A queued one that neither
\* ran nor was dropped is in one place: the queue, or the one steer that took it out and puts it back
\* when the running turn does not stop.  One that ran is the running one or has its end there.
InOnePlace(i) ==
  \E m \in Messages :
    /\ IdOf[m] = i
    /\ \/ msg[m].at \in Steering /\ msg[m].home > 0 /\ ~Contains(queue, m)
       \/ Cardinality({k \in DOMAIN queue : queue[k] = m}) = 1
Accounted ==
  \A i \in Ids : stopped = "no" /\ log[i].end = "none" =>
    /\ log[i].queued /\ log[i].prompts = 0 => InOnePlace(i)
    /\ log[i].prompts > 0 => running = i

\* What turnState() answers of each id; null is "unknown".
TurnState ==
  [i \in Ids |->
    IF running = i THEN "running"
    ELSE IF \E k \in DOMAIN queue : IdOf[queue[k]] = i THEN "queued"
    ELSE IF log[i].end # "none" THEN "settled" ELSE "unknown"]

\* How far the log says each prompt has come.
Told ==
  [i \in Ids |->
    IF log[i].sent > 1 THEN "sent again" ELSE IF log[i].sent = 1 THEN "sent"
    ELSE IF log[i].prompts > 0 THEN "begun"
    ELSE IF log[i].queued THEN "waiting" ELSE "new"]

\* A prompt with attachments is not checked again for its id once the host has learned what the harness
\* reads: of these ids a second request may be admitted.
Twice == {IdOf[m] : m \in {a \in Attached : \E n \in Messages : n # a /\ IdOf[n] = IdOf[a]}}

Ledger == INSTANCE TurnLedger WITH state <- TurnState, told <- Told, over <- (stopped # "no")

\* A prompt runs at most once and never after it settled, one at a time, and is never sent again: retries
\* of requests that are being admitted, steers, the queue, deletes and restarts included.  What is told of
\* a retried prompt with attachments is weaker: it may be queued or run again, but is not sent again.
PromisesKept == Ledger!Spec

\* A turn whose cancel was logged ends: the cancel reaches its prompt or keeps it from being sent,
\* unless the late exit of a process whose start had failed took the turn's connection from the thread.
Bereft == live = NoConn /\ \E m \in Messages : msg[m].at = "prompting"
CancelEnds == []<>(running # None => ~log[running].cancelled \/ Bereft)

\* A queue does not stay behind when nothing runs.
QueueMoves == []<>(queue = <<>> \/ running # None \/ stopped # "no")

\* After a delete or a shutdown "no turn, timer or child outlives the thread": what is alive is being
\* stopped.
NothingOutlives ==
  stopped = "stopped" =>
    \A c \in Conns : conn[c].alive => \E k \in Tokens : retires[k].busy /\ retires[k].child = c
=============================================================================

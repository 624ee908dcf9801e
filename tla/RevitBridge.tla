------------------------------ MODULE RevitBridge ------------------------------
(***************************************************************************)
(* The host's side of the socket to one Revit process                      *)
(* (ts/apps/host/src/bridge.ts): registration and takeover, the FIFO gate, *)
(* the fence a revocation raises, the decision to dispatch, cancels, lost  *)
(* connections and what each request is finally reported as.  An action is *)
(* what one fiber does between two awaits.                                 *)
(***************************************************************************)
EXTENDS Naturals, Sequences, FiniteSets

CONSTANTS
  Requests,        \* wire ids
  Journaled,       \* the requests whose dispatch an action journal owns
  None,            \* no request
  MAX_QUEUED_OPS,  \* requests one connection holds
  Interruptible,   \* the requests whose caller may go away
  MaxConnections,  \* bound: connections of the process
  MaxRevocations   \* bound: revocations

ASSUME BridgeAssumption ==
  /\ IsFiniteSet(Requests) /\ Journaled \cup Interruptible \subseteq Requests /\ None \notin Requests
  /\ MAX_QUEUED_OPS \in Nat \ {0}
  /\ MaxConnections \in Nat /\ MaxRevocations \in Nat

VARIABLES
  link,         \* each connection: "none" yet, "up", "cut" at Revit's end, "gone" for the host too
  current,      \* the connection in the sessions map, 0 for none
  queueTail,    \* the request whose gate the next invoke of a connection awaits
  queueDepth,   \* of each connection
  req,          \* what the host keeps of each request
  native,       \* each request at Revit: "unsent", "running", "done" or "dropped" before it ran
  denied,       \* the requests their journal refuses: cancelled, stopped or without a live basis
  closed,       \* the requests whose document is not open any more
  revocations,  \* the chain of revocations, in the order they were asked
  revokedBeforeQueue,
  withdrawn     \* ghost: the requests that were ever cancelled behind the gate

vars == <<link, current, queueTail, queueDepth, req, native, denied, closed, revocations, revokedBeforeQueue,
          withdrawn>>
sockets == <<link, current>>
gates == <<queueTail, queueDepth>>
journal == <<denied, closed, revocations, revokedBeforeQueue, withdrawn>>

Connections == 1 .. MaxConnections
\* Revit's answers: a value, an error, a task it dropped before it ran (cancelled or refused by its
\* queue), one a cancel stopped on its way, one without an outcome yet, and one nobody can decode.
Replies == {"ok", "failed", "dropped", "stopped", "unsettled", "garbled"}
Fresh == [pc |-> "begun", at |-> 0, ahead |-> None, fence |-> 0, phase |-> "none", reply |-> "none",
          outcome |-> "none"]

\* What invokeBridge makes of a reply, and of a connection lost before one.
BugStoppedIsRefused(reply) ==
  CASE reply = "ok" -> "succeeded" [] reply = "failed" -> "failed"
    [] reply \in {"dropped", "stopped"} -> "refused" [] OTHER -> "unknown"
Observed(reply) ==
  CASE reply = "ok" -> "succeeded" [] reply = "failed" -> "failed"
    [] reply = "dropped" -> "refused" [] reply = "stopped" -> "cancelled" [] OTHER -> "unknown"

\* The request leaves the registry and opens its gate.
Settle(r, outcome) ==
  /\ req' = [req EXCEPT ![r] = [@ EXCEPT !.pc = "done", !.phase = "none", !.outcome = outcome]]
  /\ queueDepth' = [queueDepth EXCEPT ![req[r].at] = @ - 1]
  /\ UNCHANGED queueTail

Refuse(r) == Settle(r, "refused") /\ UNCHANGED native

-----------------------------------------------------------------------------
(* Connections.                                                             *)

BugFailsQueuedOnly(g) ==
  [r \in Requests |->
     IF req[r].at # g \/ req[r].phase = "none" THEN req[r]
     ELSE [req[r] EXCEPT !.phase = "none",
                         !.reply = IF @ = "none" /\ req[r].phase # "dispatched" THEN "lost" ELSE @]]

\* The registry of a connection is emptied and its pending replies fail.
FailPending(g) ==
  [r \in Requests |->
     IF req[r].at # g \/ req[r].phase = "none" THEN req[r]
     ELSE [req[r] EXCEPT !.phase = "none", !.reply = IF @ = "none" THEN "lost" ELSE @]]

\* A connection registers; the one it takes over was already dead at Revit's end.
Register(g) ==
  /\ link[g] = "none" /\ \A h \in Connections : h < g => link[h] \in {"cut", "gone"}
  /\ link' = [link EXCEPT ![g] = "up"]
  /\ current' = g
  /\ req' = IF current = 0 THEN req ELSE FailPending(current)
  /\ UNCHANGED <<gates, native, journal>>

LinkLost(g) ==
  /\ link[g] = "up"
  /\ link' = [link EXCEPT ![g] = "cut"]
  /\ UNCHANGED <<current, gates, req, native, journal>>

\* The host sees the socket close; only the connection still in the map removes itself.
BugClosesSuccessor(g) ==
  /\ link[g] = "cut"
  /\ link' = [link EXCEPT ![g] = "gone"]
  /\ req' = FailPending(IF current = 0 THEN g ELSE current)
  /\ current' = 0
  /\ UNCHANGED <<gates, native, journal>>

CleanupSession(g) ==
  /\ link[g] = "cut"
  /\ link' = [link EXCEPT ![g] = "gone"]
  /\ req' = FailPending(g)
  /\ current' = IF current = g THEN 0 ELSE current
  /\ UNCHANGED <<gates, native, journal>>

-----------------------------------------------------------------------------
(* One request.                                                             *)

InvokeNoSession(r) ==
  /\ req[r].pc = "begun" /\ current = 0
  /\ req' = [req EXCEPT ![r] = [@ EXCEPT !.pc = "done", !.outcome = "refused"]]
  /\ UNCHANGED <<sockets, gates, native, journal>>

InvokeFull(r) ==
  /\ req[r].pc = "begun" /\ current # 0
  /\ queueDepth[current] >= MAX_QUEUED_OPS
  /\ req' = [req EXCEPT ![r] = [@ EXCEPT !.pc = "done", !.outcome = "refused"]]
  /\ UNCHANGED <<sockets, gates, native, journal>>

\* The request is reserved under its wire id and takes its place at the end of the gate chain.
Invoke(r) ==
  /\ req[r].pc = "begun" /\ current # 0
  /\ queueDepth[current] < MAX_QUEUED_OPS
  /\ req' = [req EXCEPT ![r] = [@ EXCEPT
               !.pc = "gate", !.at = current, !.ahead = queueTail[current],
               !.phase = IF r \in revokedBeforeQueue THEN "cancelled" ELSE "queued"]]
  /\ revokedBeforeQueue' = revokedBeforeQueue \ {r}
  /\ queueTail' = [queueTail EXCEPT ![current] = r]
  /\ queueDepth' = [queueDepth EXCEPT ![current] = @ + 1]
  /\ withdrawn' = IF r \in revokedBeforeQueue THEN withdrawn \cup {r} ELSE withdrawn
  /\ UNCHANGED <<sockets, native, denied, closed, revocations>>

BugOpensOnDispatch(r) ==
  req[r].ahead # None => req[req[r].ahead].pc \notin {"gate", "fence", "validate", "decide"}

\* A gate is open once its request has settled.
GateOpen(r) == req[r].ahead # None => req[req[r].ahead].pc = "done"

AtFence(r) == [req EXCEPT ![r] = [@ EXCEPT !.pc = "fence", !.fence = Len(revocations)]]

\* The previous gate opened, its queue fact is recorded, and the fence is read.
PassGate(r) ==
  /\ req[r].pc = "gate" /\ GateOpen(r)
  /\ req' = AtFence(r)
  /\ UNCHANGED <<sockets, gates, native, journal>>

Fallen(n) == n > 0 => revocations[n].state \in {"swept", "failed"}
Broken(n) == n > 0 /\ revocations[n].state = "failed"
NotLive(r) == current # req[r].at \/ r \in closed

\* The fence it read has settled; the connection and the document are looked up again.
PassFence(r) ==
  /\ req[r].pc = "fence" /\ Fallen(req[r].fence)
  /\ IF Broken(req[r].fence) \/ NotLive(r)
     THEN Refuse(r)
     ELSE /\ req' = [req EXCEPT ![r].pc = "validate"]
          /\ UNCHANGED <<gates, native>>
  /\ UNCHANGED <<sockets, journal>>

\* The journal's own gate, which reads Work and probes evidence, lets the request pass.
Validated(r) ==
  /\ req[r].pc = "validate" /\ r \notin denied
  /\ req' = [req EXCEPT ![r].pc = "decide"]
  /\ UNCHANGED <<sockets, gates, native, journal>>

Invalid(r) ==
  /\ req[r].pc = "validate" /\ r \in Journaled
  /\ Refuse(r)
  /\ UNCHANGED <<sockets, journal>>

AtDecision(r) == req[r].pc = "decide"
Moved(r) == req[r].fence # Len(revocations)
BugIgnoresFence(r) == AtDecision(r) /\ req[r].phase # "cancelled" /\ r \notin denied
MayDispatch(r) == AtDecision(r) /\ req[r].phase # "cancelled" /\ ~Moved(r) /\ r \notin denied

\* A revocation was asked since the fence was read: wait for that one too.
Again(r) ==
  /\ AtDecision(r) /\ req[r].phase # "cancelled" /\ Moved(r)
  /\ req' = AtFence(r)
  /\ UNCHANGED <<sockets, gates, native, journal>>

DecideRefused(r) ==
  /\ AtDecision(r)
  /\ req[r].phase = "cancelled" \/ (~Moved(r) /\ r \in denied)
  /\ Refuse(r)
  /\ UNCHANGED <<sockets, journal>>

\* Marked dispatched in the registry and written to the connection's own socket, whatever
\* connection is current by now.  A frame written after Revit's end died reaches nobody.
Dispatch(r) ==
  /\ MayDispatch(r)
  /\ req' = [req EXCEPT ![r] = [@ EXCEPT !.phase = "dispatched",
                                         !.pc = IF r \in Journaled THEN "mark" ELSE "reply"]]
  /\ native' = [native EXCEPT ![r] = IF link[req[r].at] = "up" THEN "running" ELSE @]
  /\ UNCHANGED <<sockets, gates, journal>>

\* The payload does not encode.
Unencodable(r) ==
  /\ MayDispatch(r)
  /\ Refuse(r)
  /\ UNCHANGED <<sockets, journal>>

\* Writing to a dead socket throws.
SendThrows(r) ==
  /\ MayDispatch(r) /\ link[req[r].at] # "up"
  /\ Settle(r, "threw")
  /\ UNCHANGED <<sockets, native, journal>>

Marked(r) ==
  /\ req[r].pc = "mark"
  /\ req' = [req EXCEPT ![r].pc = "reply"]
  /\ UNCHANGED <<sockets, gates, native, journal>>

\* The journal cannot record the dispatch.
MarkThrows(r) ==
  /\ req[r].pc = "mark"
  /\ Settle(r, "threw")
  /\ UNCHANGED <<sockets, native, journal>>

Reported(r) ==
  /\ req[r].pc = "reply" /\ req[r].reply # "none"
  /\ Settle(r, Observed(req[r].reply))
  /\ UNCHANGED <<sockets, native, journal>>

BugInterruptLeaks(r) ==
  /\ r \in Interruptible
  /\ req[r].pc \notin {"begun", "done"}
  /\ req' = [req EXCEPT ![r] = [@ EXCEPT !.pc = "done", !.phase = "none", !.outcome = "interrupted"]]
  /\ UNCHANGED <<sockets, gates, native, journal>>

\* The caller goes away: its fiber's finalizers run wherever it is.
Interrupt(r) ==
  /\ r \in Interruptible
  /\ req[r].pc \notin {"begun", "done"}
  /\ Settle(r, "interrupted")
  /\ UNCHANGED <<sockets, native, journal>>

-----------------------------------------------------------------------------
(* Revit, the journal and whoever cancels.                                  *)

\* Revit answers a request it holds; an unsettled answer leaves it running.
Answer(r, reply) ==
  /\ native[r] = "running" /\ link[req[r].at] = "up"
  /\ native' = [native EXCEPT ![r] =
       CASE reply = "unsettled" -> "running" [] reply = "dropped" -> "dropped" [] OTHER -> "done"]
  /\ req' = IF req[r].phase = "none" \/ req[r].reply # "none" THEN req ELSE [req EXCEPT ![r].reply = reply]
  /\ reply = "unsettled" => req' # req
  /\ UNCHANGED <<sockets, gates, journal>>

\* Revit is through with a request whose connection is gone; nobody learns what became of it.
FinishUnheard(r) ==
  /\ native[r] = "running" /\ link[req[r].at] # "up"
  /\ native' = [native EXCEPT ![r] = "done"]
  /\ UNCHANGED <<sockets, gates, req, journal>>

DocumentCloses(r) ==
  /\ req[r].pc \in {"gate", "fence"}
  /\ closed' = closed \cup {r}
  /\ UNCHANGED <<sockets, gates, req, native, denied, revocations, revokedBeforeQueue, withdrawn>>

\* The journal flags the action, or its consent or basis ends.
Deny(r) ==
  /\ r \in Journaled /\ req[r].pc # "done"
  /\ denied' = denied \cup {r}
  /\ UNCHANGED <<sockets, gates, req, native, closed, revocations, revokedBeforeQueue, withdrawn>>

\* op.cancel of a request still behind the gate of the current connection.
CancelRequest(r) ==
  /\ req[r].at = current /\ req[r].phase = "queued"
  /\ req' = [req EXCEPT ![r].phase = "cancelled"]
  /\ withdrawn' = withdrawn \cup {r}
  /\ UNCHANGED <<sockets, gates, native, denied, closed, revocations, revokedBeforeQueue>>

\* A human removes a target: its requests lose their basis and a revocation joins the chain.
Revoke(named) ==
  /\ Len(revocations) < MaxRevocations
  /\ denied' = denied \cup named
  /\ revocations' = Append(revocations, [named |-> named, state |-> "asked"])
  /\ UNCHANGED <<sockets, gates, req, native, closed, revokedBeforeQueue, withdrawn>>

\* The journal lists the running steps the revocation concerns, or cannot.
Census(n) ==
  /\ revocations[n].state = "asked"
  /\ revocations' = [revocations EXCEPT ![n] =
       [named |-> {r \in @.named : req[r].pc # "done"}, state |-> "listed"]]
  /\ UNCHANGED <<sockets, gates, req, native, denied, closed, revokedBeforeQueue, withdrawn>>

CensusFails(n) ==
  /\ revocations[n].state \in {"asked", "listed"}
  /\ revocations[n].state = "asked" \/ Broken(n - 1)
  /\ revocations' = [revocations EXCEPT ![n].state = "failed"]
  /\ UNCHANGED <<sockets, gates, req, native, denied, closed, revokedBeforeQueue, withdrawn>>

\* Every queued request it names is cancelled; the others are remembered unless the registry of
\* the current connection has them.
Sweep(n) ==
  /\ revocations[n].state = "listed" /\ Fallen(n - 1) /\ ~Broken(n - 1)
  /\ LET known == {r \in revocations[n].named : req[r].at = current /\ req[r].phase # "none"}
         queued == {r \in known : req[r].phase = "queued"}
     IN  /\ req' = [r \in Requests |-> IF r \in queued THEN [req[r] EXCEPT !.phase = "cancelled"] ELSE req[r]]
         /\ withdrawn' = withdrawn \cup queued
         /\ revokedBeforeQueue' = revokedBeforeQueue \cup (revocations[n].named \ known)
  /\ revocations' = [revocations EXCEPT ![n].state = "swept"]
  /\ UNCHANGED <<sockets, gates, native, denied, closed>>

-----------------------------------------------------------------------------
Init ==
  /\ link = [g \in Connections |-> "none"] /\ current = 0
  /\ queueTail = [g \in Connections |-> None] /\ queueDepth = [g \in Connections |-> 0]
  /\ req = [r \in Requests |-> Fresh] /\ native = [r \in Requests |-> "unsent"]
  /\ denied = {} /\ closed = {} /\ revocations = <<>> /\ revokedBeforeQueue = {} /\ withdrawn = {}

\* What the host's own fibers do next.
Fiber(r) ==
  \/ PassGate(r) \/ PassFence(r) \/ Validated(r) \/ Invalid(r) \/ Again(r) \/ DecideRefused(r)
  \/ Dispatch(r) \/ Unencodable(r) \/ SendThrows(r) \/ Marked(r) \/ MarkThrows(r) \/ Reported(r)
  \/ InvokeNoSession(r) \/ InvokeFull(r) \/ Invoke(r)
Chain(n) == Census(n) \/ CensusFails(n) \/ Sweep(n)
Answers(r) == (\E reply \in Replies : Answer(r, reply)) \/ FinishUnheard(r)

Next ==
  \/ \E g \in Connections : Register(g) \/ LinkLost(g) \/ CleanupSession(g)
  \/ \E r \in Requests :
       Fiber(r) \/ Answers(r) \/ Interrupt(r) \/ DocumentCloses(r) \/ Deny(r) \/ CancelRequest(r)
  \/ \E named \in SUBSET Journaled : named # {} /\ Revoke(named)
  \/ \E n \in DOMAIN revocations : Chain(n)

Spec == Init /\ [][Next]_vars

\* Fibers run, a dead socket is noticed, the journal's census answers, and Revit answers what it
\* runs: while any of them can move, one does. Nothing makes a connection, a cancel or a revocation
\* happen. Each of these moves brings a request or a revocation further, so no one starves.
Moves ==
  \/ \E r \in Requests : Fiber(r) \/ Answers(r)
  \/ \E g \in Connections : CleanupSession(g)
  \/ \E n \in DOMAIN revocations : Chain(n)
Fairness == WF_vars(Moves)

FairSpec == Spec /\ Fairness

-----------------------------------------------------------------------------
Pcs == {"begun", "gate", "fence", "validate", "decide", "mark", "reply", "done"}
Outcomes == {"none", "refused", "succeeded", "failed", "cancelled", "unknown", "threw", "interrupted"}

Entries == [pc : Pcs, at : {0} \cup Connections, ahead : Requests \cup {None}, fence : Nat,
            phase : {"none", "queued", "dispatched", "cancelled"},
            reply : {"none", "lost"} \cup Replies, outcome : Outcomes]

Revocations == [named : SUBSET Journaled, state : {"asked", "listed", "swept", "failed"}]

TypeOK ==
  /\ link \in [Connections -> {"none", "up", "cut", "gone"}] /\ current \in {0} \cup Connections
  /\ queueTail \in [Connections -> Requests \cup {None}] /\ queueDepth \in [Connections -> Nat]
  /\ req \in [Requests -> Entries]
  /\ native \in [Requests -> {"unsent", "running", "done", "dropped"}]
  /\ denied \subseteq Journaled /\ closed \subseteq Requests /\ revokedBeforeQueue \cup withdrawn \subseteq Requests
  /\ revocations \in Seq(Revocations)

\* The evidence a receipt is built on (invokeBridge, BridgeError.evidence): a request is reported as
\* refused only if it never reached Revit or Revit dropped it unperformed, one cancelled behind the
\* gate never reaches it ("Revit never sees it at all"), whatever becomes of its connection, and
\* after any other settled verdict Revit runs it no more. A lost, unsettled or undecodable answer
\* is never taken for one of these.
Honest ==
  \A r \in Requests :
    /\ r \in withdrawn => native[r] = "unsent"
    /\ req[r].outcome = "refused" => native[r] \in {"unsent", "dropped"}
    /\ req[r].outcome \in {"succeeded", "failed", "cancelled"} => native[r] = "done"

\* "The FIFO gate below is what keeps ordinary ops serial": a connection never has two of them
\* dispatched.
Serial ==
  \A g \in Connections : Cardinality({r \in Requests : req[r].at = g /\ req[r].phase = "dispatched"}) <= 1

\* As long as no caller has gone away the gate keeps its word, over takeovers, refusals, cancels
\* and throws.
SerialUninterrupted == (\A r \in Requests : req[r].outcome # "interrupted") => Serial

\* The depth counts exactly the requests a connection holds, through refusals, losses and
\* throws, and never passes MAX_QUEUED_OPS.
DepthBounded ==
  \A g \in Connections :
    /\ queueDepth[g] = Cardinality({r \in Requests : req[r].at = g /\ req[r].pc # "done"})
    /\ queueDepth[g] <= MAX_QUEUED_OPS

\* "The OLD connection's close must never tear down the NEW connection that re-registered the
\* same id": a reply is lost only with its own connection, and a live connection stays in the map.
LossIsReal ==
  /\ \A r \in Requests : req[r].reply = "lost" => link[req[r].at] # "up"
  /\ \A g \in Connections : link[g] = "up" => current = g

Sends(r) == req[r].phase # "dispatched" /\ req'[r].phase = "dispatched"

\* Nothing is sent to Revit for an action that was cancelled, stopped or lost its basis at any
\* moment before, the journal's own asynchronous validation included; and "a revoke fences dispatch
\* synchronously, before its asynchronous journal census answers": nothing at all is sent while a
\* revocation is out, whenever it was asked.
FenceHolds ==
  [][\A r \in Requests : Sends(r) =>
       r \notin denied /\ \A n \in DOMAIN revocations : revocations[n].state = "swept"]_vars

\* Every request is reported: no gate stays shut behind a lost connection, a refusal or a throw.
EveryReports == []<>(\A r \in Requests : req[r].pc = "done")

=============================================================================

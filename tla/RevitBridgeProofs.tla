--------------------------- MODULE RevitBridgeProofs ---------------------------
(***************************************************************************)
(* The safety properties of the bridge, for any number of requests,        *)
(* connections and revocations. Each section strengthens one of them:      *)
(* frame lemmas first sort the steps by what they change of the variables  *)
(* the section speaks of, and the invariant is then kept by each sort.     *)
(***************************************************************************)
EXTENDS RevitBridge, FiniteSetTheorems, TLAPS

Waiting == {"gate", "fence", "validate", "decide"}
Inside == Waiting \cup {"mark", "reply"}

\* The types, the depth of a queue as an integer so far.
Typed ==
  /\ link \in [Connections -> {"none", "up", "cut", "gone"}] /\ current \in {0} \cup Connections
  /\ queueTail \in [Connections -> Requests \cup {None}] /\ queueDepth \in [Connections -> Int]
  /\ req \in [Requests -> Entries]
  /\ native \in [Requests -> {"unsent", "running", "done", "dropped"}]
  /\ denied \subseteq Journaled /\ closed \subseteq Requests /\ revokedBeforeQueue \cup withdrawn \subseteq Requests
  /\ revocations \in Seq(Revocations)

\* Where a request can be, and what that says of its entry.
PlacedAs(e) ==
  /\ e.pc = "begun" => e.at = 0 /\ e.phase = "none" /\ e.reply = "none"
  /\ e.pc \in Inside => e.at \in Connections
  /\ e.pc = "done" => e.phase = "none"
  /\ e.pc # "done" => e.outcome = "none"
  /\ e.phase \in {"queued", "cancelled"} => e.pc \in Waiting
  /\ e.phase = "dispatched" => e.pc \in {"mark", "reply"}
  /\ e.phase # "none" => e.at \in Connections
Placed == \A r \in Requests : PlacedAs(req[r]) /\ req[r].fence <= Len(revocations)

Base == Typed /\ Placed

USE BridgeAssumption DEF Connections

LEMMA InitBase == Init => Base
  BY DEF Init, Base, Typed, Placed, PlacedAs, Fresh, Entries, Pcs, Outcomes, Replies, Inside, Waiting

\* A step that replaces one entry by another that is in its place.
LEMMA OneEntry ==
  ASSUME Base, NEW r \in Requests, NEW e \in Entries, PlacedAs(e), e.fence <= Len(revocations),
         req' = [req EXCEPT ![r] = e], revocations' = revocations
  PROVE  req' \in [Requests -> Entries] /\ Placed'
  BY DEF Base, Typed, Placed

\* What an entry becomes when its request settles or loses its connection.
LEMMA EntryChanges ==
  ASSUME NEW e \in Entries, PlacedAs(e)
  PROVE  /\ \A outcome \in Outcomes : LET f == [e EXCEPT !.pc = "done", !.phase = "none", !.outcome = outcome]
                                   IN  e.pc \in Inside => f \in Entries /\ PlacedAs(f) /\ f.fence = e.fence
         /\ LET f == [e EXCEPT !.phase = "none", !.reply = IF @ = "none" THEN "lost" ELSE @]
            IN  e.phase # "none" => f \in Entries /\ PlacedAs(f) /\ f.fence = e.fence
<1>1. ASSUME NEW outcome \in Outcomes, e.pc \in Inside
      PROVE  LET f == [e EXCEPT !.pc = "done", !.phase = "none", !.outcome = outcome]
             IN  f \in Entries /\ PlacedAs(f) /\ f.fence = e.fence
  BY <1>1 DEF Entries, Pcs, PlacedAs, Inside, Waiting
<1>2. ASSUME e.phase # "none"
      PROVE  LET f == [e EXCEPT !.phase = "none", !.reply = IF @ = "none" THEN "lost" ELSE @]
             IN  f \in Entries /\ PlacedAs(f) /\ f.fence = e.fence
  BY <1>2 DEF Entries, PlacedAs, Inside, Waiting, Pcs
<1> QED BY <1>1, <1>2

LEMMA ToFence ==
  ASSUME NEW e \in Entries, PlacedAs(e), e.pc \in Waiting, NEW n \in Nat
  PROVE  LET f == [e EXCEPT !.pc = "fence", !.fence = n] IN f \in Entries /\ PlacedAs(f) /\ f.fence <= n
<1> DEFINE f == [e EXCEPT !.pc = "fence", !.fence = n]
<1>1. f \in Entries /\ f.fence = n
  BY DEF Entries, Pcs
<1>2. PlacedAs(f)
  BY DEF Entries, PlacedAs, Inside, Waiting
<1> QED BY <1>1, <1>2

LEMMA SettleBase ==
  ASSUME Base, NEW r \in Requests, req[r].pc \in Inside, NEW outcome \in Outcomes, Settle(r, outcome),
         revocations' = revocations
  PROVE  /\ queueTail' = queueTail /\ queueDepth' \in [Connections -> Int]
         /\ req' \in [Requests -> Entries] /\ Placed'
<1> DEFINE e == [req[r] EXCEPT !.pc = "done", !.phase = "none", !.outcome = outcome]
<1>1. req[r] \in Entries /\ PlacedAs(req[r]) /\ req[r].fence <= Len(revocations)
  BY DEF Base, Typed, Placed
<1>2. e \in Entries /\ PlacedAs(e) /\ e.fence <= Len(revocations)
  BY <1>1, EntryChanges
<1>3. req' = [req EXCEPT ![r] = e]
  BY DEF Settle
<1>4. req' \in [Requests -> Entries] /\ Placed'
  <2> HIDE DEF e
  <2> QED BY <1>2, <1>3, OneEntry
<1>5. req[r].at \in Connections
  BY <1>1 DEF PlacedAs
<1> QED BY <1>4, <1>5 DEF Settle, Base, Typed

LEMMA FailPendingBase ==
  ASSUME Base, NEW g \in {0} \cup Connections, req' = FailPending(g), revocations' = revocations
  PROVE  req' \in [Requests -> Entries] /\ Placed'
<1>1. ASSUME NEW r \in Requests
      PROVE  req'[r] \in Entries /\ PlacedAs(req'[r]) /\ req'[r].fence = req[r].fence
  <2> DEFINE e == [req[r] EXCEPT !.phase = "none", !.reply = IF @ = "none" THEN "lost" ELSE @]
  <2>1. req[r] \in Entries /\ PlacedAs(req[r])
    BY DEF Base, Typed, Placed
  <2>2. req[r].phase # "none" => e \in Entries /\ PlacedAs(e) /\ e.fence = req[r].fence
    BY <2>1, EntryChanges
  <2>3. req'[r] = IF req[r].at # g \/ req[r].phase = "none" THEN req[r] ELSE e
    BY DEF FailPending
  <2> QED BY <2>1, <2>2, <2>3
<1> QED BY <1>1 DEF FailPending, Base, Typed, Placed

LEMMA NextBase == Base /\ [Next]_vars => Base'
<1> SUFFICES ASSUME Base, Next PROVE Base'
  BY DEF Base, Typed, Placed, vars
<1> USE DEF Base
<1>0. \A r \in Requests : req[r] \in Entries /\ PlacedAs(req[r]) /\ req[r].fence <= Len(revocations)
  BY DEF Typed, Placed
<1>00. Len(revocations) \in Nat
  BY DEF Typed
<1>1. ASSUME NEW g \in Connections, Register(g) PROVE Base'
  BY <1>1, FailPendingBase DEF Typed, Placed, Register, gates, journal
<1>2. ASSUME NEW g \in Connections, LinkLost(g) PROVE Base'
  BY <1>2 DEF Typed, Placed, LinkLost, gates, journal
<1>3. ASSUME NEW g \in Connections, CleanupSession(g) PROVE Base'
  BY <1>3, FailPendingBase DEF Typed, CleanupSession, gates, journal
<1>4. ASSUME NEW r \in Requests, Fiber(r) PROVE Base'
  <2>0. req[r] \in Entries /\ PlacedAs(req[r]) /\ req[r].fence <= Len(revocations)
    BY <1>0
  <2>1. CASE PassGate(r)
    <3> DEFINE e == [req[r] EXCEPT !.pc = "fence", !.fence = Len(revocations)]
    <3>1. e \in Entries /\ PlacedAs(e) /\ e.fence <= Len(revocations)
      <4>1. req[r].pc \in Waiting
        BY <2>1 DEF PassGate, AtFence, Waiting
      <4> QED BY <4>1, <2>0, <1>00, ToFence
    <3>2. req' = [req EXCEPT ![r] = e] /\ revocations' = revocations
      BY <2>1 DEF PassGate, AtFence, sockets, gates, journal
    <3>3. req' \in [Requests -> Entries] /\ Placed'
      <4> HIDE DEF e
      <4> QED BY <3>1, <3>2, OneEntry
    <3> QED BY <2>1, <3>3 DEF Typed, PassGate, AtFence, sockets, gates, journal
  <2>2. CASE PassFence(r)
    <3> DEFINE e == [req[r] EXCEPT !.pc = "validate"]
    <3>1. CASE Broken(req[r].fence) \/ NotLive(r)
      BY <2>2, <3>1, SettleBase DEF Typed, PassFence, Refuse, Inside, Waiting, Outcomes, sockets, journal
    <3>2. CASE ~(Broken(req[r].fence) \/ NotLive(r))
      <4>1. e \in Entries /\ PlacedAs(e) /\ e.fence <= Len(revocations)
        BY <2>2, <2>0 DEF PassFence, Entries, PlacedAs, Pcs, Inside, Waiting
      <4>2. req' = [req EXCEPT ![r] = e] /\ revocations' = revocations
        BY <2>2, <3>2 DEF PassFence, journal
      <4>3. req' \in [Requests -> Entries] /\ Placed'
        <5> HIDE DEF e
        <5> QED BY <4>1, <4>2, OneEntry
      <4> QED BY <2>2, <3>2, <4>3 DEF Typed, PassFence, sockets, gates, journal
    <3> QED BY <3>1, <3>2
  <2>3. CASE Validated(r)
    <3> DEFINE e == [req[r] EXCEPT !.pc = "decide"]
    <3>1. e \in Entries /\ PlacedAs(e) /\ e.fence <= Len(revocations)
      BY <2>3, <2>0 DEF Validated, Entries, PlacedAs, Pcs, Inside, Waiting, Outcomes
    <3>2. req' = [req EXCEPT ![r] = e] /\ revocations' = revocations
      BY <2>3 DEF Validated, sockets, gates, journal
    <3>3. req' \in [Requests -> Entries] /\ Placed'
      <4> HIDE DEF e
      <4> QED BY <3>1, <3>2, OneEntry
    <3> QED BY <2>3, <3>3 DEF Typed, Validated, sockets, gates, journal
  <2>4. CASE Invalid(r)
    BY <2>4, <2>0, SettleBase DEF Typed, Invalid, Refuse, Inside, Waiting, Outcomes, sockets, gates, journal
  <2>5. CASE Again(r)
    <3> DEFINE e == [req[r] EXCEPT !.pc = "fence", !.fence = Len(revocations)]
    <3>1. e \in Entries /\ PlacedAs(e) /\ e.fence <= Len(revocations)
      <4>1. req[r].pc \in Waiting
        BY <2>5 DEF Again, AtDecision, AtFence, Waiting
      <4> QED BY <4>1, <2>0, <1>00, ToFence
    <3>2. req' = [req EXCEPT ![r] = e] /\ revocations' = revocations
      BY <2>5 DEF Again, AtDecision, AtFence, sockets, gates, journal
    <3>3. req' \in [Requests -> Entries] /\ Placed'
      <4> HIDE DEF e
      <4> QED BY <3>1, <3>2, OneEntry
    <3> QED BY <2>5, <3>3 DEF Typed, Again, AtDecision, AtFence, sockets, gates, journal
  <2>6. CASE DecideRefused(r)
    BY <2>6, <2>0, SettleBase DEF Typed, DecideRefused, AtDecision, Refuse, Inside, Waiting, Outcomes, sockets, gates, journal
  <2>7. CASE Dispatch(r)
    <3> DEFINE e == [req[r] EXCEPT !.phase = "dispatched", !.pc = IF r \in Journaled THEN "mark" ELSE "reply"]
    <3>1. e \in Entries /\ PlacedAs(e) /\ e.fence <= Len(revocations)
      BY <2>7, <2>0 DEF Dispatch, MayDispatch, AtDecision, Entries, PlacedAs, Pcs, Inside, Waiting, Outcomes
    <3>2. req' = [req EXCEPT ![r] = e] /\ revocations' = revocations
      BY <2>7 DEF Dispatch, MayDispatch, AtDecision, sockets, gates, journal
    <3>3. req' \in [Requests -> Entries] /\ Placed'
      <4> HIDE DEF e
      <4> QED BY <3>1, <3>2, OneEntry
    <3> QED BY <2>7, <3>3 DEF Typed, Dispatch, MayDispatch, AtDecision, sockets, gates, journal
  <2>8. CASE Unencodable(r)
    BY <2>8, <2>0, SettleBase DEF Typed, Unencodable, MayDispatch, AtDecision, Refuse, Inside, Waiting, Outcomes, sockets, gates, journal
  <2>9. CASE SendThrows(r)
    BY <2>9, <2>0, SettleBase DEF Typed, SendThrows, MayDispatch, AtDecision, Inside, Waiting, Outcomes, sockets, gates, journal
  <2>10. CASE Marked(r)
    <3> DEFINE e == [req[r] EXCEPT !.pc = "reply"]
    <3>1. e \in Entries /\ PlacedAs(e) /\ e.fence <= Len(revocations)
      BY <2>10, <2>0 DEF Marked, Entries, PlacedAs, Pcs, Inside, Waiting, Outcomes
    <3>2. req' = [req EXCEPT ![r] = e] /\ revocations' = revocations
      BY <2>10 DEF Marked, sockets, gates, journal
    <3>3. req' \in [Requests -> Entries] /\ Placed'
      <4> HIDE DEF e
      <4> QED BY <3>1, <3>2, OneEntry
    <3> QED BY <2>10, <3>3 DEF Typed, Marked, sockets, gates, journal
  <2>11. CASE MarkThrows(r)
    BY <2>11, <2>0, SettleBase DEF Typed, MarkThrows, Inside, Waiting, Outcomes, sockets, gates, journal
  <2>12. CASE Reported(r)
    <3>1. Observed(req[r].reply) \in Outcomes
      BY DEF Observed, Outcomes
    <3> QED BY <2>12, <3>1, SettleBase DEF Typed, Reported, Inside, sockets, journal
  <2>13. CASE InvokeNoSession(r)
    <3> DEFINE e == [req[r] EXCEPT !.pc = "done", !.outcome = "refused"]
    <3>1. e \in Entries /\ PlacedAs(e) /\ e.fence <= Len(revocations)
      BY <2>13, <2>0 DEF InvokeNoSession, Entries, PlacedAs, Pcs, Inside, Waiting, Outcomes
    <3>2. req' = [req EXCEPT ![r] = e] /\ revocations' = revocations
      BY <2>13 DEF InvokeNoSession, sockets, gates, journal
    <3>3. req' \in [Requests -> Entries] /\ Placed'
      <4> HIDE DEF e
      <4> QED BY <3>1, <3>2, OneEntry
    <3> QED BY <2>13, <3>3 DEF Typed, InvokeNoSession, sockets, gates, journal
  <2>14. CASE InvokeFull(r)
    <3> DEFINE e == [req[r] EXCEPT !.pc = "done", !.outcome = "refused"]
    <3>1. e \in Entries /\ PlacedAs(e) /\ e.fence <= Len(revocations)
      BY <2>14, <2>0 DEF InvokeFull, Entries, PlacedAs, Pcs, Inside, Waiting, Outcomes
    <3>2. req' = [req EXCEPT ![r] = e] /\ revocations' = revocations
      BY <2>14 DEF InvokeFull, sockets, gates, journal
    <3>3. req' \in [Requests -> Entries] /\ Placed'
      <4> HIDE DEF e
      <4> QED BY <3>1, <3>2, OneEntry
    <3> QED BY <2>14, <3>3 DEF Typed, InvokeFull, sockets, gates, journal
  <2>15. CASE Invoke(r)
    <3> DEFINE e == [req[r] EXCEPT !.pc = "gate", !.at = current, !.ahead = queueTail[current],
                                   !.phase = IF r \in revokedBeforeQueue THEN "cancelled" ELSE "queued"]
    <3>1. e \in Entries /\ PlacedAs(e) /\ e.fence <= Len(revocations)
      <4>1. current \in Connections /\ queueTail[current] \in Requests \cup {None} /\ req[r].outcome = "none"
        BY <2>15, <2>0 DEF Typed, Invoke, PlacedAs
      <4> QED BY <4>1, <2>0 DEF Entries, PlacedAs, Pcs, Inside, Waiting
    <3>2. req' = [req EXCEPT ![r] = e] /\ revocations' = revocations
      BY <2>15 DEF Invoke
    <3>3. req' \in [Requests -> Entries] /\ Placed'
      <4> HIDE DEF e
      <4> QED BY <3>1, <3>2, OneEntry
    <3> QED BY <2>15, <3>3 DEF Typed, Invoke, sockets
  <2> QED BY <1>4, <2>1, <2>2, <2>3, <2>4, <2>5, <2>6, <2>7, <2>8, <2>9, <2>10, <2>11, <2>12, <2>13, <2>14, <2>15 DEF Fiber
<1>5. ASSUME NEW r \in Requests, NEW reply \in Replies, Answer(r, reply) PROVE Base'
  <2> DEFINE e == [req[r] EXCEPT !.reply = reply]
  <2>1. CASE req' = req
    BY <1>5, <2>1 DEF Typed, Placed, Answer, sockets, gates, journal
  <2>2. CASE req' = [req EXCEPT ![r] = e] /\ req[r].phase # "none"
    <3>1. e \in Entries /\ PlacedAs(e) /\ e.fence <= Len(revocations)
      BY <1>0, <2>2 DEF Entries, PlacedAs, Inside, Waiting
    <3>2. req' \in [Requests -> Entries] /\ Placed'
      <4> HIDE DEF e
      <4> QED BY <1>5, <2>2, <3>1, OneEntry DEF Answer, journal
    <3> QED BY <1>5, <3>2 DEF Typed, Answer, sockets, gates, journal
  <2> QED BY <1>5, <2>1, <2>2 DEF Answer
<1>6. ASSUME NEW r \in Requests, FinishUnheard(r) PROVE Base'
  BY <1>6 DEF Typed, Placed, FinishUnheard, sockets, gates, journal
<1>7. ASSUME NEW r \in Requests, Interrupt(r) PROVE Base'
  <2>1. req[r].pc \in Inside
    BY <1>0, <1>7 DEF Interrupt, Entries, Pcs, Inside, Waiting
  <2> QED BY <1>7, <2>1, SettleBase DEF Typed, Interrupt, Outcomes, sockets, journal
<1>8. ASSUME NEW r \in Requests, DocumentCloses(r) \/ Deny(r) PROVE Base'
  BY <1>8 DEF Typed, Placed, DocumentCloses, Deny, sockets, gates
<1>9. ASSUME NEW r \in Requests, CancelRequest(r) PROVE Base'
  <2> DEFINE e == [req[r] EXCEPT !.phase = "cancelled"]
  <2>1. e \in Entries /\ PlacedAs(e) /\ e.fence <= Len(revocations)
    BY <1>0, <1>9 DEF CancelRequest, Entries, PlacedAs, Inside, Waiting
  <2>2. req' \in [Requests -> Entries] /\ Placed'
    <3>1. req' = [req EXCEPT ![r] = e] /\ revocations' = revocations
      BY <1>9 DEF CancelRequest
    <3> HIDE DEF e
    <3> QED BY <2>1, <3>1, OneEntry
  <2> QED BY <1>9, <2>2 DEF Typed, CancelRequest, sockets, gates
<1>10. ASSUME NEW named \in SUBSET Journaled, Revoke(named) PROVE Base'
  <2>1. revocations' \in Seq(Revocations)
        /\ Len(revocations') = Len(revocations) + 1
    <3> DEFINE new == [named |-> named, state |-> "asked"]
    <3>1. new \in Revocations
      BY DEF Revocations
    <3>2. revocations' = Append(revocations, new)
      BY <1>10 DEF Revoke
    <3> HIDE DEF new
    <3> QED BY <3>1, <3>2 DEF Typed
  <2>2. Placed'
    BY <1>0, <1>10, <2>1 DEF Placed, Entries, Revoke, Typed
  <2> QED BY <1>10, <2>1, <2>2 DEF Typed, Revoke, sockets, gates
<1>11. ASSUME NEW n \in DOMAIN revocations, Chain(n) PROVE Base'
  <2>1. revocations' \in Seq(Revocations)
        /\ Len(revocations') = Len(revocations)
    <3>1. revocations[n] \in Revocations
      BY DEF Typed
    <3>2. ASSUME NEW to \in Revocations, revocations' = [revocations EXCEPT ![n] = to]
          PROVE  revocations' \in Seq(Revocations) /\ Len(revocations') = Len(revocations)
      BY <3>2 DEF Typed
    <3>3. CASE Census(n)
      <4> DEFINE to == [named |-> {r \in revocations[n].named : req[r].pc # "done"}, state |-> "listed"]
      <4>1. to \in Revocations
        BY <3>1 DEF Revocations
      <4>2. revocations' = [revocations EXCEPT ![n] = to]
        BY <3>3 DEF Census
      <4> HIDE DEF to
      <4> QED BY <3>2, <4>1, <4>2
    <3>4. CASE CensusFails(n)
      <4> DEFINE to == [revocations[n] EXCEPT !.state = "failed"]
      <4>1. to \in Revocations
        BY <3>1 DEF Revocations
      <4>2. revocations' = [revocations EXCEPT ![n] = to]
        BY <3>4 DEF CensusFails
      <4> HIDE DEF to
      <4> QED BY <3>2, <4>1, <4>2
    <3>5. CASE Sweep(n)
      <4> DEFINE to == [revocations[n] EXCEPT !.state = "swept"]
      <4>1. to \in Revocations
        BY <3>1 DEF Revocations
      <4>2. revocations' = [revocations EXCEPT ![n] = to]
        BY <3>5 DEF Sweep
      <4> HIDE DEF to
      <4> QED BY <3>2, <4>1, <4>2
    <3> QED BY <1>11, <3>3, <3>4, <3>5 DEF Chain
  <2>2. CASE Census(n) \/ CensusFails(n)
    BY <2>1, <2>2 DEF Typed, Placed, Census, CensusFails, sockets, gates
  <2>3. CASE Sweep(n)
    <3>1. \A r \in Requests : req'[r] \in Entries /\ PlacedAs(req'[r]) /\ req'[r].fence = req[r].fence
      <4> TAKE r \in Requests
      <4> DEFINE e == [req[r] EXCEPT !.phase = "cancelled"]
      <4>1. req[r].phase = "queued" => e \in Entries /\ PlacedAs(e) /\ e.fence = req[r].fence
        BY <1>0 DEF Entries, PlacedAs, Inside, Waiting
      <4>2. req'[r] = req[r] \/ (req[r].phase = "queued" /\ req'[r] = e)
        BY <2>3 DEF Sweep
      <4> QED BY <1>0, <4>1, <4>2
    <3>2. req' \in [Requests -> Entries] /\ Placed'
      BY <1>0, <2>1, <2>3, <3>1 DEF Placed, Sweep
    <3>3. revocations[n].named \subseteq Requests
      <4>1. revocations[n] \in Revocations
        BY DEF Typed
      <4> QED BY <4>1 DEF Revocations
    <3>4. (revokedBeforeQueue \cup withdrawn)' \subseteq Requests
      BY <2>3, <3>3 DEF Typed, Sweep
    <3> QED BY <2>1, <2>3, <3>2, <3>4 DEF Typed, Sweep, sockets, gates
  <2> QED BY <1>11, <2>2, <2>3 DEF Chain
<1> QED BY <1>1, <1>2, <1>3, <1>4, <1>5, <1>6, <1>7, <1>8, <1>9, <1>10, <1>11 DEF Next, Answers

-----------------------------------------------------------------------------
(* What a step changes of the gates and of each request's place in them.     *)

\* Nobody joins or leaves a gate chain; whoever passes the gate found it open.
Steady ==
  /\ UNCHANGED gates
  /\ \A s \in Requests :
       /\ req'[s].at = req[s].at /\ req'[s].ahead = req[s].ahead
       /\ req'[s].pc = "done" => req[s].pc = "done" \/ req[s].at = 0
       /\ req[s].pc = "done" => req'[s].pc = "done" /\ req'[s].outcome = req[s].outcome
       /\ req[s].pc = "gate" /\ req'[s].pc # "gate" => GateOpen(s)

Settles == \E r \in Requests, outcome \in Outcomes :
  /\ req[r].pc \in Inside /\ Settle(r, outcome)
  /\ req[r].pc = "gate" => outcome = "interrupted"

\* A lost connection changes nothing of where a request is.
LEMMA LossKeeps ==
  ASSUME NEW h, req \in [Requests -> Entries], req' = FailPending(h)
  PROVE  \A s \in Requests :
           /\ req'[s].pc = req[s].pc /\ req'[s].at = req[s].at /\ req'[s].ahead = req[s].ahead
           /\ req'[s].fence = req[s].fence /\ req'[s].outcome = req[s].outcome
           /\ req'[s].phase = IF req[s].at = h THEN "none" ELSE req[s].phase
           /\ req'[s].reply # req[s].reply => req'[s].reply = "lost" /\ req[s].at = h /\ req[s].phase # "none"
<1> SUFFICES ASSUME NEW s \in Requests
             PROVE  /\ req'[s].pc = req[s].pc /\ req'[s].at = req[s].at /\ req'[s].ahead = req[s].ahead
                    /\ req'[s].fence = req[s].fence /\ req'[s].outcome = req[s].outcome
                    /\ req'[s].phase = IF req[s].at = h THEN "none" ELSE req[s].phase
                    /\ req'[s].reply # req[s].reply => req'[s].reply = "lost" /\ req[s].at = h /\ req[s].phase # "none"
  OBVIOUS
<1>1. req[s] \in Entries
  OBVIOUS
<1>2. req'[s] = IF req[s].at # h \/ req[s].phase = "none" THEN req[s]
                ELSE [req[s] EXCEPT !.phase = "none", !.reply = IF req[s].reply = "none" THEN "lost" ELSE req[s].reply]
  BY DEF FailPending
<1> QED BY <1>1, <1>2 DEF Entries

LEMMA GateFrame == Base /\ Next => Steady \/ Settles \/ \E r \in Requests : Invoke(r)
<1> SUFFICES ASSUME Base, Next PROVE Steady \/ Settles \/ \E r \in Requests : Invoke(r)
  OBVIOUS
<1>0. req \in [Requests -> Entries] /\ \A r \in Requests : req[r] \in Entries /\ PlacedAs(req[r])
  BY DEF Base, Typed, Placed
<1>1. ASSUME NEW g \in Connections, Register(g) \/ LinkLost(g) \/ CleanupSession(g) PROVE Steady
  <2>1. ASSUME NEW h \in {0} \cup Connections, req' = FailPending(h), UNCHANGED gates PROVE Steady
    BY <1>0, <2>1, LossKeeps DEF Steady
  <2>2. ASSUME req' = req, UNCHANGED gates PROVE Steady
    BY <1>0, <2>2 DEF Steady
  <2>3. CASE Register(g)
    <3>1. current \in {0} \cup Connections
      BY DEF Base, Typed
    <3> QED BY <2>1, <2>2, <2>3, <3>1 DEF Register
  <2> QED BY <1>1, <2>1, <2>2, <2>3 DEF LinkLost, CleanupSession
<1>2. ASSUME NEW r \in Requests, Fiber(r), ~Invoke(r) PROVE Steady \/ Settles
  <2>1. CASE PassGate(r)
    BY <1>0, <2>1 DEF Steady, PassGate, AtFence, Entries
  <2>2. CASE PassFence(r)
    <3>1. CASE Broken(req[r].fence) \/ NotLive(r)
      BY <2>2, <3>1 DEF Settles, PassFence, Refuse, Inside, Waiting, Outcomes
    <3>2. CASE ~(Broken(req[r].fence) \/ NotLive(r))
      BY <1>0, <2>2, <3>2 DEF Steady, PassFence, Entries, gates
    <3> QED BY <3>1, <3>2
  <2>3. CASE Validated(r) \/ Marked(r)
    BY <1>0, <2>3 DEF Steady, Validated, Marked, Entries
  <2>9. CASE Again(r)
    BY <1>0, <2>9 DEF Steady, Again, AtDecision, AtFence, Entries
  <2>4. CASE Invalid(r) \/ DecideRefused(r) \/ Unencodable(r)
    BY <2>4 DEF Settles, Invalid, DecideRefused, AtDecision, MayDispatch, Unencodable, Refuse, Inside, Waiting, Outcomes
  <2>5. CASE SendThrows(r) \/ MarkThrows(r)
    BY <2>5 DEF Settles, SendThrows, AtDecision, MayDispatch, MarkThrows, Inside, Waiting, Outcomes
  <2>6. CASE Reported(r)
    <3>1. Observed(req[r].reply) \in Outcomes
      BY DEF Observed, Outcomes
    <3> QED BY <2>6, <3>1 DEF Settles, Reported, Inside
  <2>7. CASE Dispatch(r)
    BY <1>0, <2>7 DEF Steady, Dispatch, MayDispatch, AtDecision, Entries
  <2>8. CASE InvokeNoSession(r)
    BY <1>0, <2>8 DEF Steady, InvokeNoSession, PlacedAs, Entries
  <2>10. CASE InvokeFull(r)
    BY <1>0, <2>10 DEF Steady, InvokeFull, PlacedAs, Entries
  <2> QED BY <1>2, <2>1, <2>2, <2>3, <2>4, <2>5, <2>6, <2>7, <2>8, <2>9, <2>10 DEF Fiber
<1>3. ASSUME NEW r \in Requests, Interrupt(r) PROVE Settles
  BY <1>0, <1>3 DEF Settles, Interrupt, Inside, Waiting, Outcomes, Entries, Pcs
<1>4. ASSUME NEW r \in Requests,
             Answers(r) \/ DocumentCloses(r) \/ Deny(r) \/ CancelRequest(r)
      PROVE  Steady
  BY <1>0, <1>4 DEF Steady, Answers, Answer, FinishUnheard, DocumentCloses, Deny, CancelRequest, Entries, gates
<1>5. ASSUME NEW named \in SUBSET Journaled, Revoke(named) PROVE Steady
  BY <1>0, <1>5 DEF Steady, Revoke
<1>6. ASSUME NEW n \in DOMAIN revocations, Chain(n) PROVE Steady
  BY <1>0, <1>6 DEF Steady, Chain, Census, CensusFails, Sweep, Entries
<1> QED BY <1>1, <1>2, <1>3, <1>4, <1>5, <1>6 DEF Next

-----------------------------------------------------------------------------
(* The depth of a queue.                                                     *)

Held(g) == {r \in Requests : req[r].at = g /\ req[r].pc # "done"}

LEMMA HeldFinite == \A g : IsFiniteSet(Held(g)) /\ IsFiniteSet(Held(g)')
  BY FS_Subset DEF Held

LEMMA InitDepth == Init => DepthBounded
<1> SUFFICES ASSUME Init, NEW g \in Connections
             PROVE  queueDepth[g] = Cardinality(Held(g)) /\ queueDepth[g] <= MAX_QUEUED_OPS
  BY DEF DepthBounded, Held
<1>1. Held(g) = {}
  BY DEF Init, Fresh, Held
<1> QED BY <1>1, FS_EmptySet DEF Init

LEMMA NextDepth == Base /\ DepthBounded /\ [Next]_vars => DepthBounded'
<1> SUFFICES ASSUME Base, DepthBounded, [Next]_vars, NEW g \in Connections
             PROVE  queueDepth'[g] = Cardinality(Held(g)') /\ queueDepth'[g] <= MAX_QUEUED_OPS
  BY DEF DepthBounded, Held
<1>0. queueDepth[g] = Cardinality(Held(g)) /\ queueDepth[g] <= MAX_QUEUED_OPS
  BY DEF DepthBounded, Held
<1>00. req \in [Requests -> Entries] /\ queueDepth \in [Connections -> Int] /\ Placed /\ 0 \notin Connections
  BY DEF Base, Typed
<1>1. CASE UNCHANGED vars
  BY <1>0, <1>1 DEF vars, gates, Held
<1>2. CASE Steady
  <2>1. Held(g)' = Held(g)
    BY <1>00, <1>2 DEF Steady, Held
  <2> QED BY <1>0, <1>2, <2>1 DEF Steady, gates
<1>3. ASSUME NEW r \in Requests, NEW outcome, req[r].pc \in Inside, Settle(r, outcome)
      PROVE  queueDepth'[g] = Cardinality(Held(g)') /\ queueDepth'[g] <= MAX_QUEUED_OPS
  <2>0. req[r].at \in Connections /\ req[r] \in Entries
    BY <1>00, <1>3 DEF Placed, PlacedAs
  <2>1. req'[r].pc = "done" /\ req'[r].at = req[r].at /\ \A s \in Requests \ {r} : req'[s] = req[s]
    BY <1>00, <1>3, <2>0 DEF Settle, Entries
  <2>2. CASE req[r].at = g
    <3>1. Held(g)' = Held(g) \ {r} /\ r \in Held(g)
      BY <1>3, <2>1, <2>2 DEF Held, Inside, Waiting
    <3>2. queueDepth'[g] = queueDepth[g] - 1
      BY <1>00, <1>3, <2>2 DEF Settle
    <3>3. Cardinality(Held(g)') = Cardinality(Held(g)) - 1
      BY <3>1, HeldFinite, FS_RemoveElement
    <3> QED BY <1>0, <1>00, <3>2, <3>3
  <2>3. CASE req[r].at # g
    <3>1. Held(g)' = Held(g)
      BY <2>1, <2>3 DEF Held
    <3>2. queueDepth'[g] = queueDepth[g]
      BY <1>00, <1>3, <2>3 DEF Settle
    <3> QED BY <1>0, <3>1, <3>2
  <2> QED BY <2>2, <2>3
<1>4. ASSUME NEW r \in Requests, Invoke(r)
      PROVE  queueDepth'[g] = Cardinality(Held(g)') /\ queueDepth'[g] <= MAX_QUEUED_OPS
  <2>0. req[r].at = 0 /\ req[r] \in Entries
    BY <1>00, <1>4 DEF Placed, PlacedAs, Invoke
  <2>1. req'[r].pc = "gate" /\ req'[r].at = current /\ \A s \in Requests \ {r} : req'[s] = req[s]
    BY <1>00, <1>4, <2>0 DEF Invoke, Entries
  <2>2. CASE current = g
    <3>1. Held(g)' = Held(g) \cup {r} /\ r \notin Held(g)
      BY <1>00, <2>0, <2>1, <2>2 DEF Held
    <3>2. queueDepth'[g] = queueDepth[g] + 1 /\ queueDepth[g] < MAX_QUEUED_OPS
      BY <1>00, <1>4, <2>2 DEF Invoke
    <3>3. Cardinality(Held(g)') = Cardinality(Held(g)) + 1
      BY <3>1, HeldFinite, FS_AddElement
    <3> QED BY <1>0, <1>00, <3>2, <3>3
  <2>3. CASE current # g
    <3>1. Held(g)' = Held(g)
      BY <1>00, <2>0, <2>1, <2>3 DEF Held
    <3>2. queueDepth'[g] = queueDepth[g]
      BY <1>00, <1>4, <2>3 DEF Invoke
    <3> QED BY <1>0, <3>1, <3>2
  <2> QED BY <2>2, <2>3
<1> QED BY <1>1, <1>2, <1>3, <1>4, GateFrame DEF Settles

-----------------------------------------------------------------------------
(* Connections.                                                              *)

\* Connections live one after the other, and whatever names one, it was made.
Ordered ==
  /\ \A g, h \in Connections : h < g /\ link[g] # "none" => link[h] \in {"cut", "gone"}
  /\ current # 0 => link[current] # "none"
  /\ \A r \in Requests : req[r].at # 0 => link[req[r].at] # "none"

\* The other steps leave the connections alone and lose no reply.
Apart ==
  /\ UNCHANGED sockets
  /\ \A s \in Requests : \/ req'[s].at = req[s].at /\ (req'[s].reply = "lost" => req[s].reply = "lost")
                         \/ req'[s].at = current /\ req'[s].reply # "lost"

LEMMA LinkFrame ==
  Base /\ Next => Apart \/ \E g \in Connections : Register(g) \/ LinkLost(g) \/ CleanupSession(g)
<1> SUFFICES ASSUME Base, Next
             PROVE  Apart \/ \E g \in Connections : Register(g) \/ LinkLost(g) \/ CleanupSession(g)
  OBVIOUS
<1>0. req \in [Requests -> Entries] /\ \A r \in Requests : req[r] \in Entries /\ PlacedAs(req[r])
  BY DEF Base, Typed, Placed
<1>1. ASSUME NEW r \in Requests, NEW outcome, Settle(r, outcome), UNCHANGED sockets PROVE Apart
  BY <1>0, <1>1 DEF Apart, Settle, Entries
<1>2. ASSUME NEW r \in Requests, Fiber(r) PROVE Apart
  <2>1. CASE PassGate(r)
    BY <1>0, <2>1 DEF Apart, PassGate, AtFence, Entries
  <2>2. CASE PassFence(r)
    <3>1. CASE Broken(req[r].fence) \/ NotLive(r)
      BY <1>1, <2>2, <3>1 DEF PassFence, Refuse
    <3>2. CASE ~(Broken(req[r].fence) \/ NotLive(r))
      BY <1>0, <2>2, <3>2 DEF Apart, PassFence, Entries
    <3> QED BY <3>1, <3>2
  <2>3. CASE Validated(r)
    BY <1>0, <2>3 DEF Apart, Validated, Entries
  <2>4. CASE Marked(r)
    BY <1>0, <2>4 DEF Apart, Marked, Entries
  <2>5. CASE Again(r)
    BY <1>0, <2>5 DEF Apart, Again, AtFence, Entries
  <2>6. CASE Invalid(r) \/ DecideRefused(r) \/ Unencodable(r) \/ SendThrows(r) \/ MarkThrows(r) \/ Reported(r)
    BY <1>1, <2>6 DEF Invalid, DecideRefused, Unencodable, SendThrows, MarkThrows, Reported, Refuse
  <2>7. CASE Dispatch(r)
    BY <1>0, <2>7 DEF Apart, Dispatch, Entries
  <2>8. CASE InvokeNoSession(r)
    BY <1>0, <2>8 DEF Apart, InvokeNoSession, Entries
  <2>9. CASE InvokeFull(r)
    BY <1>0, <2>9 DEF Apart, InvokeFull, Entries
  <2>10. CASE Invoke(r)
    BY <1>0, <2>10 DEF Apart, Invoke, PlacedAs, Entries
  <2> QED BY <1>2, <2>1, <2>2, <2>3, <2>4, <2>5, <2>6, <2>7, <2>8, <2>9, <2>10 DEF Fiber
<1>3. ASSUME NEW r \in Requests, NEW reply \in Replies, Answer(r, reply) PROVE Apart
  BY <1>0, <1>3 DEF Apart, Answer, Entries, Replies
<1>4. ASSUME NEW r \in Requests, FinishUnheard(r) \/ DocumentCloses(r) \/ Deny(r) PROVE Apart
  BY <1>0, <1>4 DEF Apart, FinishUnheard, DocumentCloses, Deny
<1>5. ASSUME NEW r \in Requests, Interrupt(r) \/ CancelRequest(r) PROVE Apart
  BY <1>0, <1>1, <1>5 DEF Apart, Interrupt, CancelRequest, Entries
<1>6. ASSUME NEW named \in SUBSET Journaled, Revoke(named) PROVE Apart
  BY <1>0, <1>6 DEF Apart, Revoke
<1>7. ASSUME NEW n \in DOMAIN revocations, Chain(n) PROVE Apart
  BY <1>0, <1>7 DEF Apart, Chain, Census, CensusFails, Sweep, Entries
<1> QED BY <1>2, <1>3, <1>4, <1>5, <1>6, <1>7 DEF Next, Answers

LEMMA InitOrdered == Init => Ordered /\ LossIsReal
  BY DEF Init, Ordered, LossIsReal, Fresh

LEMMA NextOrdered == Base /\ Ordered /\ LossIsReal /\ [Next]_vars => Ordered' /\ LossIsReal'
<1> SUFFICES ASSUME Base, Ordered, LossIsReal, [Next]_vars PROVE Ordered' /\ LossIsReal'
  OBVIOUS
<1>0. /\ link \in [Connections -> {"none", "up", "cut", "gone"}] /\ current \in {0} \cup Connections
      /\ req \in [Requests -> Entries] /\ \A r \in Requests : req[r].at \in {0} \cup Connections
  BY DEF Base, Typed, Entries
<1>1. CASE UNCHANGED vars
  BY <1>1 DEF vars, sockets, Ordered, LossIsReal
<1>2. CASE Apart
  BY <1>0, <1>2 DEF Apart, sockets, Ordered, LossIsReal
<1>3. ASSUME NEW g \in Connections, Register(g) PROVE Ordered' /\ LossIsReal'
  <2>1. link' = [link EXCEPT ![g] = "up"] /\ current' = g /\ link[g] = "none"
        /\ \A h \in Connections : h < g => link[h] \in {"cut", "gone"}
    BY <1>3 DEF Register
  <2>2. \A h \in Connections : h # g => link[h] # "up"
    BY <1>0, <2>1 DEF Ordered, LossIsReal
  <2>3. \A h \in Connections : g < h => link[h] = "none"
    BY <1>0, <2>1 DEF Ordered
  <2>4. \A s \in Requests : /\ req'[s].at = req[s].at /\ req[s].at # g
                            /\ req'[s].reply = "lost" => req[s].reply = "lost" \/ (current # 0 /\ req[s].at = current)
    <3>1. CASE current = 0
      BY <1>0, <1>3, <2>1, <3>1 DEF Register, Ordered
    <3>2. CASE current # 0
      BY <1>0, <1>3, <2>1, <3>2, LossKeeps DEF Register, Ordered
    <3> QED BY <3>1, <3>2
  <2>5. Ordered'
    BY <1>0, <2>1, <2>3, <2>4 DEF Ordered
  <2>6. LossIsReal'
    BY <1>0, <2>1, <2>2, <2>4 DEF Ordered, LossIsReal
  <2> QED BY <2>5, <2>6
<1>4. ASSUME NEW g \in Connections, LinkLost(g) PROVE Ordered' /\ LossIsReal'
  BY <1>0, <1>4 DEF LinkLost, Ordered, LossIsReal
<1>5. ASSUME NEW g \in Connections, CleanupSession(g) PROVE Ordered' /\ LossIsReal'
  <2>1. \A s \in Requests : /\ req'[s].at = req[s].at
                            /\ req'[s].reply = "lost" => req[s].reply = "lost" \/ req[s].at = g
    BY <1>0, <1>5, LossKeeps DEF CleanupSession
  <2> QED BY <1>0, <1>5, <2>1 DEF CleanupSession, Ordered, LossIsReal
<1> QED BY <1>1, <1>2, <1>3, <1>4, <1>5, LinkFrame

-----------------------------------------------------------------------------
(* The fence.                                                                *)

Passed == {"validate", "decide"}

\* Revocations are swept in their order, and what passed its fence waited for the last one it read.
Swept ==
  /\ \A n, m \in DOMAIN revocations : m < n /\ revocations[n].state = "swept" => revocations[m].state = "swept"
  /\ \A r \in Requests : req[r].pc \in Passed /\ req[r].fence > 0 => revocations[req[r].fence].state = "swept"

\* The steps of fibers, connections and callers: who passes a fence found it fallen, and only Dispatch
\* sends.
Awaited ==
  /\ UNCHANGED revocations
  /\ \A s \in Requests :
       /\ req'[s].pc \in Passed =>
            req'[s].fence = req[s].fence
            /\ (req[s].pc \in Passed \/ (Fallen(req[s].fence) /\ ~Broken(req[s].fence)))
       /\ req'[s].phase = "dispatched" => req[s].phase = "dispatched" \/ Dispatch(s)

\* A revocation goes on, and requests stay where they are.
Revoked ==
  /\ \A s \in Requests : /\ req'[s].pc = req[s].pc /\ req'[s].fence = req[s].fence
                         /\ req'[s].phase = "dispatched" => req[s].phase = "dispatched"
  /\ (\E named \in SUBSET Journaled : Revoke(named)) \/ \E n \in DOMAIN revocations : Chain(n)

LEMMA FenceFrame == Base /\ Next => Awaited \/ Revoked
<1> SUFFICES ASSUME Base, Next PROVE Awaited \/ Revoked
  OBVIOUS
<1>0. req \in [Requests -> Entries] /\ \A r \in Requests : req[r] \in Entries /\ PlacedAs(req[r])
  BY DEF Base, Typed, Placed
<1>1. ASSUME NEW r \in Requests, NEW outcome, Settle(r, outcome), UNCHANGED revocations PROVE Awaited
  BY <1>0, <1>1 DEF Awaited, Settle, Entries, Passed
<1>2. ASSUME NEW r \in Requests, Fiber(r) PROVE Awaited
  <2>1. CASE PassGate(r)
    BY <1>0, <2>1 DEF Awaited, PassGate, AtFence, Entries, Passed, journal
  <2>2. CASE PassFence(r)
    <3>1. CASE Broken(req[r].fence) \/ NotLive(r)
      BY <1>1, <2>2, <3>1 DEF PassFence, Refuse, journal
    <3>2. CASE ~(Broken(req[r].fence) \/ NotLive(r))
      BY <1>0, <2>2, <3>2 DEF Awaited, PassFence, Entries, Passed, journal
    <3> QED BY <3>1, <3>2
  <2>3. CASE Validated(r)
    BY <1>0, <2>3 DEF Awaited, Validated, Entries, Passed, journal
  <2>4. CASE Marked(r)
    BY <1>0, <2>4 DEF Awaited, Marked, Entries, Passed, journal
  <2>5. CASE Again(r)
    BY <1>0, <2>5 DEF Awaited, Again, AtFence, Entries, Passed, journal
  <2>6. CASE Invalid(r) \/ DecideRefused(r) \/ Unencodable(r) \/ SendThrows(r) \/ MarkThrows(r) \/ Reported(r)
    BY <1>1, <2>6 DEF Invalid, DecideRefused, Unencodable, SendThrows, MarkThrows, Reported, Refuse, journal
  <2>7. CASE Dispatch(r)
    <3>1. revocations' = revocations /\ req'[r].pc \notin Passed /\ \A s \in Requests \ {r} : req'[s] = req[s]
      BY <1>0, <2>7 DEF Dispatch, Entries, Passed, journal
    <3> QED BY <2>7, <3>1 DEF Awaited
  <2>8. CASE InvokeNoSession(r)
    BY <1>0, <2>8 DEF Awaited, InvokeNoSession, Entries, Passed, journal
  <2>9. CASE InvokeFull(r)
    BY <1>0, <2>9 DEF Awaited, InvokeFull, Entries, Passed, journal
  <2>10. CASE Invoke(r)
    BY <1>0, <2>10 DEF Awaited, Invoke, Entries, Passed
  <2> QED BY <1>2, <2>1, <2>2, <2>3, <2>4, <2>5, <2>6, <2>7, <2>8, <2>9, <2>10 DEF Fiber
<1>3. ASSUME NEW r \in Requests, NEW reply \in Replies, Answer(r, reply) PROVE Awaited
  BY <1>0, <1>3 DEF Awaited, Answer, Entries, journal
<1>4. ASSUME NEW r \in Requests, FinishUnheard(r) \/ DocumentCloses(r) \/ Deny(r) PROVE Awaited
  BY <1>0, <1>4 DEF Awaited, FinishUnheard, DocumentCloses, Deny, journal
<1>5. ASSUME NEW r \in Requests, Interrupt(r) \/ CancelRequest(r) PROVE Awaited
  BY <1>0, <1>1, <1>5 DEF Awaited, Interrupt, CancelRequest, Entries, journal
<1>6. ASSUME NEW g \in Connections, Register(g) \/ LinkLost(g) \/ CleanupSession(g) PROVE Awaited
  <2>1. ASSUME NEW h, req' = FailPending(h), UNCHANGED revocations PROVE Awaited
    BY <1>0, <2>1, LossKeeps DEF Awaited
  <2>2. ASSUME req' = req, UNCHANGED revocations PROVE Awaited
    BY <2>2 DEF Awaited
  <2> QED BY <1>6, <2>1, <2>2 DEF Register, LinkLost, CleanupSession, journal
<1>7. ASSUME NEW named \in SUBSET Journaled, Revoke(named) PROVE Revoked
  BY <1>7 DEF Revoked, Revoke
<1>8. ASSUME NEW n \in DOMAIN revocations, Chain(n) PROVE Revoked
  <2>1. \A s \in Requests : /\ req'[s].pc = req[s].pc /\ req'[s].fence = req[s].fence
                            /\ req'[s].phase = "dispatched" => req[s].phase = "dispatched"
    BY <1>0, <1>8 DEF Chain, Census, CensusFails, Sweep, Entries
  <2> QED BY <1>8, <2>1 DEF Revoked
<1> QED BY <1>2, <1>3, <1>4, <1>5, <1>6, <1>7, <1>8 DEF Next, Answers

LEMMA InitSwept == Init => Swept
  BY DEF Init, Swept, Fresh, Passed

LEMMA NextSwept == Base /\ Swept /\ [Next]_vars => Swept'
<1> SUFFICES ASSUME Base, Swept, [Next]_vars PROVE Swept'
  OBVIOUS
<1>0. /\ revocations \in Seq(Revocations) /\ req \in [Requests -> Entries]
      /\ \A r \in Requests : req[r].fence \in Nat /\ req[r].fence <= Len(revocations)
  BY DEF Base, Typed, Placed, Entries
<1>1. CASE UNCHANGED vars
  BY <1>1 DEF vars, Swept
<1>2. CASE Awaited
  BY <1>0, <1>2 DEF Awaited, Swept, Fallen, Broken
<1>3. CASE Revoked
  <2>1. ASSUME NEW named \in SUBSET Journaled, Revoke(named) PROVE Swept'
    <3>1. /\ DOMAIN revocations' = 1 .. Len(revocations) + 1
          /\ \A n \in DOMAIN revocations : revocations'[n] = revocations[n]
          /\ revocations'[Len(revocations) + 1].state = "asked"
      BY <1>0, <2>1 DEF Revoke
    <3> QED BY <1>0, <1>3, <3>1 DEF Swept, Revoked
  <2>2. ASSUME NEW n \in DOMAIN revocations, Chain(n) PROVE Swept'
    <3>1. /\ DOMAIN revocations' = DOMAIN revocations
          /\ \A m \in DOMAIN revocations : m # n => revocations'[m] = revocations[m]
          /\ revocations[n].state # "swept"
          /\ revocations'[n].state = "swept" /\ n > 1 => revocations[n - 1].state = "swept"
      <4>0. revocations[n] \in Revocations
        BY <1>0
      <4>1. CASE Census(n)
        BY <1>0, <4>1 DEF Census
      <4>2. CASE CensusFails(n)
        BY <1>0, <4>0, <4>2 DEF CensusFails, Revocations
      <4>3. CASE Sweep(n)
        <5>1. n > 1 => revocations[n - 1].state = "swept"
          BY <1>0, <4>3 DEF Sweep, Fallen, Broken
        <5> QED BY <1>0, <4>0, <4>3, <5>1 DEF Sweep
      <4> QED BY <2>2, <4>1, <4>2, <4>3 DEF Chain
    <3>2. \A m, k \in DOMAIN revocations' :
            k < m /\ revocations'[m].state = "swept" => revocations'[k].state = "swept"
      BY <1>0, <3>1 DEF Swept
    <3>3. \A r \in Requests : req'[r].pc \in Passed /\ req'[r].fence > 0 => revocations'[req'[r].fence].state = "swept"
      BY <1>0, <1>3, <3>1 DEF Swept, Revoked
    <3> QED BY <3>2, <3>3 DEF Swept
  <2> QED BY <1>3, <2>1, <2>2 DEF Revoked
<1> QED BY <1>1, <1>2, <1>3, FenceFrame

LEMMA OnlyFreed ==
  ASSUME Base, Swept, [Next]_vars, NEW r \in Requests, Sends(r)
  PROVE  r \notin denied /\ \A n \in DOMAIN revocations : revocations[n].state = "swept"
<1>1. Dispatch(r)
  BY FenceFrame DEF Sends, Awaited, Revoked, vars
<1>2. req[r].fence = Len(revocations) /\ r \notin denied /\ req[r].pc \in Passed
  BY <1>1 DEF Dispatch, MayDispatch, AtDecision, Moved, Passed
<1>3. revocations \in Seq(Revocations)
  BY DEF Base, Typed
<1> QED BY <1>2, <1>3 DEF Swept

-----------------------------------------------------------------------------
(* What Revit made of a request.                                             *)

\* What an entry proves of Revit: nothing is there before the dispatch, an answer comes from a request
\* that is done or was dropped, and one that was cancelled behind the gate waits for its refusal or
\* writes to a socket that is dead.
Settled == {"ok", "failed", "stopped"}
Verdicts == {"succeeded", "failed", "cancelled"}
EvidenceAs(e, made, cancelled, dead) ==
  /\ e.pc \in {"begun"} \cup Waiting \/ cancelled => made = "unsent"
  /\ e.outcome = "refused" => made \in {"unsent", "dropped"}
  /\ e.reply = "dropped" => made = "dropped"
  /\ e.reply \in Settled \/ e.outcome \in Verdicts => made = "done"
  /\ cancelled => e.pc # "begun" /\ (e.pc = "done" \/ e.phase = "cancelled" \/ dead)
Dead(r) == link[req[r].at] # "up"
Evidence == \A r \in Requests : EvidenceAs(req[r], native[r], r \in withdrawn, Dead(r))

LEMMA InitEvidence == Init => Evidence
  BY DEF Init, Evidence, EvidenceAs, Fresh, Settled, Verdicts

LEMMA NextEvidence == Base /\ Ordered /\ LossIsReal /\ Evidence /\ [Next]_vars => Evidence'
<1> SUFFICES ASSUME Base, Ordered, LossIsReal, Evidence, [Next]_vars PROVE Evidence'
  OBVIOUS
<1>0. /\ link \in [Connections -> {"none", "up", "cut", "gone"}] /\ current \in {0} \cup Connections
      /\ req \in [Requests -> Entries] /\ native \in [Requests -> {"unsent", "running", "done", "dropped"}]
      /\ \A r \in Requests : req[r] \in Entries /\ PlacedAs(req[r])
  BY DEF Base, Typed, Placed
<1>00. \A r \in Requests : EvidenceAs(req[r], native[r], r \in withdrawn, Dead(r))
  BY DEF Evidence
<1>1. CASE UNCHANGED vars
  BY <1>1 DEF vars, sockets, journal, Evidence, Dead
\* A request that nothing happens to.
<1>2. ASSUME NEW s \in Requests, req'[s] = req[s], native'[s] = native[s], s \in withdrawn' => s \in withdrawn,
             Dead(s) => Dead(s)' \/ req[s].pc = "done"
      PROVE  EvidenceAs(req[s], native[s], s \in withdrawn, Dead(s))'
  BY <1>00, <1>2 DEF EvidenceAs
\* A step of one request, the connections left alone.
<1>3. ASSUME NEW r \in Requests, link' = link, withdrawn' = withdrawn,
             \A s \in Requests \ {r} : req'[s] = req[s] /\ native'[s] = native[s],
             EvidenceAs(req'[r], native'[r], r \in withdrawn, Dead(r)')
      PROVE  Evidence'
  <2> SUFFICES ASSUME NEW s \in Requests PROVE EvidenceAs(req[s], native[s], s \in withdrawn, Dead(s))'
    BY DEF Evidence
  <2>1. CASE s = r
    BY <1>3, <2>1
  <2>2. CASE s # r
    <3>1. Dead(s)' = Dead(s)
      BY <1>3, <2>2 DEF Dead
    <3> QED BY <1>2, <1>3, <2>2, <3>1
  <2> QED BY <2>1, <2>2
\* A request that settles.
<1>4. ASSUME NEW r \in Requests, NEW outcome \in Outcomes, Settle(r, outcome), native' = native, link' = link,
             withdrawn' = withdrawn,
             outcome = "refused" => native[r] \in {"unsent", "dropped"}, outcome \in Verdicts => native[r] = "done"
      PROVE  Evidence'
  <2>1. /\ req'[r].pc = "done" /\ req'[r].outcome = outcome /\ req'[r].reply = req[r].reply /\ req'[r].at = req[r].at
        /\ \A s \in Requests \ {r} : req'[s] = req[s]
    BY <1>0, <1>4 DEF Settle, Entries
  <2>2. EvidenceAs(req'[r], native'[r], r \in withdrawn, Dead(r)')
    BY <1>00, <1>4, <2>1 DEF EvidenceAs, Waiting
  <2> QED BY <1>3, <1>4, <2>1, <2>2
<1>5. ASSUME NEW r \in Requests, Fiber(r) PROVE Evidence'
  <2>0. EvidenceAs(req[r], native[r], r \in withdrawn, Dead(r)) /\ req[r] \in Entries /\ PlacedAs(req[r])
    BY <1>0, <1>00
  <2>1. CASE PassGate(r)
    <3>1. EvidenceAs(req'[r], native'[r], r \in withdrawn, Dead(r)')
      BY <1>0, <2>0, <2>1 DEF EvidenceAs, PassGate, AtFence, Entries, Waiting, Dead, sockets
    <3> QED BY <1>0, <1>3, <2>1, <3>1 DEF PassGate, AtFence, sockets, journal
  <2>2. CASE PassFence(r)
    <3>1. CASE Broken(req[r].fence) \/ NotLive(r)
      BY <1>4, <2>0, <2>2, <3>1 DEF PassFence, Refuse, EvidenceAs, Waiting, Outcomes, Verdicts, sockets, journal
    <3>2. CASE ~(Broken(req[r].fence) \/ NotLive(r))
      <4>1. EvidenceAs(req'[r], native'[r], r \in withdrawn, Dead(r)')
        BY <1>0, <2>0, <2>2, <3>2 DEF EvidenceAs, PassFence, Entries, Waiting, Dead, sockets
      <4> QED BY <1>0, <1>3, <2>2, <3>2, <4>1 DEF PassFence, sockets, journal
    <3> QED BY <3>1, <3>2
  <2>3. CASE Validated(r)
    <3>1. EvidenceAs(req'[r], native'[r], r \in withdrawn, Dead(r)')
      BY <1>0, <2>0, <2>3 DEF EvidenceAs, Validated, Entries, Waiting, Dead, sockets
    <3> QED BY <1>0, <1>3, <2>3, <3>1 DEF Validated, sockets, journal
  <2>4. CASE Again(r)
    <3>1. EvidenceAs(req'[r], native'[r], r \in withdrawn, Dead(r)')
      BY <1>0, <2>0, <2>4 DEF EvidenceAs, Again, AtDecision, AtFence, Entries, Waiting, Dead, sockets
    <3> QED BY <1>0, <1>3, <2>4, <3>1 DEF Again, AtFence, sockets, journal
  <2>5. CASE Invalid(r)
    BY <1>4, <2>0, <2>5 DEF Invalid, Refuse, EvidenceAs, Waiting, Outcomes, Verdicts, sockets, journal
  <2>6. CASE DecideRefused(r)
    BY <1>4, <2>0, <2>6 DEF DecideRefused, AtDecision, Refuse, EvidenceAs, Waiting, Outcomes, Verdicts, sockets, journal
  <2>7. CASE Unencodable(r)
    BY <1>4, <2>0, <2>7 DEF Unencodable, MayDispatch, AtDecision, Refuse, EvidenceAs, Waiting, Outcomes, Verdicts, sockets, journal
  <2>8. CASE SendThrows(r)
    BY <1>4, <2>8 DEF SendThrows, Outcomes, Verdicts, sockets, journal
  <2>9. CASE MarkThrows(r)
    BY <1>4, <2>9 DEF MarkThrows, Outcomes, Verdicts, sockets, journal
  <2>10. CASE Reported(r)
    <3>1. /\ Observed(req[r].reply) \in Outcomes
          /\ Observed(req[r].reply) = "refused" => req[r].reply = "dropped"
          /\ Observed(req[r].reply) \in Verdicts => req[r].reply \in Settled
      BY DEF Observed, Outcomes, Settled, Verdicts
    <3>2. /\ Observed(req[r].reply) = "refused" => native[r] \in {"unsent", "dropped"}
          /\ Observed(req[r].reply) \in Verdicts => native[r] = "done"
      BY <2>0, <3>1 DEF EvidenceAs
    <3> QED BY <1>4, <2>10, <3>1, <3>2 DEF Reported, sockets, journal
  <2>11. CASE Dispatch(r)
    <3>1. r \in withdrawn => Dead(r)
      BY <2>0, <2>11 DEF EvidenceAs, Dispatch, MayDispatch, AtDecision
    <3>2. native[r] = "unsent" /\ req[r].reply \notin Settled \cup {"dropped"} /\ req[r].outcome = "none"
      BY <2>0, <2>11 DEF EvidenceAs, Dispatch, MayDispatch, AtDecision, Waiting, PlacedAs
    <3>3. /\ req'[r].pc \in {"mark", "reply"} /\ req'[r].reply = req[r].reply /\ req'[r].outcome = req[r].outcome
          /\ req'[r].at = req[r].at /\ native'[r] = IF Dead(r) THEN "unsent" ELSE "running"
      BY <1>0, <2>0, <2>11, <3>2 DEF Dispatch, Entries, Dead
    <3>4. Dead(r)' = Dead(r)
      BY <2>11, <3>3 DEF Dispatch, Dead, sockets
    <3>5. EvidenceAs(req'[r], native'[r], r \in withdrawn, Dead(r)')
      BY <3>1, <3>2, <3>3, <3>4 DEF EvidenceAs, Waiting, Verdicts
    <3> QED BY <1>0, <1>3, <2>11, <3>5 DEF Dispatch, sockets, journal
  <2>12. CASE Marked(r)
    <3>1. EvidenceAs(req'[r], native'[r], r \in withdrawn, Dead(r)')
      BY <1>0, <2>0, <2>12 DEF EvidenceAs, Marked, Entries, Waiting, Dead, sockets
    <3> QED BY <1>0, <1>3, <2>12, <3>1 DEF Marked, sockets, journal
  <2>13. CASE InvokeNoSession(r)
    <3>1. EvidenceAs(req'[r], native'[r], r \in withdrawn, Dead(r)')
      BY <1>0, <2>0, <2>13 DEF EvidenceAs, InvokeNoSession, Entries, Waiting, Verdicts
    <3> QED BY <1>0, <1>3, <2>13, <3>1 DEF InvokeNoSession, sockets, journal
  <2>14. CASE InvokeFull(r)
    <3>1. EvidenceAs(req'[r], native'[r], r \in withdrawn, Dead(r)')
      BY <1>0, <2>0, <2>14 DEF EvidenceAs, InvokeFull, Entries, Waiting, Verdicts
    <3> QED BY <1>0, <1>3, <2>14, <3>1 DEF InvokeFull, sockets, journal
  <2>15. CASE Invoke(r)
    <3>1. EvidenceAs(req'[r], native'[r], (r \in withdrawn)', Dead(r)')
      BY <1>0, <2>0, <2>15 DEF EvidenceAs, Invoke, PlacedAs, Entries, Waiting
    <3>2. ASSUME NEW s \in Requests, s # r PROVE EvidenceAs(req[s], native[s], s \in withdrawn, Dead(s))'
      BY <1>0, <1>2, <2>15, <3>2 DEF Invoke, Dead, sockets
    <3> QED BY <3>1, <3>2 DEF Evidence
  <2> QED BY <1>5, <2>1, <2>2, <2>3, <2>4, <2>5, <2>6, <2>7, <2>8, <2>9, <2>10, <2>11, <2>12, <2>13, <2>14, <2>15
          DEF Fiber
<1>6. ASSUME NEW r \in Requests, NEW reply \in Replies, Answer(r, reply) PROVE Evidence'
  <2>1. /\ req'[r].pc = req[r].pc /\ req'[r].phase = req[r].phase /\ req'[r].outcome = req[r].outcome
        /\ req'[r].at = req[r].at /\ req'[r].reply \in {req[r].reply, reply}
        /\ \A s \in Requests \ {r} : req'[s] = req[s] /\ native'[s] = native[s]
    BY <1>0, <1>6 DEF Answer, Entries
  <2>2. native[r] = "running" /\ native'[r] = CASE reply = "unsettled" -> "running" [] reply = "dropped" -> "dropped"
                                                [] OTHER -> "done"
    BY <1>0, <1>6 DEF Answer
  <2>3. EvidenceAs(req'[r], native'[r], r \in withdrawn, Dead(r)')
    BY <1>00, <2>1, <2>2 DEF EvidenceAs, Settled
  <2> QED BY <1>3, <1>6, <2>1, <2>3 DEF Answer, sockets, journal
<1>7. ASSUME NEW r \in Requests, FinishUnheard(r) PROVE Evidence'
  <2>1. EvidenceAs(req'[r], native'[r], r \in withdrawn, Dead(r)')
    BY <1>0, <1>00, <1>7 DEF FinishUnheard, EvidenceAs
  <2> QED BY <1>0, <1>3, <1>7, <2>1 DEF FinishUnheard, sockets, journal
<1>8. ASSUME NEW r \in Requests, Interrupt(r) PROVE Evidence'
  BY <1>4, <1>8 DEF Interrupt, Outcomes, Verdicts, sockets, journal
<1>9. ASSUME UNCHANGED <<sockets, req, native, withdrawn>> PROVE Evidence'
  BY <1>00, <1>9 DEF Evidence, Dead, sockets
\* Requests behind the gate that are cancelled.
<1>10. ASSUME UNCHANGED <<sockets, native>>,
              \A s \in Requests :
                \/ req'[s] = req[s] /\ (s \in withdrawn' => s \in withdrawn)
                \/ req[s].phase = "queued" /\ req'[s] = [req[s] EXCEPT !.phase = "cancelled"]
       PROVE  Evidence'
  <2> SUFFICES ASSUME NEW s \in Requests PROVE EvidenceAs(req[s], native[s], s \in withdrawn, Dead(s))'
    BY DEF Evidence
  <2>1. CASE req'[s] = req[s] /\ (s \in withdrawn' => s \in withdrawn)
    BY <1>2, <1>10, <2>1 DEF Dead, sockets
  <2>2. CASE req[s].phase = "queued" /\ req'[s] = [req[s] EXCEPT !.phase = "cancelled"]
    <3>1. req[s] \in Entries /\ PlacedAs(req[s]) /\ EvidenceAs(req[s], native[s], s \in withdrawn, Dead(s))
      BY <1>0, <1>00
    <3>2. /\ req[s].pc \in Waiting /\ native[s] = "unsent" /\ req[s].outcome = "none"
          /\ req[s].reply \notin Settled \cup {"dropped"}
      BY <2>2, <3>1 DEF PlacedAs, EvidenceAs, Waiting
    <3>3. /\ req'[s].pc = req[s].pc /\ req'[s].phase = "cancelled" /\ req'[s].reply = req[s].reply
          /\ req'[s].outcome = req[s].outcome
      BY <2>2, <3>1 DEF Entries
    <3> QED BY <1>10, <3>2, <3>3 DEF EvidenceAs, Waiting, Verdicts
  <2> QED BY <1>10, <2>1, <2>2
<1>11. ASSUME NEW r \in Requests, CancelRequest(r) PROVE Evidence'
  BY <1>0, <1>10, <1>11 DEF CancelRequest
<1>12. ASSUME NEW n \in DOMAIN revocations, Chain(n) PROVE Evidence'
  <2>1. CASE Census(n) \/ CensusFails(n)
    BY <1>9, <2>1 DEF Census, CensusFails
  <2>2. CASE Sweep(n)
    BY <1>0, <1>10, <2>2 DEF Sweep
  <2> QED BY <1>12, <2>1, <2>2 DEF Chain
\* A connection that dies takes what was registered with it.
<1>13. ASSUME NEW h \in Connections, link[h] # "up", req' = FailPending(h), UNCHANGED <<native, withdrawn>>,
              \A s \in Requests : req[s].at # 0 /\ Dead(s) => Dead(s)'
       PROVE  Evidence'
  <2> SUFFICES ASSUME NEW s \in Requests PROVE EvidenceAs(req[s], native[s], s \in withdrawn, Dead(s))'
    BY DEF Evidence
  <2>1. req[s] \in Entries /\ PlacedAs(req[s]) /\ EvidenceAs(req[s], native[s], s \in withdrawn, Dead(s))
    BY <1>0, <1>00
  <2>2. /\ req'[s].pc = req[s].pc /\ req'[s].outcome = req[s].outcome /\ req'[s].at = req[s].at
        /\ req'[s].phase = IF req[s].at = h THEN "none" ELSE req[s].phase
        /\ req'[s].reply # req[s].reply => req'[s].reply = "lost"
    BY <1>0, <1>13, LossKeeps
  <2>3. s \in withdrawn => req[s].pc = "done" \/ req[s].pc \in Inside
    BY <2>1 DEF EvidenceAs, Entries, Pcs, Inside, Waiting
  <2>4. s \in withdrawn => req'[s].pc = "done" \/ req'[s].phase = "cancelled" \/ Dead(s)'
    <3>1. CASE req[s].at = h
      BY <1>13, <2>1, <2>2, <2>3, <3>1 DEF PlacedAs, Dead
    <3>2. CASE req[s].at # h
      BY <1>13, <2>1, <2>2, <2>3, <3>2 DEF PlacedAs, EvidenceAs
    <3> QED BY <3>1, <3>2
  <2> QED BY <1>13, <2>1, <2>2, <2>4 DEF EvidenceAs, Settled
<1>14. ASSUME NEW g \in Connections, Register(g) PROVE Evidence'
  <2>1. \A s \in Requests : req[s].at # 0 => req[s].at # g
    BY <1>14 DEF Register, Ordered
  <2>2. \A s \in Requests : req'[s].at = req[s].at
    BY <1>0, <1>14, LossKeeps DEF Register
  <2>3. \A s \in Requests : req[s].at # 0 /\ Dead(s) => Dead(s)'
    BY <1>0, <1>14, <2>1, <2>2 DEF Register, Dead
  <2>4. CASE current = 0
    <3> SUFFICES ASSUME NEW s \in Requests PROVE EvidenceAs(req[s], native[s], s \in withdrawn, Dead(s))'
      BY DEF Evidence
    <3>1. req[s].at = 0 /\ s \in withdrawn => req[s].pc = "done"
      BY <1>0, <1>00 DEF EvidenceAs, PlacedAs, Entries, Pcs, Inside, Waiting
    <3> QED BY <1>00, <1>14, <2>3, <2>4, <3>1 DEF Register, EvidenceAs, journal
  <2>5. CASE current # 0
    <3>1. current \in Connections /\ link[current] # "up"
      BY <1>0, <1>14, <2>5 DEF Register, Ordered, LossIsReal
    <3> QED BY <1>13, <1>14, <2>3, <2>5, <3>1 DEF Register, journal
  <2> QED BY <2>4, <2>5
<1>15. ASSUME NEW g \in Connections, LinkLost(g) PROVE Evidence'
  <2>1. \A s \in Requests : Dead(s) => Dead(s)'
    BY <1>0, <1>15 DEF LinkLost, Dead
  <2> QED BY <1>2, <1>15, <2>1 DEF LinkLost, journal, Evidence
<1>16. ASSUME NEW g \in Connections, CleanupSession(g) PROVE Evidence'
  <2>1. \A s \in Requests : req'[s].at = req[s].at
    BY <1>0, <1>16, LossKeeps DEF CleanupSession
  <2>2. \A s \in Requests : Dead(s) => Dead(s)'
    BY <1>0, <1>16, <2>1 DEF CleanupSession, Dead
  <2> QED BY <1>13, <1>16, <2>2 DEF CleanupSession, journal
<1> QED BY <1>1, <1>5, <1>6, <1>7, <1>8, <1>9, <1>11, <1>12, <1>14, <1>15, <1>16
        DEF Next, Answers, DocumentCloses, Deny, Revoke

LEMMA EvidenceHonest == Evidence => Honest
  BY DEF Evidence, EvidenceAs, Honest, Verdicts

-----------------------------------------------------------------------------
(* The order of a gate chain.                                                *)

\* Ranks along the chains of ahead pointers: a chain is a line, and the tail is its end.
Lined(f) ==
  /\ \A r \in Requests : req[r].at # 0 =>
       IF req[r].ahead = None THEN f[r] = 0 ELSE req[req[r].ahead].at = req[r].at /\ f[r] = f[req[r].ahead] + 1
  /\ \A r, s \in Requests : req[r].at # 0 /\ req[r].at = req[s].at /\ f[r] = f[s] => r = s
  /\ \A r \in Requests : req[r].at # 0 =>
       LET tail == queueTail[req[r].at] IN tail # None /\ req[tail].at = req[r].at /\ f[r] <= f[tail]
  /\ \A g \in Connections : queueTail[g] # None => req[queueTail[g]].at = g

\* Whoever passed the gate has only settled requests before it.
Served(f) ==
  \A r, s \in Requests : req[r].at # 0 /\ req[r].at = req[s].at /\ req[r].pc # "gate" /\ f[s] < f[r] => req[s].pc = "done"

Clean == \A r \in Requests : req[r].outcome # "interrupted"

InOrder == \E f \in [Requests -> Nat] : Lined(f) /\ (Clean => Served(f))

LEMMA InitInOrder == Init => InOrder
<1> SUFFICES ASSUME Init PROVE InOrder
  OBVIOUS
<1> DEFINE f == [r \in Requests |-> 0]
<1>1. f \in [Requests -> Nat] /\ Lined(f) /\ Served(f)
  BY DEF Init, Fresh, Lined, Served
<1> HIDE DEF f
<1> QED BY <1>1 DEF InOrder

\* Ranks stay as long as nobody joins.
LEMMA LinedKept ==
  ASSUME Base, NEW f \in [Requests -> Nat], Lined(f), queueTail' = queueTail,
         \A s \in Requests : req'[s].at = req[s].at /\ req'[s].ahead = req[s].ahead
  PROVE  Lined(f)'
<1>0. /\ queueTail \in [Connections -> Requests \cup {None}]
      /\ \A r \in Requests : req[r].at \in {0} \cup Connections /\ req[r].ahead \in Requests \cup {None}
      /\ None \notin Requests
  BY DEF Base, Typed, Entries
<1>1. \A r \in Requests : req'[r].at # 0 =>
        IF req'[r].ahead = None THEN f[r] = 0 ELSE req'[req'[r].ahead].at = req'[r].at /\ f[r] = f[req'[r].ahead] + 1
  BY <1>0 DEF Lined
<1>2. \A r, s \in Requests : req'[r].at # 0 /\ req'[r].at = req'[s].at /\ f[r] = f[s] => r = s
  BY DEF Lined
<1>3. \A r \in Requests : req'[r].at # 0 =>
        LET tail == queueTail'[req'[r].at] IN tail # None /\ req'[tail].at = req'[r].at /\ f[r] <= f[tail]
  <2> TAKE r \in Requests
  <2> HAVE req'[r].at # 0
  <2>1. req[r].at \in Connections /\ req'[r].at = req[r].at
    BY <1>0
  <2>2. /\ queueTail[req[r].at] \in Requests /\ req[queueTail[req[r].at]].at = req[r].at
        /\ f[r] <= f[queueTail[req[r].at]]
    BY <1>0, <2>1 DEF Lined
  <2> QED BY <1>0, <2>1, <2>2
<1>4. \A g \in Connections : queueTail'[g] # None => req'[queueTail'[g]].at = g
  BY <1>0 DEF Lined
<1> QED BY <1>1, <1>2, <1>3, <1>4 DEF Lined

LEMMA NextInOrder == Base /\ InOrder /\ [Next]_vars => InOrder'
<1> SUFFICES ASSUME Base, [Next]_vars, NEW f \in [Requests -> Nat], Lined(f), Clean => Served(f)
             PROVE  InOrder'
  BY DEF InOrder
<1>0. /\ req \in [Requests -> Entries] /\ queueTail \in [Connections -> Requests \cup {None}]
      /\ \A r \in Requests : /\ req[r] \in Entries /\ PlacedAs(req[r])
                             /\ req[r].at \in {0} \cup Connections /\ req[r].ahead \in Requests \cup {None}
                             /\ f[r] \in Nat
      /\ None \notin Requests /\ 0 \notin Connections
  BY DEF Base, Typed, Placed, Entries
<1>1. CASE UNCHANGED vars
  BY <1>1 DEF vars, gates, InOrder, Lined, Served, Clean
<1>2. CASE Steady
  <2>1. Lined(f)'
    BY <1>0, <1>2, LinedKept DEF Steady, gates
  <2>2. Clean' => Clean
    BY <1>0, <1>2 DEF Steady, Clean, PlacedAs
  <2>3. ASSUME Clean' PROVE Served(f)'
    <3> SUFFICES ASSUME NEW r \in Requests, NEW s \in Requests, req'[r].at # 0, req'[r].at = req'[s].at,
                        req'[r].pc # "gate", f[s] < f[r]
                 PROVE  req'[s].pc = "done"
      BY DEF Served
    <3>0. Served(f) /\ req[r].at # 0 /\ req[r].at = req[s].at
      BY <1>2, <2>2, <2>3 DEF Steady
    <3>1. req[s].pc = "done"
      <4>1. CASE req[r].pc # "gate"
        BY <3>0, <4>1 DEF Served
      <4>2. CASE req[r].pc = "gate"
        <5>1. GateOpen(r)
          BY <1>2, <4>2 DEF Steady
        <5>2. /\ req[r].ahead \in Requests /\ req[req[r].ahead].pc = "done" /\ req[req[r].ahead].at = req[r].at
              /\ f[r] = f[req[r].ahead] + 1
          BY <1>0, <3>0, <5>1 DEF GateOpen, Lined
        <5>3. CASE f[s] = f[req[r].ahead]
          BY <3>0, <5>2, <5>3 DEF Lined
        <5>4. CASE f[s] < f[req[r].ahead]
          BY <3>0, <5>2, <5>4 DEF Served
        <5> QED BY <1>0, <5>2, <5>3, <5>4
      <4> QED BY <4>1, <4>2
    <3> QED BY <1>2, <3>1 DEF Steady
  <2> QED BY <2>1, <2>3 DEF InOrder
<1>3. ASSUME NEW r \in Requests, NEW outcome \in Outcomes, req[r].pc \in Inside, Settle(r, outcome),
             req[r].pc = "gate" => outcome = "interrupted"
      PROVE  InOrder'
  <2>1. /\ req'[r].pc = "done" /\ req'[r].at = req[r].at /\ req'[r].ahead = req[r].ahead /\ req'[r].outcome = outcome
        /\ \A s \in Requests \ {r} : req'[s] = req[s]
        /\ queueTail' = queueTail
    BY <1>0, <1>3 DEF Settle, Entries
  <2>2. Lined(f)'
    BY <1>0, <2>1, LinedKept
  <2>3. ASSUME Clean' PROVE Served(f)'
    <3>1. req[r].outcome = "none" /\ Clean
      BY <1>0, <1>3, <2>1, <2>3 DEF Clean, PlacedAs, Inside, Waiting
    <3>2. req[r].pc # "gate"
      BY <1>3, <2>1, <2>3 DEF Clean
    <3> QED BY <2>1, <3>1, <3>2 DEF Served
  <2> QED BY <2>2, <2>3 DEF InOrder
<1>4. ASSUME NEW r \in Requests, Invoke(r) PROVE InOrder'
  <2> DEFINE tail == queueTail[current]
             rank == IF tail = None THEN 0 ELSE f[tail] + 1
  <2>0. current \in Connections /\ current # 0 /\ req[r].at = 0 /\ tail \in Requests \cup {None}
    BY <1>0, <1>4 DEF Base, Typed, Invoke, PlacedAs
  <2>1. /\ req'[r].pc = "gate" /\ req'[r].at = current /\ req'[r].ahead = tail /\ req'[r].outcome = req[r].outcome
        /\ \A s \in Requests \ {r} : req'[s] = req[s]
        /\ queueTail' = [queueTail EXCEPT ![current] = r]
    BY <1>0, <1>4 DEF Invoke, Entries
  <2>01. rank \in Nat
    BY <1>0, <2>0
  <2>02. PICK h \in [Requests -> Nat] : h = [f EXCEPT ![r] = rank]
    BY <2>01
  <2>2. rank \in Nat /\ h[r] = rank /\ \A s \in Requests \ {r} : h[s] = f[s]
    BY <2>01, <2>02
  <2>3. \A s \in Requests : req[s].at = current => tail # None /\ req[tail].at = current /\ f[s] < rank
    BY <1>0, <2>0 DEF Lined
  <2>4. tail # None => tail # r /\ req[tail].at = current
    BY <2>0 DEF Lined
  <2>5. \A s \in Requests : req[s].at # 0 /\ req[s].ahead # None => req[s].ahead \in Requests \ {r}
    BY <1>0, <2>0 DEF Lined
  <2> HIDE DEF tail, rank
  <2>6. Lined(h)'
    <3>1. ASSUME NEW s \in Requests, req'[s].at # 0
          PROVE  /\ IF req'[s].ahead = None THEN h[s] = 0
                    ELSE req'[req'[s].ahead].at = req'[s].at /\ h[s] = h[req'[s].ahead] + 1
                 /\ LET end == queueTail'[req'[s].at] IN end # None /\ req'[end].at = req'[s].at /\ h[s] <= h[end]
      <4>1. CASE s = r
        <5>1. queueTail'[current] = r /\ req'[s].at = current /\ req'[s].ahead = tail
          BY <1>0, <2>0, <2>1, <4>1
        <5>2. tail # None => req'[tail].at = current /\ h[s] = h[tail] + 1
          BY <1>0, <2>0, <2>1, <2>2, <2>4, <4>1 DEF rank
        <5>3. tail = None => h[s] = 0
          BY <2>2, <4>1 DEF rank
        <5> QED BY <1>0, <2>2, <4>1, <5>1, <5>2, <5>3
      <4>2. CASE s # r
        <5>0. req'[s] = req[s] /\ req[s].at # 0 /\ req[s].at \in Connections /\ h[s] = f[s]
          BY <1>0, <2>1, <2>2, <3>1, <4>2
        <5>1. IF req'[s].ahead = None THEN h[s] = 0
              ELSE req'[req'[s].ahead].at = req'[s].at /\ h[s] = h[req'[s].ahead] + 1
          BY <1>0, <2>1, <2>2, <2>5, <5>0 DEF Lined
        <5>2. CASE req[s].at = current
          BY <1>0, <2>0, <2>1, <2>2, <2>3, <5>0, <5>1, <5>2
        <5>3. CASE req[s].at # current
          <6>1. queueTail'[req[s].at] = queueTail[req[s].at]
            BY <1>0, <2>1, <5>0, <5>3
          <6>2. /\ queueTail[req[s].at] \in Requests \ {r} /\ req[queueTail[req[s].at]].at = req[s].at
                /\ f[s] <= f[queueTail[req[s].at]]
            BY <1>0, <2>0, <5>0 DEF Lined
          <6> QED BY <2>1, <2>2, <5>0, <5>1, <6>1, <6>2
        <5> QED BY <5>2, <5>3
      <4> QED BY <4>1, <4>2
    <3>2. \A s, t \in Requests : req'[s].at # 0 /\ req'[s].at = req'[t].at /\ h[s] = h[t] => s = t
      <4> SUFFICES ASSUME NEW s \in Requests, NEW t \in Requests, req'[s].at # 0, req'[s].at = req'[t].at, h[s] = h[t],
                          s # t
                   PROVE  FALSE
        OBVIOUS
      <4>1. CASE s = r
        <5>1. req[t].at = current /\ h[t] = f[t] /\ h[r] = rank
          BY <2>1, <2>2, <4>1
        <5>2. f[t] < rank /\ f[t] \in Nat
          BY <2>3, <5>1
        <5> QED BY <2>2, <4>1, <5>1, <5>2
      <4>2. CASE t = r
        <5>1. req[s].at = current /\ h[s] = f[s] /\ h[r] = rank
          BY <2>1, <2>2, <4>2
        <5>2. f[s] < rank /\ f[s] \in Nat
          BY <2>3, <5>1
        <5> QED BY <2>2, <4>2, <5>1, <5>2
      <4>3. CASE s # r /\ t # r
        BY <2>1, <2>2, <4>3 DEF Lined
      <4> QED BY <4>1, <4>2, <4>3
    <3>3. \A g \in Connections : queueTail'[g] # None => req'[queueTail'[g]].at = g
      <4> TAKE g \in Connections
      <4>1. CASE g = current
        BY <1>0, <2>0, <2>1, <4>1
      <4>2. CASE g # current
        <5>1. queueTail'[g] = queueTail[g]
          BY <1>0, <2>1, <4>2
        <5>2. queueTail[g] # None => queueTail[g] \in Requests \ {r} /\ req[queueTail[g]].at = g
          <6>1. queueTail[g] # None => req[queueTail[g]].at = g
            BY DEF Lined
          <6>2. queueTail[g] \in Requests \cup {None} /\ g # 0 /\ req[r].at = 0
            BY <1>0, <2>0
          <6> QED BY <6>1, <6>2
        <5> QED BY <2>1, <5>1, <5>2
      <4> QED BY <4>1, <4>2
    <3> QED BY <3>1, <3>2, <3>3 DEF Lined
  <2>7. ASSUME Clean' PROVE Served(h)'
    <3>1. Clean
      BY <2>1, <2>7 DEF Clean
    <3> SUFFICES ASSUME NEW s \in Requests, NEW t \in Requests, req'[s].at # 0, req'[s].at = req'[t].at,
                        req'[s].pc # "gate", h[t] < h[s]
                 PROVE  req'[t].pc = "done"
      BY DEF Served
    <3>2. s # r
      BY <2>1
    <3>3. t # r
      BY <1>0, <2>1, <2>2, <2>3, <3>2
    <3> QED BY <2>1, <2>2, <3>1, <3>2, <3>3 DEF Served
  <2> QED BY <2>2, <2>6, <2>7 DEF InOrder
<1> QED BY <1>1, <1>2, <1>3, <1>4, GateFrame DEF Settles

LEMMA InOrderSerial == Base /\ InOrder => SerialUninterrupted
<1> SUFFICES ASSUME Base, InOrder, Clean, NEW g \in Connections
             PROVE  Cardinality({r \in Requests : req[r].at = g /\ req[r].phase = "dispatched"}) <= 1
  BY DEF SerialUninterrupted, Serial, Clean
<1> DEFINE S == {r \in Requests : req[r].at = g /\ req[r].phase = "dispatched"}
<1>1. \A r, s \in S : r = s
  <2> SUFFICES ASSUME NEW r \in S, NEW s \in S, r # s PROVE FALSE
    OBVIOUS
  <2>1. PICK f \in [Requests -> Nat] : Lined(f) /\ Served(f)
    BY DEF InOrder
  <2>2. /\ req[r].at = g /\ req[s].at = g /\ g # 0
        /\ req[r].pc \in {"mark", "reply"} /\ req[s].pc \in {"mark", "reply"}
    BY DEF Base, Placed, PlacedAs
  <2>3. f[r] \in Nat /\ f[s] \in Nat /\ f[r] # f[s]
    BY <2>1, <2>2 DEF Lined
  <2> QED BY <2>1, <2>2, <2>3 DEF Served
<1>2. S = {} \/ \E r \in S : S = {r}
  BY <1>1
<1>3. Cardinality(S) = 0 \/ Cardinality(S) = 1
  <2> HIDE DEF S
  <2> QED BY <1>2, FS_EmptySet, FS_Singleton
<1> QED BY <1>3

-----------------------------------------------------------------------------
(* The theorems.                                                             *)

\* What holds in every reachable state.
Holds == Base /\ DepthBounded /\ Ordered /\ LossIsReal /\ Swept /\ Evidence /\ InOrder

LEMMA Invariant == Spec => []Holds
<1>1. Init => Holds
  BY InitBase, InitDepth, InitOrdered, InitSwept, InitEvidence, InitInOrder DEF Holds
<1>2. Holds /\ [Next]_vars => Holds'
  BY NextBase, NextDepth, NextOrdered, NextSwept, NextEvidence, NextInOrder DEF Holds
<1> QED BY <1>1, <1>2, PTL DEF Spec

\* Sessions, queues, entries and revocations keep their shape, and a queue's depth never falls below
\* zero, whatever settles, dies or goes away (queueDepth of a session in bridge.ts).
THEOREM BridgeTyped == Spec => []TypeOK
<1>1. Base /\ DepthBounded => TypeOK
  <2> SUFFICES ASSUME Base, DepthBounded PROVE TypeOK
    OBVIOUS
  <2>1. \A g \in Connections : queueDepth[g] \in Nat
    <3> TAKE g \in Connections
    <3>1. queueDepth[g] = Cardinality(Held(g))
      BY DEF DepthBounded, Held
    <3> QED BY <3>1, HeldFinite, FS_CardinalityType
  <2> QED BY <2>1 DEF Base, Typed, TypeOK
<1> QED BY <1>1, Invariant, PTL DEF Holds

\* The depth that MAX_QUEUED_OPS is compared with counts exactly the requests a connection holds.
THEOREM DepthExact == Spec => []DepthBounded
BY Invariant, PTL DEF Holds

\* A reply is failed as lost only with its own connection, and a takeover never leaves a live connection
\* out of the map (onFrame, cleanupSession).
THEOREM LossesReal == Spec => []LossIsReal
BY Invariant, PTL DEF Holds

\* The evidence of a refusal, a cancel and an answer is true of Revit (invokeBridge).
THEOREM EvidenceTrue == Spec => []Honest
BY Invariant, EvidenceHonest, PTL DEF Holds

\* The gate keeps ordinary operations of a connection serial until a caller goes away.
THEOREM GateSerial == Spec => []SerialUninterrupted
BY Invariant, InOrderSerial, PTL DEF Holds

\* Nothing is sent for a denied action or while a revocation is out (the decision in
\* invokeSession).
THEOREM FenceKept == Spec => FenceHolds
<1>1. Holds /\ [Next]_vars =>
        [\A r \in Requests : Sends(r) =>
           r \notin denied /\ \A n \in DOMAIN revocations : revocations[n].state = "swept"]_vars
  BY OnlyFreed DEF Holds
<1> QED BY <1>1, Invariant, PTL DEF Spec, FenceHolds

=============================================================================

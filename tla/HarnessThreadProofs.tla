------------------------- MODULE HarnessThreadProofs -------------------------
(***************************************************************************)
(* One conversation, for every set of prompts, retries, cancels and uses   *)
(* of its process, any identities and any number of connections.           *)
(*                                                                         *)
(* The inductive invariant ThreadInv: the working message is the turn      *)
(* (Serial); the processes that the turn can reach carry its identity      *)
(* (Serving); the queue holds the queued messages, each once (Lined); and  *)
(* what the log has open is waited for, or is the newest prompt (Open).    *)
(***************************************************************************)
EXTENDS HarnessThread, FiniteSetTheorems, SequenceTheorems, TLAPS

-----------------------------------------------------------------------------
(* Types *)

Spots == Conns \cup {NoConn}
Passes == Tokens \cup {NoToken}
Places == {"unsent", "learning", "queued", "last", "over", "done"} \cup Steering \cup Working
MsgRecs == [at : Places, delivery : {"steer", "queue"}, home : Nat, on : Spots, token : Passes]
CutRecs == [step : {"none", "asking", "racing", "done"}, id : Ids \cup {None}, turn : Messages \cup {None},
            live : Spots, child : Spots]
ConnRecs == [phase : {"none", "preparing", "starting", "ready", "failed"}, run : Ids \cup {None},
             alive : BOOLEAN, told : Ids \cup {None}]
RetireRecs == [busy : BOOLEAN, child : Spots]
LogRecs == [queued : BOOLEAN, prompts : Nat, sent : Nat, cancelled : BOOLEAN,
            end : {"none", "ended", "dropped"}]
AskRecs == [by : Conns, turn : Ids \cup {None}]

Typed ==
  /\ TypeOK
  /\ msg \in [Messages -> MsgRecs]
  /\ cut \in [Messages \cup Stops -> CutRecs]
  /\ conn \in [Conns -> ConnRecs]
  /\ retires \in [Tokens -> RetireRecs]
  /\ log \in [Ids -> LogRecs]
  /\ opened \in SUBSET Ids /\ latest \in Ids \cup {None}
  /\ asks \in SUBSET AskRecs

-----------------------------------------------------------------------------
(* The inductive invariant *)

\* The parts that steer(), drain() and run() work on are stated of any messages ms, log lg and queue q:
\* those functions go on from what their caller changed.

\* Who works is the turn, and t.running names it.
Serial(ms) == \A m \in Messages : ms[m].at \in Working => turn = m /\ running = IdOf[m]

\* From the moment a turn has got rid of the process it found, every live process it can reach is its
\* own; a process that has no child was not started; and a process that asked is connected.
Own == {"cooling", "preparing", "connecting", "prompting"}
Reach(m) == {live, child, msg[m].on} \cap Conns
Serving ==
  /\ \A c \in Conns : conn[c].phase \in {"none", "preparing"} => ~conn[c].alive
  /\ live # NoConn /\ conn[live].alive => child # NoConn
  /\ child # NoConn /\ conn[child].run # None => running = conn[child].run
  /\ \A m \in Messages : msg[m].at \in Own => \A c \in Reach(m) : conn[c].alive => conn[c].run = IdOf[m]
  /\ \A m \in Messages : msg[m].at \in {"connecting", "prompting"} => msg[m].on \in Conns
  /\ \A a \in asks :
       conn[a.by].phase = "ready" /\ (a.turn # None /\ conn[a.by].run # None => a.turn = conn[a.by].run)

\* The queue is the queued messages, each once.
Lined(ms, q) ==
  /\ \A k \in DOMAIN q : ms[q[k]].at = "queued"
  /\ \A j, k \in DOMAIN q : q[j] = q[k] => j = k
  /\ \A m \in Messages : ms[m].at = "queued" => \E k \in DOMAIN q : q[k] = m

\* A message whose cancel is asked is cancelling.
Asking(ms) == \A m \in Messages : cut[m].step = "asking" => ms[m].at = "cancelling"

\* A queued prompt that neither ran nor was dropped has a message that waits for it; one that ran and
\* did not end is the newest, and runs; and a turn after its prompt has logged its end.
Waits(ms, m) == ms[m].at = "queued" \/ (ms[m].at \in Steering /\ ms[m].home > 0)
Idle(lg, i) == lg[i].queued /\ lg[i].prompts = 0 /\ lg[i].end = "none"
Begun(lg, i) == lg[i].prompts > 0 /\ lg[i].end = "none"
Waited(ms, lg) ==
  stopped = "no" => \A i \in Ids : Idle(lg, i) => \E m \in Messages : IdOf[m] = i /\ Waits(ms, m)
Newest(lg) == \A i \in Ids : Begun(lg, i) => latest = i /\ (stopped = "no" => running = i)
Ended(ms, lg) == \A m \in Messages : ms[m].at = "after" /\ stopped = "no" => lg[IdOf[m]].end # "none"
Open(ms, lg) == Waited(ms, lg) /\ Newest(lg) /\ Ended(ms, lg)

ThreadInv == Typed /\ Serial(msg) /\ Serving /\ Lined(msg, queue) /\ Asking(msg) /\ Open(msg, log)

-----------------------------------------------------------------------------
(* Frames: what a step may do without touching a part of the invariant. *)

\* No prompt is logged or reopened.
LogKept ==
  \A i \in Ids :
    /\ log'[i].queued = log[i].queued /\ log'[i].prompts = log[i].prompts
    /\ log'[i].end = "none" => log[i].end = "none"

\* The message stays in its part of the protocol.
Steady(m) ==
  /\ msg'[m].at \in Working => msg[m].at \in Working
  /\ msg'[m].at = "queued" <=> msg[m].at = "queued"
  /\ Waits(msg, m) => Waits(msg, m)'
  /\ msg'[m].at = "after" => msg[m].at = "after" \/ stopped # "no" \/ log'[IdOf[m]].end # "none"

LEMMA IdsOf == \A m \in Messages : IdOf[m] \in Ids /\ IdOf[m] # None
BY ThreadAssumption

LEMMA TurnFrame ==
  ASSUME ThreadInv, UNCHANGED <<running, queue, turn, latest>>, stopped' = "no" => stopped = "no",
         LogKept, \A m \in Messages : Steady(m)
  PROVE  Serial(msg)' /\ Lined(msg, queue)' /\ Open(msg, log)'
<1>1. Serial(msg)'
  BY DEF ThreadInv, Serial, Steady
<1>2. Lined(msg, queue)'
  <2>1. \A k \in DOMAIN queue : queue[k] \in Messages
    BY DEF ThreadInv, Typed, TypeOK
  <2> QED
    BY <2>1 DEF ThreadInv, Lined, Steady
<1>3. Waited(msg, log)'
  <2>1. \A i \in Ids : Idle(log, i)' => Idle(log, i)
    BY DEF Idle, LogKept
  <2>2. \A m \in Messages : Waits(msg, m) => Waits(msg, m)'
    BY DEF Steady
  <2> QED
    BY <2>1, <2>2 DEF ThreadInv, Open, Waited
<1>4. Newest(log)'
  <2>1. \A i \in Ids : Begun(log, i)' => Begun(log, i)
    BY DEF Begun, LogKept
  <2> QED
    BY <2>1 DEF ThreadInv, Open, Newest
<1>5. Ended(msg, log)'
  BY IdsOf DEF ThreadInv, Open, Ended, Steady, LogKept
<1> QED
  BY <1>1, <1>2, <1>3, <1>4, <1>5 DEF Open

\* A connection loses its process or goes on in its handshake, but none starts.
Aging(c) ==
  /\ conn'[c].alive => conn[c].alive /\ conn'[c].run = conn[c].run
  /\ conn'[c].run # None => conn'[c].run = conn[c].run
  /\ conn'[c].phase \in {"none", "preparing"} => conn[c].phase \in {"none", "preparing"}
  /\ conn[c].phase = "ready" => conn'[c].phase = "ready"

\* The thread keeps or loses its process, and a turn that has got rid of another's does not go back.
LEMMA ServeFrame ==
  ASSUME ThreadInv, live' = live \/ live' = NoConn, child' = child \/ (child' = NoConn /\ live' = NoConn),
         \A c \in Conns : Aging(c), asks' \subseteq asks,
         running' = running \/ (running' = None /\ child' = NoConn) \/ running = None,
         \A m \in Messages : msg'[m].at \in Own => msg[m].at \in Own /\ msg'[m].on \in {msg[m].on, NoConn},
         \A m \in Messages : msg'[m].at \in {"connecting", "prompting"} =>
                             msg[m].at \in {"connecting", "prompting"} /\ msg'[m].on = msg[m].on
  PROVE  Serving'
<1>0. Spots = Conns \cup {NoConn} /\ NoConn \notin Conns /\ live \in Spots /\ child \in Spots
  BY DEF ThreadInv, Typed, TypeOK, Spots, Conns, NoConn
<1>1. \A c \in Conns : conn'[c].phase \in {"none", "preparing"} => ~conn'[c].alive
  BY DEF ThreadInv, Serving, Aging
<1>2. live' # NoConn /\ conn'[live'].alive => child' # NoConn
  BY <1>0 DEF ThreadInv, Serving, Aging, Spots
<1>3. child' # NoConn /\ conn'[child'].run # None => running' = conn'[child'].run
  <2> SUFFICES ASSUME child' # NoConn, conn'[child'].run # None PROVE running' = conn'[child'].run
    OBVIOUS
  <2>1. child' = child /\ child \in Conns
    BY <1>0 DEF Spots
  <2>2. conn'[child].run = conn[child].run /\ conn[child].run # None
    BY <2>1 DEF Aging
  <2>3. running = conn[child].run
    BY <2>1, <2>2, <1>0 DEF ThreadInv, Serving
  <2> QED
    BY <2>1, <2>2, <2>3
<1>4. \A m \in Messages : msg'[m].at \in Own => \A c \in Reach(m)' : conn'[c].alive => conn'[c].run = IdOf[m]
  <2> SUFFICES ASSUME NEW m \in Messages, msg'[m].at \in Own, NEW c \in Reach(m)', conn'[c].alive
               PROVE  conn'[c].run = IdOf[m]
    OBVIOUS
  <2>1. c \in Conns /\ c \in Reach(m)
    BY <1>0 DEF Reach
  <2>2. conn[c].alive /\ conn'[c].run = conn[c].run
    BY <2>1 DEF Aging
  <2> QED
    BY <2>1, <2>2 DEF ThreadInv, Serving
<1>5. \A m \in Messages : msg'[m].at \in {"connecting", "prompting"} => msg'[m].on \in Conns
  BY DEF ThreadInv, Serving
<1>6. \A a \in asks' :
        conn'[a.by].phase = "ready" /\ (a.turn # None /\ conn'[a.by].run # None => a.turn = conn'[a.by].run)
  <2> SUFFICES ASSUME NEW a \in asks
               PROVE  conn'[a.by].phase = "ready" /\ (a.turn # None /\ conn'[a.by].run # None => a.turn = conn'[a.by].run)
    OBVIOUS
  <2>1. a.by \in Conns
    BY DEF ThreadInv, Typed, AskRecs
  <2> QED
    BY <2>1 DEF ThreadInv, Serving, Aging
<1> QED
  BY <1>1, <1>2, <1>3, <1>4, <1>5, <1>6 DEF Serving

LEMMA SameConns == ASSUME conn' = conn PROVE \A c \in Conns : Aging(c)
BY DEF Aging

-----------------------------------------------------------------------------
(* run(), steer() and drain(), from any messages, log and queue.            *)

\* Message m is about to leave its place: q and the others are as the invariant has them.
Leaving(ms, lg, q, m) ==
  /\ ms \in [Messages -> MsgRecs] /\ lg \in [Ids -> LogRecs] /\ q \in Seq(Messages)
  /\ \A n \in Messages \ {m} : ms[n].at \in Working => turn = n /\ running = IdOf[n]
  /\ \A k \in DOMAIN q : ms[q[k]].at = "queued" /\ q[k] # m
  /\ \A j, k \in DOMAIN q : q[j] = q[k] => j = k
  /\ \A n \in Messages \ {m} : ms[n].at = "queued" => \E k \in DOMAIN q : q[k] = n
  /\ \A n \in Messages \ {m} : cut'[n].step = "asking" => ms[n].at = "cancelling"
  /\ stopped = "no" =>
       \A i \in Ids : Idle(lg, i) => \E n \in Messages : IdOf[n] = i /\ (n = m \/ Waits(ms, n))
  /\ Newest(lg)
  /\ \A n \in Messages \ {m} : ms[n].at = "after" /\ stopped = "no" => lg[IdOf[n]].end # "none"

\* The messages that own processes are those of the state before.
OwnKept(ms) ==
  /\ \A n \in Messages : ms[n].at \in Own => msg[n].at \in Own /\ ms[n].on = msg[n].on
  /\ \A n \in Messages : ms[n].at \in {"connecting", "prompting"} => msg[n].at \in {"connecting", "prompting"}

\* Once the message has left its place, the queue is the queued messages again.
LEMMA LinedLeft ==
  ASSUME NEW ms, NEW lg, NEW m \in Messages, Leaving(ms, lg, queue', m),
         msg'[m].at # "queued", \A n \in Messages \ {m} : msg'[n] = ms[n]
  PROVE  Lined(msg, queue)'
<1>1. \A k \in DOMAIN queue' : queue'[k] \in Messages \ {m} /\ ms[queue'[k]].at = "queued"
  BY DEF Leaving
<1>2. \A k \in DOMAIN queue' : msg'[queue'[k]].at = "queued"
  BY <1>1
<1>3. \A n \in Messages : msg'[n].at = "queued" => \E k \in DOMAIN queue' : queue'[k] = n
  BY DEF Leaving
<1>4. \A j, k \in DOMAIN queue' : queue'[j] = queue'[k] => j = k
  BY DEF Leaving
<1> QED
  BY <1>2, <1>3, <1>4 DEF Lined

LEMMA PromptLogged ==
  ASSUME NEW r \in LogRecs, NEW end \in {"none", "ended", "dropped"}
  PROVE  /\ [r EXCEPT !.prompts = r.prompts + 1, !.end = end] \in LogRecs
         /\ [r EXCEPT !.prompts = r.prompts + 1, !.end = end].queued = r.queued
         /\ [r EXCEPT !.prompts = r.prompts + 1, !.end = end].sent = r.sent
         /\ [r EXCEPT !.prompts = r.prompts + 1, !.end = end].prompts = r.prompts + 1
         /\ [r EXCEPT !.prompts = r.prompts + 1, !.end = end].end = end
<1> DEFINE prompts == r.prompts + 1
<1>1. prompts \in Nat
  BY DEF LogRecs
<1> HIDE DEF prompts
<1>2. LET rec == [r EXCEPT !.prompts = prompts, !.end = end] IN
      rec \in LogRecs /\ rec.queued = r.queued /\ rec.sent = r.sent /\ rec.prompts = prompts /\ rec.end = end
  BY <1>1 DEF LogRecs
<1> QED
  BY <1>2 DEF prompts

LEMMA RunStep ==
  ASSUME ThreadInv, running = None, stopped = "no", NEW ms, NEW lg, NEW m \in Messages,
         Leaving(ms, lg, queue', m), OwnKept(ms), Run(ms, lg, m), UNCHANGED <<process, conn, retires, stopped>>,
         asks' \subseteq asks, cut' \in [Messages \cup Stops -> CutRecs],
         cut'[m].step # "asking"
  PROVE  ThreadInv'
<1> DEFINE id == IdOf[m]
           at == IF Reused(id) THEN "after" ELSE "settling"
           end == IF Reused(id) THEN "ended" ELSE lg[id].end
           record == [lg[id] EXCEPT !.prompts = lg[id].prompts + 1, !.end = end]
           moved == [ms[m] EXCEPT !.at = at, !.token = retiring, !.home = 0, !.on = NoConn]
<1>1. id \in Ids /\ id # None
  BY IdsOf
<1>2. /\ running' = id /\ turn' = m /\ latest' = id /\ opened' = opened \cup {id}
      /\ log' = [lg EXCEPT ![id] = record]
      /\ msg' = [ms EXCEPT ![m] = moved]
  BY DEF Run
<1>3. ms \in [Messages -> MsgRecs] /\ lg \in [Ids -> LogRecs] /\ queue' \in Seq(Messages)
  BY DEF Leaving
<1>4. record \in LogRecs /\ record.queued = lg[id].queued /\ record.prompts = lg[id].prompts + 1 /\ record.end = end
  <2>1. end \in {"none", "ended", "dropped"} /\ lg[id] \in LogRecs
    BY <1>1, <1>3 DEF LogRecs
  <2> DEFINE r == lg[id]
  <2> HIDE DEF id, end, r
  <2>2. /\ [r EXCEPT !.prompts = r.prompts + 1, !.end = end] \in LogRecs
        /\ [r EXCEPT !.prompts = r.prompts + 1, !.end = end].queued = r.queued
        /\ [r EXCEPT !.prompts = r.prompts + 1, !.end = end].prompts = r.prompts + 1
        /\ [r EXCEPT !.prompts = r.prompts + 1, !.end = end].end = end
    <3>1. r \in LogRecs
      BY <2>1 DEF r
    <3> QED
      BY <2>1, <3>1, PromptLogged
  <2> QED
    BY <2>2, Zenon DEF r
<1>5. moved \in MsgRecs /\ moved.at = at /\ moved.on = NoConn
  <2>1. at \in Places /\ retiring \in Passes /\ NoConn \in Spots
    BY DEF Places, Working, ThreadInv, Typed, TypeOK, Passes, Spots
  <2>2. ms[m] \in MsgRecs
    BY <1>3
  <2> HIDE DEF at
  <2> QED
    BY <2>1, <2>2 DEF MsgRecs
<1>6. at \in {"after", "settling"} /\ (at = "after" => end = "ended")
  OBVIOUS
<1> HIDE DEF id, at, end, record, moved
<1>7. /\ msg' \in [Messages -> MsgRecs] /\ msg'[m].at = at
      /\ \A n \in Messages \ {m} : msg'[n] = ms[n]
  BY <1>2, <1>3, <1>5
<1>8. /\ log' \in [Ids -> LogRecs] /\ log'[id] = record
      /\ \A i \in Ids \ {id} : log'[i] = lg[i]
  BY <1>1, <1>2, <1>3, <1>4
<1>9. at \in Working /\ at # "queued" /\ at \notin Steering /\ at \notin Own
  BY <1>6 DEF Working, Steering, Own
<1>10. Typed'
  <2>1. TypeOK'
    <3>1. running' \in Ids \cup {None} /\ turn' \in Messages \cup {None} /\ IdOf[turn'] = running'
      BY <1>1, <1>2 DEF id
    <3>2. /\ live' \in Conns \cup {NoConn} /\ child' \in Conns \cup {NoConn} /\ session' \in BOOLEAN
          /\ retiring' \in Tokens \cup {NoToken} /\ stopped' \in {"no", "stopping", "stopped"}
      BY DEF ThreadInv, Typed, TypeOK, process
    <3>3. running' # None => turn' # None
      BY <1>2, ThreadAssumption
    <3> QED
      BY <1>3, <3>1, <3>2, <3>3 DEF TypeOK
  <2>2. conn' \in [Conns -> ConnRecs] /\ retires' \in [Tokens -> RetireRecs] /\ asks' \in SUBSET AskRecs
    BY DEF ThreadInv, Typed
  <2>3. opened' \in SUBSET Ids /\ latest' \in Ids \cup {None}
    BY <1>1, <1>2 DEF ThreadInv, Typed
  <2> QED
    BY <1>7, <1>8, <2>1, <2>2, <2>3 DEF Typed
<1>11. Serial(msg)'
  <2>1. \A n \in Messages \ {m} : ms[n].at \notin Working
    BY IdsOf DEF Leaving
  <2> QED
    BY <1>2, <1>7, <2>1 DEF Serial, id
<1>12. Serving'
  <2>1. \A n \in Messages : msg'[n].at \in Own => msg[n].at \in Own /\ msg'[n].on = msg[n].on
    BY <1>7, <1>9 DEF OwnKept
  <2>2. \A n \in Messages : msg'[n].at \in {"connecting", "prompting"} =>
                            msg[n].at \in {"connecting", "prompting"} /\ msg'[n].on = msg[n].on
    BY <1>6, <1>7 DEF OwnKept, Own
  <2> QED
    BY <2>1, <2>2, ServeFrame, SameConns DEF process
<1>13. Lined(msg, queue)'
  BY <1>7, <1>9, LinedLeft
<1>14. Asking(msg)'
  BY <1>7 DEF Asking, Leaving
<1>15. Waited(msg, log)'
  <2> SUFFICES ASSUME NEW i \in Ids, Idle(log, i)' PROVE \E n \in Messages : IdOf[n] = i /\ Waits(msg, n)'
    BY DEF Waited
  <2>1. i # id
    <3>1. lg[id].prompts \in Nat
      BY <1>1, <1>3 DEF LogRecs
    <3>2. record.prompts # 0
      BY <1>4, <3>1
    <3> QED
      BY <1>8, <3>2 DEF Idle
  <2>2. Idle(lg, i)
    BY <1>8, <2>1 DEF Idle
  <2>3. PICK n \in Messages : IdOf[n] = i /\ (n = m \/ Waits(ms, n))
    BY <2>2 DEF Leaving
  <2>4. n # m
    BY <2>1, <2>3 DEF id
  <2>5. Waits(msg, n)'
    BY <1>7, <2>3, <2>4 DEF Waits
  <2> QED
    BY <2>3, <2>5
<1>16. Newest(log)'
  <2>1. \A i \in Ids : ~Begun(lg, i)
    BY ThreadAssumption DEF Leaving, Newest
  <2>2. \A i \in Ids \ {id} : ~Begun(log, i)'
    BY <1>8, <2>1 DEF Begun
  <2> QED
    BY <1>2, <2>2 DEF Newest
<1>17. Ended(msg, log)'
  <2> SUFFICES ASSUME NEW n \in Messages, msg'[n].at = "after" PROVE log'[IdOf[n]].end # "none"
    BY DEF Ended
  <2>1. CASE n = m
    BY <1>4, <1>6, <1>7, <1>8, <2>1 DEF id
  <2>2. CASE n # m
    <3>1. FALSE
      <4>1. ms[n].at \in Working
        BY <1>7, <2>2 DEF Working
      <4> QED
        BY <2>2, <4>1, IdsOf DEF Leaving
    <3> QED
      BY <3>1
  <2> QED
    BY <2>1, <2>2
<1> QED
  BY <1>10, <1>11, <1>12, <1>13, <1>14, <1>15, <1>16, <1>17 DEF ThreadInv, Open

\* What steer() leaves: the message waits for the cancelled turn, runs, or has failed on a stopped thread.
LEMMA SteerStep ==
  ASSUME ThreadInv, NEW ms, NEW lg, NEW m \in Messages,
         Leaving(ms, lg, queue', m), OwnKept(ms), Steer(ms, lg, m), UNCHANGED <<process, conn, retires, stopped>>,
         stopped = "no" =>
           \A i \in Ids : Idle(lg, i) => \E n \in Messages : IdOf[n] = i /\ IF n = m THEN ms[m].home > 0 ELSE Waits(ms, n)
  PROVE  ThreadInv'
<1>1. ms \in [Messages -> MsgRecs] /\ lg \in [Ids -> LogRecs] /\ queue' \in Seq(Messages)
  BY DEF Leaving
<1>2. ASSUME running # None PROVE ThreadInv'
  <2> DEFINE moved == [ms[m] EXCEPT !.at = "cancelling"]
             record == [lg[running] EXCEPT !.cancelled = TRUE]
             capture == [step |-> "asking", id |-> running, turn |-> turn, live |-> live, child |-> child]
  <2>1. /\ msg' = [ms EXCEPT ![m] = moved] /\ log' = [lg EXCEPT ![running] = record]
        /\ cut' = [cut EXCEPT ![m] = capture] /\ asks' = {}
        /\ UNCHANGED <<running, turn, opened, latest>>
    BY <1>2 DEF Steer, Cut, CancelLogged
  <2>2. running \in Ids /\ turn \in Messages \cup {None} /\ live \in Spots /\ child \in Spots
    BY <1>2 DEF ThreadInv, Typed, TypeOK, Spots
  <2>3. moved \in MsgRecs /\ moved.at = "cancelling" /\ moved.home = ms[m].home /\ moved.on = ms[m].on
    <3>1. ms[m] \in MsgRecs /\ "cancelling" \in Places
      BY <1>1 DEF Places, Steering
    <3> QED
      BY <3>1 DEF MsgRecs
  <2>4. /\ record \in LogRecs /\ record.queued = lg[running].queued
        /\ record.prompts = lg[running].prompts /\ record.end = lg[running].end
    <3>1. lg[running] \in LogRecs
      BY <1>1, <2>2
    <3> QED
      BY <3>1 DEF LogRecs
  <2>5. capture \in CutRecs
    BY <2>2 DEF CutRecs
  <2> HIDE DEF moved, record, capture
  <2>6. msg' \in [Messages -> MsgRecs] /\ msg'[m] = moved /\ \A n \in Messages \ {m} : msg'[n] = ms[n]
    BY <1>1, <2>1, <2>3
  <2>7. /\ log' \in [Ids -> LogRecs]
        /\ \A i \in Ids : log'[i].queued = lg[i].queued /\ log'[i].prompts = lg[i].prompts /\ log'[i].end = lg[i].end
    BY <1>1, <2>1, <2>2, <2>4
  <2>8. /\ cut' \in [Messages \cup Stops -> CutRecs]
        /\ \A n \in Messages \ {m} : cut'[n] = cut[n]
    BY <2>1, <2>5 DEF ThreadInv, Typed
  <2>9. Typed'
    <3>1. TypeOK'
      BY <1>1, <2>1 DEF ThreadInv, Typed, TypeOK, process
    <3>2. conn' \in [Conns -> ConnRecs] /\ retires' \in [Tokens -> RetireRecs] /\ asks' \in SUBSET AskRecs
      BY <2>1 DEF ThreadInv, Typed
    <3>3. opened' \in SUBSET Ids /\ latest' \in Ids \cup {None}
      BY <2>1 DEF ThreadInv, Typed
    <3> QED
      BY <2>6, <2>7, <2>8, <3>1, <3>2, <3>3 DEF Typed
  <2>10. Serial(msg)'
    BY <2>1, <2>3, <2>6 DEF Serial, Leaving, Working
  <2>11. Serving'
    <3>1. \A n \in Messages : msg'[n].at \in Own => msg[n].at \in Own /\ msg'[n].on = msg[n].on
      BY <2>3, <2>6 DEF OwnKept, Own
    <3>2. \A n \in Messages : msg'[n].at \in {"connecting", "prompting"} =>
                              msg[n].at \in {"connecting", "prompting"} /\ msg'[n].on = msg[n].on
      BY <2>3, <2>6 DEF OwnKept, Own
    <3> QED
      BY <2>1, <3>1, <3>2, ServeFrame, SameConns DEF process
  <2>12. Lined(msg, queue)'
    BY <2>3, <2>6, LinedLeft
  <2>13. Asking(msg)'
    BY <2>3, <2>6, <2>8 DEF Asking, Leaving
  <2>14. Waited(msg, log)'
    <3> SUFFICES ASSUME stopped = "no", NEW i \in Ids, Idle(log, i)'
                 PROVE  \E n \in Messages : IdOf[n] = i /\ Waits(msg, n)'
      BY DEF Waited
    <3>1. Idle(lg, i)
      BY <2>7 DEF Idle
    <3>2. PICK n \in Messages : IdOf[n] = i /\ IF n = m THEN ms[m].home > 0 ELSE Waits(ms, n)
      BY <3>1
    <3>3. CASE n # m
      BY <2>6, <3>2, <3>3 DEF Waits
    <3>4. CASE n = m
      BY <2>3, <2>6, <3>2, <3>4 DEF Waits, Steering
    <3> QED
      BY <3>3, <3>4
  <2>15. Newest(log)'
    BY <2>1, <2>7 DEF Newest, Leaving, Begun
  <2>16. Ended(msg, log)'
    BY <2>3, <2>6, <2>7, IdsOf DEF Ended, Leaving
  <2> QED
    BY <2>9, <2>10, <2>11, <2>12, <2>13, <2>14, <2>15, <2>16 DEF ThreadInv, Open
<1>3. running = None => cut' \in [Messages \cup Stops -> CutRecs] /\ cut'[m] = NoCut
                        /\ (\A n \in Messages \ {m} : cut'[n] = cut[n]) /\ asks' = asks
  <2>1. NoCut \in CutRecs
    BY DEF NoCut, CutRecs, Spots
  <2> QED
    BY <2>1 DEF Steer, ThreadInv, Typed
<1>4. NoCut.step = "none"
  BY DEF NoCut
<1>5. ASSUME running = None, stopped = "no" PROVE ThreadInv'
  <2>1. Run(ms, lg, m)
    BY <1>5 DEF Steer
  <2>2. cut'[m].step # "asking"
    BY <1>3, <1>4, <1>5
  <2> QED
    BY <1>3, <1>5, <2>1, <2>2, RunStep
<1>6. ASSUME running = None, stopped # "no" PROVE ThreadInv'
  <2>1. /\ msg' = [ms EXCEPT ![m] = Done] /\ log' = lg /\ UNCHANGED <<running, turn, opened, latest>>
    BY <1>6 DEF Steer
  <2>2. Done \in MsgRecs /\ Done.at = "done"
    BY DEF Done, Fresh, MsgRecs, Places, Spots, Passes
  <2>3. msg' \in [Messages -> MsgRecs] /\ msg'[m] = Done /\ \A n \in Messages \ {m} : msg'[n] = ms[n]
    BY <1>1, <2>1, <2>2
  <2>4. Typed'
    <3>1. TypeOK'
      BY <1>1, <2>1 DEF ThreadInv, Typed, TypeOK, process
    <3>2. conn' \in [Conns -> ConnRecs] /\ retires' \in [Tokens -> RetireRecs] /\ asks' \in SUBSET AskRecs
      BY <1>3, <1>6 DEF ThreadInv, Typed
    <3>3. opened' \in SUBSET Ids /\ latest' \in Ids \cup {None} /\ log' \in [Ids -> LogRecs]
      BY <1>1, <2>1 DEF ThreadInv, Typed
    <3> QED
      BY <1>3, <1>6, <2>3, <3>1, <3>2, <3>3 DEF Typed
  <2>5. Serial(msg)'
    BY <2>1, <2>2, <2>3 DEF Serial, Leaving, Working
  <2>6. Serving'
    <3>1. \A n \in Messages : msg'[n].at \in Own => msg[n].at \in Own /\ msg'[n].on = msg[n].on
      BY <2>2, <2>3 DEF OwnKept, Own
    <3>2. \A n \in Messages : msg'[n].at \in {"connecting", "prompting"} =>
                              msg[n].at \in {"connecting", "prompting"} /\ msg'[n].on = msg[n].on
      BY <2>2, <2>3 DEF OwnKept, Own
    <3> QED
      BY <1>3, <1>6, <2>1, <3>1, <3>2, ServeFrame, SameConns DEF process
  <2>7. Lined(msg, queue)'
    BY <2>2, <2>3, LinedLeft
  <2>8. Asking(msg)'
    <3>1. cut'[m].step # "asking"
      BY <1>3, <1>4, <1>6
    <3> QED
      BY <2>3, <3>1 DEF Asking, Leaving
  <2>9. Waited(msg, log)'
    BY <1>6 DEF Waited
  <2>10. Newest(log)'
    BY <2>1 DEF Newest, Leaving, Begun
  <2>11. Ended(msg, log)'
    BY <1>6 DEF Ended
  <2> QED
    BY <2>4, <2>5, <2>6, <2>7, <2>8, <2>9, <2>10, <2>11 DEF ThreadInv, Open
<1> QED
  BY <1>2, <1>5, <1>6

\* drain() from messages, a log and a queue that are as the invariant has them: the head runs, or nothing does.
LEMMA DrainStep ==
  ASSUME ThreadInv, NEW ms \in [Messages -> MsgRecs], NEW lg \in [Ids -> LogRecs], NEW q \in Seq(Messages),
         Serial(ms), Lined(ms, q), Open(ms, lg), OwnKept(ms), Drain(ms, lg, q),
         UNCHANGED <<process, conn, retires, stopped, asks>>, cut' \in [Messages \cup Stops -> CutRecs],
         \A n \in Messages : cut'[n].step = "asking" => ms[n].at = "cancelling"
  PROVE  ThreadInv'
<1> DEFINE drains == running = None /\ Steers(ms) = {} /\ stopped = "no" /\ q # <<>>
           m == Head(q)
<1>1. ASSUME drains PROVE ThreadInv'
  <2>1. Run(ms, lg, m) /\ queue' = Tail(q)
    BY <1>1 DEF Drain
  <2>2. m \in Messages /\ m = q[1] /\ 1 \in DOMAIN q /\ Tail(q) \in Seq(Messages)
    BY <1>1
  <2>3. \A k \in DOMAIN Tail(q) : k + 1 \in DOMAIN q /\ Tail(q)[k] = q[k + 1]
    BY <1>1
  <2>4. \A k \in DOMAIN q : k # 1 => k - 1 \in DOMAIN Tail(q) /\ Tail(q)[k - 1] = q[k]
    BY <1>1
  <2>5. ms[m].at = "queued"
    BY <2>2 DEF Lined
  <2> HIDE DEF m
  <2>6. \A k \in DOMAIN Tail(q) : ms[Tail(q)[k]].at = "queued" /\ Tail(q)[k] # m
    <3> SUFFICES ASSUME NEW k \in DOMAIN Tail(q) PROVE ms[Tail(q)[k]].at = "queued" /\ Tail(q)[k] # m
      OBVIOUS
    <3>1. k \in Nat /\ k # 0
      BY <2>2
    <3>2. k + 1 # 1
      BY <3>1
    <3> QED
      BY <2>2, <2>3, <3>2 DEF Lined
  <2>7. \A j, k \in DOMAIN Tail(q) : Tail(q)[j] = Tail(q)[k] => j = k
    <3> SUFFICES ASSUME NEW j \in DOMAIN Tail(q), NEW k \in DOMAIN Tail(q), Tail(q)[j] = Tail(q)[k] PROVE j = k
      OBVIOUS
    <3>1. j \in Nat /\ k \in Nat
      BY <2>2
    <3>2. j + 1 = k + 1
      BY <2>3 DEF Lined
    <3> QED
      BY <3>1, <3>2
  <2>8. \A n \in Messages \ {m} : ms[n].at = "queued" => \E k \in DOMAIN Tail(q) : Tail(q)[k] = n
    <3> SUFFICES ASSUME NEW n \in Messages \ {m}, ms[n].at = "queued" PROVE \E k \in DOMAIN Tail(q) : Tail(q)[k] = n
      OBVIOUS
    <3>1. PICK k \in DOMAIN q : q[k] = n
      BY DEF Lined
    <3>2. k # 1
      BY <2>2, <3>1
    <3> QED
      BY <2>4, <3>1, <3>2
  <2>9. cut'[m].step # "asking"
    BY <2>2, <2>5
  <2>10. Leaving(ms, lg, Tail(q), m)
    BY <2>2, <2>6, <2>7, <2>8 DEF Leaving, Serial, Open, Waited, Ended
  <2> QED
    BY <1>1, <2>1, <2>2, <2>9, <2>10, RunStep
<1>2. ASSUME ~drains PROVE ThreadInv'
  <2>1. msg' = ms /\ log' = lg /\ queue' = q /\ UNCHANGED <<running, turn, opened, latest>>
    BY <1>2 DEF Drain
  <2>2. Typed'
    BY <2>1 DEF ThreadInv, Typed, TypeOK, process
  <2>3. Serial(msg)' /\ Lined(msg, queue)' /\ Open(msg, log)'
    BY <2>1 DEF Serial, Lined, Open, Waited, Newest, Ended, Waits, Idle, Begun
  <2>4. Asking(msg)'
    BY <2>1 DEF Asking
  <2>5. Serving'
    <3>1. \A n \in Messages : msg'[n].at \in {"connecting", "prompting"} =>
                              msg[n].at \in {"connecting", "prompting"} /\ msg'[n].on = msg[n].on
      BY <2>1 DEF OwnKept, Own
    <3> QED
      BY <2>1, <3>1, ServeFrame, SameConns DEF process, OwnKept
  <2> QED
    BY <2>2, <2>3, <2>4, <2>5 DEF ThreadInv
<1> QED
  BY <1>1, <1>2

-----------------------------------------------------------------------------
(* The queue without the prompt at a place, and with one put back at a place. *)

LEMMA Removed ==
  ASSUME NEW q \in Seq(Messages), NEW i \in DOMAIN q
  PROVE  /\ RemoveAt(q, i) \in Seq(Messages) /\ Len(RemoveAt(q, i)) = Len(q) - 1
         /\ \A k \in 1 .. Len(q) - 1 : RemoveAt(q, i)[k] = IF k < i THEN q[k] ELSE q[k + 1]
<1> DEFINE a == SubSeq(q, 1, i - 1)
           b == SubSeq(q, i + 1, Len(q))
<1>1. i \in 1 .. Len(q) /\ Len(q) \in Nat
  OBVIOUS
<1>2. a \in Seq(Messages) /\ b \in Seq(Messages)
  BY <1>1
<1>3. Len(a) = i - 1 /\ Len(b) = Len(q) - i
  BY <1>1
<1>4. \A k \in 1 .. i - 1 : a[k] = q[k]
  BY <1>1
<1>5. \A k \in 1 .. Len(q) - i : b[k] = q[k + i]
  BY <1>1
<1>6. RemoveAt(q, i) = a \o b
  BY DEF RemoveAt
<1> HIDE DEF a, b
<1>7. a \o b \in Seq(Messages) /\ Len(a \o b) = Len(q) - 1
  BY <1>1, <1>2, <1>3
<1>8. ASSUME NEW k \in 1 .. Len(q) - 1 PROVE (a \o b)[k] = IF k < i THEN q[k] ELSE q[k + 1]
  <2>1. CASE k < i
    <3>1. k \in 1 .. i - 1
      BY <1>1, <2>1
    <3>2. (a \o b)[k] = a[k]
      BY <1>2, <1>3, <3>1, ConcatProperties
    <3> QED
      BY <1>4, <2>1, <3>1, <3>2
  <2>2. CASE ~(k < i)
    <3>1. (a \o b)[k] = b[k - (i - 1)]
      <4>1. Len(a) + Len(b) = Len(q) - 1 /\ ~(k <= Len(a))
        BY <1>1, <1>3, <2>2
      <4>2. (a \o b)[k] = b[k - Len(a)]
        BY <1>2, <4>1, ConcatProperties
      <4> QED
        BY <1>3, <4>2
    <3>2. k - (i - 1) \in 1 .. Len(q) - i /\ (k - (i - 1)) + i = k + 1
      BY <1>1, <2>2
    <3>3. b[k - (i - 1)] = q[(k - (i - 1)) + i]
      BY <1>5, <3>2
    <3>4. (a \o b)[k] = q[k + 1]
      BY <3>1, <3>2, <3>3, Zenon
    <3> QED
      BY <2>2, <3>4
  <2> QED
    BY <2>1, <2>2
<1> QED
  BY <1>6, <1>7, <1>8

\* The others stay, each once.
LEMMA RemovedOnce ==
  ASSUME NEW q \in Seq(Messages), NEW i \in DOMAIN q, \A j, k \in DOMAIN q : q[j] = q[k] => j = k
  PROVE  /\ \A k \in DOMAIN RemoveAt(q, i) : \E j \in DOMAIN q : j # i /\ RemoveAt(q, i)[k] = q[j]
         /\ \A j, k \in DOMAIN RemoveAt(q, i) : RemoveAt(q, i)[j] = RemoveAt(q, i)[k] => j = k
         /\ \A j \in DOMAIN q : j # i => \E k \in DOMAIN RemoveAt(q, i) : RemoveAt(q, i)[k] = q[j]
<1> DEFINE r == RemoveAt(q, i)
           from == [k \in 1 .. Len(q) - 1 |-> IF k < i THEN k ELSE k + 1]
<1>1. r \in Seq(Messages) /\ Len(r) = Len(q) - 1 /\ Len(q) \in Nat /\ i \in 1 .. Len(q) /\ DOMAIN q = 1 .. Len(q)
  BY Removed
<1>2. DOMAIN r = 1 .. Len(q) - 1
  BY <1>1
<1>3. \A k \in 1 .. Len(q) - 1 : from[k] \in 1 .. Len(q) /\ from[k] # i
  BY <1>1
<1>4. \A k \in 1 .. Len(q) - 1 : r[k] = q[from[k]]
  BY <1>1, Removed
<1>5. \A j, k \in 1 .. Len(q) - 1 : from[j] = from[k] => j = k
  BY <1>1
<1>6. \A j \in 1 .. Len(q) : j # i => \E k \in 1 .. Len(q) - 1 : from[k] = j
  <2> SUFFICES ASSUME NEW j \in 1 .. Len(q), j # i PROVE \E k \in 1 .. Len(q) - 1 : from[k] = j
    OBVIOUS
  <2>1. CASE j < i
    <3>1. j \in 1 .. Len(q) - 1 /\ from[j] = j
      BY <1>1, <2>1
    <3> QED
      BY <3>1
  <2>2. CASE ~(j < i)
    <3>1. j - 1 \in 1 .. Len(q) - 1 /\ from[j - 1] = j
      BY <1>1, <2>2
    <3> QED
      BY <3>1
  <2> QED
    BY <2>1, <2>2
<1> HIDE DEF r, from
<1>7. \A k \in DOMAIN r : \E j \in DOMAIN q : j # i /\ r[k] = q[j]
  BY <1>1, <1>2, <1>3, <1>4
<1>8. ASSUME NEW j \in DOMAIN r, NEW k \in DOMAIN r, r[j] = r[k] PROVE j = k
  <2>1. q[from[j]] = q[from[k]] /\ from[j] \in DOMAIN q /\ from[k] \in DOMAIN q
    BY <1>1, <1>2, <1>3, <1>4, <1>8
  <2>2. from[j] = from[k]
    BY <2>1
  <2> QED
    BY <1>2, <1>5, <2>2
<1>9. ASSUME NEW j \in DOMAIN q, j # i PROVE \E k \in DOMAIN r : r[k] = q[j]
  <2>1. PICK k \in 1 .. Len(q) - 1 : from[k] = j
    BY <1>1, <1>6, <1>9
  <2> QED
    BY <1>2, <1>4, <2>1
<1> QED
  BY <1>7, <1>8, <1>9 DEF r

LEMMA Inserted ==
  ASSUME NEW q \in Seq(Messages), NEW i \in 1 .. Len(q) + 1, NEW m \in Messages
  PROVE  /\ InsertAt(q, i, m) \in Seq(Messages) /\ Len(InsertAt(q, i, m)) = Len(q) + 1
         /\ \A k \in 1 .. Len(q) + 1 :
              InsertAt(q, i, m)[k] = IF k < i THEN q[k] ELSE IF k = i THEN m ELSE q[k - 1]
<1> DEFINE a == SubSeq(q, 1, i - 1)
           b == SubSeq(q, i, Len(q))
<1>1. Len(q) \in Nat
  OBVIOUS
<1>2. a \in Seq(Messages) /\ b \in Seq(Messages)
  BY <1>1
<1>3. Len(a) = i - 1 /\ Len(b) = Len(q) + 1 - i
  BY <1>1
<1>4. \A k \in 1 .. i - 1 : a[k] = q[k]
  BY <1>1
<1>5. \A k \in 1 .. Len(q) + 1 - i : b[k] = q[k + (i - 1)]
  BY <1>1
<1>6. InsertAt(q, i, m) = a \o <<m>> \o b
  BY DEF InsertAt
<1> HIDE DEF a, b
<1> DEFINE c == a \o <<m>>
<1>7. c \in Seq(Messages) /\ Len(c) = i /\ c[i] = m /\ \A k \in 1 .. i - 1 : c[k] = a[k]
  BY <1>1, <1>2, <1>3
<1> HIDE DEF c
<1>8. c \o b \in Seq(Messages) /\ Len(c \o b) = Len(q) + 1
  BY <1>1, <1>2, <1>3, <1>7
<1>9. ASSUME NEW k \in 1 .. Len(q) + 1
      PROVE  (c \o b)[k] = IF k < i THEN q[k] ELSE IF k = i THEN m ELSE q[k - 1]
  <2>1. CASE k < i
    <3>1. k \in 1 .. i - 1
      BY <1>1, <2>1
    <3>2. (c \o b)[k] = c[k]
      BY <1>1, <1>2, <1>7, <3>1
    <3> QED
      BY <1>4, <1>7, <2>1, <3>1, <3>2
  <2>2. CASE k = i
    BY <1>1, <1>2, <1>7, <2>2
  <2>3. CASE k > i
    <3>1. (c \o b)[k] = b[k - i]
      BY <1>1, <1>2, <1>3, <1>7, <2>3
    <3>2. k - i \in 1 .. Len(q) + 1 - i /\ (k - i) + (i - 1) = k - 1 /\ ~(k < i) /\ k # i
      BY <1>1, <2>3
    <3>3. b[k - i] = q[(k - i) + (i - 1)]
      BY <1>5, <3>2
    <3>4. (c \o b)[k] = q[k - 1]
      BY <3>1, <3>2, <3>3, Zenon
    <3>5. ~(k < i) /\ k # i
      BY <3>2
    <3> QED
      BY <3>4, <3>5
  <2>4. k < i \/ k = i \/ k > i
    BY <1>1
  <2> QED
    BY <2>1, <2>2, <2>3, <2>4
<1> QED
  BY <1>6, <1>8, <1>9 DEF c

\* The others stay, each once, and so is the one put back.
LEMMA InsertedOnce ==
  ASSUME NEW q \in Seq(Messages), NEW i \in 1 .. Len(q) + 1, NEW m \in Messages,
         \A j, k \in DOMAIN q : q[j] = q[k] => j = k, \A k \in DOMAIN q : q[k] # m
  PROVE  /\ \A k \in DOMAIN InsertAt(q, i, m) : InsertAt(q, i, m)[k] = m \/ \E j \in DOMAIN q : InsertAt(q, i, m)[k] = q[j]
         /\ \A j, k \in DOMAIN InsertAt(q, i, m) : InsertAt(q, i, m)[j] = InsertAt(q, i, m)[k] => j = k
         /\ \E k \in DOMAIN InsertAt(q, i, m) : InsertAt(q, i, m)[k] = m
         /\ \A j \in DOMAIN q : \E k \in DOMAIN InsertAt(q, i, m) : InsertAt(q, i, m)[k] = q[j]
<1> DEFINE r == InsertAt(q, i, m)
<1>1. r \in Seq(Messages) /\ Len(r) = Len(q) + 1 /\ Len(q) \in Nat /\ DOMAIN q = 1 .. Len(q)
  BY Inserted
<1>2. DOMAIN r = 1 .. Len(q) + 1
  BY <1>1
<1>3. \A k \in 1 .. Len(q) + 1 : r[k] = IF k < i THEN q[k] ELSE IF k = i THEN m ELSE q[k - 1]
  BY Inserted
<1> HIDE DEF r
<1>4. /\ \A k \in 1 .. Len(q) + 1 : k < i => k \in DOMAIN q /\ r[k] = q[k]
      /\ \A k \in 1 .. Len(q) + 1 : k > i => k - 1 \in DOMAIN q /\ r[k] = q[k - 1]
      /\ i \in DOMAIN r /\ r[i] = m
  BY <1>1, <1>2, <1>3
<1>5. \A k \in DOMAIN r : r[k] = m \/ \E j \in DOMAIN q : r[k] = q[j]
  <2> SUFFICES ASSUME NEW k \in DOMAIN r PROVE r[k] = m \/ \E j \in DOMAIN q : r[k] = q[j]
    OBVIOUS
  <2>1. k < i \/ k = i \/ k > i
    BY <1>1, <1>2
  <2> QED
    BY <1>2, <1>4, <2>1
<1>6. \A j, k \in DOMAIN r : r[j] = r[k] => j = k
  <2> SUFFICES ASSUME NEW j \in DOMAIN r, NEW k \in DOMAIN r, r[j] = r[k] PROVE j = k
    OBVIOUS
  <2>1. (j < i \/ j = i \/ j > i) /\ (k < i \/ k = i \/ k > i)
    BY <1>1, <1>2
  <2>2. j = i <=> k = i
    BY <1>2, <1>4, <2>1
  <2>3. j < i /\ k < i => j = k
    BY <1>2, <1>4
  <2>4. j > i /\ k > i => j - 1 = k - 1
    BY <1>2, <1>4
  <2>5. j < i /\ k > i => j = k - 1
    BY <1>2, <1>4
  <2>6. j > i /\ k < i => j - 1 = k
    BY <1>2, <1>4
  <2> QED
    BY <1>1, <1>2, <2>1, <2>2, <2>3, <2>4, <2>5, <2>6
<1>7. \A j \in DOMAIN q : \E k \in DOMAIN r : r[k] = q[j]
  <2> SUFFICES ASSUME NEW j \in DOMAIN q PROVE \E k \in DOMAIN r : r[k] = q[j]
    OBVIOUS
  <2>1. CASE j < i
    BY <1>1, <1>2, <1>4, <2>1
  <2>2. CASE ~(j < i)
    <3>1. j + 1 \in 1 .. Len(q) + 1 /\ j + 1 > i /\ (j + 1) - 1 = j
      BY <1>1, <2>2
    <3> QED
      BY <1>2, <1>4, <3>1
  <2> QED
    BY <2>1, <2>2
<1> QED
  BY <1>4, <1>5, <1>6, <1>7 DEF r

-----------------------------------------------------------------------------
(* Turns. *)

LEMMA AtStep ==
  ASSUME ThreadInv, NEW m \in Messages, NEW phase \in Places, At(m, phase)
  PROVE  /\ msg' \in [Messages -> MsgRecs] /\ \A n \in Messages \ {m} : msg'[n] = msg[n]
         /\ msg'[m].at = phase /\ msg'[m].on = NoConn /\ msg'[m].home = msg[m].home
<1> DEFINE moved == [msg[m] EXCEPT !.at = phase, !.on = NoConn, !.token = NoToken]
<1>1. msg[m] \in MsgRecs /\ NoConn \in Spots /\ NoToken \in Passes
  BY DEF ThreadInv, Typed, Spots, Passes
<1>2. moved \in MsgRecs /\ moved.at = phase /\ moved.on = NoConn /\ moved.home = msg[m].home
  <2> HIDE DEF Places
  <2> QED
    BY <1>1 DEF MsgRecs
<1>3. msg' = [msg EXCEPT ![m] = moved]
  BY DEF At
<1> HIDE DEF moved
<1> QED
  BY <1>2, <1>3 DEF ThreadInv, Typed

\* A step of the turn's message from one working place to another: the transcript and the queue are kept.
Onward(m) ==
  /\ msg' \in [Messages -> MsgRecs] /\ \A n \in Messages \ {m} : msg'[n] = msg[n]
  /\ msg[m].at \in Working /\ msg'[m].at \in Working

LEMMA OnwardFrame ==
  ASSUME ThreadInv, NEW m \in Messages, Onward(m),
         msg'[m].at = "after" => stopped # "no" \/ log'[IdOf[m]].end # "none",
         log' \in [Ids -> LogRecs], LogKept, UNCHANGED <<turns, stopped, cut, opened, latest>>
  PROVE  Serial(msg)' /\ Lined(msg, queue)' /\ Open(msg, log)' /\ Asking(msg)'
<1>1. \A n \in Messages : Steady(n)
  <2>1. \A n \in Messages \ {m} : Steady(n)
    BY DEF Onward, Steady, Waits
  <2>2. Steady(m)
    BY DEF Onward, Steady, Waits, Working, Steering
  <2> QED
    BY <2>1, <2>2
<1>2. Serial(msg)' /\ Lined(msg, queue)' /\ Open(msg, log)'
  BY <1>1, TurnFrame DEF turns
<1>3. Asking(msg)'
  BY DEF ThreadInv, Asking, Onward, Working
<1> QED
  BY <1>2, <1>3

LEMMA EndStep ==
  ASSUME ThreadInv, NEW m \in Messages, NEW how, msg[m].at \in Working, EndTurn(m, how),
         UNCHANGED <<turns, process, stopped, asks, cut, conn, retires, opened, latest>>
  PROVE  ThreadInv'
<1> DEFINE record == [log[IdOf[m]] EXCEPT !.end = "ended"]
<1>1. /\ msg' \in [Messages -> MsgRecs] /\ \A n \in Messages \ {m} : msg'[n] = msg[n]
      /\ msg'[m].at = "after" /\ msg'[m].on = NoConn
  BY AtStep DEF EndTurn, Places, Working
<1>2. IdOf[m] \in Ids /\ log \in [Ids -> LogRecs]
  BY IdsOf DEF ThreadInv, Typed
<1>3. /\ record \in LogRecs /\ record.end = "ended" /\ record.queued = log[IdOf[m]].queued
      /\ record.prompts = log[IdOf[m]].prompts
  <2>1. log[IdOf[m]] \in LogRecs
    BY <1>2
  <2> QED
    BY <2>1 DEF LogRecs
<1>4. log' = IF how = "failed" /\ stopped # "no" THEN log ELSE [log EXCEPT ![IdOf[m]] = record]
  BY DEF EndTurn
<1> HIDE DEF record
<1>5. log' \in [Ids -> LogRecs] /\ LogKept /\ (stopped # "no" \/ log'[IdOf[m]].end # "none")
  BY <1>2, <1>3, <1>4 DEF LogKept
<1>6. Typed'
  BY <1>1, <1>5 DEF ThreadInv, Typed, TypeOK, turns, process
<1>7. Serial(msg)' /\ Lined(msg, queue)' /\ Open(msg, log)' /\ Asking(msg)'
  BY <1>1, <1>5, OnwardFrame DEF Onward, Working
<1>8. Serving'
  BY <1>1, ServeFrame, SameConns DEF turns, process, Own
<1> QED
  BY <1>6, <1>7, <1>8 DEF ThreadInv

\* ensure(): what is connected stays, and a new connection has no process yet.
LEMMA EnsuredStep ==
  ASSUME ThreadInv, NEW c \in Conns, Ensured(c)
  PROVE  /\ live' = c /\ session' \in BOOLEAN /\ conn' \in [Conns -> ConnRecs]
         /\ \/ conn' = conn /\ live = c
            \/ /\ live = NoConn /\ ~conn'[c].alive /\ conn[c].phase = "none" /\ conn'[c].phase = "preparing"
               /\ \A d \in Conns \ {c} : conn'[d] = conn[d]
<1> DEFINE new == [conn[c] EXCEPT !.phase = "preparing"]
<1>1. conn \in [Conns -> ConnRecs] /\ session \in BOOLEAN
  BY DEF ThreadInv, Typed, TypeOK
<1>2. CASE live # NoConn
  BY <1>1, <1>2 DEF Ensured
<1>3. CASE live = NoConn
  <2>1. live' = c /\ session' = TRUE /\ conn' = [conn EXCEPT ![c] = new] /\ conn[c].phase = "none"
    BY <1>3 DEF Ensured, NewConn
  <2>2. conn[c] \in ConnRecs
    BY <1>1
  <2>3. new \in ConnRecs /\ new.phase = "preparing" /\ new.alive = conn[c].alive
    BY <2>2 DEF ConnRecs
  <2>4. ~conn[c].alive
    BY <2>1 DEF ThreadInv, Serving
  <2> HIDE DEF new
  <2> QED
    BY <1>1, <1>3, <2>1, <2>3, <2>4
<1> QED
  BY <1>2, <1>3

LEMMA EnsuredServe ==
  ASSUME ThreadInv, NEW c \in Conns, Ensured(c), UNCHANGED <<running, child, asks>>,
         \A m \in Messages : msg'[m].at \in Own => msg[m].at \in Own /\ msg'[m].on \in {msg[m].on, c},
         \A m \in Messages : msg'[m].at \in {"connecting", "prompting"} => msg'[m].on \in Conns
  PROVE  Serving'
<1>1. /\ live' = c /\ conn' \in [Conns -> ConnRecs]
      /\ \/ conn' = conn /\ live = c
         \/ /\ live = NoConn /\ ~conn'[c].alive /\ conn[c].phase = "none" /\ conn'[c].phase = "preparing"
            /\ \A d \in Conns \ {c} : conn'[d] = conn[d]
  BY EnsuredStep
<1>2. NoConn \notin Conns /\ child \in Conns \cup {NoConn}
  BY DEF ThreadInv, Typed, TypeOK, Conns, NoConn
<1>3. CASE conn' = conn /\ live = c
  <2>1. \A m \in Messages : msg'[m].at \in Own => \A d \in Reach(m)' : d \in Reach(m)
    BY <1>1, <1>3 DEF Reach
  <2> QED
    BY <1>1, <1>3, <2>1 DEF ThreadInv, Serving
<1>4. CASE /\ live = NoConn /\ ~conn'[c].alive /\ conn[c].phase = "none" /\ conn'[c].phase = "preparing"
           /\ \A d \in Conns \ {c} : conn'[d] = conn[d]
  <2>1. \A d \in Conns : conn'[d].phase \in {"none", "preparing"} => ~conn'[d].alive
    BY <1>4 DEF ThreadInv, Serving
  <2>2. \A d \in Conns : conn'[d].run = conn[d].run
    <3>1. live' = c /\ conn' = [conn EXCEPT ![c].phase = "preparing"]
      BY <1>2, <1>4 DEF Ensured
    <3>2. conn \in [Conns -> ConnRecs]
      BY DEF ThreadInv, Typed
    <3> QED
      BY <3>1, <3>2 DEF ConnRecs
  <2>3. child' # NoConn /\ conn'[child'].run # None => running' = conn'[child'].run
    BY <1>2, <2>2 DEF ThreadInv, Serving
  <2>4. \A m \in Messages : msg'[m].at \in Own => \A d \in Reach(m)' : conn'[d].alive => conn'[d].run = IdOf[m]
    <3> SUFFICES ASSUME NEW m \in Messages, msg'[m].at \in Own, NEW d \in Reach(m)', conn'[d].alive
                 PROVE  conn'[d].run = IdOf[m]
      OBVIOUS
    <3>1. d # c /\ d \in Conns
      BY <1>4 DEF Reach
    <3>2. d \in Reach(m)
      BY <1>1, <3>1 DEF Reach
    <3> QED
      BY <1>4, <3>1, <3>2 DEF ThreadInv, Serving
  <2>5. \A a \in asks' :
          conn'[a.by].phase = "ready" /\ (a.turn # None /\ conn'[a.by].run # None => a.turn = conn'[a.by].run)
    <3> SUFFICES ASSUME NEW a \in asks
                 PROVE  conn'[a.by].phase = "ready" /\ (a.turn # None /\ conn'[a.by].run # None => a.turn = conn'[a.by].run)
      OBVIOUS
    <3>1. a.by \in Conns /\ conn[a.by].phase = "ready"
      BY DEF ThreadInv, Typed, AskRecs, Serving
    <3>2. a.by # c
      BY <1>4, <3>1
    <3> QED
      BY <1>4, <3>1, <3>2 DEF ThreadInv, Serving
  <2> QED
    BY <1>1, <1>4, <2>1, <2>3, <2>4, <2>5 DEF Serving
<1> QED
  BY <1>1, <1>3, <1>4

LEMMA TokensOf ==
  /\ \A m \in Messages : <<m, "warm">> \in Tokens /\ <<m, "last">> \in Tokens
  /\ <<None, "idle">> \in Tokens /\ Tokens \subseteq Passes /\ NoToken \in Passes
BY DEF Tokens, Passes

LEMMA RetireStep ==
  ASSUME ThreadInv, NEW token \in Tokens, Retire(token)
  PROVE  retiring' = token /\ retires' \in [Tokens -> RetireRecs] /\ child' = NoConn /\ live' = NoConn /\ session' = FALSE
<1>1. child \in Spots /\ retires \in [Tokens -> RetireRecs]
  BY DEF ThreadInv, Typed, TypeOK, Spots
<1> QED
  BY <1>1 DEF Retire, RetireRecs

\* The turn has got rid of the process it found: it retires it, or there is none that lives.
LEMMA CoolStep ==
  ASSUME ThreadInv, NEW m \in Messages, msg[m].at \in {"settling", "warming"}, Cool(m),
         UNCHANGED <<turns, stopped, asks, cut, conn, opened, log, latest>>
  PROVE  ThreadInv'
<1>1. /\ msg' \in [Messages -> MsgRecs] /\ \A n \in Messages \ {m} : msg'[n] = msg[n]
      /\ msg'[m].at \in {"cooling", "preparing"} /\ msg'[m].on = NoConn
  <2>1. CASE child # NoConn
    <3> DEFINE moved == [msg[m] EXCEPT !.at = "cooling", !.on = NoConn, !.token = <<m, "warm">>]
    <3>1. msg[m] \in MsgRecs /\ "cooling" \in Places /\ NoConn \in Spots /\ <<m, "warm">> \in Passes
      BY TokensOf DEF ThreadInv, Typed, Places, Working, Spots
    <3>2. moved \in MsgRecs /\ moved.at = "cooling" /\ moved.on = NoConn
      <4> HIDE DEF Places
      <4> QED
        BY <3>1 DEF MsgRecs
    <3>3. msg' = [msg EXCEPT ![m] = moved]
      BY <2>1 DEF Cool
    <3> HIDE DEF moved
    <3> QED
      BY <3>2, <3>3 DEF ThreadInv, Typed
  <2>2. CASE child = NoConn
    BY <2>2, AtStep DEF Cool, Places, Working
  <2> QED
    BY <2>1, <2>2
<1>2. /\ \/ UNCHANGED <<live, child>> /\ child = NoConn
         \/ live' = NoConn /\ child' = NoConn
      /\ session' \in BOOLEAN /\ retiring' \in Tokens \cup {NoToken} /\ retires' \in [Tokens -> RetireRecs]
  <2>1. CASE child # NoConn
    <3>1. Retire(<<m, "warm">>)
      BY <2>1 DEF Cool
    <3> QED
      BY <3>1, TokensOf, RetireStep
  <2>2. CASE child = NoConn
    BY <2>2 DEF Cool, process, ThreadInv, Typed, TypeOK
  <2> QED
    BY <2>1, <2>2
<1>3. Typed'
  <2>1. TypeOK'
    BY <1>2 DEF ThreadInv, Typed, TypeOK, turns
  <2> QED
    BY <1>1, <1>2, <2>1 DEF ThreadInv, Typed, turns
<1>4. Serial(msg)' /\ Lined(msg, queue)' /\ Open(msg, log)' /\ Asking(msg)'
  <2>1. log' \in [Ids -> LogRecs] /\ LogKept
    BY DEF ThreadInv, Typed, LogKept
  <2> QED
    BY <1>1, <2>1, OnwardFrame DEF Onward, Working
<1>5. Serving'
  <2>1. NoConn \notin Conns
    BY DEF Conns, NoConn
  <2>2. \A c \in Conns : c \in {live', child'} => ~conn'[c].alive
    BY <1>2, <2>1 DEF ThreadInv, Serving
  <2>3. \A n \in Messages \ {m} : msg[n].at \notin Working
    BY DEF ThreadInv, Serial, Working
  <2>4. \A n \in Messages : msg'[n].at \in Own => n = m
    BY <1>1, <2>3 DEF Own, Working
  <2>5. \A n \in Messages : msg'[n].at \in Own => \A c \in Reach(n)' : conn'[c].alive => conn'[c].run = IdOf[n]
    BY <1>1, <2>1, <2>2, <2>4 DEF Reach
  <2>6. \A n \in Messages : msg'[n].at \notin {"connecting", "prompting"}
    BY <1>1, <2>3 DEF Working
  <2>7. live' # NoConn /\ conn'[live'].alive => child' # NoConn
    BY <1>2, <2>1 DEF ThreadInv, Serving
  <2>8. child' = NoConn
    BY <1>2
  <2> QED
    BY <2>5, <2>6, <2>7, <2>8 DEF ThreadInv, Serving
<1> QED
  BY <1>3, <1>4, <1>5 DEF ThreadInv

LEMMA TurnSettledStep == ASSUME ThreadInv, NEW m \in Messages, TurnSettled(m) PROVE ThreadInv'
<1>1. CASE live = NoConn
  BY <1>1, CoolStep DEF TurnSettled
<1>2. CASE live # NoConn
  <2> DEFINE moved == [msg[m] EXCEPT !.at = "warming", !.on = live, !.token = NoToken]
  <2>1. msg[m] \in MsgRecs /\ "warming" \in Places /\ live \in Spots /\ NoToken \in Passes
    BY TokensOf DEF ThreadInv, Typed, TypeOK, Places, Working, Spots
  <2>2. moved \in MsgRecs /\ moved.at = "warming"
    <3> HIDE DEF Places
    <3> QED
      BY <2>1 DEF MsgRecs
  <2>3. msg' = [msg EXCEPT ![m] = moved] /\ UNCHANGED <<turns, process, stopped, asks, cut, conn, retires, opened, log, latest>>
    BY <1>2 DEF TurnSettled
  <2> HIDE DEF moved
  <2>4. /\ msg' \in [Messages -> MsgRecs] /\ \A n \in Messages \ {m} : msg'[n] = msg[n]
        /\ msg'[m].at = "warming"
    BY <2>2, <2>3 DEF ThreadInv, Typed
  <2>5. Typed'
    BY <2>3, <2>4 DEF ThreadInv, Typed, TypeOK, turns, process
  <2>6. Serial(msg)' /\ Lined(msg, queue)' /\ Open(msg, log)' /\ Asking(msg)'
    <3>1. log' \in [Ids -> LogRecs] /\ LogKept
      BY <2>3 DEF ThreadInv, Typed, LogKept
    <3>2. Onward(m)
      BY <2>4 DEF Onward, Working, TurnSettled
    <3> QED
      BY <2>3, <2>4, <3>1, <3>2, OnwardFrame
  <2>7. Serving'
    BY <2>3, <2>4, ServeFrame, SameConns DEF turns, process, Own
  <2> QED
    BY <2>5, <2>6, <2>7 DEF ThreadInv
<1> QED
  BY <1>1, <1>2

LEMMA TurnWarmedStep == ASSUME ThreadInv, NEW m \in Messages, TurnWarmed(m) PROVE ThreadInv'
BY CoolStep DEF TurnWarmed

LEMMA TurnCooledStep == ASSUME ThreadInv, NEW m \in Messages, TurnCooled(m) PROVE ThreadInv'
<1>1. /\ msg' \in [Messages -> MsgRecs] /\ \A n \in Messages \ {m} : msg'[n] = msg[n]
      /\ msg'[m].at = "preparing" /\ msg'[m].on = NoConn
  BY AtStep DEF TurnCooled, Places, Working
<1>2. /\ msg[m].at = "cooling"
      /\ UNCHANGED <<turns, process, stopped, asks, cut, conn, retires, opened, log, latest>>
  BY DEF TurnCooled
<1>3. Typed'
  BY <1>1, <1>2 DEF ThreadInv, Typed, TypeOK, turns, process
<1>4. Serial(msg)' /\ Lined(msg, queue)' /\ Open(msg, log)' /\ Asking(msg)'
  <2>1. log' \in [Ids -> LogRecs] /\ LogKept
    BY <1>2 DEF ThreadInv, Typed, LogKept
  <2>2. Onward(m)
    BY <1>1, <1>2 DEF Onward, Working
  <2> QED
    BY <1>1, <1>2, <2>1, <2>2, OnwardFrame
<1>5. Serving'
  BY <1>1, <1>2, ServeFrame, SameConns DEF turns, process, Own
<1> QED
  BY <1>3, <1>4, <1>5 DEF ThreadInv

LEMMA PrepareFailsStep == ASSUME ThreadInv, NEW m \in Messages, PrepareFails(m) PROVE ThreadInv'
BY EndStep DEF PrepareFails, Working

LEMMA PreparedStep == ASSUME ThreadInv, NEW m \in Messages, Prepared(m) PROVE ThreadInv'
<1>1. /\ msg[m].at = "preparing"
      /\ UNCHANGED <<turns, child, retiring, stopped, asks, cut, retires, opened, latest>>
  BY DEF Prepared
<1>2. ASSUME NEW how, EndTurn(m, how), UNCHANGED <<live, session, conn>> PROVE ThreadInv'
  BY <1>1, <1>2, EndStep DEF process, Working
<1>3. ASSUME NEW c \in Conns, Ensured(c), msg' = [msg EXCEPT ![m].at = "connecting", ![m].on = c], UNCHANGED log
      PROVE  ThreadInv'
  <2> DEFINE moved == [msg[m] EXCEPT !.at = "connecting", !.on = c]
  <2>1. msg[m] \in MsgRecs /\ "connecting" \in Places /\ c \in Spots
    BY DEF ThreadInv, Typed, Places, Working, Spots
  <2>2. moved \in MsgRecs /\ moved.at = "connecting" /\ moved.on = c
    <3> HIDE DEF Places
    <3> QED
      BY <2>1 DEF MsgRecs
  <2>3. msg' = [msg EXCEPT ![m] = moved]
    BY <1>3
  <2> HIDE DEF moved
  <2>4. /\ msg' \in [Messages -> MsgRecs] /\ \A n \in Messages \ {m} : msg'[n] = msg[n]
        /\ msg'[m].at = "connecting" /\ msg'[m].on = c
    BY <2>2, <2>3 DEF ThreadInv, Typed
  <2>5. live' = c /\ session' \in BOOLEAN /\ conn' \in [Conns -> ConnRecs]
    BY <1>3, EnsuredStep
  <2>6. Typed'
    <3>1. TypeOK'
      BY <1>1, <2>5 DEF ThreadInv, Typed, TypeOK, turns
    <3> QED
      BY <1>1, <1>3, <2>4, <2>5, <3>1 DEF ThreadInv, Typed, turns
  <2>7. Serial(msg)' /\ Lined(msg, queue)' /\ Open(msg, log)' /\ Asking(msg)'
    <3>1. log' \in [Ids -> LogRecs] /\ LogKept
      BY <1>3 DEF ThreadInv, Typed, LogKept
    <3>2. Onward(m)
      BY <1>1, <2>4 DEF Onward, Working
    <3> QED
      BY <1>1, <2>4, <3>1, <3>2, OnwardFrame
  <2>8. Serving'
    <3>1. \A n \in Messages : msg'[n].at \in {"connecting", "prompting"} => msg'[n].on \in Conns
      BY <2>4 DEF ThreadInv, Serving
    <3> QED
      BY <1>1, <1>3, <2>4, <3>1, EnsuredServe DEF turns, Own
  <2> QED
    BY <2>6, <2>7, <2>8 DEF ThreadInv
<1> QED
  BY <1>2, <1>3 DEF Prepared

LEMMA TurnPromptsStep == ASSUME ThreadInv, NEW m \in Messages, TurnPrompts(m) PROVE ThreadInv'
<1>1. /\ msg[m].at = "connecting"
      /\ UNCHANGED <<turns, process, stopped, asks, cut, conn, retires, opened, latest>>
  BY DEF TurnPrompts
<1>2. ASSUME NEW how, EndTurn(m, how) PROVE ThreadInv'
  BY <1>1, <1>2, EndStep DEF Working
<1>3. ASSUME msg' = [msg EXCEPT ![m].at = "prompting"], log' = [log EXCEPT ![IdOf[m]].sent = @ + 1] PROVE ThreadInv'
  <2> DEFINE moved == [msg[m] EXCEPT !.at = "prompting"]
             sent == log[IdOf[m]].sent + 1
             record == [log[IdOf[m]] EXCEPT !.sent = sent]
  <2>1. msg[m] \in MsgRecs /\ "prompting" \in Places /\ IdOf[m] \in Ids /\ log[IdOf[m]] \in LogRecs
    BY IdsOf DEF ThreadInv, Typed, Places, Working
  <2>2. moved \in MsgRecs /\ moved.at = "prompting" /\ moved.on = msg[m].on
    <3> HIDE DEF Places
    <3> QED
      BY <2>1 DEF MsgRecs
  <2>3. sent \in Nat
    BY <2>1 DEF LogRecs
  <2> HIDE DEF sent
  <2>4. /\ record \in LogRecs /\ record.queued = log[IdOf[m]].queued /\ record.prompts = log[IdOf[m]].prompts
        /\ record.end = log[IdOf[m]].end
    BY <2>1, <2>3 DEF LogRecs
  <2>5. msg' = [msg EXCEPT ![m] = moved] /\ log' = [log EXCEPT ![IdOf[m]] = record]
    BY <1>3 DEF sent
  <2> HIDE DEF moved, record
  <2>6. /\ msg' \in [Messages -> MsgRecs] /\ \A n \in Messages \ {m} : msg'[n] = msg[n]
        /\ msg'[m].at = "prompting" /\ msg'[m].on = msg[m].on
    BY <2>2, <2>5 DEF ThreadInv, Typed
  <2>7. log' \in [Ids -> LogRecs] /\ LogKept
    BY <2>1, <2>4, <2>5 DEF ThreadInv, Typed, LogKept
  <2>8. Typed'
    BY <1>1, <2>6, <2>7 DEF ThreadInv, Typed, TypeOK, turns, process
  <2>9. Serial(msg)' /\ Lined(msg, queue)' /\ Open(msg, log)' /\ Asking(msg)'
    <3>1. Onward(m)
      BY <1>1, <2>6 DEF Onward, Working
    <3> QED
      BY <1>1, <2>6, <2>7, <3>1, OnwardFrame
  <2>10. Serving'
    BY <1>1, <2>6, ServeFrame, SameConns DEF turns, process, Own
  <2> QED
    BY <2>8, <2>9, <2>10 DEF ThreadInv
<1> QED
  BY <1>2, <1>3 DEF TurnPrompts

LEMMA TurnAnsweredStep == ASSUME ThreadInv, NEW m \in Messages, TurnAnswered(m) PROVE ThreadInv'
BY EndStep DEF TurnAnswered, Working

\* The turn is over: what it logged has an end, so nothing that began is open.
LEMMA TurnAfterStep == ASSUME ThreadInv, NEW m \in Messages, TurnAfter(m) PROVE ThreadInv'
<1> DEFINE moved == [msg[m] EXCEPT !.at = "last", !.token = <<m, "last">>]
<1>1. /\ msg[m].at = "after" /\ running' = None /\ Retire(<<m, "last">>)
      /\ msg' = [msg EXCEPT ![m] = moved]
      /\ UNCHANGED <<queue, turn, stopped, asks, cut, conn, opened, log, latest>>
  BY DEF TurnAfter
<1>2. moved \in MsgRecs /\ moved.at = "last"
  <2>1. msg[m] \in MsgRecs /\ "last" \in Places /\ <<m, "last">> \in Passes
    BY TokensOf DEF ThreadInv, Typed, Places
  <2> HIDE DEF Places
  <2> QED
    BY <2>1 DEF MsgRecs
<1> HIDE DEF moved
<1>3. /\ msg' \in [Messages -> MsgRecs] /\ \A n \in Messages \ {m} : msg'[n] = msg[n]
      /\ msg'[m].at = "last"
  BY <1>1, <1>2 DEF ThreadInv, Typed
<1>4. /\ retiring' \in Tokens /\ retires' \in [Tokens -> RetireRecs]
      /\ child' = NoConn /\ live' = NoConn /\ session' = FALSE
  BY <1>1, TokensOf, RetireStep
<1>5. turn = m /\ running = IdOf[m] /\ IdOf[m] \in Ids /\ \A n \in Messages : msg'[n].at \notin Working
  <2>1. turn = m /\ running = IdOf[m] /\ IdOf[m] \in Ids
    BY <1>1, IdsOf DEF ThreadInv, Serial, Working
  <2>2. \A n \in Messages \ {m} : msg[n].at \notin Working
    BY <2>1 DEF ThreadInv, Serial
  <2> QED
    BY <1>3, <2>1, <2>2 DEF Working
<1>6. Typed'
  <2>1. TypeOK'
    BY <1>1, <1>4 DEF ThreadInv, Typed, TypeOK
  <2> QED
    BY <1>1, <1>3, <1>4, <2>1 DEF ThreadInv, Typed
<1>7. Serial(msg)' /\ Asking(msg)'
  BY <1>1, <1>3, <1>5 DEF ThreadInv, Serial, Asking
<1>8. Lined(msg, queue)'
  <2>1. \A k \in DOMAIN queue : queue[k] \in Messages
    BY DEF ThreadInv, Typed, TypeOK
  <2>2. \A n \in Messages : msg'[n].at = "queued" <=> msg[n].at = "queued"
    BY <1>1, <1>3
  <2> QED
    BY <1>1, <2>1, <2>2 DEF ThreadInv, Lined
<1>9. Open(msg, log)'
  <2>1. \A n \in Messages : Waits(msg, n) => Waits(msg, n)'
    BY <1>1, <1>3 DEF Waits, Steering
  <2>2. Waited(msg, log)'
    BY <1>1, <2>1 DEF ThreadInv, Open, Waited, Idle
  <2>3. stopped = "no" => \A i \in Ids : ~Begun(log, i)
    BY <1>1, <1>5 DEF ThreadInv, Open, Newest, Ended, Begun
  <2>4. Newest(log)'
    BY <1>1, <2>3 DEF ThreadInv, Open, Newest, Begun
  <2>5. Ended(msg, log)'
    BY <1>5 DEF Ended, Working
  <2> QED
    BY <2>2, <2>4, <2>5 DEF Open
<1>10. Serving'
  <2>1. \A n \in Messages : msg'[n].at \notin Own /\ msg'[n].at \notin {"connecting", "prompting"}
    BY <1>5 DEF Own, Working
  <2> QED
    BY <1>1, <1>4, <2>1, ServeFrame, SameConns
<1> QED
  BY <1>6, <1>7, <1>8, <1>9, <1>10 DEF ThreadInv

LEMMA TurnOverStep == ASSUME ThreadInv, NEW m \in Messages, TurnOver(m) PROVE ThreadInv'
<1> DEFINE moved == [msg[m] EXCEPT !.at = "over", !.token = NoToken]
           ms == [msg EXCEPT ![m] = moved]
<1>1. /\ msg[m].at = "last" /\ Drain(ms, log, queue)
      /\ UNCHANGED <<process, stopped, asks, cut, conn, retires>>
  BY DEF TurnOver
<1>2. moved \in MsgRecs /\ moved.at = "over"
  <2>1. msg[m] \in MsgRecs /\ "over" \in Places /\ NoToken \in Passes
    BY TokensOf DEF ThreadInv, Typed, Places
  <2> HIDE DEF Places
  <2> QED
    BY <2>1 DEF MsgRecs
<1> HIDE DEF moved
<1>3. ms \in [Messages -> MsgRecs] /\ ms[m].at = "over" /\ \A n \in Messages \ {m} : ms[n] = msg[n]
  BY <1>2 DEF ThreadInv, Typed
<1>4. queue \in Seq(Messages) /\ (\A k \in DOMAIN queue : queue[k] \in Messages) /\ log \in [Ids -> LogRecs]
      /\ cut' \in [Messages \cup Stops -> CutRecs]
  BY <1>1 DEF ThreadInv, Typed, TypeOK
<1> HIDE DEF ms
<1>5. Serial(ms)
  BY <1>3 DEF ThreadInv, Serial, Working
<1>6. Lined(ms, queue)
  BY <1>1, <1>3, <1>4 DEF ThreadInv, Lined
<1>7. Open(ms, log)
  <2>1. \A n \in Messages : Waits(msg, n) => Waits(ms, n)
    BY <1>1, <1>3 DEF Waits, Steering
  <2>2. Waited(ms, log)
    BY <2>1 DEF ThreadInv, Open, Waited
  <2>3. Ended(ms, log)
    BY <1>3 DEF ThreadInv, Open, Ended
  <2> QED
    BY <2>2, <2>3 DEF ThreadInv, Open
<1>8. OwnKept(ms)
  BY <1>3 DEF OwnKept, Own
<1>9. \A n \in Messages : cut'[n].step = "asking" => ms[n].at = "cancelling"
  BY <1>1, <1>3 DEF ThreadInv, Asking
<1> QED
  BY <1>1, <1>3, <1>4, <1>5, <1>6, <1>7, <1>8, <1>9, DrainStep

-----------------------------------------------------------------------------
(* Prompts that come in, wait and steer. *)

LEMMA DoneOf == Done \in MsgRecs /\ Done.at = "done" /\ Fresh \in MsgRecs /\ Fresh.at = "unsent" /\ Fresh.home = 0
BY DEF Done, Fresh, MsgRecs, Places, Spots, Passes

LEMMA SteerCuts ==
  ASSUME NEW ms, NEW lg, NEW m \in Messages, Steer(ms, lg, m), ThreadInv
  PROVE  \A n \in Messages \ {m} : cut'[n] = cut[n]
BY DEF Steer, Cut, ThreadInv, Typed

LEMMA InterruptedStep == ASSUME ThreadInv, NEW m \in Messages, Interrupted(m) PROVE ThreadInv'
<1>1. /\ msg[m].at = "racing" /\ Steer(msg, log, m) /\ queue' = queue
      /\ UNCHANGED <<process, conn, retires, stopped>>
  BY DEF Interrupted
<1>2. /\ msg \in [Messages -> MsgRecs] /\ log \in [Ids -> LogRecs] /\ queue \in Seq(Messages)
  BY DEF ThreadInv, Typed, TypeOK
<1>3. Leaving(msg, log, queue', m)
  <2>1. \A k \in DOMAIN queue : queue[k] # m
    BY <1>1 DEF ThreadInv, Lined
  <2>2. \A n \in Messages \ {m} : cut'[n].step = "asking" => msg[n].at = "cancelling"
    BY <1>1, SteerCuts DEF ThreadInv, Asking
  <2>3. stopped = "no" =>
          \A i \in Ids : Idle(log, i) => \E n \in Messages : IdOf[n] = i /\ (n = m \/ Waits(msg, n))
    BY DEF ThreadInv, Open, Waited
  <2> QED
    BY <1>1, <1>2, <2>1, <2>2, <2>3 DEF Leaving, ThreadInv, Serial, Lined, Open, Ended
<1>4. OwnKept(msg)
  BY DEF OwnKept
<1>5. stopped = "no" =>
        \A i \in Ids : Idle(log, i) => \E n \in Messages : IdOf[n] = i /\ IF n = m THEN msg[m].home > 0 ELSE Waits(msg, n)
  BY <1>1 DEF ThreadInv, Open, Waited, Waits
<1> QED
  BY <1>1, <1>3, <1>4, <1>5, SteerStep

\* The place that a prompt goes back to is one of the queue.
LEMMA PutBackStep ==
  ASSUME ThreadInv, NEW m \in Messages, msg[m].at \in Steering, msg[m].home > 0
  PROVE  \E i \in 1 .. Len(queue) + 1 : PutBack(m) = InsertAt(queue, i, m)
<1> DEFINE i == IF msg[m].home > Len(queue) THEN Len(queue) + 1 ELSE msg[m].home
<1>1. queue \in Seq(Messages) /\ msg[m] \in MsgRecs
  BY DEF ThreadInv, Typed, TypeOK
<1>2. Len(queue) \in Nat /\ msg[m].home \in Nat
  BY <1>1 DEF MsgRecs
<1>3. i \in 1 .. Len(queue) + 1
  BY <1>2
<1>4. PutBack(m) = InsertAt(queue, i, m)
  BY DEF PutBack
<1> QED
  BY <1>3, <1>4

LEMMA RefusedStep ==
  ASSUME ThreadInv, NEW m \in Messages, msg[m].at \in Steering, Refused(m),
         UNCHANGED <<process, stopped, asks, conn, retires>>
  PROVE  ThreadInv'
<1>1. /\ msg \in [Messages -> MsgRecs] /\ log \in [Ids -> LogRecs] /\ queue \in Seq(Messages)
      /\ \A k \in DOMAIN queue : queue[k] \in Messages /\ queue[k] # m /\ msg[queue[k]].at = "queued"
      /\ \A j, k \in DOMAIN queue : queue[j] = queue[k] => j = k
  <2>1. msg \in [Messages -> MsgRecs] /\ log \in [Ids -> LogRecs] /\ queue \in Seq(Messages)
    BY DEF ThreadInv, Typed, TypeOK
  <2>2. \A k \in DOMAIN queue : queue[k] \in Messages
    BY <2>1
  <2> QED
    BY <2>1, <2>2 DEF ThreadInv, Lined, Steering
<1>2. /\ cut' \in [Messages \cup Stops -> CutRecs]
      /\ \A n \in Messages : cut'[n].step = "asking" => n # m /\ msg[n].at = "cancelling"
  <2>1. NoCut \in CutRecs /\ NoCut.step = "none"
    BY DEF NoCut, CutRecs, Spots
  <2>2. cut' = [cut EXCEPT ![m] = NoCut] /\ cut \in [Messages \cup Stops -> CutRecs]
    BY DEF Refused, ThreadInv, Typed
  <2> QED
    BY <2>1, <2>2 DEF ThreadInv, Asking
<1>3. ASSUME msg[m].home > 0 PROVE ThreadInv'
  <2> DEFINE moved == [msg[m] EXCEPT !.at = "queued", !.home = 0]
             ms == [msg EXCEPT ![m] = moved]
  <2>1. Drain(ms, log, PutBack(m))
    BY <1>3 DEF Refused
  <2>2. moved \in MsgRecs /\ moved.at = "queued"
    <3>1. msg[m] \in MsgRecs /\ "queued" \in Places
      BY <1>1 DEF Places
    <3> HIDE DEF Places
    <3> QED
      BY <3>1 DEF MsgRecs
  <2> HIDE DEF moved
  <2>3. ms \in [Messages -> MsgRecs] /\ ms[m].at = "queued" /\ \A n \in Messages \ {m} : ms[n] = msg[n]
    BY <1>1, <2>2
  <2> HIDE DEF ms
  <2>4. PICK i \in 1 .. Len(queue) + 1 : PutBack(m) = InsertAt(queue, i, m)
    BY <1>3, PutBackStep
  <2> DEFINE q == InsertAt(queue, i, m)
  <2>5. q \in Seq(Messages)
    BY <1>1, Inserted
  <2>6. /\ \A k \in DOMAIN q : q[k] = m \/ \E j \in DOMAIN queue : q[k] = queue[j]
        /\ \A j, k \in DOMAIN q : q[j] = q[k] => j = k
        /\ \E k \in DOMAIN q : q[k] = m
        /\ \A j \in DOMAIN queue : \E k \in DOMAIN q : q[k] = queue[j]
    <3>1. \A k \in DOMAIN queue : queue[k] # m
      BY <1>1
    <3>2. \A j, k \in DOMAIN queue : queue[j] = queue[k] => j = k
      BY <1>1
    <3> QED
      BY <1>1, <3>1, <3>2, InsertedOnce
  <2> HIDE DEF q
  <2>7. Lined(ms, q)
    <3>1. \A k \in DOMAIN q : ms[q[k]].at = "queued"
      BY <1>1, <2>3, <2>6
    <3>2. ASSUME NEW n \in Messages, ms[n].at = "queued" PROVE \E k \in DOMAIN q : q[k] = n
      <4>1. CASE n = m
        BY <2>6, <4>1
      <4>2. CASE n # m
        <5>1. msg[n].at = "queued"
          BY <2>3, <3>2, <4>2
        <5>2. PICK j \in DOMAIN queue : queue[j] = n
          BY <5>1 DEF ThreadInv, Lined
        <5> QED
          BY <2>6, <5>2
      <4> QED
        BY <4>1, <4>2
    <3> QED
      BY <2>6, <3>1, <3>2 DEF Lined
  <2>8. Serial(ms)
    BY <2>3 DEF ThreadInv, Serial, Working
  <2>9. Open(ms, log)
    <3>1. \A n \in Messages : Waits(msg, n) => Waits(ms, n)
      BY <2>3 DEF Waits
    <3>2. Waited(ms, log)
      BY <3>1 DEF ThreadInv, Open, Waited
    <3>3. Ended(ms, log)
      BY <2>3 DEF ThreadInv, Open, Ended
    <3> QED
      BY <3>2, <3>3 DEF ThreadInv, Open
  <2>10. OwnKept(ms)
    BY <2>3 DEF OwnKept, Own
  <2>11. \A n \in Messages : cut'[n].step = "asking" => ms[n].at = "cancelling"
    BY <1>2, <2>3
  <2>12. Drain(ms, log, q)
    BY <2>1, <2>4 DEF q
  <2> QED
    BY <1>1, <1>2, <2>3, <2>5, <2>7, <2>8, <2>9, <2>10, <2>11, <2>12, DrainStep
<1>4. ASSUME ~(msg[m].home > 0) PROVE ThreadInv'
  <2> DEFINE ms == [msg EXCEPT ![m] = Done]
  <2>1. Drain(ms, log, queue)
    BY <1>4 DEF Refused
  <2>2. ms \in [Messages -> MsgRecs] /\ ms[m].at = "done" /\ \A n \in Messages \ {m} : ms[n] = msg[n]
    BY <1>1, DoneOf
  <2> HIDE DEF ms
  <2>3. Lined(ms, queue)
    BY <1>1, <2>2 DEF ThreadInv, Lined
  <2>4. Serial(ms)
    BY <2>2 DEF ThreadInv, Serial, Working
  <2>5. Open(ms, log)
    <3>1. \A n \in Messages : Waits(msg, n) => Waits(ms, n)
      BY <1>4, <2>2 DEF Waits, Steering
    <3>2. Waited(ms, log)
      BY <3>1 DEF ThreadInv, Open, Waited
    <3>3. Ended(ms, log)
      BY <2>2 DEF ThreadInv, Open, Ended
    <3> QED
      BY <3>2, <3>3 DEF ThreadInv, Open
  <2>6. OwnKept(ms)
    BY <2>2 DEF OwnKept, Own
  <2>7. \A n \in Messages : cut'[n].step = "asking" => ms[n].at = "cancelling"
    BY <1>2, <2>2
  <2> QED
    BY <1>1, <1>2, <2>1, <2>2, <2>3, <2>4, <2>5, <2>6, <2>7, DrainStep
<1> QED
  BY <1>3, <1>4

LEMMA CancelThrowsStep == ASSUME ThreadInv, NEW m \in Messages, CancelThrows(m) PROVE ThreadInv'
BY RefusedStep DEF CancelThrows, Refused, Steering

LEMMA OutlivedStep == ASSUME ThreadInv, NEW m \in Messages, Outlived(m) PROVE ThreadInv'
BY RefusedStep DEF Outlived, Refused, Steering

\* The prompt leaves the queue to steer, remembering its place, or because it was dropped.
LEMMA LeavesQueue ==
  ASSUME ThreadInv, NEW m \in Messages, msg[m].at = "queued", NEW i \in DOMAIN queue, queue[i] = m,
         queue' = RemoveAt(queue, i)
  PROVE  /\ queue' \in Seq(Messages)
         /\ \A k \in DOMAIN queue' : queue'[k] \in Messages \ {m} /\ msg[queue'[k]].at = "queued"
         /\ \A j, k \in DOMAIN queue' : queue'[j] = queue'[k] => j = k
         /\ \A n \in Messages \ {m} : msg[n].at = "queued" => \E k \in DOMAIN queue' : queue'[k] = n
<1>1. queue \in Seq(Messages) /\ queue' \in Seq(Messages)
  BY Removed DEF ThreadInv, Typed, TypeOK
<1>2. \A k \in DOMAIN queue : queue[k] \in Messages /\ msg[queue[k]].at = "queued"
  BY <1>1 DEF ThreadInv, Lined
<1>3. \A j, k \in DOMAIN queue : queue[j] = queue[k] => j = k
  BY DEF ThreadInv, Lined
<1>4. /\ \A k \in DOMAIN queue' : \E j \in DOMAIN queue : j # i /\ queue'[k] = queue[j]
      /\ \A j, k \in DOMAIN queue' : queue'[j] = queue'[k] => j = k
      /\ \A j \in DOMAIN queue : j # i => \E k \in DOMAIN queue' : queue'[k] = queue[j]
  BY <1>1, <1>3, RemovedOnce
<1>5. \A k \in DOMAIN queue' : queue'[k] \in Messages \ {m} /\ msg[queue'[k]].at = "queued"
  BY <1>2, <1>3, <1>4
<1>6. ASSUME NEW n \in Messages \ {m}, msg[n].at = "queued" PROVE \E k \in DOMAIN queue' : queue'[k] = n
  <2>1. PICK j \in DOMAIN queue : queue[j] = n
    BY <1>6 DEF ThreadInv, Lined
  <2> QED
    BY <1>4, <2>1
<1> QED
  BY <1>1, <1>4, <1>5, <1>6

LEMMA QueueSteerStep == ASSUME ThreadInv, NEW m \in Messages, QueueSteer(m) PROVE ThreadInv'
<1>1. PICK i \in DOMAIN queue : queue[i] = m /\ queue' = RemoveAt(queue, i) /\ Steer([msg EXCEPT ![m].home = i], log, m)
  BY DEF QueueSteer
<1>2. msg[m].at = "queued" /\ stopped = "no" /\ UNCHANGED <<process, conn, retires, stopped>>
  BY DEF QueueSteer
<1> DEFINE moved == [msg[m] EXCEPT !.home = i]
           ms == [msg EXCEPT ![m] = moved]
<1>3. i \in Nat /\ i > 0
  BY DEF ThreadInv, Typed, TypeOK
<1>4. moved \in MsgRecs /\ moved.at = "queued" /\ moved.home = i
  <2>1. msg[m] \in MsgRecs
    BY DEF ThreadInv, Typed
  <2> QED
    BY <1>2, <1>3, <2>1 DEF MsgRecs
<1>5. Steer(ms, log, m)
  BY <1>1
<1> HIDE DEF moved
<1>6. /\ ms \in [Messages -> MsgRecs] /\ ms[m].at = "queued" /\ ms[m].home = i
      /\ \A n \in Messages \ {m} : ms[n] = msg[n]
  BY <1>4 DEF ThreadInv, Typed
<1> HIDE DEF ms
<1>7. /\ queue' \in Seq(Messages)
      /\ \A k \in DOMAIN queue' : queue'[k] \in Messages \ {m} /\ msg[queue'[k]].at = "queued"
      /\ \A j, k \in DOMAIN queue' : queue'[j] = queue'[k] => j = k
      /\ \A n \in Messages \ {m} : msg[n].at = "queued" => \E k \in DOMAIN queue' : queue'[k] = n
  BY <1>1, <1>2, LeavesQueue
<1>8. \A j \in Ids : Idle(log, j) =>
        \E n \in Messages : IdOf[n] = j /\ IF n = m THEN ms[m].home > 0 ELSE Waits(ms, n)
  <2>1. \A n \in Messages : Waits(msg, n) => IF n = m THEN ms[m].home > 0 ELSE Waits(ms, n)
    BY <1>3, <1>6 DEF Waits
  <2> QED
    BY <1>2, <2>1 DEF ThreadInv, Open, Waited
<1>9. Leaving(ms, log, queue', m)
  <2>1. \A k \in DOMAIN queue' : ms[queue'[k]].at = "queued" /\ queue'[k] # m
    BY <1>6, <1>7
  <2>2. \A n \in Messages \ {m} : ms[n].at = "queued" => \E k \in DOMAIN queue' : queue'[k] = n
    BY <1>6, <1>7
  <2>3. \A n \in Messages \ {m} : cut'[n].step = "asking" => ms[n].at = "cancelling"
    BY <1>5, <1>6, SteerCuts DEF ThreadInv, Asking
  <2>4. \A n \in Messages \ {m} : ms[n].at \in Working => turn = n /\ running = IdOf[n]
    BY <1>6 DEF ThreadInv, Serial
  <2>5. \A j \in Ids : Idle(log, j) => \E n \in Messages : IdOf[n] = j /\ (n = m \/ Waits(ms, n))
    BY <1>8
  <2>6. log \in [Ids -> LogRecs] /\ Newest(log)
    BY DEF ThreadInv, Typed, Open
  <2>7. \A n \in Messages \ {m} : ms[n].at = "after" /\ stopped = "no" => log[IdOf[n]].end # "none"
    BY <1>6 DEF ThreadInv, Open, Ended
  <2> QED
    BY <1>6, <1>7, <2>1, <2>2, <2>3, <2>4, <2>5, <2>6, <2>7 DEF Leaving
<1>10. OwnKept(ms)
  BY <1>6 DEF OwnKept, Own
<1> QED
  BY <1>2, <1>5, <1>8, <1>9, <1>10, SteerStep

LEMMA QueueDropStep == ASSUME ThreadInv, NEW m \in Messages, QueueDrop(m) PROVE ThreadInv'
<1> DEFINE record == [log[IdOf[m]] EXCEPT !.end = "dropped"]
<1>1. PICK i \in DOMAIN queue : queue[i] = m /\ queue' = RemoveAt(queue, i)
  BY DEF QueueDrop
<1>2. /\ msg[m].at = "queued" /\ stopped = "no"
      /\ msg' = [msg EXCEPT ![m] = Done] /\ log' = [log EXCEPT ![IdOf[m]] = record]
      /\ UNCHANGED <<running, turn, process, stopped, asks, cut, conn, retires, opened, latest>>
  BY DEF QueueDrop
<1>3. /\ queue' \in Seq(Messages)
      /\ \A k \in DOMAIN queue' : queue'[k] \in Messages \ {m} /\ msg[queue'[k]].at = "queued"
      /\ \A j, k \in DOMAIN queue' : queue'[j] = queue'[k] => j = k
      /\ \A n \in Messages \ {m} : msg[n].at = "queued" => \E k \in DOMAIN queue' : queue'[k] = n
  BY <1>1, <1>2, LeavesQueue
<1>4. msg' \in [Messages -> MsgRecs] /\ msg'[m].at = "done" /\ \A n \in Messages \ {m} : msg'[n] = msg[n]
  BY <1>2, DoneOf DEF ThreadInv, Typed
<1>5. IdOf[m] \in Ids /\ log \in [Ids -> LogRecs]
  BY IdsOf DEF ThreadInv, Typed
<1>6. /\ record \in LogRecs /\ record.end = "dropped" /\ record.queued = log[IdOf[m]].queued
      /\ record.prompts = log[IdOf[m]].prompts
  <2>1. log[IdOf[m]] \in LogRecs
    BY <1>5
  <2> QED
    BY <2>1 DEF LogRecs
<1> HIDE DEF record
<1>7. log' \in [Ids -> LogRecs] /\ LogKept /\ log'[IdOf[m]].end = "dropped"
  BY <1>2, <1>5, <1>6 DEF LogKept
<1>8. Typed'
  <2>1. TypeOK'
    BY <1>2, <1>3 DEF ThreadInv, Typed, TypeOK, process
  <2> QED
    BY <1>2, <1>4, <1>7, <2>1 DEF ThreadInv, Typed
<1>9. Serial(msg)' /\ Asking(msg)'
  BY <1>2, <1>4 DEF ThreadInv, Serial, Asking, Working
<1>10. Serving'
  <2>1. \A n \in Messages : msg'[n].at \in Own => msg[n].at \in Own /\ msg'[n].on = msg[n].on
    BY <1>4 DEF Own
  <2>2. \A n \in Messages : msg'[n].at \in {"connecting", "prompting"} =>
                            msg[n].at \in {"connecting", "prompting"} /\ msg'[n].on = msg[n].on
    BY <1>4
  <2> QED
    BY <1>2, <2>1, <2>2, ServeFrame, SameConns DEF process
<1>11. Lined(msg, queue)'
  BY <1>3, <1>4 DEF Lined
<1>12. Open(msg, log)'
  <2>1. Waited(msg, log)'
    <3> SUFFICES ASSUME NEW j \in Ids, Idle(log, j)' PROVE \E n \in Messages : IdOf[n] = j /\ Waits(msg, n)'
      BY DEF Waited
    <3>1. Idle(log, j) /\ j # IdOf[m]
      BY <1>7 DEF Idle, LogKept
    <3>2. PICK n \in Messages : IdOf[n] = j /\ Waits(msg, n)
      BY <1>2, <3>1 DEF ThreadInv, Open, Waited
    <3> QED
      BY <1>4, <3>1, <3>2 DEF Waits
  <2>2. Newest(log)'
    <3>1. \A j \in Ids : Begun(log, j)' => Begun(log, j)
      BY <1>7 DEF Begun, LogKept
    <3> QED
      BY <1>2, <3>1 DEF ThreadInv, Open, Newest
  <2>3. Ended(msg, log)'
    BY <1>2, <1>4, <1>7, IdsOf DEF ThreadInv, Open, Ended, LogKept
  <2> QED
    BY <2>1, <2>2, <2>3 DEF Open
<1> QED
  BY <1>8, <1>9, <1>10, <1>11, <1>12 DEF ThreadInv

\* A request that has not been admitted waits for nothing.
Outside == {"unsent", "learning"}

LEMMA AdmitStep ==
  ASSUME ThreadInv, NEW m \in Messages, NEW delivery, msg[m].at \in Outside, Admit(m, delivery),
         UNCHANGED <<process, stopped, conn, retires>>
  PROVE  ThreadInv'
<1> DEFINE ms == [msg EXCEPT ![m] = Fresh]
           queues == delivery = "queue" /\ (running # None \/ Steers(msg) # {})
<1>1. ms \in [Messages -> MsgRecs] /\ ms[m] = Fresh /\ \A n \in Messages \ {m} : ms[n] = msg[n]
  BY DoneOf DEF ThreadInv, Typed
<1>2. /\ queue \in Seq(Messages) /\ \A k \in DOMAIN queue : queue[k] \in Messages /\ queue[k] # m
  <2>1. queue \in Seq(Messages) /\ \A k \in DOMAIN queue : queue[k] \in Messages
    BY DEF ThreadInv, Typed, TypeOK
  <2> QED
    BY <2>1 DEF ThreadInv, Lined, Outside
<1>3. \A n \in Messages : Waits(msg, n) => n # m /\ Waits(ms, n)
  BY <1>1 DEF Waits, Outside, Steering
<1>4. ASSUME ~queues PROVE ThreadInv'
  <2>1. Steer(ms, log, m) /\ queue' = queue
    BY <1>4 DEF Admit
  <2>2. Leaving(ms, log, queue', m)
    <3>1. \A k \in DOMAIN queue : ms[queue[k]].at = "queued" /\ queue[k] # m
      BY <1>1, <1>2 DEF ThreadInv, Lined
    <3>2. \A n \in Messages \ {m} : ms[n].at = "queued" => \E k \in DOMAIN queue : queue[k] = n
      BY <1>1 DEF ThreadInv, Lined
    <3>3. \A n \in Messages \ {m} : cut'[n].step = "asking" => ms[n].at = "cancelling"
      BY <1>1, <2>1, SteerCuts DEF ThreadInv, Asking
    <3>4. \A n \in Messages \ {m} : ms[n].at \in Working => turn = n /\ running = IdOf[n]
      BY <1>1 DEF ThreadInv, Serial
    <3>5. stopped = "no" => \A i \in Ids : Idle(log, i) => \E n \in Messages : IdOf[n] = i /\ (n = m \/ Waits(ms, n))
      BY <1>3 DEF ThreadInv, Open, Waited
    <3>6. log \in [Ids -> LogRecs] /\ Newest(log)
      BY DEF ThreadInv, Typed, Open
    <3>7. \A n \in Messages \ {m} : ms[n].at = "after" /\ stopped = "no" => log[IdOf[n]].end # "none"
      BY <1>1 DEF ThreadInv, Open, Ended
    <3>8. \A j, k \in DOMAIN queue : queue[j] = queue[k] => j = k
      BY DEF ThreadInv, Lined
    <3> QED
      BY <1>1, <1>2, <2>1, <3>1, <3>2, <3>3, <3>4, <3>5, <3>6, <3>7, <3>8 DEF Leaving
  <2>3. OwnKept(ms)
    BY <1>1, DoneOf DEF OwnKept, Own
  <2>4. stopped = "no" =>
          \A i \in Ids : Idle(log, i) => \E n \in Messages : IdOf[n] = i /\ IF n = m THEN ms[m].home > 0 ELSE Waits(ms, n)
    BY <1>3 DEF ThreadInv, Open, Waited
  <2> HIDE DEF ms
  <2> QED
    BY <2>1, <2>2, <2>3, <2>4, SteerStep
<1>5. ASSUME queues PROVE ThreadInv'
  <2> DEFINE moved == [Fresh EXCEPT !.at = "queued"]
             record == [log[IdOf[m]] EXCEPT !.queued = TRUE]
  <2>1. /\ queue' = Append(queue, m) /\ msg' = [msg EXCEPT ![m] = moved]
        /\ log' = [log EXCEPT ![IdOf[m]] = record]
        /\ UNCHANGED <<running, turn, opened, latest, cut, asks>>
    BY <1>1, <1>5 DEF Admit, ThreadInv, Typed
  <2>2. moved \in MsgRecs /\ moved.at = "queued"
    <3>1. "queued" \in Places
      BY DEF Places
    <3> HIDE DEF Places
    <3> QED
      BY DoneOf, <3>1 DEF MsgRecs
  <2>3. IdOf[m] \in Ids /\ log \in [Ids -> LogRecs]
    BY IdsOf DEF ThreadInv, Typed
  <2>4. /\ record \in LogRecs /\ record.end = log[IdOf[m]].end /\ record.prompts = log[IdOf[m]].prompts
    <3>1. log[IdOf[m]] \in LogRecs
      BY <2>3
    <3> QED
      BY <3>1 DEF LogRecs
  <2> HIDE DEF moved, record
  <2>5. msg' \in [Messages -> MsgRecs] /\ msg'[m].at = "queued" /\ \A n \in Messages \ {m} : msg'[n] = msg[n]
    BY <2>1, <2>2 DEF ThreadInv, Typed
  <2>6. /\ log' \in [Ids -> LogRecs] /\ \A i \in Ids \ {IdOf[m]} : log'[i] = log[i]
        /\ \A i \in Ids : log'[i].prompts = log[i].prompts /\ log'[i].end = log[i].end
    BY <2>1, <2>3, <2>4
  <2>7. /\ queue' \in Seq(Messages) /\ Len(queue) \in Nat
        /\ DOMAIN queue = 1 .. Len(queue) /\ DOMAIN queue' = 1 .. Len(queue) + 1
        /\ queue'[Len(queue) + 1] = m /\ \A k \in 1 .. Len(queue) : queue'[k] = queue[k]
    BY <1>2, <2>1
  <2>8. Typed'
    <3>1. TypeOK'
      BY <2>1, <2>7 DEF ThreadInv, Typed, TypeOK, process
    <3> QED
      BY <2>1, <2>5, <2>6, <3>1 DEF ThreadInv, Typed
  <2>9. Serial(msg)' /\ Asking(msg)'
    BY <2>1, <2>5 DEF ThreadInv, Serial, Asking, Working, Outside
  <2>10. Serving'
    <3>1. \A n \in Messages : msg'[n].at \in Own => msg[n].at \in Own /\ msg'[n].on = msg[n].on
      BY <2>5 DEF Own
    <3>2. \A n \in Messages : msg'[n].at \in {"connecting", "prompting"} =>
                              msg[n].at \in {"connecting", "prompting"} /\ msg'[n].on = msg[n].on
      BY <2>5
    <3> QED
      BY <2>1, <3>1, <3>2, ServeFrame, SameConns DEF process
  <2>11. Lined(msg, queue)'
    <3> DEFINE last == Len(queue) + 1
    <3>0. \A k \in DOMAIN queue' : k = last \/ k \in DOMAIN queue
      BY <2>7
    <3>1. last \in DOMAIN queue' /\ queue'[last] = m /\ \A k \in DOMAIN queue : k \in DOMAIN queue' /\ queue'[k] = queue[k]
      BY <2>7
    <3> HIDE DEF last
    <3>2. \A k \in DOMAIN queue' : msg'[queue'[k]].at = "queued"
      BY <1>2, <2>5, <3>0, <3>1 DEF ThreadInv, Lined
    <3>3. \A j, k \in DOMAIN queue' : queue'[j] = queue'[k] => j = k
      BY <1>2, <3>0, <3>1 DEF ThreadInv, Lined
    <3>4. ASSUME NEW n \in Messages, msg'[n].at = "queued" PROVE \E k \in DOMAIN queue' : queue'[k] = n
      <4>1. CASE n = m
        BY <3>1, <4>1
      <4>2. CASE n # m
        <5>1. PICK k \in DOMAIN queue : queue[k] = n
          BY <2>5, <3>4, <4>2 DEF ThreadInv, Lined
        <5> QED
          BY <3>1, <5>1
      <4> QED
        BY <4>1, <4>2
    <3> QED
      BY <3>2, <3>3, <3>4 DEF Lined
  <2>12. Open(msg, log)'
    <3>1. Waited(msg, log)'
      <4> SUFFICES ASSUME stopped = "no", NEW i \in Ids, Idle(log, i)'
                   PROVE  \E n \in Messages : IdOf[n] = i /\ Waits(msg, n)'
        BY DEF Waited
      <4>1. CASE i = IdOf[m]
        BY <2>5, <4>1 DEF Waits
      <4>2. CASE i # IdOf[m]
        <5>1. Idle(log, i)
          BY <2>6, <4>2 DEF Idle
        <5>2. PICK n \in Messages : IdOf[n] = i /\ Waits(msg, n)
          BY <5>1 DEF ThreadInv, Open, Waited
        <5> QED
          BY <2>5, <4>2, <5>2 DEF Waits
      <4> QED
        BY <4>1, <4>2
    <3>2. Newest(log)'
      <4>1. \A i \in Ids : Begun(log, i)' => Begun(log, i)
        BY <2>6 DEF Begun
      <4> QED
        BY <2>1, <4>1 DEF ThreadInv, Open, Newest
    <3>3. Ended(msg, log)'
      BY <2>5, <2>6, IdsOf DEF ThreadInv, Open, Ended
    <3> QED
      BY <3>1, <3>2, <3>3 DEF Open
  <2> QED
    BY <2>8, <2>9, <2>10, <2>11, <2>12 DEF ThreadInv
<1> QED
  BY <1>4, <1>5

\* A request that is not admitted, or that asks what the harness reads first, leaves the turns alone.
LEMMA OutsideFrame ==
  ASSUME ThreadInv, NEW m \in Messages, msg[m].at \in Outside,
         msg' \in [Messages -> MsgRecs], msg'[m].at \in {"learning", "done"}, \A n \in Messages \ {m} : msg'[n] = msg[n],
         UNCHANGED <<turns, stopped, cut, opened, log, latest>>
  PROVE  Serial(msg)' /\ Lined(msg, queue)' /\ Open(msg, log)' /\ Asking(msg)'
<1>1. LogKept
  BY DEF LogKept
<1>2. \A n \in Messages : Steady(n)
  <2>1. \A n \in Messages \ {m} : Steady(n)
    BY DEF Steady, Waits
  <2>2. Steady(m)
    BY DEF Steady, Waits, Outside, Working, Steering
  <2> QED
    BY <2>1, <2>2
<1>3. Asking(msg)'
  BY DEF ThreadInv, Asking, Outside
<1> QED
  BY <1>1, <1>2, <1>3, TurnFrame DEF turns

LEMMA OutsideStep ==
  ASSUME ThreadInv, NEW m \in Messages, msg[m].at \in Outside,
         NEW r \in MsgRecs, r.at \in {"learning", "done"}, msg' = [msg EXCEPT ![m] = r],
         UNCHANGED <<live, session, conn>> \/ \E c \in Conns : Ensured(c),
         UNCHANGED <<turns, child, retiring, stopped, asks, cut, retires, opened, log, latest>>
  PROVE  ThreadInv'
<1>1. msg' \in [Messages -> MsgRecs] /\ msg'[m].at \in {"learning", "done"} /\ \A n \in Messages \ {m} : msg'[n] = msg[n]
  BY DEF ThreadInv, Typed
<1>2. live' \in Conns \cup {NoConn} /\ session' \in BOOLEAN /\ conn' \in [Conns -> ConnRecs]
  <2>1. CASE UNCHANGED <<live, session, conn>>
    BY <2>1 DEF ThreadInv, Typed, TypeOK
  <2>2. ASSUME NEW c \in Conns, Ensured(c)
        PROVE  live' \in Conns \cup {NoConn} /\ session' \in BOOLEAN /\ conn' \in [Conns -> ConnRecs]
    BY <2>2, EnsuredStep
  <2> QED
    BY <2>1, <2>2
<1>3. Typed'
  <2>1. TypeOK'
    BY <1>2 DEF ThreadInv, Typed, TypeOK, turns
  <2> QED
    BY <1>1, <1>2, <2>1 DEF ThreadInv, Typed, turns
<1>4. Serial(msg)' /\ Lined(msg, queue)' /\ Open(msg, log)' /\ Asking(msg)'
  BY <1>1, OutsideFrame
<1>5. \A n \in Messages : msg'[n].at \in Own => msg[n].at \in Own /\ msg'[n].on = msg[n].on
  BY <1>1 DEF Own
<1>6. \A n \in Messages : msg'[n].at \in {"connecting", "prompting"} =>
                          msg[n].at \in {"connecting", "prompting"} /\ msg'[n].on = msg[n].on
  BY <1>1
<1>7. Serving'
  <2>1. CASE UNCHANGED <<live, session, conn>>
    BY <1>5, <1>6, <2>1, ServeFrame, SameConns DEF turns
  <2>2. ASSUME NEW c \in Conns, Ensured(c) PROVE Serving'
    <3>1. \A n \in Messages : msg'[n].at \in {"connecting", "prompting"} => msg'[n].on \in Conns
      BY <1>6 DEF ThreadInv, Serving
    <3> QED
      BY <1>5, <2>2, <3>1, EnsuredServe DEF turns
  <2> QED
    BY <2>1, <2>2
<1> QED
  BY <1>3, <1>4, <1>7 DEF ThreadInv

LEMMA AnswerStep ==
  ASSUME ThreadInv, NEW m \in Messages, msg[m].at \in Outside, Answer(m),
         UNCHANGED <<process, stopped, conn, retires>>
  PROVE  ThreadInv'
BY DoneOf, OutsideStep DEF Answer, process, turns

LEMMA Learning ==
  ASSUME ThreadInv, NEW m \in Messages, NEW delivery \in {"steer", "queue"}, NEW token \in Passes, NEW c \in Spots
  PROVE  LET r == [msg[m] EXCEPT !.at = "learning", !.delivery = delivery] IN
         /\ [r EXCEPT !.token = token] \in MsgRecs /\ [r EXCEPT !.token = token].at = "learning"
         /\ [r EXCEPT !.on = c] \in MsgRecs /\ [r EXCEPT !.on = c].at = "learning"
         /\ r \in MsgRecs /\ r.at = "learning"
<1> DEFINE r == [msg[m] EXCEPT !.at = "learning", !.delivery = delivery]
<1>1. msg[m] \in MsgRecs /\ "learning" \in Places
  BY DEF ThreadInv, Typed, Places
<1> HIDE DEF Places
<1>2. r \in MsgRecs /\ r.at = "learning"
  BY <1>1 DEF MsgRecs
<1> HIDE DEF r
<1>3. /\ [r EXCEPT !.token = token] \in MsgRecs /\ [r EXCEPT !.token = token].at = "learning"
      /\ [r EXCEPT !.on = c] \in MsgRecs /\ [r EXCEPT !.on = c].at = "learning"
  BY <1>2 DEF MsgRecs
<1> QED
  BY <1>2, <1>3 DEF r

LEMMA SendStep ==
  ASSUME ThreadInv, NEW m \in Messages, NEW delivery \in {"steer", "queue"}, Send(m, delivery)
  PROVE  ThreadInv'
<1>1. msg[m].at \in Outside /\ UNCHANGED <<child, retiring, stopped, retires>>
  BY DEF Send, Outside
<1>2. CASE Repeated(IdOf[m]) /\ Answer(m) /\ UNCHANGED <<live, session, conn>>
  BY <1>1, <1>2, AnswerStep DEF process
<1>3. CASE Admit(m, delivery) /\ UNCHANGED <<live, session, conn>>
  BY <1>1, <1>3, AdmitStep DEF process
<1> DEFINE r == [msg[m] EXCEPT !.at = "learning", !.delivery = delivery]
           ms == [msg EXCEPT ![m].at = "learning", ![m].delivery = delivery]
<1>4. msg \in [Messages -> MsgRecs] /\ retiring \in Passes /\ Conns \subseteq Spots /\ NoConn \in Spots
  BY DEF ThreadInv, Typed, TypeOK, Passes, Spots
<1>5. /\ [ms EXCEPT ![m].token = retiring] = [msg EXCEPT ![m] = [r EXCEPT !.token = retiring]]
      /\ \A c \in Conns : [ms EXCEPT ![m].on = c] = [msg EXCEPT ![m] = [r EXCEPT !.on = c]]
  BY <1>4
<1>6. ASSUME msg' = [ms EXCEPT ![m].token = retiring], UNCHANGED <<live, session, conn>>,
             UNCHANGED <<turns, asks, cut, opened, log, latest>>
      PROVE  ThreadInv'
  <2> DEFINE s == [r EXCEPT !.token = retiring]
  <2>1. s \in MsgRecs /\ s.at = "learning"
    BY <1>4, Learning
  <2>2. msg' = [msg EXCEPT ![m] = s]
    BY <1>5, <1>6
  <2> HIDE DEF s
  <2> QED
    BY <1>1, <1>6, <2>1, <2>2, OutsideStep
<1>7. ASSUME NEW c \in Conns, Ensured(c), msg' = [ms EXCEPT ![m].on = c],
             UNCHANGED <<turns, asks, cut, opened, log, latest>>
      PROVE  ThreadInv'
  <2> DEFINE s == [r EXCEPT !.on = c]
  <2>1. s \in MsgRecs /\ s.at = "learning"
    BY <1>4, Learning
  <2>2. msg' = [msg EXCEPT ![m] = s]
    BY <1>5, <1>7
  <2> HIDE DEF s
  <2> QED
    BY <1>1, <1>7, <2>1, <2>2, OutsideStep
<1> QED
  BY <1>2, <1>3, <1>6, <1>7 DEF Send

LEMMA LearnEnsuresStep == ASSUME ThreadInv, NEW m \in Messages, LearnEnsures(m) PROVE ThreadInv'
<1>1. /\ msg[m].at \in Outside /\ msg[m].at = "learning"
      /\ UNCHANGED <<turns, child, retiring, stopped, asks, cut, retires, opened, log, latest>>
  BY DEF LearnEnsures, Outside
<1>2. ASSUME NEW c \in Conns, Ensured(c), msg' = [msg EXCEPT ![m].on = c, ![m].token = NoToken] PROVE ThreadInv'
  <2> DEFINE s == [msg[m] EXCEPT !.on = c, !.token = NoToken]
  <2>1. s \in MsgRecs /\ s.at = "learning"
    <3>1. msg[m] \in MsgRecs /\ c \in Spots /\ NoToken \in Passes
      BY TokensOf DEF ThreadInv, Typed, Spots
    <3> QED
      BY <1>1, <3>1 DEF MsgRecs
  <2>2. msg' = [msg EXCEPT ![m] = s]
    BY <1>2
  <2> HIDE DEF s
  <2> QED
    BY <1>1, <1>2, <2>1, <2>2, OutsideStep
<1>3. ASSUME msg' = [msg EXCEPT ![m] = Done], UNCHANGED <<live, session, conn>> PROVE ThreadInv'
  BY <1>1, <1>3, DoneOf, OutsideStep
<1> QED
  BY <1>2, <1>3 DEF LearnEnsures

LEMMA LearnedStep == ASSUME ThreadInv, NEW m \in Messages, Learned(m) PROVE ThreadInv'
<1>1. msg[m].at \in Outside /\ UNCHANGED <<process, stopped, conn, retires>>
  BY DEF Learned, Outside
<1>2. CASE Admit(m, msg[m].delivery)
  BY <1>1, <1>2, AdmitStep
<1>3. CASE Answer(m)
  BY <1>1, <1>3, AnswerStep
<1> QED
  BY <1>2, <1>3 DEF Learned

-----------------------------------------------------------------------------
(* Processes, cancels and the end of the thread. *)

\* The turns and the requests stay as they are, and no process is started.
LEMMA ProcessStep ==
  ASSUME ThreadInv, UNCHANGED <<turns, msg, opened, latest>>,
         cut' \in [Messages \cup Stops -> CutRecs], \A n \in Messages : cut'[n] = cut[n],
         log' \in [Ids -> LogRecs], LogKept,
         stopped' \in {"no", "stopping", "stopped"}, stopped' = "no" => stopped = "no",
         live' = live \/ live' = NoConn, child' = child \/ (child' = NoConn /\ live' = NoConn),
         session' \in BOOLEAN, retiring' \in Passes, retires' \in [Tokens -> RetireRecs],
         conn' \in [Conns -> ConnRecs], \A c \in Conns : Aging(c), asks' \subseteq asks
  PROVE  ThreadInv'
<1>1. Typed'
  <2>1. TypeOK'
    BY DEF ThreadInv, Typed, TypeOK, turns, Passes
  <2> QED
    BY <2>1 DEF ThreadInv, Typed, turns
<1>2. \A n \in Messages : Steady(n)
  BY DEF Steady, Waits
<1>3. Serial(msg)' /\ Lined(msg, queue)' /\ Open(msg, log)'
  BY <1>2, TurnFrame DEF turns
<1>4. Asking(msg)'
  BY DEF ThreadInv, Asking
<1>5. Serving'
  BY ServeFrame DEF turns
<1> QED
  BY <1>1, <1>3, <1>4, <1>5 DEF ThreadInv

\* What the thread logs of a turn's cancel or end reopens nothing.
LEMMA LogSteps ==
  ASSUME ThreadInv
  PROVE  /\ log' = log => log' \in [Ids -> LogRecs] /\ LogKept
         /\ running # None /\ log' = CancelLogged(log) => log' \in [Ids -> LogRecs] /\ LogKept
         /\ log' = ErrorLogged => log' \in [Ids -> LogRecs] /\ LogKept
<1>1. log \in [Ids -> LogRecs] /\ (running # None => running \in Ids)
  BY DEF ThreadInv, Typed, TypeOK
<1>2. log' = log => log' \in [Ids -> LogRecs] /\ LogKept
  BY <1>1 DEF LogKept
<1>3. ASSUME running # None
      PROVE  /\ log' = [log EXCEPT ![running].cancelled = TRUE] => log' \in [Ids -> LogRecs] /\ LogKept
             /\ log' = [log EXCEPT ![running].end = "ended"] => log' \in [Ids -> LogRecs] /\ LogKept
  <2> DEFINE cancel == [log[running] EXCEPT !.cancelled = TRUE]
             end == [log[running] EXCEPT !.end = "ended"]
  <2>1. running \in Ids /\ log[running] \in LogRecs
    BY <1>1, <1>3
  <2>2. /\ cancel \in LogRecs /\ cancel.queued = log[running].queued /\ cancel.prompts = log[running].prompts
        /\ cancel.end = log[running].end
    BY <2>1 DEF LogRecs
  <2>3. end \in LogRecs /\ end.queued = log[running].queued /\ end.prompts = log[running].prompts /\ end.end = "ended"
    BY <2>1 DEF LogRecs
  <2> HIDE DEF cancel, end
  <2>4. log' = [log EXCEPT ![running] = cancel] => log' \in [Ids -> LogRecs] /\ LogKept
    BY <1>1, <2>1, <2>2 DEF LogKept
  <2>5. log' = [log EXCEPT ![running] = end] => log' \in [Ids -> LogRecs] /\ LogKept
    BY <1>1, <2>1, <2>3 DEF LogKept
  <2> QED
    BY <2>4, <2>5 DEF cancel, end
<1> QED
  BY <1>2, <1>3 DEF CancelLogged, ErrorLogged

LEMMA TypesOf ==
  ASSUME ThreadInv
  PROVE  /\ cut \in [Messages \cup Stops -> CutRecs] /\ conn \in [Conns -> ConnRecs] /\ retires \in [Tokens -> RetireRecs]
         /\ session \in BOOLEAN /\ retiring \in Passes /\ stopped \in {"no", "stopping", "stopped"}
         /\ NoToken \in Passes /\ Tokens \subseteq Passes /\ live \in Spots /\ child \in Spots
BY DEF ThreadInv, Typed, TypeOK, Passes, Spots

\* The end of a process, in whatever phase.
LEMMA DeadOf ==
  ASSUME ThreadInv, NEW c \in Conns
  PROVE  Dead(c) \in ConnRecs /\ Dead(c).phase = conn[c].phase /\ Dead(c).run = None /\ ~Dead(c).alive
<1>1. conn[c] \in ConnRecs
  BY TypesOf
<1> QED
  BY <1>1 DEF Dead, NoProcess, ConnRecs

LEMMA RetiredStep == ASSUME ThreadInv, NEW token \in Tokens, Retired(token) PROVE ThreadInv'
<1>1. /\ conn' = [c \in Conns |-> IF c = retires[token].child THEN Dead(c) ELSE conn[c]]
      /\ retires' = [retires EXCEPT ![token].busy = FALSE, ![token].child = NoConn] /\ retiring' = NoToken
      /\ UNCHANGED <<turns, live, child, session, stopped, asks, msg, cut, opened, log, latest>>
  BY DEF Retired
<1>2. conn' \in [Conns -> ConnRecs] /\ \A c \in Conns : Aging(c)
  BY <1>1, DeadOf, TypesOf DEF Aging
<1>3. retires' \in [Tokens -> RetireRecs]
  BY <1>1, TypesOf DEF RetireRecs, Spots
<1>4. log' \in [Ids -> LogRecs] /\ LogKept
  BY <1>1, LogSteps
<1> QED
  BY <1>1, <1>2, <1>3, <1>4, TypesOf, ProcessStep

LEMMA IdleRetireStep == ASSUME ThreadInv, IdleRetire PROVE ThreadInv'
<1>1. /\ retiring' \in Passes /\ retires' \in [Tokens -> RetireRecs]
      /\ child' = NoConn /\ live' = NoConn /\ session' = FALSE
  BY TokensOf, RetireStep DEF IdleRetire
<1>2. UNCHANGED <<turns, stopped, asks, msg, cut, conn, opened, log, latest>>
  BY DEF IdleRetire
<1>3. log' \in [Ids -> LogRecs] /\ LogKept
  BY <1>2, LogSteps
<1> QED
  BY <1>1, <1>2, <1>3, TypesOf, SameConns, ProcessStep

LEMMA StopStep == ASSUME ThreadInv, NEW s \in Stops, Stop(s) PROVE ThreadInv'
<1> DEFINE capture == [step |-> "asking", id |-> running, turn |-> turn, live |-> live, child |-> child]
<1>1. /\ running # None /\ cut' = [cut EXCEPT ![s] = capture] /\ log' = CancelLogged(log) /\ asks' = {}
      /\ UNCHANGED <<turns, process, stopped, msg, conn, retires, opened, latest>>
  BY DEF Stop, Cut
<1>2. capture \in CutRecs
  BY DEF ThreadInv, Typed, TypeOK, CutRecs, Spots
<1> HIDE DEF capture
<1>3. s \notin Messages
  BY ThreadAssumption
<1>4. cut' \in [Messages \cup Stops -> CutRecs] /\ \A n \in Messages : cut'[n] = cut[n]
  BY <1>1, <1>2, <1>3, TypesOf
<1>5. log' \in [Ids -> LogRecs] /\ LogKept
  BY <1>1, LogSteps
<1> QED
  BY <1>1, <1>4, <1>5, TypesOf, SameConns, ProcessStep DEF process

LEMMA ConnectedStep == ASSUME ThreadInv, NEW c \in Conns, Connected(c) PROVE ThreadInv'
<1> DEFINE ready == [conn[c] EXCEPT !.phase = "ready"]
<1>1. /\ conn[c].phase = "starting" /\ conn' = [conn EXCEPT ![c] = ready] /\ session' = TRUE
      /\ UNCHANGED <<turns, live, child, retiring, stopped, asks, msg, cut, retires, opened, log, latest>>
  BY DEF Connected
<1>2. ready \in ConnRecs /\ ready.phase = "ready" /\ ready.alive = conn[c].alive /\ ready.run = conn[c].run
  <2>1. conn[c] \in ConnRecs
    BY TypesOf
  <2> QED
    BY <2>1 DEF ConnRecs
<1> HIDE DEF ready
<1>3. conn' \in [Conns -> ConnRecs] /\ \A d \in Conns : Aging(d)
  BY <1>1, <1>2, TypesOf DEF Aging
<1>4. log' \in [Ids -> LogRecs] /\ LogKept
  BY <1>1, LogSteps
<1> QED
  BY <1>1, <1>3, <1>4, TypesOf, ProcessStep

LEMMA ConnectFailsStep == ASSUME ThreadInv, NEW c \in Conns, ConnectFails(c) PROVE ThreadInv'
<1> DEFINE failed == [conn[c] EXCEPT !.phase = "failed"]
<1>1. /\ conn[c].phase \in {"preparing", "starting"} /\ conn' = [conn EXCEPT ![c] = failed]
      /\ \/ live' = NoConn /\ session' = FALSE /\ log' = ErrorLogged
         \/ UNCHANGED <<live, session, log>>
      /\ UNCHANGED <<turns, child, retiring, stopped, asks, msg, cut, retires, opened, latest>>
  BY DEF ConnectFails
<1>2. failed \in ConnRecs /\ failed.phase = "failed" /\ failed.alive = conn[c].alive /\ failed.run = conn[c].run
  <2>1. conn[c] \in ConnRecs
    BY TypesOf
  <2> QED
    BY <2>1 DEF ConnRecs
<1> HIDE DEF failed
<1>3. conn' \in [Conns -> ConnRecs] /\ \A d \in Conns : Aging(d)
  BY <1>1, <1>2, TypesOf DEF Aging
<1>4. log' \in [Ids -> LogRecs] /\ LogKept
  BY <1>1, LogSteps
<1>5. session' \in BOOLEAN
  BY <1>1, TypesOf
<1> QED
  BY <1>1, <1>3, <1>4, <1>5, TypesOf, ProcessStep

LEMMA DiesStep == ASSUME ThreadInv, NEW c \in Conns, Dies(c) PROVE ThreadInv'
<1>1. conn' = [conn EXCEPT ![c] = Dead(c)] /\ UNCHANGED <<turns, process, stopped, asks, msg, cut, retires, opened, log, latest>>
  BY DEF Dies
<1>2. conn' \in [Conns -> ConnRecs] /\ \A d \in Conns : Aging(d)
  BY <1>1, DeadOf, TypesOf DEF Aging
<1>3. log' \in [Ids -> LogRecs] /\ LogKept
  BY <1>1, LogSteps
<1> QED
  BY <1>1, <1>2, <1>3, TypesOf, ProcessStep DEF process

LEMMA ExitHeardStep == ASSUME ThreadInv, ExitHeard PROVE ThreadInv'
<1>1. /\ child' = NoConn /\ live' = NoConn /\ session' = FALSE /\ asks' = {} /\ log' = ErrorLogged
      /\ UNCHANGED <<turns, retiring, stopped, msg, cut, conn, retires, opened, latest>>
  BY DEF ExitHeard
<1>2. log' \in [Ids -> LogRecs] /\ LogKept
  BY <1>1, LogSteps
<1> QED
  BY <1>1, <1>2, TypesOf, SameConns, ProcessStep

LEMMA QuietSteps ==
  ASSUME ThreadInv,
         \/ AnswerAsk \/ StopThread \/ \E u \in Uses : UseEnds(u)
         \/ UNCHANGED vars
  PROVE  ThreadInv'
<1>1. /\ UNCHANGED <<turns, live, child, retiring, msg, cut, conn, retires, opened, log, latest>>
      /\ asks' \subseteq asks /\ stopped' \in {"no", "stopping", "stopped"} /\ (stopped' = "no" => stopped = "no")
      /\ session' \in BOOLEAN
  BY TypesOf DEF AnswerAsk, StopThread, UseEnds, vars, process, turns
<1>2. log' \in [Ids -> LogRecs] /\ LogKept
  BY <1>1, LogSteps
<1> QED
  BY <1>1, <1>2, TypesOf, SameConns, ProcessStep

LEMMA StopChildStep == ASSUME ThreadInv, StopChild PROVE ThreadInv'
<1>1. /\ conn' = [c \in Conns |-> IF c = child THEN Dead(c) ELSE conn[c]] /\ stopped' = "stopped"
      /\ UNCHANGED <<turns, process, asks, msg, cut, retires, opened, log, latest>>
  BY DEF StopChild
<1>2. conn' \in [Conns -> ConnRecs] /\ \A d \in Conns : Aging(d)
  BY <1>1, DeadOf, TypesOf DEF Aging
<1>3. log' \in [Ids -> LogRecs] /\ LogKept
  BY <1>1, LogSteps
<1> QED
  BY <1>1, <1>2, <1>3, TypesOf, ProcessStep DEF process

LEMMA CancelledStep == ASSUME ThreadInv, NEW a \in Messages \cup Stops, Cancelled(a) PROVE ThreadInv'
<1>1. /\ cut[a].step = "asking" /\ UNCHANGED <<turns, process, stopped, asks, retires, opened, log, latest>>
      /\ \/ conn' = conn
         \/ \E c \in Conns : conn' = [conn EXCEPT ![c].told = cut[a].id]
  BY TypesOf DEF Cancelled, Spots
<1>2. conn' \in [Conns -> ConnRecs] /\ \A d \in Conns : Aging(d)
  <2>1. CASE conn' = conn
    BY <2>1, TypesOf, SameConns
  <2>2. ASSUME NEW c \in Conns, conn' = [conn EXCEPT ![c].told = cut[a].id]
        PROVE  conn' \in [Conns -> ConnRecs] /\ \A d \in Conns : Aging(d)
    <3> DEFINE told == [conn[c] EXCEPT !.told = cut[a].id]
    <3>1. conn[c] \in ConnRecs /\ cut[a].id \in Ids \cup {None}
      BY TypesOf DEF CutRecs
    <3>2. told \in ConnRecs /\ told.phase = conn[c].phase /\ told.alive = conn[c].alive /\ told.run = conn[c].run
      BY <3>1 DEF ConnRecs
    <3>3. conn' = [conn EXCEPT ![c] = told]
      BY <2>2
    <3> HIDE DEF told
    <3> QED
      BY <3>2, <3>3, TypesOf DEF Aging
  <2> QED
    BY <1>1, <2>1, <2>2
<1>3. log' \in [Ids -> LogRecs] /\ LogKept
  BY <1>1, LogSteps
<1>4. ASSUME NEW step \in {"racing", "done"}, cut' = [cut EXCEPT ![a].step = step]
      PROVE  /\ cut' \in [Messages \cup Stops -> CutRecs] /\ cut'[a].step = step
             /\ \A n \in (Messages \cup Stops) \ {a} : cut'[n] = cut[n]
  <2> DEFINE moved == [cut[a] EXCEPT !.step = step]
  <2>1. moved \in CutRecs /\ moved.step = step
    <3>1. cut[a] \in CutRecs
      BY TypesOf
    <3> QED
      BY <3>1 DEF CutRecs
  <2>2. cut' = [cut EXCEPT ![a] = moved]
    BY <1>4
  <2> HIDE DEF moved
  <2> QED
    BY <2>1, <2>2, TypesOf
<1>5. CASE a \in Messages
  <2> DEFINE moved == [msg[a] EXCEPT !.at = "racing"]
  <2>1. cut' = [cut EXCEPT ![a].step = "racing"] /\ msg' = [msg EXCEPT ![a] = moved]
    BY <1>5 DEF Cancelled
  <2>2. moved \in MsgRecs /\ moved.at = "racing" /\ moved.home = msg[a].home
    <3>1. msg[a] \in MsgRecs /\ "racing" \in Places
      BY <1>5 DEF ThreadInv, Typed, Places, Steering
    <3> HIDE DEF Places
    <3> QED
      BY <3>1 DEF MsgRecs
  <2> HIDE DEF moved
  <2>3. /\ msg' \in [Messages -> MsgRecs] /\ msg'[a].at = "racing" /\ msg'[a].home = msg[a].home
        /\ \A n \in Messages \ {a} : msg'[n] = msg[n]
    BY <1>5, <2>1, <2>2 DEF ThreadInv, Typed
  <2>4. /\ cut' \in [Messages \cup Stops -> CutRecs] /\ cut'[a].step = "racing"
        /\ \A n \in (Messages \cup Stops) \ {a} : cut'[n] = cut[n]
    BY <1>4, <2>1
  <2>5. msg[a].at = "cancelling"
    BY <1>1, <1>5 DEF ThreadInv, Asking
  <2>6. Typed'
    BY <1>1, <1>2, <2>3, <2>4 DEF ThreadInv, Typed, TypeOK, turns, process
  <2>7. \A n \in Messages : Steady(n)
    <3>1. \A n \in Messages \ {a} : Steady(n)
      BY <2>3 DEF Steady, Waits
    <3>2. Steady(a)
      BY <1>5, <2>3, <2>5 DEF Steady, Waits, Working, Steering
    <3> QED
      BY <3>1, <3>2
  <2>8. Serial(msg)' /\ Lined(msg, queue)' /\ Open(msg, log)'
    BY <1>1, <1>3, <2>7, TurnFrame DEF turns
  <2>9. Asking(msg)'
    BY <2>3, <2>4 DEF ThreadInv, Asking
  <2>10. Serving'
    <3>1. \A n \in Messages : msg'[n].at \in Own => msg[n].at \in Own /\ msg'[n].on = msg[n].on
      BY <2>3 DEF Own
    <3>2. \A n \in Messages : msg'[n].at \in {"connecting", "prompting"} =>
                              msg[n].at \in {"connecting", "prompting"} /\ msg'[n].on = msg[n].on
      BY <2>3
    <3> QED
      BY <1>1, <1>2, <3>1, <3>2, ServeFrame DEF turns, process
  <2> QED
    BY <2>6, <2>8, <2>9, <2>10 DEF ThreadInv
<1>6. CASE a \notin Messages
  <2>1. cut' = [cut EXCEPT ![a].step = "done"] /\ UNCHANGED msg
    BY <1>6 DEF Cancelled
  <2>2. cut' \in [Messages \cup Stops -> CutRecs] /\ \A n \in Messages : cut'[n] = cut[n]
    BY <1>4, <1>6, <2>1
  <2> QED
    BY <1>1, <1>2, <1>3, <2>1, <2>2, TypesOf, ProcessStep DEF process
<1> QED
  BY <1>5, <1>6

\* What a step keeps that changes no turn, request, cancel or log.
LEMMA SameTurns ==
  ASSUME ThreadInv, UNCHANGED <<turns, stopped, msg, cut, opened, log, latest>>
  PROVE  Serial(msg)' /\ Lined(msg, queue)' /\ Open(msg, log)' /\ Asking(msg)'
<1>1. LogKept /\ \A n \in Messages : Steady(n)
  BY DEF LogKept, Steady, Waits
<1>2. Asking(msg)'
  BY DEF ThreadInv, Asking
<1> QED
  BY <1>1, <1>2, TurnFrame DEF turns

\* The process that starts carries the identity of the turn that runs.
LEMMA SpawnStep == ASSUME ThreadInv, NEW c \in Conns, Spawn(c) PROVE ThreadInv'
<1> DEFINE started == [conn[c] EXCEPT !.phase = "starting", !.run = running, !.alive = TRUE]
<1>1. /\ conn[c].phase = "preparing" /\ conn' = [conn EXCEPT ![c] = started] /\ child' = c
      /\ UNCHANGED <<turns, live, session, retiring, stopped, asks, msg, cut, retires, opened, log, latest>>
  BY DEF Spawn
<1>2. started \in ConnRecs /\ started.phase = "starting" /\ started.run = running /\ started.alive
  <2>1. conn[c] \in ConnRecs /\ running \in Ids \cup {None}
    BY TypesOf DEF ThreadInv, Typed, TypeOK
  <2> QED
    BY <2>1 DEF ConnRecs
<1> HIDE DEF started
<1>3. conn' \in [Conns -> ConnRecs] /\ conn'[c] = started /\ \A d \in Conns \ {c} : conn'[d] = conn[d]
  BY <1>1, <1>2, TypesOf
<1>4. Typed'
  <2>1. TypeOK'
    BY <1>1 DEF ThreadInv, Typed, TypeOK, turns
  <2> QED
    BY <1>1, <1>3, <2>1 DEF ThreadInv, Typed, turns
<1>5. Serial(msg)' /\ Lined(msg, queue)' /\ Open(msg, log)' /\ Asking(msg)'
  BY <1>1, SameTurns
<1>6. Serving'
  <2>1. \A d \in Conns : conn'[d].phase \in {"none", "preparing"} => ~conn'[d].alive
    BY <1>2, <1>3 DEF ThreadInv, Serving
  <2>2. child' # NoConn
    BY <1>1 DEF Conns, NoConn
  <2>3. running' = conn'[child'].run
    BY <1>1, <1>2, <1>3 DEF turns
  <2>4. \A m \in Messages : msg'[m].at \in Own => \A d \in Reach(m)' : conn'[d].alive => conn'[d].run = IdOf[m]
    <3> SUFFICES ASSUME NEW m \in Messages, msg[m].at \in Own, NEW d \in Reach(m)', conn'[d].alive
                 PROVE  conn'[d].run = IdOf[m]
      BY <1>1
    <3>1. running = IdOf[m]
      BY DEF ThreadInv, Serial, Own, Working
    <3>2. CASE d = c
      BY <1>2, <1>3, <3>1, <3>2
    <3>3. CASE d # c
      <4>1. d \in Reach(m) /\ d \in Conns
        BY <1>1, <3>3 DEF Reach
      <4> QED
        BY <1>3, <3>3, <4>1 DEF ThreadInv, Serving
    <3> QED
      BY <3>2, <3>3
  <2>5. \A a \in asks' :
          conn'[a.by].phase = "ready" /\ (a.turn # None /\ conn'[a.by].run # None => a.turn = conn'[a.by].run)
    <3> SUFFICES ASSUME NEW a \in asks
                 PROVE  conn'[a.by].phase = "ready" /\ (a.turn # None /\ conn'[a.by].run # None => a.turn = conn'[a.by].run)
      BY <1>1
    <3>1. a.by \in Conns /\ conn[a.by].phase = "ready"
      BY DEF ThreadInv, Typed, AskRecs, Serving
    <3>2. a.by # c
      BY <1>1, <3>1
    <3> QED
      BY <1>3, <3>1, <3>2 DEF ThreadInv, Serving
  <2>6. \A m \in Messages : msg'[m].at \in {"connecting", "prompting"} => msg'[m].on \in Conns
    BY <1>1 DEF ThreadInv, Serving
  <2> QED
    BY <2>1, <2>2, <2>3, <2>4, <2>5, <2>6 DEF Serving
<1> QED
  BY <1>4, <1>5, <1>6 DEF ThreadInv

\* The process that asks serves the turn that runs.
LEMMA AskStep == ASSUME ThreadInv, NEW c \in Conns, Ask(c) PROVE ThreadInv'
<1>1. /\ conn[c].phase = "ready" /\ child = c /\ asks' = {[by |-> c, turn |-> running]}
      /\ UNCHANGED <<turns, process, stopped, msg, cut, conn, retires, opened, log, latest>>
  BY DEF Ask, Hears
<1>2. asks' \in SUBSET AskRecs
  BY <1>1 DEF ThreadInv, Typed, TypeOK, AskRecs
<1>3. Typed'
  BY <1>1, <1>2 DEF ThreadInv, Typed, TypeOK, turns, process
<1>4. Serial(msg)' /\ Lined(msg, queue)' /\ Open(msg, log)' /\ Asking(msg)'
  BY <1>1, SameTurns
<1>5. Serving'
  <2>1. \A a \in asks' :
          conn'[a.by].phase = "ready" /\ (a.turn # None /\ conn'[a.by].run # None => a.turn = conn'[a.by].run)
    <3>1. conn[c].run # None => running = conn[c].run
      BY <1>1 DEF ThreadInv, Serving, Conns, NoConn
    <3> QED
      BY <1>1, <3>1
  <2> QED
    BY <1>1, <2>1 DEF ThreadInv, Serving, Reach, turns, process
<1> QED
  BY <1>3, <1>4, <1>5 DEF ThreadInv

\* A use of the process outside a turn connects, and changes nothing else that the invariant reads.
LEMMA UseStep ==
  ASSUME ThreadInv, NEW u \in Uses, UseStarts(u) \/ UseEnsures(u)
  PROVE  ThreadInv'
<1>1. /\ UNCHANGED <<turns, child, retiring, stopped, asks, msg, cut, retires, opened, log, latest>>
      /\ UNCHANGED <<live, session, conn>> \/ \E c \in Conns : Ensured(c)
  BY DEF UseStarts, UseEnsures
<1>2. ASSUME UNCHANGED <<live, session, conn>> PROVE ThreadInv'
  <2>1. log' \in [Ids -> LogRecs] /\ LogKept
    BY <1>1, LogSteps
  <2> QED
    BY <1>1, <1>2, <2>1, TypesOf, SameConns, ProcessStep
<1>3. ASSUME NEW c \in Conns, Ensured(c) PROVE ThreadInv'
  <2>1. live' = c /\ session' \in BOOLEAN /\ conn' \in [Conns -> ConnRecs]
    BY <1>3, EnsuredStep
  <2>2. Typed'
    <3>1. TypeOK'
      BY <1>1, <2>1 DEF ThreadInv, Typed, TypeOK, turns
    <3> QED
      BY <1>1, <2>1, <3>1 DEF ThreadInv, Typed, turns
  <2>3. Serial(msg)' /\ Lined(msg, queue)' /\ Open(msg, log)' /\ Asking(msg)'
    BY <1>1, SameTurns
  <2>4. Serving'
    <3>1. \A m \in Messages : msg'[m].at \in {"connecting", "prompting"} => msg'[m].on \in Conns
      BY <1>1 DEF ThreadInv, Serving
    <3> QED
      BY <1>1, <1>3, <3>1, EnsuredServe DEF turns
  <2> QED
    BY <2>2, <2>3, <2>4 DEF ThreadInv
<1> QED
  BY <1>1, <1>2, <1>3

\* A restart settles what the log has open: the newest prompt has failed, what was queued is dropped.
LEMMA RecoveredOf ==
  ASSUME ThreadInv
  PROVE  Recovered \in [Ids -> LogRecs] /\ \A i \in Ids : ~Idle(Recovered, i) /\ ~Begun(Recovered, i)
<1> DEFINE ended(i) == [log[i] EXCEPT !.end = "ended"]
           dropped(i) == [log[i] EXCEPT !.end = "dropped"]
<1>1. ASSUME NEW i \in Ids
      PROVE  /\ Recovered[i] \in LogRecs
             /\ ~Idle(Recovered, i) /\ ~Begun(Recovered, i)
  <2>1. log[i] \in LogRecs
    BY DEF ThreadInv, Typed
  <2>2. /\ ended(i) \in LogRecs /\ ended(i).end = "ended"
        /\ dropped(i) \in LogRecs /\ dropped(i).end = "dropped"
    BY <2>1 DEF LogRecs
  <2>3. log[i].prompts \in Nat
    BY <2>1 DEF LogRecs
  <2>4. Begun(log, i) => latest = i
    BY DEF ThreadInv, Open, Newest
  <2>5. Recovered[i] = IF i = latest /\ log[i].end = "none" THEN ended(i)
                       ELSE IF log[i].queued /\ log[i].prompts = 0 /\ log[i].end = "none" THEN dropped(i)
                       ELSE log[i]
    BY DEF Recovered
  <2> HIDE DEF ended, dropped
  <2>6. CASE i = latest /\ log[i].end = "none"
    BY <2>2, <2>5, <2>6 DEF Idle, Begun
  <2>7. CASE ~(i = latest /\ log[i].end = "none") /\ Idle(log, i)
    BY <2>2, <2>5, <2>7 DEF Idle, Begun
  <2>8. CASE ~(i = latest /\ log[i].end = "none") /\ ~Idle(log, i)
    <3>1. Recovered[i] = log[i]
      BY <2>5, <2>8 DEF Idle
    <3>2. ~Begun(log, i)
      BY <2>4, <2>8 DEF Begun
    <3> QED
      BY <2>1, <2>8, <3>1, <3>2 DEF Idle, Begun
  <2> QED
    BY <2>6, <2>7, <2>8
<1>2. Recovered = [i \in Ids |-> Recovered[i]]
  BY DEF Recovered
<1> QED
  BY <1>1, <1>2

LEMMA NoneOf ==
  /\ NoCut \in CutRecs /\ NoCut.step = "none" /\ NoProcess \in ConnRecs /\ ~NoProcess.alive /\ NoProcess.run = None
  /\ [busy |-> FALSE, child |-> NoConn] \in RetireRecs /\ Unlogged \in LogRecs
  /\ Unlogged.queued = FALSE /\ Unlogged.prompts = 0
BY DEF NoCut, CutRecs, NoProcess, ConnRecs, RetireRecs, Unlogged, LogRecs, Spots

\* A thread of which nothing runs, with a log that has nothing open.
LEMMA QuietInv ==
  ASSUME running' = None, queue' = <<>>, turn' = None, live' = NoConn, child' = NoConn, session' = FALSE,
         retiring' = NoToken, stopped' = "no", asks' = {}, opened' = {}, latest' \in Ids \cup {None},
         msg' \in [Messages -> MsgRecs], \A m \in Messages : msg'[m].at \in {"unsent", "done"},
         cut' = [a \in Messages \cup Stops |-> NoCut], conn' = [c \in Conns |-> NoProcess],
         retires' = [k \in Tokens |-> [busy |-> FALSE, child |-> NoConn]],
         log' \in [Ids -> LogRecs], \A i \in Ids : ~Idle(log, i)' /\ ~Begun(log, i)'
  PROVE  ThreadInv'
<1>1. Typed'
  <2>1. TypeOK'
    <3>1. <<>> \in Seq(Messages)
      OBVIOUS
    <3>2. queue' \in Seq(Messages)
      BY <3>1
    <3>3. running' = None => ~(running' # None)
      OBVIOUS
    <3> QED
      BY <3>2, <3>3, Zenon DEF TypeOK
  <2>2. /\ cut' \in [Messages \cup Stops -> CutRecs] /\ conn' \in [Conns -> ConnRecs]
        /\ retires' \in [Tokens -> RetireRecs]
    BY NoneOf
  <2> QED
    BY <2>1, <2>2 DEF Typed
<1>2. Serial(msg)' /\ Asking(msg)'
  BY NoneOf DEF Serial, Asking, Working
<1>3. Lined(msg, queue)'
  BY DEF Lined
<1>4. Open(msg, log)'
  BY DEF Open, Waited, Newest, Ended
<1>5. Serving'
  BY NoneOf DEF Serving, Own
<1> QED
  BY <1>1, <1>2, <1>3, <1>4, <1>5 DEF ThreadInv

LEMMA RestartStep == ASSUME ThreadInv, Restart PROVE ThreadInv'
<1>1. msg' \in [Messages -> MsgRecs] /\ \A m \in Messages : msg'[m].at \in {"unsent", "done"}
  BY DoneOf DEF Restart
<1>2. log' = Recovered /\ latest' \in Ids \cup {None}
  BY DEF Restart, ThreadInv, Typed
<1>3. log' \in [Ids -> LogRecs] /\ \A i \in Ids : ~Idle(log, i)' /\ ~Begun(log, i)'
  BY <1>2, RecoveredOf DEF Idle, Begun
<1> QED
  BY <1>1, <1>2, <1>3, QuietInv DEF Restart

LEMMA ThreadInit == ASSUME Init PROVE ThreadInv
<1>1. Typed
  <2>1. TypeOK
    <3>1. <<>> \in Seq(Messages)
      OBVIOUS
    <3> QED
      BY <3>1, Zenon DEF Init, Quiet, TypeOK
  <2>2. /\ msg \in [Messages -> MsgRecs] /\ cut \in [Messages \cup Stops -> CutRecs] /\ conn \in [Conns -> ConnRecs]
        /\ retires \in [Tokens -> RetireRecs] /\ log \in [Ids -> LogRecs]
    BY NoneOf, DoneOf DEF Init, Quiet
  <2> QED
    BY <2>1, <2>2 DEF Init, Quiet, Typed
<1>2. Serial(msg) /\ Asking(msg) /\ Lined(msg, queue) /\ Serving
  BY NoneOf, DoneOf DEF Init, Quiet, Serial, Asking, Lined, Serving, Working, Own
<1>3. Open(msg, log)
  BY NoneOf, DoneOf DEF Init, Quiet, Open, Waited, Newest, Ended, Idle, Begun
<1> QED
  BY <1>1, <1>2, <1>3 DEF ThreadInv

LEMMA ThreadStep == ASSUME ThreadInv, [Next]_vars PROVE ThreadInv'
<1>1. ASSUME NEW m \in Messages, NEW d \in {"steer", "queue"}, Send(m, d) PROVE ThreadInv'
  BY <1>1, SendStep
<1>2. ASSUME NEW m \in Messages,
             \/ LearnEnsures(m) \/ Learned(m) \/ QueueSteer(m) \/ QueueDrop(m)
             \/ CancelThrows(m) \/ Outlived(m) \/ Interrupted(m)
      PROVE  ThreadInv'
  BY <1>2, LearnEnsuresStep, LearnedStep, QueueSteerStep, QueueDropStep, CancelThrowsStep, OutlivedStep, InterruptedStep
<1>3. ASSUME NEW m \in Messages, TurnStep(m) PROVE ThreadInv'
  BY <1>3, TurnSettledStep, TurnWarmedStep, TurnCooledStep, PrepareFailsStep, PreparedStep, TurnPromptsStep,
     TurnAnsweredStep, TurnAfterStep, TurnOverStep DEF TurnStep
<1>4. ASSUME NEW s \in Stops, Stop(s) PROVE ThreadInv'
  BY <1>4, StopStep
<1>5. ASSUME NEW a \in Messages \cup Stops, Cancelled(a) PROVE ThreadInv'
  BY <1>5, CancelledStep
<1>6. ASSUME NEW u \in Uses, UseStarts(u) \/ UseEnsures(u) \/ UseEnds(u) PROVE ThreadInv'
  BY <1>6, UseStep, QuietSteps
<1>7. ASSUME NEW c \in Conns, Spawn(c) \/ Connected(c) \/ ConnectFails(c) \/ Dies(c) \/ Ask(c) PROVE ThreadInv'
  BY <1>7, SpawnStep, ConnectedStep, ConnectFailsStep, DiesStep, AskStep
<1>8. ASSUME NEW k \in Tokens, Retired(k) PROVE ThreadInv'
  BY <1>8, RetiredStep
<1>9. ASSUME IdleRetire \/ ExitHeard \/ AnswerAsk \/ StopThread \/ StopChild \/ Restart \/ UNCHANGED vars PROVE ThreadInv'
  BY <1>9, IdleRetireStep, ExitHeardStep, QuietSteps, StopChildStep, RestartStep
<1> QED
  BY <1>1, <1>2, <1>3, <1>4, <1>5, <1>6, <1>7, <1>8, <1>9 DEF Next

THEOREM ThreadInvariant == Spec => []ThreadInv
BY ThreadInit, ThreadStep, PTL DEF Spec

-----------------------------------------------------------------------------
(* What the thread promises. *)

\* run(), steer() and drain() run one turn at a time, whatever prompts, retries, queue steers, cancels and
\* restarts overlap, and t.running names its prompt.
THEOREM OneTurnAtATime == Spec => []OneTurn
<1>1. ThreadInv => OneTurn
  BY DEF ThreadInv, Typed, OneTurn, Serial
<1> QED
  BY <1>1, ThreadInvariant, PTL

\* A prompt goes only to a process that connect() gave the identity of its own turn, also when the process
\* was warmed by a model or trait request; and an open question is shown under no later turn.
THEOREM ProcessServesItsTurn == Spec => []OwnIdentity
<1>1. ThreadInv => OwnIdentity
  BY DEF ThreadInv, Serving, OwnIdentity, Own, Reach
<1> QED
  BY <1>1, ThreadInvariant, PTL

LEMMA WaitsInOnePlace ==
  ASSUME ThreadInv, NEW m \in Messages, Waits(msg, m)
  PROVE  InOnePlace(IdOf[m])
<1>1. queue \in Seq(Messages)
  BY DEF ThreadInv, Typed, TypeOK
<1>2. CASE msg[m].at = "queued"
  <2>1. PICK k \in DOMAIN queue : queue[k] = m
    BY <1>2 DEF ThreadInv, Lined
  <2>2. {j \in DOMAIN queue : queue[j] = m} = {k}
    BY <2>1 DEF ThreadInv, Lined
  <2>3. Cardinality({k}) = 1
    BY FS_Singleton
  <2> QED
    BY <2>2, <2>3 DEF InOnePlace
<1>3. CASE msg[m].at \in Steering /\ msg[m].home > 0
  <2>1. ~Contains(queue, m)
    BY <1>1, <1>3 DEF ThreadInv, Lined, Contains, Steering
  <2> QED
    BY <1>3, <2>1 DEF InOnePlace
<1> QED
  BY <1>2, <1>3 DEF Waits

\* Every prompt of the transcript is accounted for, also after steers that gave up, drops and a restart's
\* recovery: one that waits is in the queue once or in the one steer that took it out, one that began is the
\* running turn or has its end in the log.
THEOREM PromptsAreAccountedFor == Spec => []Accounted
<1>1. ASSUME ThreadInv PROVE Accounted
  <2> SUFFICES ASSUME NEW i \in Ids, stopped = "no", log[i].end = "none"
               PROVE  /\ log[i].queued /\ log[i].prompts = 0 => InOnePlace(i)
                      /\ log[i].prompts > 0 => running = i
    BY DEF Accounted
  <2>1. ASSUME log[i].queued, log[i].prompts = 0 PROVE InOnePlace(i)
    <3>1. PICK m \in Messages : IdOf[m] = i /\ Waits(msg, m)
      BY <1>1, <2>1 DEF ThreadInv, Open, Waited, Idle
    <3> QED
      BY <1>1, <3>1, WaitsInOnePlace
  <2>2. log[i].prompts > 0 => running = i
    BY <1>1 DEF ThreadInv, Open, Newest, Begun
  <2> QED
    BY <2>1, <2>2
<1> QED
  BY <1>1, ThreadInvariant, PTL
-----------------------------------------------------------------------------
(* The promise of the routes: TurnLedger. *)

\* An id of which no second request can be admitted: what has been admitted under it and did not run yet,
\* and what is about to be admitted, is one message, and the log says that it waits or does not know it.
Single(i) == i \notin Twice
Pending(ms, m) == ms[m].at \in Steering \cup {"queued", "learning"}
Unheard(i) == ~log[i].queued /\ log[i].prompts = 0
Alone(ms, m) ==
  /\ IF Waits(ms, m) THEN Idle(log, IdOf[m]) ELSE Unheard(IdOf[m])
  /\ \A n \in Messages : Pending(ms, n) /\ IdOf[n] = IdOf[m] => n = m

\* Of any id: what waits is logged, and a second request finds the run of the first open; a turn
\* that has not come to its prompt sends the first prompt of its id.
Early == Working \ {"prompting", "after"}
Once(ms) ==
  /\ \A m \in Messages : Pending(ms, m) /\ Single(IdOf[m]) => Alone(ms, m)
  /\ \A m \in Messages : ms[m].at = "learning" => m \in Attached
  /\ \A m \in Messages : Waits(ms, m) => log[IdOf[m]].queued
  /\ \A m \in Messages : Pending(ms, m) /\ log[IdOf[m]].prompts > 0 => Reused(IdOf[m])
  /\ \A m \in Messages : ms[m].at \in Early => log[IdOf[m]].sent = 0

\* What ended was queued or ran, and so did what runs, what is the newest and what was sent.
Heard ==
  /\ \A i \in Ids : log[i].end # "none" => ~Unheard(i)
  /\ \A i \in Ids : log[i].sent \in {0, 1} /\ (log[i].sent = 1 => log[i].prompts > 0)
  /\ running # None => log[running].prompts > 0
  /\ latest # None => log[latest].prompts > 0

LedgerInv == ThreadInv /\ Once(msg) /\ Heard

\* What a step, other than a restart, may log of a prompt.
Line(ms, i) == \E m \in Messages : IdOf[m] = i /\ ms[m].at = "queued"
Starts(i) == running = None /\ stopped = "no" /\ running' = i /\ log'[i].prompts = log[i].prompts + 1
Logged(i) ==
  /\ log[i].queued => log'[i].queued
  /\ log'[i].queued => log[i].queued \/ Line(msg', i)
  /\ log'[i].prompts = log[i].prompts \/ Starts(i)
  /\ running' = i => running = i \/ Starts(i)
  /\ Starts(i) /\ Single(i) => log[i].prompts = 0 /\ log[i].end = "none"
  /\ log'[i].sent = log[i].sent \/ (running = i /\ running' = i /\ log[i].sent = 0 /\ log'[i].sent = 1)
  /\ log[i].end # "none" => log'[i].end # "none"
  /\ log'[i].end # "none" => log[i].end # "none" \/ running = i \/ Line(msg, i) \/ Starts(i)
  /\ running = i /\ running' # i => log'[i].end # "none" \/ stopped # "no"

Promised == Once(msg)' /\ Heard' /\ \A i \in Ids : Logged(i)

\* An id is answered as queued when a message of it waits in the queue.
LEMMA LineOf ==
  ASSUME NEW ms, NEW q \in Seq(Messages), Lined(ms, q), NEW i \in Ids
  PROVE  (\E k \in DOMAIN q : IdOf[q[k]] = i) <=> Line(ms, i)
<1>1. \A k \in DOMAIN q : q[k] \in Messages
  OBVIOUS
<1>2. ASSUME NEW k \in DOMAIN q, IdOf[q[k]] = i PROVE Line(ms, i)
  BY <1>1, <1>2 DEF Lined, Line
<1>3. ASSUME Line(ms, i) PROVE \E k \in DOMAIN q : IdOf[q[k]] = i
  <2>1. PICK m \in Messages : IdOf[m] = i /\ ms[m].at = "queued"
    BY <1>3 DEF Line
  <2> QED
    BY <2>1 DEF Lined
<1> QED
  BY <1>2, <1>3

LEMMA LineIdle ==
  ASSUME LedgerInv, NEW i \in Ids, Line(msg, i), Single(i)
  PROVE  log[i].queued /\ log[i].prompts = 0 /\ log[i].end = "none"
<1>1. PICK m \in Messages : IdOf[m] = i /\ msg[m].at = "queued"
  BY DEF Line
<1>2. Pending(msg, m) /\ Waits(msg, m)
  BY <1>1 DEF Pending, Waits
<1> QED
  BY <1>1, <1>2 DEF LedgerInv, Once, Alone, Idle

LEMMA LineIdleNext ==
  ASSUME LedgerInv', NEW i \in Ids, Line(msg', i), Single(i)
  PROVE  log'[i].queued /\ log'[i].prompts = 0 /\ log'[i].end = "none"
<1>1. PICK m \in Messages : IdOf[m] = i /\ msg'[m].at = "queued"
  BY DEF Line
<1>2. Pending(msg, m)' /\ Waits(msg, m)'
  BY <1>1 DEF Pending, Waits
<1>3. Alone(msg, m)'
  BY <1>1, <1>2 DEF LedgerInv, Once, Single, Twice
<1> QED
  BY <1>1, <1>2, <1>3 DEF Alone, Idle

\* The answers and the log move by the promise, for each id, when the step logs what a step may log.
LEMMA MoveOf ==
  ASSUME LedgerInv, LedgerInv', NEW i \in Ids, Logged(i)
  PROVE  Ledger!Move(i)
<1> DEFINE s == TurnState[i]
           t == Told[i]
           sn == TurnState'[i]
           tn == Told'[i]
<1>1. /\ s = IF running = i THEN "running" ELSE IF Line(msg, i) THEN "queued"
              ELSE IF log[i].end # "none" THEN "settled" ELSE "unknown"
      /\ sn = IF running' = i THEN "running" ELSE IF Line(msg', i) THEN "queued"
              ELSE IF log'[i].end # "none" THEN "settled" ELSE "unknown"
  <2>1. queue \in Seq(Messages) /\ Lined(msg, queue) /\ queue' \in Seq(Messages) /\ Lined(msg', queue')
    BY DEF LedgerInv, ThreadInv, Typed, TypeOK, Lined
  <2>2. /\ (\E k \in DOMAIN queue : IdOf[queue[k]] = i) <=> Line(msg, i)
        /\ (\E k \in DOMAIN queue' : IdOf[queue'[k]] = i) <=> Line(msg', i)
    BY <2>1, LineOf
  <2> QED
    BY <2>2 DEF TurnState
<1>2. /\ t = IF log[i].sent = 1 THEN "sent" ELSE IF log[i].prompts > 0 THEN "begun"
              ELSE IF log[i].queued THEN "waiting" ELSE "new"
      /\ tn = IF log'[i].sent = 1 THEN "sent" ELSE IF log'[i].prompts > 0 THEN "begun"
              ELSE IF log'[i].queued THEN "waiting" ELSE "new"
  <2>1. log[i].sent \in {0, 1} /\ log'[i].sent \in {0, 1}
    BY DEF LedgerInv, Heard
  <2>2. ~(log[i].sent > 1) /\ ~(log'[i].sent > 1)
    BY <2>1
  <2> QED
    BY <2>2 DEF Told
<1>3. /\ log[i].prompts \in Nat /\ log'[i].prompts \in Nat
      /\ log[i].sent \in {0, 1} /\ (log[i].sent = 1 => log[i].prompts > 0)
      /\ log'[i].sent \in {0, 1} /\ (log'[i].sent = 1 => log'[i].prompts > 0)
      /\ running = i => log[i].prompts > 0
      /\ running' = i => log'[i].prompts > 0
      /\ log[i].end # "none" => log[i].queued \/ log[i].prompts > 0
      /\ running # None => running \in Ids
      /\ i # None
  BY ThreadAssumption DEF LedgerInv, Heard, ThreadInv, Typed, TypeOK, LogRecs, Unheard
<1>4. ASSUME Starts(i) PROVE Ledger!Idle /\ Ledger!Only(i)
  <2>1. running = None /\ stopped = "no" /\ running' = i /\ None \notin Ids
    BY <1>4, ThreadAssumption DEF Starts
  <2>2. \A j \in Ids : TurnState[j] # "running"
    BY <2>1 DEF TurnState
  <2>3. TurnState'[i] = "running" /\ \A j \in Ids : TurnState'[j] = "running" => j = i
    BY <2>1 DEF TurnState
  <2> QED
    BY <2>1, <2>2, <2>3 DEF Ledger!Idle, Ledger!Only
<1>5. CASE Single(i)
  <2>1. /\ Line(msg, i) => log[i].queued /\ log[i].prompts = 0 /\ log[i].end = "none"
        /\ Line(msg', i) => log'[i].queued /\ log'[i].prompts = 0 /\ log'[i].end = "none"
    BY <1>5, LineIdle, LineIdleNext
  <2>2. CASE Starts(i)
    <3>1. /\ log[i].prompts = 0 /\ log[i].end = "none" /\ log'[i].prompts > 0 /\ running' = i /\ running # i
          /\ log'[i].sent = 0 /\ log[i].sent = 0
      BY <1>3, <1>5, <2>2 DEF Logged, Starts
    <3>2. s \in {"unknown", "queued"} /\ t \in {"new", "waiting"} /\ sn = "running" /\ tn = "begun"
      BY <1>1, <1>2, <3>1
    <3>3. Ledger!Start(i)
      BY <1>4, <2>2, <3>2 DEF Ledger!Start, Ledger!Becomes
    <3> QED
      BY <3>3 DEF Ledger!Move
  <2>3. CASE ~Starts(i) /\ running = i /\ running' = i
    <3>1. log'[i].prompts = log[i].prompts /\ s = "running" /\ sn = "running"
      BY <1>1, <2>3 DEF Logged
    <3>2. tn = t \/ (t = "begun" /\ tn = "sent")
      BY <1>2, <1>3, <2>3, <3>1 DEF Logged
    <3>3. Ledger!Becomes(i, s, t) \/ Ledger!Send(i)
      BY <3>1, <3>2 DEF Ledger!Becomes, Ledger!Send
    <3> QED
      BY <3>3 DEF Ledger!Move
  <2>4. CASE ~Starts(i) /\ running = i /\ running' # i
    <3>1. log'[i].prompts = log[i].prompts /\ log'[i].sent = log[i].sent /\ log[i].prompts > 0
      BY <1>3, <2>4 DEF Logged
    <3>2. s = "running" /\ tn = t
      BY <1>1, <1>2, <2>4, <3>1
    <3>3. sn = "settled" \/ (sn = "unknown" /\ stopped # "no")
      BY <1>1, <2>1, <2>4, <3>1 DEF Logged
    <3>4. Ledger!Settle(i) \/ Ledger!Lose(i)
      BY <3>2, <3>3 DEF Ledger!Settle, Ledger!Lose, Ledger!Becomes
    <3> QED
      BY <3>4 DEF Ledger!Move
  <2>5. CASE ~Starts(i) /\ running # i
    <3>1. running' # i /\ log'[i].prompts = log[i].prompts /\ log'[i].sent = log[i].sent
      BY <2>5 DEF Logged
    <3>2. CASE Line(msg, i)
      <4>1. s = "queued" /\ t = "waiting" /\ tn = "waiting"
        BY <1>1, <1>2, <1>3, <2>1, <2>5, <3>1, <3>2 DEF Logged
      <4>2. sn \in {"queued", "settled", "unknown"}
        BY <1>1, <3>1
      <4>3. Ledger!Becomes(i, s, t) \/ Ledger!Settle(i) \/ Ledger!TakeOut(i)
        BY <4>1, <4>2 DEF Ledger!Becomes, Ledger!Settle, Ledger!TakeOut
      <4> QED
        BY <4>3 DEF Ledger!Move
    <3>3. CASE ~Line(msg, i) /\ Line(msg', i)
      <4>1. log[i].prompts = 0 /\ log[i].end = "none" /\ log'[i].queued
        BY <2>1, <3>1, <3>3 DEF Logged
      <4>2. s = "unknown" /\ sn = "queued" /\ t \in {"new", "waiting"} /\ tn = "waiting"
        BY <1>1, <1>2, <1>3, <2>5, <3>1, <3>3, <4>1
      <4>3. Ledger!Queue(i) \/ Ledger!PutBack(i)
        BY <4>2 DEF Ledger!Queue, Ledger!PutBack, Ledger!Becomes
      <4> QED
        BY <4>3 DEF Ledger!Move
    <3>4. CASE ~Line(msg, i) /\ ~Line(msg', i)
      <4>1. (log'[i].queued <=> log[i].queued) /\ (log'[i].end # "none" <=> log[i].end # "none")
        BY <2>5, <3>4 DEF Logged
      <4>2. sn = s /\ tn = t
        BY <1>1, <1>2, <2>5, <3>1, <3>4, <4>1
      <4>3. Ledger!Becomes(i, s, t)
        BY <4>2 DEF Ledger!Becomes
      <4> QED
        BY <4>3 DEF Ledger!Move
    <3> QED
      BY <3>2, <3>3, <3>4
  <2> QED
    BY <2>2, <2>3, <2>4, <2>5
<1>6. CASE ~Single(i)
  <2>1. i \in Twice /\ sn \in {"unknown", "queued", "running", "settled"}
    BY <1>1, <1>6 DEF Single
  <2>2. \/ tn = t
        \/ t = "new" /\ sn = "queued" /\ tn = "waiting"
        \/ Ledger!Idle /\ Ledger!Only(i) /\ t \in {"new", "waiting"} /\ tn = "begun"
        \/ s = "running" /\ t = "begun" /\ sn = "running" /\ tn = "sent"
    <3>1. CASE Starts(i)
      <4>1. log'[i].sent = log[i].sent /\ log'[i].prompts > 0
        BY <1>3, <3>1 DEF Logged, Starts
      <4> QED
        BY <1>2, <1>3, <1>4, <3>1, <4>1
    <3>2. CASE ~Starts(i) /\ log'[i].sent = log[i].sent
      <4>1. log'[i].prompts = log[i].prompts
        BY <3>2 DEF Logged
      <4>2. CASE log'[i].queued <=> log[i].queued
        BY <1>2, <3>2, <4>1, <4>2
      <4>3. CASE log'[i].queued /\ ~log[i].queued
        <5>1. Line(msg', i)
          BY <4>3 DEF Logged
        <5>2. running' = i => log[i].prompts > 0
          BY <1>3, <4>1
        <5> QED
          BY <1>1, <1>2, <1>3, <3>2, <4>1, <4>3, <5>1, <5>2
      <4> QED
        BY <4>2, <4>3 DEF Logged
    <3>3. CASE log'[i].sent # log[i].sent
      <4>1. running = i /\ running' = i /\ log[i].sent = 0 /\ log'[i].sent = 1
        BY <3>3 DEF Logged
      <4> QED
        BY <1>1, <1>2, <1>3, <4>1
    <3> QED
      BY <3>1, <3>2, <3>3
  <2>3. Ledger!Again(i)
    BY <2>1, <2>2 DEF Ledger!Again, Ledger!Becomes, Ledger!Send
  <2> QED
    BY <2>3 DEF Ledger!Move
<1> QED
  BY <1>5, <1>6

\* What a step logs changes the answer for no prompt: it may end the one that runs.
Spoken ==
  \A i \in Ids : /\ log'[i].queued = log[i].queued /\ log'[i].prompts = log[i].prompts /\ log'[i].sent = log[i].sent
                 /\ log'[i].end = log[i].end \/ (i = running /\ log'[i].end # "none")

\* A message keeps what it waits for, or waits no more, and does not go back before its prompt.
Still(ms, n) ==
  /\ Pending(ms, n) => Pending(msg, n) /\ (Waits(ms, n) <=> Waits(msg, n))
  /\ ms[n].at = "learning" => msg[n].at = "learning"
  /\ ms[n].at \in Early => msg[n].at \in Early

LEMMA WaitsPending == \A ms : \A m \in Messages : Waits(ms, m) => Pending(ms, m)
BY DEF Waits, Pending

\* What still waits among some messages waited before.
LEMMA OnceAmong == ASSUME LedgerInv, NEW ms, \A n \in Messages : Still(ms, n) PROVE Once(ms)
<1>1. ASSUME NEW m \in Messages, Pending(ms, m), Single(IdOf[m]) PROVE Alone(ms, m)
  <2>1. Alone(msg, m) /\ (Waits(ms, m) <=> Waits(msg, m))
    BY <1>1 DEF LedgerInv, Once, Still
  <2> QED
    BY <2>1 DEF Alone, Still
<1>2. \A m \in Messages : Waits(ms, m) => log[IdOf[m]].queued
  BY WaitsPending DEF LedgerInv, Once, Still
<1> QED
  BY <1>1, <1>2 DEF LedgerInv, Once, Still

\* A step that starts and ends no turn.
LEMMA PromiseKept ==
  ASSUME LedgerInv, UNCHANGED <<running, latest, opened>>, Spoken, Once(msg')
  PROVE  Promised
<1>1. \A i \in Ids : Unheard(i)' <=> Unheard(i)
  BY DEF Unheard, Spoken
<1>2. \A i \in Ids : i = running => log[i].prompts > 0
  BY ThreadAssumption DEF LedgerInv, Heard
<1>3. \A i \in Ids : Idle(log, i) => Idle(log, i)'
  <2> SUFFICES ASSUME NEW i \in Ids, Idle(log, i) PROVE Idle(log, i)'
    OBVIOUS
  <2>1. i # running
    BY <1>2 DEF Idle
  <2> QED
    BY <2>1 DEF Idle, Spoken
<1>4. Once(msg)'
  <2>1. ASSUME NEW m \in Messages, Pending(msg, m)', Single(IdOf[m])' PROVE Alone(msg, m)'
    <3>1. Pending(msg', m) /\ (Waits(msg, m)' <=> Waits(msg', m)) /\ IdOf[m] \in Ids /\ Single(IdOf[m])
      BY <2>1, IdsOf DEF Pending, Waits, Single, Twice
    <3>2. Alone(msg', m)
      BY <3>1 DEF Once
    <3>3. \A n \in Messages : Pending(msg, n)' <=> Pending(msg', n)
      BY DEF Pending
    <3> QED
      BY <1>1, <1>3, <3>1, <3>2, <3>3 DEF Alone
  <2>2. \A m \in Messages : msg'[m].at = "learning" => m \in Attached
    BY DEF Once
  <2>3. \A m \in Messages : Waits(msg, m)' => log'[IdOf[m]].queued
    BY IdsOf DEF Once, Waits, Spoken
  <2>4. \A m \in Messages : Pending(msg, m)' /\ log'[IdOf[m]].prompts > 0 => Reused(IdOf[m])'
    BY IdsOf DEF Once, Pending, Spoken, Reused
  <2>5. \A m \in Messages : msg'[m].at \in Early => log'[IdOf[m]].sent = 0
    BY IdsOf DEF Once, Spoken
  <2> QED
    BY <2>1, <2>2, <2>3, <2>4, <2>5 DEF Once
<1>5. Heard'
  <2>1. ASSUME NEW i \in Ids, log'[i].end # "none" PROVE ~Unheard(i)'
    <3>1. CASE log[i].end # "none"
      BY <1>1, <3>1 DEF LedgerInv, Heard
    <3>2. CASE log[i].end = "none"
      <4>1. i = running /\ log[i].prompts > 0
        BY <1>2, <2>1, <3>2 DEF Spoken
      <4> QED
        BY <1>1, <4>1 DEF Unheard
    <3> QED
      BY <3>1, <3>2
  <2>2. \A i \in Ids : log'[i].prompts = log[i].prompts /\ log'[i].sent = log[i].sent
    BY DEF Spoken
  <2>3. (running # None => running \in Ids) /\ (latest # None => latest \in Ids)
    BY DEF LedgerInv, ThreadInv, Typed, TypeOK
  <2> QED
    BY <2>1, <2>2, <2>3 DEF LedgerInv, Heard
<1>6. ASSUME NEW i \in Ids PROVE Logged(i)
  <2>1. log[i].prompts \in Nat /\ log'[i].prompts = log[i].prompts
    BY DEF LedgerInv, ThreadInv, Typed, LogRecs, Spoken
  <2>2. ~Starts(i)
    BY <2>1 DEF Starts
  <2> QED
    BY <2>1, <2>2 DEF Logged, Spoken
<1> QED
  BY <1>4, <1>5, <1>6 DEF Promised

LEMMA PromiseFrame ==
  ASSUME LedgerInv, UNCHANGED <<running, latest, opened>>, Spoken, \A m \in Messages : Still(msg', m)
  PROVE  Promised
BY OnceAmong, PromiseKept

\* What an unchanged message is, it still is.
LEMMA SameStill == \A ms : \A n \in Messages : ms[n] = msg[n] => Still(ms, n)
BY DEF Still, Pending, Waits

LEMMA SpokenOf ==
  ASSUME LedgerInv
  PROVE  /\ log' = log => Spoken
         /\ running # None /\ log' = CancelLogged(log) => Spoken
         /\ log' = ErrorLogged => Spoken
         /\ \A m \in Messages : \A how : msg[m].at \in Working /\ EndTurn(m, how) => Spoken
<1>1. log \in [Ids -> LogRecs] /\ (running # None => running \in Ids)
  BY DEF LedgerInv, ThreadInv, Typed, TypeOK
<1>2. log' = log => Spoken
  BY DEF Spoken
<1>3. ASSUME NEW i \in Ids
      PROVE  /\ log' = [log EXCEPT ![i].cancelled = TRUE] => Spoken
             /\ i = running /\ log' = [log EXCEPT ![i].end = "ended"] => Spoken
  <2>1. log[i] \in LogRecs
    BY <1>1
  <2>2. ASSUME log' = [log EXCEPT ![i].cancelled = TRUE] PROVE Spoken
    BY <1>1, <2>1, <2>2 DEF Spoken, LogRecs
  <2>3. ASSUME i = running, log' = [log EXCEPT ![i].end = "ended"] PROVE Spoken
    BY <1>1, <2>1, <2>3 DEF Spoken, LogRecs
  <2> QED
    BY <2>2, <2>3
<1>4. ASSUME NEW m \in Messages, NEW how, msg[m].at \in Working, EndTurn(m, how) PROVE Spoken
  <2>1. running = IdOf[m] /\ IdOf[m] \in Ids
    BY <1>4, IdsOf DEF LedgerInv, ThreadInv, Serial
  <2> QED
    BY <1>2, <1>3, <1>4, <2>1 DEF EndTurn
<1> QED
  BY <1>1, <1>2, <1>3, <1>4, IdsOf DEF CancelLogged, ErrorLogged

LEMMA StillPromised ==
  ASSUME LedgerInv, UNCHANGED <<running, latest, opened, msg>>, Spoken
  PROVE  Promised
<1>1. \A m \in Messages : Still(msg', m)
  BY SameStill
<1> QED
  BY <1>1, PromiseFrame

LEMMA MovePromised ==
  ASSUME LedgerInv, UNCHANGED <<running, latest, opened>>, Spoken, NEW m \in Messages,
         \A n \in Messages \ {m} : msg'[n] = msg[n], msg'[m].at \notin Steering \cup {"queued", "learning"},
         msg'[m].at \in Early => msg[m].at \in Early
  PROVE  Promised
<1>1. \A n \in Messages : Still(msg', n)
  <2>1. \A n \in Messages \ {m} : Still(msg', n)
    BY SameStill
  <2>2. Still(msg', m)
    BY DEF Still, Pending
  <2> QED
    BY <2>1, <2>2
<1> QED
  BY <1>1, PromiseFrame

\* Processes, uses and the end of the thread change no answer.
LEMMA ProcessPromised ==
  ASSUME LedgerInv,
         \/ \E s \in Stops : Stop(s)
         \/ \E u \in Uses : UseStarts(u) \/ UseEnsures(u) \/ UseEnds(u)
         \/ \E c \in Conns : Spawn(c) \/ Connected(c) \/ ConnectFails(c) \/ Dies(c) \/ Ask(c)
         \/ \E k \in Tokens : Retired(k)
         \/ IdleRetire \/ ExitHeard \/ AnswerAsk \/ StopThread \/ StopChild \/ UNCHANGED vars
  PROVE  Promised
<1>1. UNCHANGED <<running, latest, opened, msg>>
  BY DEF Stop, UseStarts, UseEnsures, UseEnds, Spawn, Connected, ConnectFails, Dies, Ask, Retired, IdleRetire,
         ExitHeard, AnswerAsk, StopThread, StopChild, vars, turns
<1>2. \/ log' = log
      \/ running # None /\ log' = CancelLogged(log)
      \/ log' = ErrorLogged
  BY DEF Stop, UseStarts, UseEnsures, UseEnds, Spawn, Connected, ConnectFails, Dies, Ask, Retired, IdleRetire,
         ExitHeard, AnswerAsk, StopThread, StopChild, vars, turns
<1> QED
  BY <1>1, <1>2, SpokenOf, StillPromised

LEMMA CancelledPromised == ASSUME LedgerInv, NEW a \in Messages \cup Stops, Cancelled(a) PROVE Promised
<1>1. cut[a].step = "asking" /\ UNCHANGED <<running, latest, opened, log>>
  BY DEF Cancelled, turns
<1>2. Spoken
  BY <1>1, SpokenOf
<1>3. CASE a \in Messages
  <2>1. msg[a].at = "cancelling" /\ msg' = [msg EXCEPT ![a].at = "racing"] /\ msg \in [Messages -> MsgRecs]
    BY <1>1, <1>3 DEF Cancelled, LedgerInv, ThreadInv, Asking, Typed
  <2>2. \A n \in Messages \ {a} : msg'[n] = msg[n]
    BY <2>1
  <2>3. msg'[a].at = "racing" /\ msg'[a].home = msg[a].home
    BY <1>3, <2>1 DEF MsgRecs
  <2>4. \A n \in Messages : Still(msg', n)
    <3>1. \A n \in Messages \ {a} : Still(msg', n)
      BY <2>2, SameStill
    <3>2. Still(msg', a)
      BY <2>1, <2>3 DEF Still, Pending, Waits, Steering, Early, Working
    <3> QED
      BY <3>1, <3>2
  <2> QED
    BY <1>1, <1>2, <2>4, PromiseFrame
<1>4. CASE a \notin Messages
  BY <1>1, <1>2, <1>4, StillPromised DEF Cancelled
<1> QED
  BY <1>3, <1>4

\* The turn's prompt goes to the harness: the first one of its id.
LEMMA SentPromised ==
  ASSUME LedgerInv, NEW m \in Messages, TurnPrompts(m), log' = [log EXCEPT ![IdOf[m]].sent = @ + 1],
         msg'[m].at = "prompting", \A n \in Messages \ {m} : msg'[n] = msg[n]
  PROVE  Promised
<1> DEFINE id == IdOf[m]
           sent == log[id].sent + 1
<1>1. /\ msg[m].at = "connecting" /\ UNCHANGED <<running, latest, opened>> /\ running = id /\ id \in Ids
      /\ log \in [Ids -> LogRecs]
  BY IdsOf DEF TurnPrompts, turns, LedgerInv, ThreadInv, Serial, Working, Typed
<1>2. log[id].sent = 0 /\ log[id].prompts > 0 /\ log[id] \in LogRecs
  BY <1>1, ThreadAssumption DEF LedgerInv, Once, Heard, Early, Working
<1>3. log' = [log EXCEPT ![id].sent = 1]
  <2>1. log' = [log EXCEPT ![id].sent = sent]
    OBVIOUS
  <2>2. sent = 1
    BY <1>2
  <2> QED
    BY <2>1, <2>2
<1> HIDE DEF id, sent
<1>4. /\ log'[id].queued = log[id].queued /\ log'[id].prompts = log[id].prompts /\ log'[id].end = log[id].end
      /\ log'[id].sent = 1 /\ \A i \in Ids \ {id} : log'[i] = log[i]
  BY <1>1, <1>2, <1>3 DEF LogRecs
<1>5. \A n \in Messages : Pending(msg, n)' => n # m /\ msg'[n] = msg[n] /\ Pending(msg, n)
  BY DEF Pending, Steering
<1>6. \A i \in Ids : (Idle(log, i)' <=> Idle(log, i)) /\ (Unheard(i)' <=> Unheard(i)) /\ log'[i].prompts = log[i].prompts
                     /\ log'[i].queued = log[i].queued
  BY <1>4 DEF Idle, Unheard
<1>7. Once(msg)'
  <2>1. ASSUME NEW n \in Messages, Pending(msg, n)', Single(IdOf[n])' PROVE Alone(msg, n)'
    <3>1. Alone(msg, n) /\ (Waits(msg, n)' <=> Waits(msg, n))
      BY <1>5, <2>1 DEF LedgerInv, Once, Single, Twice, Waits
    <3> QED
      BY <1>5, <1>6, <3>1, IdsOf DEF Alone
  <2>2. \A n \in Messages : msg'[n].at = "learning" => n \in Attached
    BY DEF LedgerInv, Once
  <2>3. \A n \in Messages : Waits(msg, n)' => log'[IdOf[n]].queued
    BY <1>6, IdsOf DEF LedgerInv, Once, Waits, Steering
  <2>4. \A n \in Messages : Pending(msg, n)' /\ log'[IdOf[n]].prompts > 0 => Reused(IdOf[n])'
    BY <1>1, <1>5, <1>6, IdsOf DEF LedgerInv, Once, Reused
  <2>5. ASSUME NEW n \in Messages, msg'[n].at \in Early PROVE log'[IdOf[n]].sent = 0
    <3>1. n # m /\ msg[n].at \in Early
      BY <2>5 DEF Early
    <3>2. msg[n].at \in Working /\ msg[m].at \in Working
      BY <1>1, <3>1 DEF Early, Working
    <3> QED
      BY <3>1, <3>2 DEF LedgerInv, ThreadInv, Serial
  <2> QED
    BY <2>1, <2>2, <2>3, <2>4, <2>5 DEF Once
<1>8. Heard'
  <2>1. (running # None => running \in Ids) /\ (latest # None => latest \in Ids)
    BY DEF LedgerInv, ThreadInv, Typed, TypeOK
  <2> QED
    BY <1>1, <1>2, <1>4, <1>6, <2>1 DEF LedgerInv, Heard
<1>9. ASSUME NEW i \in Ids PROVE Logged(i)
  <2>1. log[i].prompts \in Nat
    BY <1>1 DEF LogRecs
  <2>2. ~Starts(i)
    BY <1>6, <2>1 DEF Starts
  <2> QED
    BY <1>1, <1>2, <1>4, <2>2 DEF Logged
<1> QED
  BY <1>7, <1>8, <1>9 DEF Promised

\* What moves a message of the turn, and ends it, changes no answer while t.running names its prompt.
LEMMA TurnPromised ==
  ASSUME LedgerInv, NEW m \in Messages,
         \/ TurnSettled(m) \/ TurnWarmed(m) \/ TurnCooled(m) \/ PrepareFails(m) \/ Prepared(m)
         \/ TurnPrompts(m) \/ TurnAnswered(m)
  PROVE  Promised
<1>1. msg \in [Messages -> MsgRecs] /\ msg[m].at \in Working
  BY DEF LedgerInv, ThreadInv, Typed, Working, TurnSettled, TurnWarmed, TurnCooled, PrepareFails, Prepared, TurnPrompts,
         TurnAnswered
<1>2. UNCHANGED <<running, latest, opened>>
  BY DEF TurnSettled, TurnWarmed, TurnCooled, PrepareFails, Prepared, TurnPrompts, TurnAnswered, turns
<1>3. CASE TurnPrompts(m) /\ log' = [log EXCEPT ![IdOf[m]].sent = @ + 1] /\ msg' = [msg EXCEPT ![m].at = "prompting"]
  <2>1. msg'[m].at = "prompting" /\ \A n \in Messages \ {m} : msg'[n] = msg[n]
    BY <1>1, <1>3 DEF MsgRecs
  <2> QED
    BY <1>3, <2>1, SentPromised
<1>4. CASE ~(TurnPrompts(m) /\ log' = [log EXCEPT ![IdOf[m]].sent = @ + 1] /\ msg' = [msg EXCEPT ![m].at = "prompting"])
  <2>1. Spoken
    <3>1. log' = log \/ \E how \in {"failed", "ended"} : EndTurn(m, how)
      BY <1>4 DEF TurnSettled, TurnWarmed, TurnCooled, PrepareFails, Prepared, TurnPrompts, TurnAnswered
    <3> QED
      BY <1>1, <3>1, SpokenOf
  <2>2. /\ msg'[m].at \in {"warming", "cooling", "preparing", "connecting", "after"}
        /\ \A n \in Messages \ {m} : msg'[n] = msg[n]
    <3>1. msg[m] \in MsgRecs
      BY <1>1
    <3>2. ASSUME NEW phase \in {"preparing", "after"}, At(m, phase)
          PROVE  msg'[m].at = phase /\ \A n \in Messages \ {m} : msg'[n] = msg[n]
      BY <1>1, <3>1, <3>2 DEF At, MsgRecs
    <3>3. ASSUME Cool(m)
          PROVE  msg'[m].at \in {"cooling", "preparing"} /\ \A n \in Messages \ {m} : msg'[n] = msg[n]
      <4>1. CASE child # NoConn
        BY <1>1, <3>1, <3>3, <4>1 DEF Cool, MsgRecs
      <4>2. CASE child = NoConn
        BY <3>2, <3>3, <4>2 DEF Cool
      <4> QED
        BY <4>1, <4>2
    <3>4. CASE TurnSettled(m)
      <4>1. CASE live # NoConn
        BY <1>1, <3>1, <3>4, <4>1 DEF TurnSettled, MsgRecs
      <4>2. CASE live = NoConn
        BY <3>3, <3>4, <4>2 DEF TurnSettled
      <4> QED
        BY <4>1, <4>2
    <3>5. CASE TurnWarmed(m)
      BY <3>3, <3>5 DEF TurnWarmed
    <3>6. CASE TurnCooled(m)
      BY <3>2, <3>6 DEF TurnCooled
    <3>7. CASE PrepareFails(m) \/ TurnAnswered(m)
      BY <3>2, <3>7 DEF PrepareFails, TurnAnswered, EndTurn
    <3>8. CASE Prepared(m)
      <4>1. ASSUME NEW how, EndTurn(m, how) PROVE msg'[m].at = "after" /\ \A n \in Messages \ {m} : msg'[n] = msg[n]
        BY <3>2, <4>1 DEF EndTurn
      <4>2. ASSUME NEW c \in Conns, msg' = [msg EXCEPT ![m].at = "connecting", ![m].on = c]
            PROVE  msg'[m].at = "connecting" /\ \A n \in Messages \ {m} : msg'[n] = msg[n]
        BY <1>1, <3>1, <4>2 DEF MsgRecs
      <4> QED
        BY <3>8, <4>1, <4>2 DEF Prepared
    <3>9. CASE TurnPrompts(m)
      <4>1. ASSUME NEW how, EndTurn(m, how) PROVE msg'[m].at = "after" /\ \A n \in Messages \ {m} : msg'[n] = msg[n]
        BY <3>2, <4>1 DEF EndTurn
      <4> QED
        BY <1>4, <3>9, <4>1 DEF TurnPrompts
    <3> QED
      BY <3>4, <3>5, <3>6, <3>7, <3>8, <3>9
  <2>3. msg[m].at \in Early \/ msg'[m].at = "after"
    <3>1. CASE TurnAnswered(m)
      <4>1. msg[m] \in MsgRecs /\ At(m, "after")
        BY <1>1, <3>1 DEF TurnAnswered, EndTurn
      <4> QED
        BY <1>1, <4>1 DEF At, MsgRecs
    <3>2. CASE ~TurnAnswered(m)
      BY <3>2 DEF Early, Working, TurnSettled, TurnWarmed, TurnCooled, PrepareFails, Prepared, TurnPrompts
    <3> QED
      BY <3>1, <3>2
  <2> QED
    BY <1>2, <2>1, <2>2, <2>3, MovePromised DEF Steering, Early
<1> QED
  BY <1>3, <1>4

\* run(): the prompt starts; of an id that was single, nothing else waits.
LEMMA RunPromised ==
  ASSUME LedgerInv, running = None, stopped = "no", NEW ms \in [Messages -> MsgRecs], NEW m \in Messages,
         Run(ms, log, m), Once(ms), log[IdOf[m]].prompts > 0 => Reused(IdOf[m]),
         Single(IdOf[m]) => /\ \A n \in Messages \ {m} : Pending(ms, n) => IdOf[n] # IdOf[m]
                            /\ log[IdOf[m]].prompts = 0 /\ log[IdOf[m]].end = "none"
  PROVE  Promised
<1> DEFINE id == IdOf[m]
           at == IF Reused(id) THEN "after" ELSE "settling"
           end == IF Reused(id) THEN "ended" ELSE log[id].end
           record == [log[id] EXCEPT !.prompts = log[id].prompts + 1, !.end = end]
           moved == [ms[m] EXCEPT !.at = at, !.token = retiring, !.home = 0, !.on = NoConn]
<1>1. id \in Ids /\ id # None /\ None \notin Ids
  BY IdsOf, ThreadAssumption
<1>2. /\ running' = id /\ latest' = id /\ opened' = opened \cup {id}
      /\ log' = [log EXCEPT ![id] = record] /\ msg' = [ms EXCEPT ![m] = moved]
  BY Zenon DEF Run
<1>3. log[id] \in LogRecs /\ log \in [Ids -> LogRecs]
  BY <1>1 DEF LedgerInv, ThreadInv, Typed
<1>4. /\ record.queued = log[id].queued /\ record.prompts = log[id].prompts + 1 /\ record.end = end
      /\ record.sent = log[id].sent
  <2>1. end \in {"none", "ended", "dropped"}
    BY <1>3 DEF LogRecs
  <2> DEFINE r == log[id]
  <2> HIDE DEF id, end, r
  <2>2. /\ [r EXCEPT !.prompts = r.prompts + 1, !.end = end].queued = r.queued
        /\ [r EXCEPT !.prompts = r.prompts + 1, !.end = end].sent = r.sent
        /\ [r EXCEPT !.prompts = r.prompts + 1, !.end = end].prompts = r.prompts + 1
        /\ [r EXCEPT !.prompts = r.prompts + 1, !.end = end].end = end
    <3>1. r \in LogRecs
      BY <1>3 DEF r
    <3> QED
      BY <2>1, <3>1, PromptLogged
  <2> QED
    BY <2>2, Zenon DEF r
<1>5. moved.at = at
  BY DEF MsgRecs
<1>6. at \in {"after", "settling"} /\ (at \in Early => ~Reused(id)) /\ (end = log[id].end \/ end # "none")
  BY DEF Early
<1> HIDE DEF record, moved, end, at
<1>7. msg'[m].at = at /\ \A n \in Messages \ {m} : msg'[n] = ms[n]
  BY <1>2, <1>5
<1>8. /\ log'[id].prompts = log[id].prompts + 1 /\ log'[id].queued = log[id].queued
      /\ log'[id].sent = log[id].sent /\ log'[id].end = end
      /\ \A i \in Ids \ {id} : log'[i] = log[i]
  BY <1>1, <1>2, <1>3, <1>4
<1>9. log[id].prompts \in Nat /\ (~Reused(id) => log[id].prompts = 0)
  <2>1. log[id].prompts \in Nat
    BY <1>3 DEF LogRecs
  <2> QED
    BY <2>1
<1>10. Single(id) => /\ \A n \in Messages \ {m} : Pending(ms, n) => IdOf[n] # id
                     /\ log[id].prompts = 0 /\ log[id].end = "none"
  OBVIOUS
<1>11. id = IdOf[m]
  OBVIOUS
<1> HIDE DEF id
<1>12. ASSUME NEW n \in Messages, Pending(msg, n)'
       PROVE  n # m /\ Pending(ms, n) /\ (Waits(msg, n)' <=> Waits(ms, n)) /\ IdOf[n] \in Ids
  <2>1. n # m
    BY <1>6, <1>7, <1>12 DEF Pending, Steering
  <2> QED
    BY <1>7, <1>12, <2>1, IdsOf DEF Pending, Waits
<1>13. \A i \in Ids : log'[i].queued = log[i].queued /\ log'[i].sent = log[i].sent
  BY <1>8
<1>14. Once(msg)'
  <2>1. ASSUME NEW n \in Messages, Pending(msg, n)', Single(IdOf[n])' PROVE Alone(msg, n)'
    <3>1. n # m /\ Pending(ms, n) /\ (Waits(msg, n)' <=> Waits(ms, n)) /\ IdOf[n] \in Ids /\ Single(IdOf[n])
      BY <1>12, <2>1 DEF Single, Twice
    <3>2. IdOf[n] # id
      BY <1>10, <3>1
    <3>3. log'[IdOf[n]] = log[IdOf[n]]
      BY <1>8, <3>1, <3>2
    <3>4. Alone(ms, n)
      BY <3>1 DEF Once
    <3>5. \A k \in Messages : Pending(msg, k)' => Pending(ms, k)
      BY <1>12
    <3> QED
      BY <3>1, <3>3, <3>4, <3>5 DEF Alone, Idle, Unheard
  <2>2. \A n \in Messages : msg'[n].at = "learning" => n \in Attached
    BY <1>6, <1>7 DEF Once
  <2>3. ASSUME NEW n \in Messages, Waits(msg, n)' PROVE log'[IdOf[n]].queued
    <3>1. Pending(msg, n)'
      BY <2>3 DEF Waits, Pending
    <3>2. Waits(ms, n) /\ IdOf[n] \in Ids
      BY <1>12, <2>3, <3>1
    <3> QED
      BY <1>13, <3>2 DEF Once
  <2>4. ASSUME NEW n \in Messages, Pending(msg, n)', log'[IdOf[n]].prompts > 0 PROVE Reused(IdOf[n])'
    <3>1. CASE IdOf[n] = id
      BY <1>2, <3>1 DEF Reused
    <3>2. CASE IdOf[n] # id
      BY <1>2, <1>8, <1>12, <2>4, <3>2 DEF Once, Reused
    <3> QED
      BY <3>1, <3>2
  <2>5. ASSUME NEW n \in Messages, msg'[n].at \in Early PROVE log'[IdOf[n]].sent = 0
    <3>1. CASE n = m
      <4>1. log[id].prompts = 0
        BY <1>6, <1>7, <1>9, <2>5, <3>1
      <4>2. log[id].sent = 0
        BY <1>1, <4>1 DEF LedgerInv, Heard
      <4> QED
        BY <1>1, <1>11, <1>13, <3>1, <4>2
    <3>2. CASE n # m
      BY <1>7, <1>13, <2>5, <3>2, IdsOf DEF Once
    <3> QED
      BY <3>1, <3>2
  <2> QED
    BY <2>1, <2>2, <2>3, <2>4, <2>5 DEF Once
<1>15. Heard'
  <2>1. ASSUME NEW i \in Ids PROVE log'[i].end # "none" => ~Unheard(i)'
    BY <1>8, <1>9 DEF LedgerInv, Heard, Unheard
  <2>2. ASSUME NEW i \in Ids PROVE log'[i].sent \in {0, 1} /\ (log'[i].sent = 1 => log'[i].prompts > 0)
    BY <1>8, <1>9, <1>13 DEF LedgerInv, Heard
  <2>3. log'[id].prompts > 0
    BY <1>8, <1>9
  <2> QED
    BY <1>2, <2>1, <2>2, <2>3 DEF Heard
<1>16. ASSUME NEW i \in Ids PROVE Logged(i)
  <2>1. CASE i = id
    <3>1. Starts(id) /\ running # id
      BY <1>1, <1>2, <1>8 DEF Starts
    <3> QED
      BY <1>6, <1>8, <1>10, <2>1, <3>1 DEF Logged
  <2>2. CASE i # id
    <3>1. ~Starts(i) /\ running' # i /\ running # i /\ log'[i] = log[i]
      BY <1>1, <1>2, <1>8, <2>2 DEF Starts
    <3> QED
      BY <3>1 DEF Logged
  <2> QED
    BY <2>1, <2>2
<1> QED
  BY <1>14, <1>15, <1>16 DEF Promised

\* steer(): the prompt runs, or goes on waiting for the turn it interrupts, or is refused.
LEMMA SteerPromised ==
  ASSUME LedgerInv, NEW ms \in [Messages -> MsgRecs], NEW m \in Messages, Steer(ms, log, m), Once(ms),
         log[IdOf[m]].prompts > 0 => Reused(IdOf[m]), ms[m].home > 0 => log[IdOf[m]].queued,
         Single(IdOf[m]) => /\ \A n \in Messages \ {m} : Pending(ms, n) => IdOf[n] # IdOf[m]
                            /\ IF ms[m].home > 0 THEN Idle(log, IdOf[m]) ELSE Unheard(IdOf[m])
  PROVE  Promised
<1>1. IdOf[m] \in Ids /\ (Single(IdOf[m]) => log[IdOf[m]].prompts = 0 /\ log[IdOf[m]].end = "none")
  BY IdsOf DEF LedgerInv, Heard, Idle, Unheard
<1>2. ASSUME running # None PROVE Promised
  <2> DEFINE moved == [ms[m] EXCEPT !.at = "cancelling"]
  <2>1. msg' = [ms EXCEPT ![m] = moved] /\ log' = CancelLogged(log) /\ UNCHANGED <<running, latest, opened>>
    BY <1>2 DEF Steer
  <2>2. moved.at = "cancelling" /\ moved.home = ms[m].home
    BY DEF MsgRecs
  <2> HIDE DEF moved
  <2>3. msg'[m].at = "cancelling" /\ msg'[m].home = ms[m].home /\ \A n \in Messages \ {m} : msg'[n] = ms[n]
    BY <2>1, <2>2
  <2>4. Spoken
    BY <1>2, <2>1, SpokenOf
  <2>5. Once(msg')
    <3>1. \A n \in Messages \ {m} : (Pending(msg', n) <=> Pending(ms, n)) /\ (Waits(msg', n) <=> Waits(ms, n))
      BY <2>3 DEF Pending, Waits
    <3>2. Pending(msg', m) /\ (Waits(msg', m) <=> ms[m].home > 0)
      BY <2>3 DEF Pending, Waits, Steering
    <3>3. ASSUME NEW n \in Messages, Pending(msg', n), Single(IdOf[n]) PROVE Alone(msg', n)
      <4>1. CASE n = m
        BY <3>1, <3>2, <3>3, <4>1 DEF Alone
      <4>2. CASE n # m
        <5>1. Alone(ms, n) /\ IdOf[n] # IdOf[m]
          BY <3>1, <3>3, <4>2 DEF Once
        <5> QED
          BY <3>1, <4>2, <5>1 DEF Alone
      <4> QED
        BY <4>1, <4>2
    <3>4. \A n \in Messages : msg'[n].at = "learning" => n \in Attached
      BY <2>3 DEF Once
    <3>5. \A n \in Messages : Waits(msg', n) => log[IdOf[n]].queued
      BY <3>1, <3>2 DEF Once
    <3>6. \A n \in Messages : Pending(msg', n) /\ log[IdOf[n]].prompts > 0 => Reused(IdOf[n])
      BY <3>1, <3>2 DEF Once
    <3>7. \A n \in Messages : msg'[n].at \in Early => log[IdOf[n]].sent = 0
      BY <2>3 DEF Once, Early, Working
    <3> QED
      BY <3>3, <3>4, <3>5, <3>6, <3>7 DEF Once
  <2> QED
    BY <2>1, <2>4, <2>5, PromiseKept
<1>3. ASSUME running = None, stopped = "no" PROVE Promised
  <2>1. Run(ms, log, m)
    BY <1>3 DEF Steer
  <2> QED
    BY <1>1, <1>3, <2>1, RunPromised
<1>4. ASSUME running = None, stopped # "no" PROVE Promised
  <2>1. msg' = [ms EXCEPT ![m] = Done] /\ log' = log /\ UNCHANGED <<running, latest, opened>>
    BY <1>4 DEF Steer
  <2>2. msg'[m].at = "done" /\ \A n \in Messages \ {m} : msg'[n] = ms[n]
    BY <2>1, DoneOf
  <2>3. \A n \in Messages : Pending(msg', n) => n # m /\ Pending(ms, n) /\ (Waits(msg', n) <=> Waits(ms, n))
    BY <2>2 DEF Pending, Waits, Steering
  <2>4. Once(msg')
    <3>1. \A n \in Messages : Pending(msg', n) /\ Single(IdOf[n]) => Alone(msg', n)
      BY <2>3 DEF Once, Alone
    <3>2. \A n \in Messages : Waits(msg', n) => log[IdOf[n]].queued
      BY <2>3, WaitsPending DEF Once
    <3>3. \A n \in Messages : msg'[n].at \in Early => ms[n].at \in Early
      BY <2>2 DEF Early, Working
    <3> QED
      BY <2>2, <2>3, <3>1, <3>2, <3>3 DEF Once
  <2> QED
    BY <2>1, <2>4, SpokenOf, PromiseKept
<1> QED
  BY <1>2, <1>3, <1>4

\* drain(): the oldest queued prompt runs, or everything stays.
LEMMA DrainPromised ==
  ASSUME LedgerInv, NEW ms \in [Messages -> MsgRecs], NEW q \in Seq(Messages), Drain(ms, log, q), Once(ms),
         \A k \in DOMAIN q : ms[q[k]].at = "queued"
  PROVE  Promised
<1>1. ASSUME running = None, stopped = "no", q # <<>>, Run(ms, log, Head(q)) PROVE Promised
  <2>1. Head(q) \in Messages /\ 1 \in DOMAIN q /\ Head(q) = q[1]
    BY <1>1
  <2>2. PICK m \in Messages : m = Head(q)
    BY <2>1
  <2>3. ms[m].at = "queued" /\ Pending(ms, m) /\ Waits(ms, m)
    BY <2>1, <2>2 DEF Pending, Waits
  <2>4. Single(IdOf[m]) => Idle(log, IdOf[m]) /\ \A n \in Messages \ {m} : Pending(ms, n) => IdOf[n] # IdOf[m]
    BY <2>3 DEF Once, Alone
  <2>5. log[IdOf[m]].prompts > 0 => Reused(IdOf[m])
    BY <2>3 DEF Once
  <2> QED
    BY <1>1, <2>2, <2>4, <2>5, RunPromised DEF Idle
<1>2. ASSUME msg' = ms, log' = log, UNCHANGED <<running, latest, opened>> PROVE Promised
  BY <1>2, SpokenOf, PromiseKept
<1> QED
  BY <1>1, <1>2 DEF Drain

\* A message that waits no more and works no more leaves the others as they are.
LEMMA OnceWithout ==
  ASSUME LedgerInv, NEW ms, NEW m \in Messages, ms[m].at \notin Steering \cup Early \cup {"queued", "learning"},
         \A n \in Messages \ {m} : ms[n] = msg[n]
  PROVE  Once(ms)
<1>1. Still(ms, m)
  BY DEF Still, Pending
<1>2. \A n \in Messages : Still(ms, n)
  BY <1>1, SameStill
<1> QED
  BY <1>2, OnceAmong

LEMMA LeavePromised ==
  ASSUME LedgerInv, NEW m \in Messages, TurnAfter(m) \/ TurnOver(m)
  PROVE  Promised
<1>1. msg \in [Messages -> MsgRecs] /\ queue \in Seq(Messages) /\ running \in Ids \cup {None}
  BY DEF LedgerInv, ThreadInv, Typed, TypeOK
<1>2. ASSUME TurnAfter(m) PROVE Promised
  <2> DEFINE id == IdOf[m]
             token == <<m, "last">>
             moved == [msg[m] EXCEPT !.at = "last", !.token = token]
  <2>1. /\ running = id /\ running' = None /\ id \in Ids /\ None \notin Ids /\ msg[m].at = "after"
        /\ msg' = [msg EXCEPT ![m] = moved] /\ UNCHANGED <<latest, opened, log>>
    BY <1>2, ThreadAssumption DEF TurnAfter, LedgerInv, ThreadInv, Serial, Working
  <2>2. moved.at = "last"
    <3>1. msg[m] \in MsgRecs
      BY <1>1
    <3> HIDE DEF token
    <3> QED
      BY <3>1 DEF MsgRecs
  <2>3. stopped = "no" => log[id].end # "none"
    BY <2>1 DEF LedgerInv, ThreadInv, Open, Ended
  <2> HIDE DEF moved, id
  <2>4. msg'[m].at = "last" /\ \A n \in Messages \ {m} : msg'[n] = msg[n]
    BY <1>1, <2>1, <2>2
  <2>5. Once(msg')
    BY <2>4, OnceWithout DEF Steering, Early, Working
  <2>6. Once(msg)'
    BY <2>1, <2>5 DEF Once, Alone, Pending, Waits, Idle, Unheard, Reused, Single, Twice
  <2>7. Heard'
    BY <2>1 DEF LedgerInv, Heard, Unheard
  <2>8. ASSUME NEW i \in Ids PROVE Logged(i)
    <3>1. log[i].prompts \in Nat
      BY DEF LedgerInv, ThreadInv, Typed, LogRecs
    <3>2. ~Starts(i)
      BY <2>1, <3>1 DEF Starts
    <3> QED
      BY <2>1, <2>3, <3>2 DEF Logged
  <2> QED
    BY <2>6, <2>7, <2>8 DEF Promised
<1>3. ASSUME TurnOver(m) PROVE Promised
  <2> DEFINE moved == [msg[m] EXCEPT !.at = "over", !.token = NoToken]
             ms == [msg EXCEPT ![m] = moved]
  <2>1. msg[m].at = "last" /\ Drain(ms, log, queue)
    BY <1>3 DEF TurnOver
  <2>2. moved \in MsgRecs /\ moved.at = "over"
    <3>1. msg[m] \in MsgRecs /\ "over" \in Places /\ NoToken \in Passes
      BY <1>1, TokensOf DEF Places
    <3> HIDE DEF Places
    <3> QED
      BY <3>1 DEF MsgRecs
  <2> HIDE DEF moved
  <2>3. ms \in [Messages -> MsgRecs] /\ ms[m].at = "over" /\ \A n \in Messages \ {m} : ms[n] = msg[n]
    BY <1>1, <2>2
  <2> HIDE DEF ms
  <2>4. Once(ms)
    BY <2>3, OnceWithout DEF Steering, Early, Working
  <2>5. \A k \in DOMAIN queue : ms[queue[k]].at = "queued"
    <3>1. \A k \in DOMAIN queue : queue[k] \in Messages /\ msg[queue[k]].at = "queued"
      BY <1>1 DEF LedgerInv, ThreadInv, Lined
    <3> QED
      BY <2>1, <2>3, <3>1
  <2> QED
    BY <1>1, <2>1, <2>3, <2>4, <2>5, DrainPromised
<1> QED
  BY <1>2, <1>3

\* A steer that gives up puts its prompt back where it waits, or answers that it does not run.
LEMMA RefusedPromised ==
  ASSUME LedgerInv, NEW m \in Messages, msg[m].at \in Steering, Refused(m)
  PROVE  Promised
<1>1. /\ msg \in [Messages -> MsgRecs] /\ queue \in Seq(Messages)
      /\ \A k \in DOMAIN queue : queue[k] \in Messages /\ queue[k] # m /\ msg[queue[k]].at = "queued"
  <2>1. msg \in [Messages -> MsgRecs] /\ queue \in Seq(Messages)
    BY DEF LedgerInv, ThreadInv, Typed, TypeOK
  <2> QED
    BY <2>1 DEF LedgerInv, ThreadInv, Lined, Steering
<1>2. ASSUME msg[m].home > 0 PROVE Promised
  <2> DEFINE moved == [msg[m] EXCEPT !.at = "queued", !.home = 0]
             ms == [msg EXCEPT ![m] = moved]
  <2>1. Drain(ms, log, PutBack(m))
    BY <1>2 DEF Refused
  <2>2. moved \in MsgRecs /\ moved.at = "queued"
    <3>1. msg[m] \in MsgRecs /\ "queued" \in Places
      BY <1>1 DEF Places
    <3> HIDE DEF Places
    <3> QED
      BY <3>1 DEF MsgRecs
  <2> HIDE DEF moved
  <2>3. ms \in [Messages -> MsgRecs] /\ ms[m].at = "queued" /\ \A n \in Messages \ {m} : ms[n] = msg[n]
    BY <1>1, <2>2
  <2> HIDE DEF ms
  <2>4. Once(ms)
    <3>1. Still(ms, m)
      BY <1>2, <2>3 DEF Still, Pending, Waits, Early, Working
    <3>2. \A n \in Messages : Still(ms, n)
      BY <2>3, <3>1, SameStill
    <3> QED
      BY <3>2, OnceAmong
  <2>5. PutBack(m) \in Seq(Messages) /\ \A k \in DOMAIN PutBack(m) : ms[PutBack(m)[k]].at = "queued"
    <3>1. PICK i \in 1 .. Len(queue) + 1 : PutBack(m) = InsertAt(queue, i, m)
      BY <1>2, PutBackStep DEF LedgerInv
    <3>2. \A j, k \in DOMAIN queue : queue[j] = queue[k] => j = k
      BY DEF LedgerInv, ThreadInv, Lined
    <3> DEFINE q == InsertAt(queue, i, m)
    <3>3. q \in Seq(Messages) /\ PutBack(m) = q
      BY <1>1, <3>1, Inserted
    <3>4. queue \in Seq(Messages) /\ \A k \in DOMAIN queue : queue[k] # m
      BY <1>1
    <3>5. \A k \in DOMAIN q : q[k] = m \/ \E j \in DOMAIN queue : q[k] = queue[j]
      BY <3>2, <3>4, InsertedOnce
    <3> HIDE DEF q
    <3>6. ASSUME NEW k \in DOMAIN q PROVE ms[q[k]].at = "queued"
      <4>1. CASE q[k] = m
        BY <2>3, <4>1
      <4>2. ASSUME NEW j \in DOMAIN queue, q[k] = queue[j] PROVE ms[q[k]].at = "queued"
        BY <1>1, <2>3, <4>2
      <4> QED
        BY <3>5, <4>1, <4>2
    <3> QED
      BY <3>3, <3>6
  <2> QED
    BY <2>1, <2>3, <2>4, <2>5, DrainPromised
<1>3. ASSUME ~(msg[m].home > 0) PROVE Promised
  <2> DEFINE ms == [msg EXCEPT ![m] = Done]
  <2>1. Drain(ms, log, queue)
    BY <1>3 DEF Refused
  <2>2. ms \in [Messages -> MsgRecs] /\ ms[m].at = "done" /\ \A n \in Messages \ {m} : ms[n] = msg[n]
    BY <1>1, DoneOf
  <2> HIDE DEF ms
  <2>3. Once(ms)
    BY <2>2, OnceWithout DEF Steering, Early, Working
  <2>4. \A k \in DOMAIN queue : ms[queue[k]].at = "queued"
    BY <1>1, <2>2
  <2> QED
    BY <1>1, <2>1, <2>2, <2>3, <2>4, DrainPromised
<1> QED
  BY <1>2, <1>3

\* A steer goes on, from the turn it interrupted or from the queue.
LEMMA SteersPromised ==
  ASSUME LedgerInv, NEW m \in Messages,
         CancelThrows(m) \/ Outlived(m) \/ Interrupted(m) \/ QueueSteer(m)
  PROVE  Promised
<1>1. msg \in [Messages -> MsgRecs] /\ queue \in Seq(Messages)
  BY DEF LedgerInv, ThreadInv, Typed, TypeOK
<1>2. CASE CancelThrows(m) \/ Outlived(m)
  BY <1>2, RefusedPromised DEF CancelThrows, Outlived, Steering
<1>3. ASSUME Interrupted(m) PROVE Promised
  <2>1. Steer(msg, log, m) /\ msg[m].at = "racing"
    BY <1>3 DEF Interrupted
  <2>2. Pending(msg, m) /\ (Waits(msg, m) <=> msg[m].home > 0)
    BY <2>1 DEF Pending, Waits, Steering
  <2>3. Once(msg) /\ (Single(IdOf[m]) => Alone(msg, m))
    BY <2>2 DEF LedgerInv, Once
  <2>4. Single(IdOf[m]) => /\ \A n \in Messages \ {m} : Pending(msg, n) => IdOf[n] # IdOf[m]
                           /\ IF msg[m].home > 0 THEN Idle(log, IdOf[m]) ELSE Unheard(IdOf[m])
    BY <2>2, <2>3 DEF Alone
  <2>5. (log[IdOf[m]].prompts > 0 => Reused(IdOf[m])) /\ (msg[m].home > 0 => log[IdOf[m]].queued)
    BY <2>2 DEF LedgerInv, Once
  <2> QED
    BY <1>1, <2>1, <2>3, <2>4, <2>5, SteerPromised
<1>4. ASSUME QueueSteer(m) PROVE Promised
  <2>1. PICK i \in DOMAIN queue : Steer([msg EXCEPT ![m].home = i], log, m)
    BY <1>4 DEF QueueSteer
  <2> DEFINE moved == [msg[m] EXCEPT !.home = i]
             ms == [msg EXCEPT ![m] = moved]
  <2>2. msg[m].at = "queued" /\ i \in Nat /\ i > 0
    BY <1>1, <1>4 DEF QueueSteer
  <2>3. moved \in MsgRecs /\ moved.at = "queued" /\ moved.home = i
    <3>1. msg[m] \in MsgRecs
      BY <1>1
    <3> QED
      BY <2>2, <3>1 DEF MsgRecs
  <2>4. Steer(ms, log, m)
    BY <2>1
  <2> HIDE DEF moved
  <2>5. /\ ms \in [Messages -> MsgRecs] /\ ms[m].at = "queued" /\ ms[m].home = i
        /\ \A n \in Messages \ {m} : ms[n] = msg[n]
    BY <1>1, <2>3
  <2> HIDE DEF ms
  <2>6. Once(ms)
    <3>1. Still(ms, m)
      BY <2>2, <2>5 DEF Still, Pending, Waits
    <3>2. \A n \in Messages : Still(ms, n)
      BY <2>5, <3>1, SameStill
    <3> QED
      BY <3>2, OnceAmong
  <2>7. Pending(ms, m) /\ Waits(ms, m)
    BY <2>5 DEF Pending, Waits
  <2>8. Single(IdOf[m]) => Idle(log, IdOf[m]) /\ \A n \in Messages \ {m} : Pending(ms, n) => IdOf[n] # IdOf[m]
    BY <2>6, <2>7 DEF Once, Alone
  <2>9. (log[IdOf[m]].prompts > 0 => Reused(IdOf[m])) /\ log[IdOf[m]].queued
    BY <2>6, <2>7 DEF Once
  <2> QED
    BY <2>2, <2>4, <2>5, <2>6, <2>8, <2>9, SteerPromised
<1> QED
  BY <1>2, <1>3, <1>4

LEMMA DropPromised == ASSUME LedgerInv, NEW m \in Messages, QueueDrop(m) PROVE Promised
<1> DEFINE id == IdOf[m]
           record == [log[id] EXCEPT !.end = "dropped"]
<1>1. /\ msg[m].at = "queued" /\ msg' = [msg EXCEPT ![m] = Done] /\ log' = [log EXCEPT ![id] = record]
      /\ UNCHANGED <<running, latest, opened>>
  BY DEF QueueDrop
<1>2. /\ msg \in [Messages -> MsgRecs] /\ log \in [Ids -> LogRecs] /\ id \in Ids /\ None \notin Ids
  BY IdsOf, ThreadAssumption DEF LedgerInv, ThreadInv, Typed
<1>3. /\ log[id].queued /\ Line(msg, id)
      /\ Single(id) => \A n \in Messages \ {m} : Pending(msg, n) => IdOf[n] # id
  BY <1>1 DEF LedgerInv, Once, Alone, Pending, Waits, Line
<1>4. /\ record.queued = log[id].queued /\ record.prompts = log[id].prompts /\ record.end = "dropped"
      /\ record.sent = log[id].sent
  <2>1. log[id] \in LogRecs
    BY <1>2
  <2> HIDE DEF id
  <2> QED
    BY <2>1 DEF LogRecs
<1> HIDE DEF record
<1>5. /\ log'[id].queued = log[id].queued /\ log'[id].prompts = log[id].prompts /\ log'[id].end = "dropped"
      /\ log'[id].sent = log[id].sent /\ \A i \in Ids \ {id} : log'[i] = log[i]
  BY <1>1, <1>2, <1>4
<1>6. msg'[m].at = "done" /\ \A n \in Messages \ {m} : msg'[n] = msg[n]
  BY <1>1, <1>2, DoneOf
<1> HIDE DEF id
<1>7. Once(msg')
  BY <1>6, OnceWithout DEF Steering, Early, Working
<1>8. ASSUME NEW n \in Messages, Pending(msg, n)' PROVE n # m /\ Pending(msg, n) /\ IdOf[n] \in Ids
  <2>1. n # m
    BY <1>6, <1>8 DEF Pending, Steering
  <2> QED
    BY <1>6, <1>8, <2>1, IdsOf DEF Pending
<1>9. \A i \in Ids : log'[i].queued = log[i].queued /\ log'[i].prompts = log[i].prompts /\ log'[i].sent = log[i].sent
  BY <1>5
<1>10. Once(msg)'
  <2>1. ASSUME NEW n \in Messages, Pending(msg, n)', Single(IdOf[n])' PROVE Alone(msg, n)'
    <3>1. Pending(msg', n) /\ Single(IdOf[n]) /\ (Waits(msg, n)' <=> Waits(msg', n))
      BY <2>1 DEF Pending, Single, Twice, Waits
    <3>2. Alone(msg', n)
      BY <1>7, <3>1 DEF Once
    <3>3. IdOf[n] \in Ids \ {id}
      BY <1>3, <1>8, <2>1, <3>1
    <3>4. log'[IdOf[n]] = log[IdOf[n]]
      BY <1>5, <3>3
    <3>5. \A k \in Messages : Pending(msg, k)' <=> Pending(msg', k)
      BY DEF Pending
    <3> QED
      BY <3>1, <3>2, <3>4, <3>5 DEF Alone, Idle, Unheard
  <2>2. \A n \in Messages : msg'[n].at = "learning" => n \in Attached
    BY <1>7 DEF Once
  <2>3. \A n \in Messages : Waits(msg, n)' => log'[IdOf[n]].queued
    BY <1>7, <1>9, IdsOf DEF Once, Waits
  <2>4. \A n \in Messages : Pending(msg, n)' /\ log'[IdOf[n]].prompts > 0 => Reused(IdOf[n])'
    BY <1>1, <1>7, <1>9, IdsOf DEF Once, Pending, Reused
  <2>5. \A n \in Messages : msg'[n].at \in Early => log'[IdOf[n]].sent = 0
    BY <1>7, <1>9, IdsOf DEF Once
  <2> QED
    BY <2>1, <2>2, <2>3, <2>4, <2>5 DEF Once
<1>11. Heard'
  <2>1. (running # None => running \in Ids) /\ (latest # None => latest \in Ids)
    BY DEF LedgerInv, ThreadInv, Typed, TypeOK
  <2>2. \A i \in Ids : log'[i].end # "none" => ~Unheard(i)'
    BY <1>3, <1>5 DEF LedgerInv, Heard, Unheard
  <2> QED
    BY <1>1, <1>9, <2>1, <2>2 DEF LedgerInv, Heard
<1>12. ASSUME NEW i \in Ids PROVE Logged(i)
  <2>1. log[i].prompts \in Nat
    BY <1>2 DEF LogRecs
  <2>2. ~Starts(i)
    BY <1>9, <2>1 DEF Starts
  <2> QED
    BY <1>1, <1>3, <1>5, <1>9, <2>2 DEF Logged
<1> QED
  BY <1>10, <1>11, <1>12 DEF Promised

\* A request is admitted, as a new one or, of an id with a second request, as if it were new.
LEMMA AdmitPromised ==
  ASSUME LedgerInv, NEW m \in Messages, NEW delivery, msg[m].at \in Outside, Admit(m, delivery),
         log[IdOf[m]].prompts > 0 => Reused(IdOf[m]),
         Single(IdOf[m]) => /\ Unheard(IdOf[m])
                            /\ \A n \in Messages \ {m} : Pending(msg, n) => IdOf[n] # IdOf[m]
  PROVE  Promised
<1> DEFINE id == IdOf[m]
           queues == delivery = "queue" /\ (running # None \/ Steers(msg) # {})
<1>1. /\ msg \in [Messages -> MsgRecs] /\ log \in [Ids -> LogRecs] /\ id \in Ids /\ None \notin Ids
  BY IdsOf, ThreadAssumption DEF LedgerInv, ThreadInv, Typed
<1>2. ASSUME queues PROVE Promised
  <2> DEFINE moved == [Fresh EXCEPT !.at = "queued"]
             record == [log[id] EXCEPT !.queued = TRUE]
  <2>1. /\ msg' = [msg EXCEPT ![m] = moved] /\ log' = [log EXCEPT ![id] = record]
        /\ UNCHANGED <<running, latest, opened>>
    BY <1>1, <1>2 DEF Admit
  <2>2. moved.at = "queued"
    BY DEF Fresh
  <2>3. record.queued = TRUE /\ record.prompts = log[id].prompts /\ record.end = log[id].end /\ record.sent = log[id].sent
    <3>1. log[id] \in LogRecs
      BY <1>1
    <3> HIDE DEF id
    <3> QED
      BY <3>1 DEF LogRecs
  <2> HIDE DEF moved, record
  <2>4. /\ log'[id].queued = TRUE /\ log'[id].prompts = log[id].prompts /\ log'[id].end = log[id].end
        /\ log'[id].sent = log[id].sent /\ \A i \in Ids \ {id} : log'[i] = log[i]
    BY <1>1, <2>1, <2>3
  <2>5. msg'[m].at = "queued" /\ \A n \in Messages \ {m} : msg'[n] = msg[n]
    BY <1>1, <2>1, <2>2
  <2>6. Single(id) => /\ log[id].prompts = 0 /\ log[id].end = "none"
                      /\ \A n \in Messages \ {m} : Pending(msg, n) => IdOf[n] # id
    BY <1>1 DEF LedgerInv, Heard, Unheard
  <2>7. log[id].prompts > 0 => Reused(id)
    OBVIOUS
  <2>8. id = IdOf[m] /\ id \in Ids
    BY <1>1
  <2> HIDE DEF id
  <2>9. \A i \in Ids : /\ log'[i].prompts = log[i].prompts /\ log'[i].sent = log[i].sent
                         /\ log'[i].end = log[i].end /\ (log[i].queued => log'[i].queued)
    BY <2>4
  <2>10. ASSUME NEW n \in Messages \ {m}
         PROVE  (Pending(msg, n)' <=> Pending(msg, n)) /\ (Waits(msg, n)' <=> Waits(msg, n)) /\ IdOf[n] \in Ids
    BY <2>5, IdsOf DEF Pending, Waits
  <2>11. Once(msg)'
    <3>1. ASSUME NEW n \in Messages, Pending(msg, n)', Single(IdOf[n])' PROVE Alone(msg, n)'
      <4>1. Single(IdOf[n])
        BY <3>1 DEF Single, Twice
      <4>2. CASE n = m
        <5>1. Waits(msg, m)' /\ Idle(log, id)'
          BY <2>4, <2>5, <2>6, <2>8, <4>1, <4>2 DEF Waits, Idle
        <5> QED
          BY <2>6, <2>8, <2>10, <4>1, <4>2, <5>1 DEF Alone
      <4>3. CASE n # m
        <5>1. Pending(msg, n) /\ Alone(msg, n)
          BY <2>10, <3>1, <4>1, <4>3 DEF LedgerInv, Once
        <5>2. IdOf[n] # id
          BY <2>6, <4>1, <4>3, <5>1
        <5>3. log'[IdOf[n]] = log[IdOf[n]]
          BY <2>4, <2>10, <4>3, <5>2
        <5>4. \A k \in Messages : Pending(msg, k)' /\ IdOf[k] = IdOf[n] => k = n
          BY <2>8, <2>10, <5>1, <5>2 DEF Alone
        <5> QED
          BY <2>10, <4>3, <5>1, <5>3, <5>4 DEF Alone, Idle, Unheard
      <4> QED
        BY <4>2, <4>3
    <3>2. \A n \in Messages : msg'[n].at = "learning" => n \in Attached
      BY <2>5 DEF LedgerInv, Once
    <3>3. \A n \in Messages : Waits(msg, n)' => log'[IdOf[n]].queued
      BY <2>4, <2>8, <2>9, <2>10 DEF LedgerInv, Once
    <3>4. \A n \in Messages : Pending(msg, n)' /\ log'[IdOf[n]].prompts > 0 => Reused(IdOf[n])'
      <4>1. ASSUME NEW n \in Messages, Pending(msg, n)', log'[IdOf[n]].prompts > 0 PROVE Reused(IdOf[n])
        BY <2>7, <2>8, <2>9, <2>10, <4>1 DEF LedgerInv, Once
      <4> QED
        BY <2>1, <4>1 DEF Reused
    <3>5. \A n \in Messages : msg'[n].at \in Early => log'[IdOf[n]].sent = 0
      BY <2>5, <2>9, IdsOf DEF LedgerInv, Once, Early, Working
    <3> QED
      BY <3>1, <3>2, <3>3, <3>4, <3>5 DEF Once
  <2>12. Heard'
    <3>1. (running # None => running \in Ids) /\ (latest # None => latest \in Ids)
      BY DEF LedgerInv, ThreadInv, Typed, TypeOK
    <3>2. \A i \in Ids : log'[i].end # "none" => ~Unheard(i)'
      BY <2>9 DEF LedgerInv, Heard, Unheard
    <3> QED
      BY <2>1, <2>9, <3>1, <3>2 DEF LedgerInv, Heard
  <2>13. ASSUME NEW i \in Ids PROVE Logged(i)
    <3>1. log[i].prompts \in Nat
      BY <1>1 DEF LogRecs
    <3>2. ~Starts(i)
      BY <2>9, <3>1 DEF Starts
    <3>3. Line(msg', id)
      BY <2>5, <2>8 DEF Line
    <3> QED
      BY <2>1, <2>4, <2>9, <3>2, <3>3 DEF Logged
  <2> QED
    BY <2>11, <2>12, <2>13 DEF Promised
<1>3. ASSUME ~queues PROVE Promised
  <2> DEFINE ms == [msg EXCEPT ![m] = Fresh]
  <2>1. Steer(ms, log, m)
    BY <1>3 DEF Admit
  <2>2. /\ ms \in [Messages -> MsgRecs] /\ ms[m].at = "unsent" /\ ms[m].home = 0
        /\ \A n \in Messages \ {m} : ms[n] = msg[n]
    BY <1>1, DoneOf
  <2> HIDE DEF ms
  <2>3. Once(ms)
    BY <2>2, OnceWithout DEF Steering, Early, Working
  <2>4. Single(IdOf[m]) => /\ \A n \in Messages \ {m} : Pending(ms, n) => IdOf[n] # IdOf[m]
                           /\ IF ms[m].home > 0 THEN Idle(log, IdOf[m]) ELSE Unheard(IdOf[m])
    BY <2>2 DEF Pending
  <2> QED
    BY <2>1, <2>2, <2>3, <2>4, SteerPromised
<1> QED
  BY <1>2, <1>3

\* A request that waits to learn what the harness reads carries attachments, so that its id is single only
\* when no other message has it; those that wait in the queue or steer are in the log or in t.admitting.
LEMMA SendPromised ==
  ASSUME LedgerInv, NEW m \in Messages, NEW delivery \in {"steer", "queue"}, Send(m, delivery)
  PROVE  Promised
<1>1. /\ msg \in [Messages -> MsgRecs] /\ msg[m].at = "unsent" /\ msg[m].at \in Outside
      /\ retiring \in Passes /\ Conns \subseteq Spots /\ NoConn \in Spots /\ ThreadInv
  BY DEF Send, Outside, LedgerInv, ThreadInv, Typed, TypeOK, Passes, Spots
<1>2. ASSUME Answer(m) PROVE Promised
  <2>1. msg'[m].at = "done" /\ (\A n \in Messages \ {m} : msg'[n] = msg[n]) /\ UNCHANGED <<running, latest, opened, log>>
    BY <1>1, <1>2, DoneOf DEF Answer, turns
  <2> QED
    BY <2>1, SpokenOf, MovePromised DEF Steering, Early, Working
<1>3. ASSUME ~Repeated(IdOf[m])
      PROVE  /\ Unheard(IdOf[m])
             /\ Single(IdOf[m]) => \A n \in Messages \ {m} : Pending(msg, n) => IdOf[n] # IdOf[m]
  <2>1. Unheard(IdOf[m])
    <3>1. log[IdOf[m]].prompts \in Nat
      BY IdsOf DEF LedgerInv, ThreadInv, Typed, LogRecs
    <3> QED
      BY <1>3, <3>1 DEF Repeated, Known, Unheard
  <2>2. ASSUME Single(IdOf[m]), NEW n \in Messages \ {m}, Pending(msg, n), IdOf[n] = IdOf[m] PROVE FALSE
    <3>1. ~Waits(msg, n)
      BY <2>1, <2>2 DEF LedgerInv, Once, Unheard
    <3>2. msg[n].at # "learning"
      <4>1. ASSUME n \in Attached PROVE IdOf[m] \in Twice
        BY <2>2, <4>1, ThreadAssumption DEF Twice
      <4> QED
        BY <2>2, <4>1 DEF LedgerInv, Once, Single
    <3>3. msg[n].home \in Nat
      BY <1>1 DEF MsgRecs
    <3>4. n \in Steers(msg) /\ msg[n].home = 0
      BY <2>2, <3>1, <3>2, <3>3 DEF Pending, Waits, Steers
    <3> QED
      BY <1>3, <2>2, <3>4 DEF Repeated, Admitting
  <2> QED
    BY <2>1, <2>2
<1>4. ASSUME ~Repeated(IdOf[m]), Admit(m, delivery) PROVE Promised
  <2>1. ~(log[IdOf[m]].prompts > 0)
    BY <1>3, <1>4 DEF Unheard
  <2> QED
    BY <1>1, <1>3, <1>4, <2>1, AdmitPromised
<1> DEFINE r == [msg[m] EXCEPT !.at = "learning", !.delivery = delivery]
           ms == [msg EXCEPT ![m].at = "learning", ![m].delivery = delivery]
<1>5. ASSUME ~Repeated(IdOf[m]), m \in Attached, UNCHANGED <<turns, log, latest, opened>>,
             msg'[m].at = "learning", \A n \in Messages \ {m} : msg'[n] = msg[n]
      PROVE  Promised
  <2>1. ~Waits(msg', m) /\ Pending(msg', m)
    BY <1>5 DEF Waits, Pending, Steering
  <2>2. \A n \in Messages \ {m} : (Pending(msg', n) <=> Pending(msg, n)) /\ (Waits(msg', n) <=> Waits(msg, n))
    BY <1>5 DEF Pending, Waits
  <2>3. ASSUME NEW n \in Messages, Pending(msg', n), Single(IdOf[n]) PROVE Alone(msg', n)
    <3>1. CASE n = m
      BY <1>3, <1>5, <2>1, <2>2, <2>3, <3>1 DEF Alone
    <3>2. CASE n # m
      <4>1. Alone(msg, n) /\ IdOf[n] # IdOf[m]
        BY <1>3, <1>5, <2>2, <2>3, <3>2 DEF LedgerInv, Once
      <4> QED
        BY <2>2, <3>2, <4>1 DEF Alone
    <3> QED
      BY <3>1, <3>2
  <2>4. \A n \in Messages : msg'[n].at = "learning" => n \in Attached
    BY <1>5 DEF LedgerInv, Once
  <2>5. \A n \in Messages : Waits(msg', n) => log[IdOf[n]].queued
    BY <2>1, <2>2 DEF LedgerInv, Once
  <2>6. \A n \in Messages : Pending(msg', n) /\ log[IdOf[n]].prompts > 0 => Reused(IdOf[n])
    BY <1>3, <1>5, <2>2 DEF LedgerInv, Once, Unheard
  <2>7. \A n \in Messages : msg'[n].at \in Early => log[IdOf[n]].sent = 0
    BY <1>5 DEF LedgerInv, Once, Early, Working
  <2>8. Once(msg')
    BY <2>3, <2>4, <2>5, <2>6, <2>7 DEF Once
  <2> QED
    BY <1>5, <2>8, SpokenOf, PromiseKept DEF turns
<1>6. ASSUME NEW s \in MsgRecs, s.at = "learning", msg' = [msg EXCEPT ![m] = s], ~Repeated(IdOf[m]), Learns(m),
             UNCHANGED <<turns, log, latest, opened>>
      PROVE  Promised
  BY <1>1, <1>5, <1>6 DEF Learns
<1>7. /\ [ms EXCEPT ![m].token = retiring] = [msg EXCEPT ![m] = [r EXCEPT !.token = retiring]]
      /\ \A c \in Conns : [ms EXCEPT ![m].on = c] = [msg EXCEPT ![m] = [r EXCEPT !.on = c]]
  BY <1>1
<1>8. ASSUME msg' = [ms EXCEPT ![m].token = retiring], ~Repeated(IdOf[m]), Learns(m), UNCHANGED <<turns, log, latest, opened>>
      PROVE  Promised
  <2> DEFINE s == [r EXCEPT !.token = retiring]
  <2>1. s \in MsgRecs /\ s.at = "learning"
    <3>1. NoConn \in Spots /\ retiring \in Passes /\ ThreadInv
      BY <1>1
    <3> QED
      BY <3>1, Learning
  <2>2. msg' = [msg EXCEPT ![m] = s]
    BY <1>7, <1>8
  <2> HIDE DEF s
  <2> QED
    BY <1>6, <1>8, <2>1, <2>2
<1>9. ASSUME NEW c \in Conns, msg' = [ms EXCEPT ![m].on = c], ~Repeated(IdOf[m]), Learns(m), UNCHANGED <<turns, log, latest, opened>>
      PROVE  Promised
  <2> DEFINE s == [r EXCEPT !.on = c]
  <2>1. s \in MsgRecs /\ s.at = "learning"
    <3>1. c \in Spots /\ retiring \in Passes /\ ThreadInv
      BY <1>1
    <3> QED
      BY <3>1, Learning
  <2>2. msg' = [msg EXCEPT ![m] = s]
    BY <1>7, <1>9
  <2> HIDE DEF s
  <2> QED
    BY <1>6, <1>9, <2>1, <2>2
<1> QED
  BY <1>2, <1>4, <1>8, <1>9 DEF Send

LEMMA LearnPromised == ASSUME LedgerInv, NEW m \in Messages, LearnEnsures(m) \/ Learned(m) PROVE Promised
<1>1. /\ msg \in [Messages -> MsgRecs] /\ msg[m].at = "learning" /\ msg[m].at \in Outside
      /\ NoToken \in Passes /\ Conns \subseteq Spots
  BY TokensOf DEF LearnEnsures, Learned, Outside, LedgerInv, ThreadInv, Typed, Spots
<1>2. ASSUME msg' = [msg EXCEPT ![m] = Done], UNCHANGED <<running, latest, opened, log>> PROVE Promised
  <2>1. msg'[m].at = "done" /\ \A n \in Messages \ {m} : msg'[n] = msg[n]
    BY <1>1, <1>2, DoneOf
  <2> QED
    BY <1>2, <2>1, SpokenOf, MovePromised DEF Steering, Early, Working
<1>3. ASSUME NEW c \in Conns, msg' = [msg EXCEPT ![m].on = c, ![m].token = NoToken], UNCHANGED <<running, latest, opened, log>>
      PROVE  Promised
  <2> DEFINE moved == [msg[m] EXCEPT !.on = c, !.token = NoToken]
  <2>1. msg' = [msg EXCEPT ![m] = moved]
    BY <1>3
  <2>2. moved.at = "learning"
    <3>1. msg[m] \in MsgRecs
      BY <1>1
    <3> QED
      BY <1>1, <3>1 DEF MsgRecs
  <2> HIDE DEF moved
  <2>3. msg'[m].at = "learning" /\ \A n \in Messages \ {m} : msg'[n] = msg[n]
    BY <1>1, <2>1, <2>2
  <2>4. \A n \in Messages : Still(msg', n)
    <3>1. Still(msg', m)
      BY <1>1, <2>3 DEF Still, Pending, Waits, Steering, Early, Working
    <3> QED
      BY <2>3, <3>1, SameStill
  <2> QED
    BY <1>3, <2>4, SpokenOf, PromiseFrame
<1>4. ASSUME Admit(m, msg[m].delivery) PROVE Promised
  <2>1. Pending(msg, m) /\ ~Waits(msg, m)
    BY <1>1 DEF Pending, Waits, Steering
  <2>2. Single(IdOf[m]) => Unheard(IdOf[m]) /\ \A n \in Messages \ {m} : Pending(msg, n) => IdOf[n] # IdOf[m]
    BY <2>1 DEF LedgerInv, Once, Alone
  <2>3. log[IdOf[m]].prompts > 0 => Reused(IdOf[m])
    BY <2>1 DEF LedgerInv, Once
  <2> QED
    BY <1>1, <1>4, <2>2, <2>3, AdmitPromised
<1>5. CASE LearnEnsures(m)
  BY <1>2, <1>3, <1>5 DEF LearnEnsures, turns
<1>6. CASE Learned(m)
  BY <1>2, <1>4, <1>6 DEF Learned, Answer, turns
<1> QED
  BY <1>5, <1>6

\* Restart recovery ends what the log knows and did not end, and tells the harness nothing.
LEMMA RestartPromised == ASSUME LedgerInv, Restart PROVE Once(msg)' /\ Heard' /\ Ledger!Restart
<1>1. /\ running' = None /\ queue' = <<>> /\ stopped' = "no" /\ log' = Recovered /\ latest' = latest /\ None \notin Ids
      /\ \A m \in Messages : msg'[m].at \in {"unsent", "done"}
  BY DoneOf, ThreadAssumption DEF Restart
<1>2. (running # None => running \in Ids) /\ (latest # None => latest \in Ids) /\ log \in [Ids -> LogRecs]
  BY DEF LedgerInv, ThreadInv, Typed, TypeOK
<1>3. ASSUME NEW i \in Ids
      PROVE  /\ log'[i].queued = log[i].queued /\ log'[i].prompts = log[i].prompts /\ log'[i].sent = log[i].sent
             /\ log'[i].end # "none" <=> log[i].end # "none" \/ i = latest \/ Idle(log, i)
  <2> DEFINE ended == [log[i] EXCEPT !.end = "ended"]
             dropped == [log[i] EXCEPT !.end = "dropped"]
  <2>1. log[i] \in LogRecs
    BY <1>2
  <2>2. /\ ended.queued = log[i].queued /\ ended.prompts = log[i].prompts /\ ended.end = "ended"
        /\ ended.sent = log[i].sent /\ dropped.sent = log[i].sent
        /\ dropped.queued = log[i].queued /\ dropped.prompts = log[i].prompts /\ dropped.end = "dropped"
    BY <2>1 DEF LogRecs
  <2>3. log'[i] = IF i = latest /\ log[i].end = "none" THEN ended
                  ELSE IF log[i].queued /\ log[i].prompts = 0 /\ log[i].end = "none" THEN dropped
                  ELSE log[i]
    BY <1>1 DEF Recovered
  <2> HIDE DEF ended, dropped
  <2> QED
    BY <2>2, <2>3 DEF Idle
<1>4. Once(msg)'
  BY <1>1 DEF Once, Pending, Waits, Steering, Early, Working
<1>5. Heard'
  <2>1. ASSUME NEW i \in Ids, log'[i].end # "none" PROVE ~Unheard(i)'
    <3>1. CASE log[i].end # "none"
      BY <1>3, <3>1 DEF LedgerInv, Heard, Unheard
    <3>2. CASE i = latest
      <4>1. log[i].prompts > 0
        BY <1>1, <3>2 DEF LedgerInv, Heard
      <4> QED
        BY <1>3, <4>1 DEF Unheard
    <3>3. CASE Idle(log, i)
      BY <1>3, <3>3 DEF Idle, Unheard
    <3> QED
      BY <1>3, <2>1, <3>1, <3>2, <3>3
  <2> QED
    BY <1>1, <1>2, <1>3, <2>1 DEF LedgerInv, Heard
<1>6. Ledger!Restart
  <2>1. Told' = Told
    <3>1. \A i \in Ids : Told'[i] = Told[i]
      BY <1>3 DEF Told
    <3>2. Told' = [i \in Ids |-> Told'[i]] /\ Told = [i \in Ids |-> Told[i]]
      BY DEF Told
    <3> QED
      BY <3>1, <3>2
  <2>2. ASSUME NEW i \in Ids PROVE TurnState'[i] = IF Told[i] = "new" THEN "unknown" ELSE "settled"
    <3>1. TurnState'[i] = IF log'[i].end # "none" THEN "settled" ELSE "unknown"
      BY <1>1 DEF TurnState
    <3>2. log[i].sent \in {0, 1} /\ (log[i].sent = 1 => log[i].prompts > 0) /\ log[i].prompts \in Nat
      BY <1>2 DEF LedgerInv, Heard, LogRecs
    <3>3. Told[i] = "new" <=> Unheard(i)
      BY <3>2 DEF Told, Unheard
    <3>4. CASE Unheard(i)
      <4>1. log[i].end = "none" /\ i # latest /\ ~Idle(log, i)
        BY <1>1, <3>4 DEF LedgerInv, Heard, Unheard, Idle
      <4>2. log'[i].end = "none"
        BY <1>3, <4>1
      <4> QED
        BY <3>1, <3>3, <3>4, <4>2
    <3>5. CASE ~Unheard(i)
      <4>1. Begun(log, i) => i = latest
        BY DEF LedgerInv, ThreadInv, Open, Newest
      <4>2. log[i].end # "none" \/ Begun(log, i) \/ Idle(log, i)
        BY <3>2, <3>5 DEF Unheard, Begun, Idle
      <4>3. log'[i].end # "none"
        BY <1>3, <4>1, <4>2
      <4> QED
        BY <3>1, <3>3, <3>5, <4>3
    <3> QED
      BY <3>4, <3>5
  <2>3. TurnState' = [i \in Ids |-> TurnState'[i]]
    BY DEF TurnState
  <2> QED
    BY <1>1, <2>1, <2>2, <2>3 DEF Ledger!Restart
<1> QED
  BY <1>4, <1>5, <1>6

LEMMA LedgerInit == ASSUME Init PROVE LedgerInv /\ Ledger!Init
<1>1. /\ running = None /\ queue = <<>> /\ latest = None /\ log = [i \in Ids |-> Unlogged]
      /\ msg = [m \in Messages |-> Fresh] /\ stopped = "no" /\ None \notin Ids
  BY ThreadAssumption DEF Init, Quiet
<1>2. \A i \in Ids : log[i].queued = FALSE /\ log[i].prompts = 0 /\ log[i].sent = 0 /\ log[i].end = "none"
  BY <1>1 DEF Unlogged
<1>3. Once(msg)
  BY <1>1, DoneOf DEF Once, Pending, Waits, Steering, Early, Working
<1>4. Heard
  BY <1>1, <1>2 DEF Heard
<1>5. \A i \in Ids : TurnState[i] = "unknown" /\ Told[i] = "new"
  BY <1>1, <1>2 DEF TurnState, Told
<1>6. Ledger!Init
  <2>1. TurnState = [i \in Ids |-> TurnState[i]] /\ Told = [i \in Ids |-> Told[i]]
    BY DEF TurnState, Told
  <2> QED
    BY <1>1, <1>5, <2>1 DEF Ledger!Init
<1> QED
  BY <1>3, <1>4, <1>6, ThreadInit DEF LedgerInv

LEMMA LedgerStep == ASSUME LedgerInv, [Next]_vars PROVE LedgerInv' /\ [Ledger!Next]_<<TurnState, Told, stopped # "no">>
<1>1. ASSUME NEW m \in Messages, NEW d \in {"steer", "queue"}, Send(m, d) PROVE Promised
  BY <1>1, SendPromised
<1>2. ASSUME NEW m \in Messages,
             \/ LearnEnsures(m) \/ Learned(m) \/ QueueSteer(m) \/ QueueDrop(m)
             \/ CancelThrows(m) \/ Outlived(m) \/ Interrupted(m)
      PROVE  Promised
  BY <1>2, LearnPromised, DropPromised, SteersPromised
<1>3. ASSUME NEW m \in Messages, TurnStep(m) PROVE Promised
  BY <1>3, TurnPromised, LeavePromised DEF TurnStep
<1>4. ASSUME NEW a \in Messages \cup Stops, Cancelled(a) PROVE Promised
  BY <1>4, CancelledPromised
<1>5. ASSUME \/ \E s \in Stops : Stop(s)
             \/ \E u \in Uses : UseStarts(u) \/ UseEnsures(u) \/ UseEnds(u)
             \/ \E c \in Conns : Spawn(c) \/ Connected(c) \/ ConnectFails(c) \/ Dies(c) \/ Ask(c)
             \/ \E k \in Tokens : Retired(k)
             \/ IdleRetire \/ ExitHeard \/ AnswerAsk \/ StopThread \/ StopChild \/ UNCHANGED vars
      PROVE  Promised
  BY <1>5, ProcessPromised
<1>6. Restart \/ Promised
  BY <1>1, <1>2, <1>3, <1>4, <1>5 DEF Next
<1>7. LedgerInv'
  BY <1>6, ThreadStep, RestartPromised DEF LedgerInv, Promised
<1>8. stopped # "no" => stopped' # "no" \/ Restart
  BY DEF Next, vars, Send, LearnEnsures, Learned, QueueSteer, QueueDrop, CancelThrows, Outlived, Interrupted, Refused,
         TurnStep, TurnSettled, TurnWarmed, TurnCooled, PrepareFails, Prepared, TurnPrompts, TurnAnswered, TurnAfter,
         TurnOver, Stop, Cancelled, UseStarts, UseEnsures, UseEnds, Spawn, Connected, ConnectFails, Dies, Ask, Retired,
         IdleRetire, ExitHeard, AnswerAsk, StopThread, StopChild
<1>9. CASE Restart
  BY <1>7, <1>9, RestartPromised DEF Ledger!Next
<1>10. CASE ~Restart
  <2>1. \A i \in Ids : Ledger!Move(i)
    BY <1>6, <1>7, <1>10, MoveOf DEF Promised
  <2>2. Ledger!Advance
    BY <1>8, <1>10, <2>1 DEF Ledger!Advance
  <2> QED
    BY <1>7, <2>2 DEF Ledger!Next
<1> QED
  BY <1>9, <1>10

\* What turnState() answers implements the promise of the routes: each prompt runs at most once, one at a
\* time, none runs after it settled, a restart sends nothing by itself, and no prompt is sent to a harness
\* twice, also one with attachments whose retry is admitted while the host learns what the harness reads.
THEOREM PromisesHold == Spec => PromisesKept
<1>1. Init => LedgerInv /\ Ledger!Init
  BY LedgerInit
<1>2. LedgerInv /\ [Next]_vars => LedgerInv' /\ [Ledger!Next]_Ledger!vars
  BY LedgerStep DEF Ledger!vars
<1> QED
  BY <1>1, <1>2, PTL DEF Spec, PromisesKept, Ledger!Spec

===============================================================================

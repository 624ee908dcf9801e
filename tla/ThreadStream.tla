------------------------------ MODULE ThreadStream ------------------------------
(***************************************************************************)
(* One conversation on a page: the host appends its events to the          *)
(* transcript and to the host log (ts/apps/host/src/harness/threads.ts),   *)
(* serves them on a bounded connection (ts/packages/runtime                *)
(* resource-stream.ts), and the page follows them from the cursor of the   *)
(* body it read (ts/apps/web/src/workbench/provider).                      *)
(***************************************************************************)
EXTENDS HostLog, FiniteSets, FiniteSetsExt

CONSTANTS
  None,
  Oversize,    \* events too large for a log line
  BodyEvents,  \* events after which the page reads the body again
  LogFrames,   \* frames a connection holds for a slow reader
  MaxSeq,      \* bound: events of the conversation
  MaxId,       \* bound: entries of the log
  MaxWire,     \* bound: frames under way to the page
  MaxCrashes,  \* bound: crashes of the host
  MaxDrops,    \* bound: connections lost while both sides live
  MaxResyncs,  \* bound: pages that wake
  MaxForgets   \* bound: other conversations deleted

ASSUME StreamAssumption ==
  /\ None \notin [seq : Nat, cursor : Nat]
  /\ Oversize \subseteq Nat /\ BodyEvents \subseteq Nat
  /\ LogFrames \in Nat \ {0} /\ MaxWire \in Nat \ {0}
  /\ {MaxSeq, MaxId, MaxCrashes, MaxDrops, MaxResyncs, MaxForgets} \subseteq Nat

VARIABLES
  up,          \* the host runs
  transcript,  \* events in the conversation's file
  conn,        \* the connection at the host: open, and the frames in its lane
  wire,        \* frames written to the socket and not yet read
  page,        \* the page's follower: where it is, its cursor, the last event it holds
  body,        \* the body the page shows: its events and its cursor
  fetch,       \* a read of the body: not wanted, asked, or answered with a body
  live,        \* events the page applied from streams
  twice,       \* ghost: events it applied from a stream again
  said,        \* ghost: every entry the log held or announced
  faults       \* crashes, drops, resyncs and forgets so far

pageVars == <<page, body, fetch, live, twice>>
vars == <<segments, lastId, up, transcript, conn, wire, page, body, fetch, live, twice, said, faults>>

Closed == [open |-> FALSE, lane |-> <<>>]
NoFetch == [at |-> "none", body |-> None]
Asked == [at |-> "asked", body |-> None]
NoPage == [at |-> "none", cursor |-> 0, last |-> 0]

\* An oversize entry names an event the log does not carry.
Frame(e) == [kind |-> IF e.fits THEN "event" ELSE "gap", id |-> e.id, seq |-> IF e.fits THEN e.seq ELSE 0]
GapFrame == [kind |-> "gap", id |-> lastId, seq |-> 0]

-------------------------------------------------------------------------------
(* The host *)

\* A subscriber's frame joins the lane; a reader too far behind loses the connection.
Published(entry) ==
  IF ~conn.open \/ Another(entry) THEN conn
  ELSE IF Len(conn.lane) = LogFrames THEN Closed
  ELSE [conn EXCEPT !.lane = Append(@, Frame(entry))]

Entry(seq) == [id |-> lastId + 1, seq |-> seq, fits |-> seq \notin Oversize]

\* One append: the line, then the subscribers, in one synchronous step.
Log(seq) ==
  /\ up /\ lastId < MaxId
  /\ segments' = Written(Ready(segments, lastId + 1), Entry(seq))
  /\ lastId' = lastId + 1
  /\ said' = said \cup {Entry(seq)}
  /\ conn' = Published(Entry(seq))

\* An event of the conversation is in the transcript before it is in the log.
AppendEvent ==
  /\ transcript < MaxSeq
  /\ Log(transcript + 1)
  /\ transcript' = transcript + 1
  /\ UNCHANGED <<up, wire, pageVars, faults>>

\* Everybody else's events.
AppendOther ==
  /\ Log(0)
  /\ UNCHANGED <<up, transcript, wire, pageVars, faults>>

\* Another conversation is deleted.
Forget ==
  /\ up /\ faults.forgets < MaxForgets
  /\ Forgotten
  /\ faults' = [faults EXCEPT !.forgets = @ + 1]
  /\ UNCHANGED <<lastId, up, transcript, conn, wire, pageVars, said>>

Dies ==
  /\ up /\ faults.crashes < MaxCrashes
  /\ up' = FALSE /\ conn' = Closed
  /\ faults' = [faults EXCEPT !.crashes = @ + 1]
  /\ UNCHANGED <<lastId, wire, pageVars>>

Crash == Dies /\ UNCHANGED <<segments, transcript, said>>

\* The host dies between the two appends of an event, or within the second.
CrashAppending ==
  /\ Dies
  /\ transcript < MaxSeq /\ lastId < MaxId
  /\ transcript' = transcript + 1
  /\ \E cut \in Cuts :
       /\ segments' = Torn(segments, Entry(transcript + 1), cut)
       /\ said' = IF cut = "whole" THEN said \cup {Entry(transcript + 1)} ELSE said

Boot ==
  /\ ~up /\ up' = TRUE
  /\ Resumed
  /\ UNCHANGED <<transcript, conn, wire, pageVars, said, faults>>

\* A connection opens: what the log kept after the page's cursor, or a gap; read and subscription are
\* one step. A replay that does not fit the lane closes the connection before its first frame.
Replay(cursor) ==
  IF Gap(cursor) THEN <<GapFrame>>
  ELSE LET mine == After(cursor) IN [i \in DOMAIN mine |-> Frame(mine[i])]
Connect ==
  /\ page.at = "opening" /\ up
  /\ page' = [page EXCEPT !.at = "open"]
  /\ conn' = IF Len(Replay(page.cursor)) > LogFrames THEN Closed
             ELSE [open |-> TRUE, lane |-> Replay(page.cursor)]
  /\ wire' = <<>>
  /\ UNCHANGED <<logVars, up, transcript, body, fetch, live, twice, said, faults>>

\* The socket pulls the next frame.
Pull ==
  /\ conn.open /\ conn.lane # <<>> /\ Len(wire) < MaxWire
  /\ wire' = Append(wire, Head(conn.lane))
  /\ conn' = [conn EXCEPT !.lane = Tail(@)]
  /\ UNCHANGED <<logVars, up, transcript, pageVars, said, faults>>

\* The socket does not pull in time.
Stall ==
  /\ conn.open /\ faults.drops < MaxDrops
  /\ (wire = <<>>) => (conn.lane # <<>>)
  /\ conn' = Closed
  /\ faults' = [faults EXCEPT !.drops = @ + 1]
  /\ UNCHANGED <<logVars, up, transcript, wire, pageVars, said>>

-------------------------------------------------------------------------------
(* The page *)

\* A follower closes what it had and starts from a body.
Follows(from) ==
  /\ page' = [at |-> "opening", cursor |-> from.cursor, last |-> from.seq]
  /\ conn' = Closed /\ wire' = <<>>

\* A stream that ended, or whose socket broke, reopens after the last id it saw.
Drop ==
  /\ page.at = "open"
  /\ conn.open => faults.drops < MaxDrops
  /\ page' = [page EXCEPT !.at = "opening"]
  /\ conn' = Closed /\ wire' = <<>>
  /\ faults' = IF conn.open THEN [faults EXCEPT !.drops = @ + 1] ELSE faults
  /\ UNCHANGED <<logVars, up, transcript, body, fetch, live, twice, said>>

\* The one rule every client follows: an event applies once and in order, a repeat is skipped, and a
\* gap or a hole says to read the body again.
BugNoHoles(frame) ==
  IF frame.kind = "gap" THEN "reread" ELSE IF frame.seq <= page.last THEN "skip" ELSE "apply"
BugSkipsGaps(frame) ==
  IF frame.kind = "gap" \/ frame.seq <= page.last THEN "skip"
  ELSE IF frame.seq > page.last + 1 THEN "reread" ELSE "apply"
Step(frame) ==
  IF frame.kind = "gap" \/ frame.seq > page.last + 1 THEN "reread"
  ELSE IF frame.seq <= page.last THEN "skip" ELSE "apply"

Receive ==
  /\ page.at = "open" /\ wire # <<>>
  /\ LET frame == Head(wire) IN
       \/ /\ Step(frame) = "apply"
          /\ page' = [page EXCEPT !.cursor = frame.id, !.last = frame.seq]
          /\ live' = live \cup {frame.seq}
          /\ twice' = IF frame.seq \in live THEN twice \cup {frame.seq} ELSE twice
          /\ fetch' = IF frame.seq \in BodyEvents THEN Asked ELSE fetch
          /\ wire' = Tail(wire)
          /\ UNCHANGED conn
       \/ /\ Step(frame) = "skip"
          /\ page' = [page EXCEPT !.cursor = frame.id]
          /\ wire' = Tail(wire)
          /\ UNCHANGED <<conn, fetch, live, twice>>
       \/ /\ Step(frame) = "reread"
          /\ page' = [page EXCEPT !.at = "stopped", !.cursor = frame.id]
          /\ conn' = Closed /\ wire' = <<>>
          /\ fetch' = Asked
          /\ UNCHANGED <<live, twice>>
  /\ UNCHANGED <<logVars, up, transcript, body, said, faults>>

\* The host answers with the events and the log's last id of one moment.
BodyServed ==
  /\ fetch.at = "asked" /\ up
  /\ fetch' = [at |-> "answered", body |-> [seq |-> transcript, cursor |-> lastId]]
  /\ UNCHANGED <<logVars, up, transcript, conn, wire, page, body, live, twice, said, faults>>

\* A body with another cursor restarts the follower from it.
BugKeepsFollower(new) ==
  IF body = None THEN Follows(new) ELSE UNCHANGED <<page, conn, wire>>
Restarts(new) ==
  IF body = None \/ new.cursor # body.cursor THEN Follows(new) ELSE UNCHANGED <<page, conn, wire>>
BugDropsTail == live' = {} /\ twice' = {}
KeepsTail == UNCHANGED <<live, twice>>
BodyLands ==
  /\ fetch.at = "answered"
  /\ body' = fetch.body /\ fetch' = NoFetch
  /\ Restarts(fetch.body)
  /\ KeepsTail
  /\ UNCHANGED <<logVars, up, transcript, said, faults>>

\* No body, no follower; the page's readings connection reports when the host is back.
BodyFails ==
  /\ fetch.at = "asked" /\ ~up
  /\ body' = None /\ fetch' = NoFetch
  /\ page' = NoPage /\ conn' = Closed /\ wire' = <<>>
  /\ UNCHANGED <<logVars, up, transcript, live, twice, said, faults>>

\* The readings connection came back after a fault or a wake: the body is read again, and the
\* follower reopens from the cursor of the one it has.
Resync ==
  /\ up
  /\ fetch' = Asked
  /\ IF body = None
       THEN fetch.at = "none" /\ UNCHANGED <<page, conn, wire, faults>>
       ELSE /\ faults.resyncs < MaxResyncs
            /\ faults' = [faults EXCEPT !.resyncs = @ + 1]
            /\ Follows(body)
  /\ UNCHANGED <<logVars, up, transcript, body, live, twice, said>>

-------------------------------------------------------------------------------
Quiet ==
  /\ LogInit
  /\ up = TRUE /\ transcript = 0
  /\ conn = Closed /\ wire = <<>>
  /\ page = NoPage /\ body = None /\ fetch = Asked
  /\ live = {} /\ twice = {} /\ said = {}

Init ==
  /\ Quiet
  /\ faults = [crashes |-> 0, drops |-> 0, resyncs |-> 0, forgets |-> 0]

Host == AppendEvent \/ AppendOther \/ Forget \/ Crash \/ CrashAppending \/ Boot
Stream == Connect \/ Pull \/ Stall
Page == Drop \/ Receive \/ BodyServed \/ BodyLands \/ BodyFails \/ Resync
Next == Host \/ Stream \/ Page

\* The host is started again, sockets carry what is pulled, a page reads what reaches it, reopens what
\* ended and has its reads answered; it hears of the host it lost.
Fairness ==
  /\ WF_vars(Boot) /\ WF_vars(Connect) /\ WF_vars(Pull) /\ WF_vars(Receive)
  /\ WF_vars(~conn.open /\ Drop)
  /\ WF_vars(BodyServed) /\ WF_vars(BodyLands)
  /\ WF_vars(body = None /\ Resync)

Spec == Init /\ [][Next]_vars /\ Fairness

-------------------------------------------------------------------------------
(* Properties *)

Shown == IF body = None THEN {} ELSE (1 .. body.seq) \cup live
Newest == Max(Shown \cup {0})
TypeOK ==
  /\ up \in BOOLEAN /\ transcript \in 0 .. MaxSeq /\ lastId \in 0 .. MaxId
  /\ conn.open \in BOOLEAN /\ Len(conn.lane) <= LogFrames /\ Len(wire) <= MaxWire
  /\ page.at \in {"none", "opening", "open", "stopped"} /\ page.cursor <= MaxId /\ page.last <= transcript
  /\ body # None => body.seq <= transcript
  /\ fetch.at \in {"none", "asked", "answered"}
  /\ twice \subseteq live /\ live \subseteq 1 .. transcript
  /\ conn.open => page.at = "open"

\* "Ids never repeat": an id names one entry for ever, over crashes, torn lines and deletions; and what
\* the host said of the conversation can be replayed as long as retention keeps it, in order: a cut
\* line costs no line but itself.
Replayable ==
  /\ \A e, f \in said : e.id = f.id => e = f
  /\ \A e \in said : ~Another(e) /\ e.id >= Floor => \E p \in Entries : At(p) = e
  /\ \A p, q \in Entries : Before(p, q) => At(p).id < At(q).id

\* "A reconnect neither replays nor skips": everything said up to the cursor the page would reopen
\* from is on the page, unless it reads the body again.
CursorSafe ==
  page.at \in {"opening", "open"} =>
    \A e \in said : ~Another(e) /\ e.id <= page.cursor => e.seq <= page.last

\* The page shows a conversation without a hole.
NoHole == TypeOK /\ Shown = 1 .. Newest

\* What a page once showed it does not take back, whatever body lands late.
NeverBack == [][body # None /\ body' # None => Newest' >= Newest]_vars

\* Everything said of the conversation reaches the page in the end, unless more of it lies ahead of
\* its cursor than a connection holds.
Overrun == Len(Replay(page.cursor)) > LogFrames
CatchesUp == []<>(Overrun \/ (body # None /\ \A e \in said : e.seq <= Newest))

\* "The two merge by seq so neither replays the other": no event is shown twice. The page violates it:
\* a body that lands after later events restarts the follower behind them.
NeitherReplays == body # None => \A s \in twice : s <= body.seq
=================================================================================

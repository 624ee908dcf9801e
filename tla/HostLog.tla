-------------------------------- MODULE HostLog --------------------------------
(***************************************************************************)
(* The host log (ts/apps/host/src/host-log.ts): append-only segments of    *)
(* lines, one writer, ids that never repeat, and a floor below which       *)
(* retention has dropped whole segments. An entry carries the number of    *)
(* the followed conversation's event, 0 for anybody else's, and whether it *)
(* fits; a line that a crash cut is unreadable and has id 0.               *)
(***************************************************************************)
EXTENDS Naturals, Sequences, SequencesExt, FiniteSetsExt

CONSTANTS
  SegmentSize,   \* lines after which a segment is closed
  MaxSegments    \* segments kept

ASSUME LogAssumption == SegmentSize \in Nat \ {0} /\ MaxSegments \in Nat \ {0}

VARIABLES
  segments,  \* oldest first: the first id it was opened for, its lines, and whether the last one
             \* lacks its newline
  lastId     \* the writer's last id

logVars == <<segments, lastId>>

Unreadable == [id |-> 0, seq |-> 0, fits |-> TRUE]
Another(e) == e.seq = 0

\* A segment is named by the first id it was opened for; the oldest give way to it.
Opened(segs, first) ==
  LET more == IF segs # <<>> /\ Last(segs).first = first
                THEN segs
                ELSE Append(segs, [first |-> first, lines |-> <<>>, torn |-> FALSE])
      drop == IF Len(more) > MaxSegments THEN Len(more) - MaxSegments ELSE 0
  IN  SubSeq(more, drop + 1, Len(more))

\* The segments an append writes to: a full tail is closed first.
Ready(segs, id) ==
  IF segs = <<>> \/ Len(Last(segs).lines) >= SegmentSize THEN Opened(segs, id) ELSE segs

\* A line written behind one without its newline is joined to it.
Written(segs, entry) ==
  [segs EXCEPT ![Len(segs)].lines =
     IF Last(segs).torn THEN Append(Front(@), Unreadable) ELSE Append(@, entry),
               ![Len(segs)].torn = FALSE]

\* What a crash can leave of an append: nothing, an opened segment, a part of the line, or all of it
\* but its newline.
Cuts == {"none", "opened", "part", "whole"}
Torn(segs, entry, cut) ==
  CASE cut = "none" -> segs
    [] cut = "opened" -> Ready(segs, entry.id)
    [] OTHER -> LET ready == Ready(segs, entry.id)
                IN  [ready EXCEPT ![Len(ready)].lines = Append(@, IF cut = "part" THEN Unreadable ELSE entry),
                                  ![Len(ready)].torn = TRUE]

\* The members of a sequence that are in a set, in their order.
Only(s, S) ==
  LET only[n \in 0 .. Len(s)] ==
        IF n = 0 THEN <<>>
        ELSE IF s[n] \in S THEN Append(only[n - 1], s[n]) ELSE only[n - 1]
  IN  only[Len(s)]

\* Where the log has its entries: a segment and a line of it.
At(place) == segments[place[1]].lines[place[2]]
Entries == {p \in UNION {{i} \X DOMAIN segments[i].lines : i \in DOMAIN segments} : At(p).id # 0}
Before(p, q) == p[1] < q[1] \/ (p[1] = q[1] /\ p[2] < q[2])

Floor == IF segments = <<>> THEN lastId + 1 ELSE Head(segments).first

\* Whether retention dropped entries after this cursor, and the entries of the conversation it kept; a
\* segment is passed over when the next one was opened at or below the cursor.
Gap(after) == after + 1 < Floor
After(after) ==
  LET passed == {i \in DOMAIN segments : i < Len(segments) /\ segments[i + 1].first <= after + 1}
      lines == FlattenSeq([i \in DOMAIN segments |-> IF i \in passed THEN <<>> ELSE segments[i].lines])
  IN  Only(lines, {e \in Range(lines) : e.id > after /\ ~Another(e)})

\* A host that starts: the last id is the tail's, or the one its tail was opened behind, and the next
\* append starts a line of its own.
TailId ==
  LET tail == Last(segments)
      readable == {j \in DOMAIN tail.lines : tail.lines[j].id # 0}
  IN  IF readable = {} THEN tail.first - 1 ELSE tail.lines[Max(readable)].id
BugNoNewline ==
  IF segments = <<>> THEN lastId' = 0 /\ UNCHANGED segments
  ELSE lastId' = TailId /\ UNCHANGED segments
Resumed ==
  IF segments = <<>> THEN lastId' = 0 /\ UNCHANGED segments
  ELSE lastId' = TailId /\ segments' = [segments EXCEPT ![Len(segments)].torn = FALSE]

\* Rewrite every segment without the entries of a deleted conversation. A fresh tail named past the
\* last id keeps that id when every kept entry is gone.
Rewritten(segment) ==
  [segment EXCEPT !.lines = Only(@, {e \in Range(@) : e.id # 0 /\ ~Another(e)}), !.torn = FALSE]
Forgotten ==
  LET fresh == Opened(segments, lastId + 1)
  IN  segments' = [i \in DOMAIN fresh |-> Rewritten(fresh[i])]

LogInit == segments = <<>> /\ lastId = 0
================================================================================

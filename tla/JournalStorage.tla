---------------------------- MODULE JournalStorage ----------------------------
(***************************************************************************)
(* The file under the action journal: appended revisions, torn tails,      *)
(* compaction and load (ts/apps/host/src/action-journal.ts and             *)
(* legacy-action-journal.ts).  A file is what split("\n") makes of it: a   *)
(* sequence of texts whose last one has no newline after it.  A text is a  *)
(* sequence of pieces and parses when it is a single whole piece.          *)
(***************************************************************************)
EXTENDS Naturals, Sequences, SequencesExt, FiniteSets

CONSTANTS
  Ids,          \* receipt ids
  Floor,        \* compaction never starts below twice this many lines
  Cuts,         \* bound: where a write may end early, "inside" a line, before its "newline" or in
                \* the "first" line of the file; and whether an append may fail as well ("failed")
  MaxRevision,  \* bound: revisions of one receipt
  MaxCrashes,   \* bound: crashes
  MaxFaults     \* bound: writes that fail

ASSUME StorageAssumption ==
  /\ Ids \cap {"version", "fragment"} = {}
  /\ Cuts \subseteq {"inside", "newline", "first", "failed"}
  /\ Floor \in Nat /\ MaxRevision \in Nat /\ MaxCrashes \in Nat /\ MaxFaults \in Nat

VARIABLES
  file,    \* the texts on disk; <<>> when there is no file
  phase,   \* "down", "compact" and "loaded" during load, "up", "dead" when load was rejected
  revision,  \* the revision of each receipt in memory, 0 for none
  torn, header, lines,  \* what the journal remembers of the file
  clean,   \* ghost: no append has failed
  acked,   \* ghost: the last revision whose commit returned
  budget   \* what is left of the bounds

vars == <<file, phase, revision, torn, header, lines, clean, acked, budget>>

Piece(id, rev) == [id |-> id, rev |-> rev]
Version == Piece("version", 0)
Frag == Piece("fragment", 0)

\* A text that is one receipt.
Whole(text) == Len(text) = 1 /\ text[1].id \in Ids

-----------------------------------------------------------------------------
(* Writing.                                                                 *)

\* The first text written continues the last one of the file.
Write(f, texts) ==
  IF f = <<>> THEN texts ELSE Front(f) \o <<Last(f) \o Head(texts)>> \o Tail(texts)

\* Every record on a line of its own, and nothing after the last newline.
OnLines(pieces) == [n \in DOMAIN pieces |-> <<pieces[n]>>] \o <<(<<>>)>>

\* The revisions a commit makes of these rows, in the order it was given them.
Receipts(batch) == [n \in DOMAIN batch |-> Piece(batch[n], revision[batch[n]] + 1)]

BugForgetsTorn(batch) == OnLines((IF header THEN <<>> ELSE <<Version>>) \o Receipts(batch))

\* The text one commit appends.
Appended(batch) ==
  (IF torn THEN <<(<<>>)>> ELSE <<>>) \o OnLines((IF header THEN <<>> ELSE <<Version>>) \o Receipts(batch))

\* What a write that ends early leaves: whole texts, then nothing, a part or all of the next but its newline.
Left(texts) ==
  UNION {{SubSeq(texts, 1, n - 1) \o <<cut>> :
            cut \in {<<>>, texts[n]} \cup {<<Frag>> : piece \in DOMAIN texts[n]}} : n \in 1 .. Len(texts) - 1}

\* Whether a file cut there belongs to the cuts this instance considers.
EndsWhole(f) == Len(f) > 1 /\ Whole(f[Len(f)])
InFirst(f) == Len(f) <= 1
Considered(f) ==
  IF InFirst(f) THEN "first" \in Cuts
  ELSE IF EndsWhole(f) THEN "newline" \in Cuts ELSE "inside" \in Cuts

\* Every command, one line each, and a tail without text.
Compacted(revs) ==
  LET live == SetToSeq({id \in Ids : revs[id] > 0})
  IN  OnLines(<<Version>> \o [n \in DOMAIN live |-> Piece(live[n], revs[live[n]])])

Live(revs) == Cardinality({id \in Ids : revs[id] > 0})
NeedsCompaction(n, revs) == n > 2 * (IF Live(revs) > Floor THEN Live(revs) ELSE Floor)

-----------------------------------------------------------------------------
(* Reading.                                                                 *)

\* A text other than the last one that does not parse.
Corrupt(f, n) == n < Len(f) /\ f[n] # <<>> /\ ~Whole(f[n])

\* readJournalSnapshot or load throws.
Refused(f) ==
  \/ f[1] # <<Version>>
  \/ \E n \in 2 .. Len(f) : Corrupt(f, n)
  \/ \E m, n \in 2 .. Len(f) :
       m < n /\ Whole(f[m]) /\ Whole(f[n]) /\ f[m][1].id = f[n][1].id /\ f[m][1].rev >= f[n][1].rev

\* The last revision of an id wins.
ReadBack(f) ==
  [id \in Ids |->
     LET revs == {f[n][1].rev : n \in {m \in 2 .. Len(f) : Whole(f[m]) /\ f[m][1].id = id}}
     IN  IF revs = {} THEN 0 ELSE CHOOSE r \in revs : \A q \in revs : q <= r]

TornTail(f) == Len(f) > 1 /\ f[Len(f)] # <<>> /\ ~Whole(f[Len(f)])

-----------------------------------------------------------------------------
StorageFault == budget.faults > 0 /\ budget' = [budget EXCEPT !.faults = @ - 1]

Load ==
  /\ phase = "down"
  /\ IF file = <<>>
     THEN /\ phase' = "up" /\ revision' = [id \in Ids |-> 0]
          /\ torn' = FALSE /\ header' = FALSE /\ lines' = 0
     ELSE IF Refused(file)
     THEN phase' = "dead" /\ UNCHANGED <<revision, torn, header, lines>>
     ELSE /\ phase' = IF TornTail(file) THEN "compact" ELSE "loaded"
          /\ revision' = ReadBack(file)
          /\ torn' = TornTail(file) /\ header' = TRUE /\ lines' = Len(file) - 1
  /\ UNCHANGED <<file, acked, budget, clean>>

\* load() compacts a torn file; a rewrite becomes the file by a rename.
Compact ==
  /\ phase = "compact"
  /\ phase' = "loaded"
  /\ file' = Compacted(revision)
  /\ torn' = FALSE /\ header' = TRUE /\ lines' = Live(revision)
  /\ UNCHANGED <<revision, acked, budget, clean>>

CompactFails ==
  /\ phase = "compact"
  /\ StorageFault
  /\ phase' = "dead"
  /\ UNCHANGED <<file, revision, torn, header, lines, acked, clean>>

\* No row changed by being loaded.
Loaded ==
  /\ phase = "loaded"
  /\ phase' = "up"
  /\ UNCHANGED <<file, revision, torn, header, lines, clean, acked, budget>>

\* One or two rows committed together.
Batches == {<<id>> : id \in Ids} \cup {<<p[1], p[2]>> : p \in {q \in Ids \X Ids : q[1] # q[2]}}
Committing(batch) ==
  phase \in {"loaded", "up"} /\ \A n \in DOMAIN batch : revision[batch[n]] < MaxRevision
Revised(batch) ==
  [id \in Ids |-> IF \E n \in DOMAIN batch : batch[n] = id THEN revision[id] + 1 ELSE revision[id]]

\* The rewrite made from the rows before the commit.
BugCompactsOld(batch) ==
  /\ Committing(batch)
  /\ phase' = "up"
  /\ revision' = Revised(batch)
  /\ torn' = FALSE /\ header' = TRUE
  /\ acked' = [id \in Ids |-> IF revision'[id] # revision[id] THEN revision'[id] ELSE acked[id]]
  /\ LET n == lines + Len(batch)
     IN  IF NeedsCompaction(n, revision')
         THEN file' = Compacted(revision) /\ lines' = Live(revision)
         ELSE file' = Write(file, Appended(batch)) /\ lines' = n
  /\ UNCHANGED <<clean, budget>>

Commit(batch) ==
  /\ Committing(batch)
  /\ phase' = "up"
  /\ revision' = Revised(batch)
  /\ torn' = FALSE /\ header' = TRUE
  /\ acked' = [id \in Ids |-> IF revision'[id] # revision[id] THEN revision'[id] ELSE acked[id]]
  /\ LET n == lines + Len(batch)
     IN  IF NeedsCompaction(n, revision')
         THEN file' = Compacted(revision') /\ lines' = Live(revision')
         ELSE file' = Write(file, Appended(batch)) /\ lines' = n
  /\ UNCHANGED <<clean, budget>>

\* The append landed and its rows are in memory; the compaction after it throws.
CommitCompactFails(batch) ==
  /\ Committing(batch)
  /\ NeedsCompaction(lines + Len(batch), Revised(batch))
  /\ StorageFault
  /\ phase' = IF phase = "loaded" THEN "dead" ELSE "up"
  /\ revision' = Revised(batch)
  /\ torn' = FALSE /\ header' = TRUE /\ lines' = lines + Len(batch)
  /\ file' = Write(file, Appended(batch))
  /\ UNCHANGED <<clean, acked>>

\* The append fails in the middle: nothing is indexed, the next append starts on a new line.
CommitFails(batch) ==
  /\ Committing(batch)
  /\ "failed" \in Cuts
  /\ StorageFault
  /\ \E landed \in Left(Appended(batch)) :
       /\ file' = IF landed = <<(<<>>)>> THEN file ELSE Write(file, landed)
       /\ Considered(file')
  /\ phase' = IF phase = "loaded" THEN "dead" ELSE "up"
  /\ torn' = TRUE /\ clean' = FALSE
  /\ UNCHANGED <<revision, header, lines, acked>>

Crash ==
  /\ phase # "down"
  /\ budget.crashes > 0 /\ budget' = [budget EXCEPT !.crashes = @ - 1]
  /\ phase' = "down"
  /\ UNCHANGED <<file, revision, torn, header, lines, acked, clean>>

\* The host dies while it appends.
CrashCommitting(batch) ==
  /\ Committing(batch)
  /\ budget.crashes > 0 /\ budget' = [budget EXCEPT !.crashes = @ - 1]
  /\ phase' = "down"
  /\ \E landed \in {Appended(batch)} \cup Left(Appended(batch)) :
       /\ file' = Write(file, landed)
       /\ landed = Appended(batch) \/ Considered(file')
  /\ UNCHANGED <<revision, torn, header, lines, acked, clean>>

-----------------------------------------------------------------------------
Init ==
  /\ file = <<>> /\ phase = "down"
  /\ revision = [id \in Ids |-> 0] /\ acked = revision
  /\ torn = FALSE /\ header = FALSE /\ lines = 0 /\ clean = TRUE
  /\ budget = [crashes |-> MaxCrashes, faults |-> MaxFaults]

Next ==
  \/ Load \/ Compact \/ CompactFails \/ Loaded \/ Crash
  \/ \E batch \in Batches :
       Commit(batch) \/ CommitCompactFails(batch) \/ CommitFails(batch) \/ CrashCommitting(batch)

Spec == Init /\ [][Next]_vars

-----------------------------------------------------------------------------
Texts == Seq([id : Ids \cup {"version", "fragment"}, rev : Nat])

TypeOK ==
  /\ file \in Seq(Texts)
  /\ phase \in {"down", "compact", "loaded", "up", "dead"}
  /\ revision \in [Ids -> Nat] /\ acked \in [Ids -> Nat]
  /\ torn \in BOOLEAN /\ header \in BOOLEAN /\ clean \in BOOLEAN /\ lines \in Nat
  /\ budget \in [crashes : Nat, faults : Nat]

\* While no append fails the next load accepts the file, and journal and file implement the store of revisions: neither a commit, a
\* compaction, a crash inside a line nor the load after it makes them disagree, and a crash keeps a
\* first part of the rows being committed and never a later row without an earlier one.
Running == phase \in {"loaded", "up"}
Store == INSTANCE RevisionStore WITH
  running <- Running,
  memory  <- IF Running THEN revision ELSE [id \in Ids |-> 0],
  stored  <- IF file = <<>> THEN [id \in Ids |-> 0] ELSE ReadBack(file),
  legible <- file # <<>> => ~Refused(file)
ImplementsStore == Store!Init /\ [][clean' => [Store!Next]_Store!store]_vars

\* "Commands keep their immutable identity and outcome forever": a command whose commit returned
\* never ends up in a file that no later load accepts.
CommandsKept == (\E id \in Ids : acked[id] > 0) => ~Refused(file)

\* A commit that returned stays on a line of its own in the file, across torn tails, compactions and
\* appends that failed.  Load rejects that file only after some append has failed (CommandsKept then
\* does not hold); every load that accepts it, and every host that runs on it, has that revision of
\* the receipt or a later one in memory.  The variables keep their types.
Acknowledged ==
  /\ TypeOK
  /\ \A id \in Ids : acked[id] <= IF file = <<>> THEN 0 ELSE ReadBack(file)[id]
  /\ clean /\ file # <<>> => ~Refused(file)
  /\ phase \in {"compact", "loaded", "up"} => \A id \in Ids : acked[id] <= revision[id]

=============================================================================

---------------------------- MODULE RevisionStore ----------------------------
(***************************************************************************)
(* What the file promises the journal while no append fails: rows that are *)
(* committed together advance memory and file in one step, a host that     *)
(* dies keeps a first part of the rows it was committing, and a start      *)
(* takes exactly what is stored.                                           *)
(***************************************************************************)
EXTENDS Naturals, Sequences

CONSTANTS
  Ids,
  Batches   \* the rows committed together, in the order they are written

VARIABLES
  running,   \* whether a journal answers from memory
  memory,    \* the revision of each receipt it answers with
  stored,    \* the revision of each receipt a load finds
  legible    \* whether a load accepts the file

store == <<running, memory, stored, legible>>

Nothing == [id \in Ids |-> 0]

Advance(revs, rows) ==
  [id \in Ids |-> IF \E n \in DOMAIN rows : rows[n] = id THEN revs[id] + 1 ELSE revs[id]]

\* The first n of the rows.
FirstRows(rows, n) == [k \in 1 .. n |-> rows[k]]

Init == running = FALSE /\ memory = Nothing /\ stored = Nothing /\ legible = TRUE

Start ==
  /\ ~running /\ running'
  /\ memory' = stored /\ stored' = stored

Commit(rows) ==
  /\ running /\ running'
  /\ memory' = Advance(memory, rows) /\ stored' = memory'

Stop ==
  /\ running /\ ~running'
  /\ memory' = Nothing /\ stored' = stored

StopCommitting(rows) ==
  /\ running /\ ~running'
  /\ memory' = Nothing
  /\ \E n \in 1 .. Len(rows) : stored' = Advance(memory, FirstRows(rows, n))

Next ==
  /\ legible' = legible
  /\ \/ Start \/ Stop
     \/ \E rows \in Batches : Commit(rows) \/ StopCommitting(rows)

Spec == Init /\ [][Next]_store

=============================================================================

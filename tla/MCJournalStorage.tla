--------------------------- MODULE MCJournalStorage ---------------------------
(* Two receipts, compacted above four lines. *)
EXTENDS JournalStorage, TLC

CONSTANTS r1, r2

MCIds == {r1, r2}
Symmetry == Permutations(MCIds)

=============================================================================

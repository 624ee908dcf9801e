------------------------------ MODULE WorkRegister ------------------------------
(***************************************************************************)
(* What the Work of one document promises its writers                      *)
(* (ts/packages/runtime route-workspace.ts): one value whose revision only *)
(* counts up, one write at a time, whatever the host does between.         *)
(***************************************************************************)
EXTENDS Naturals

VARIABLES value, revision

Write == revision' = revision + 1

Spec == [][Write]_<<value, revision>>
=================================================================================

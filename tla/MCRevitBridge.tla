----------------------------- MODULE MCRevitBridge -----------------------------
(***************************************************************************)
(* Two casts over one Revit process. In the first, two requests meet two   *)
(* connections and a revocation. In the second, three requests, one of     *)
(* them of a caller that may go away, meet a queue of two, on the only     *)
(* connection left.                                                        *)
(***************************************************************************)
EXTENDS RevitBridge, TLC

CONSTANTS r1, r2, r3, r4

Pair == {r1, r2}
Trio == {r2, r3, r4}
Leavers == {r4}
MCRequests == Pair \cup Trio
MCJournaled == {r1}

\* The requests of the other cast are over: refused while no Revit was connected.
Over == [Fresh EXCEPT !.pc = "done", !.outcome = "refused"]
Cast(present) == req = [r \in Requests |-> IF r \in present THEN Fresh ELSE Over]
PastRevocation == [named |-> {}, state |-> "swept"]

MCInit ==
  /\ current = 0 /\ queueTail = [g \in Connections |-> None] /\ queueDepth = [g \in Connections |-> 0]
  /\ native = [r \in Requests |-> "unsent"]
  /\ denied = {} /\ closed = {} /\ revokedBeforeQueue = {} /\ withdrawn = {}
  /\ \/ /\ Cast(Pair)
        /\ link = [g \in Connections |-> "none"] /\ revocations = <<>>
     \/ /\ Cast(Trio)
        /\ link = [g \in Connections |-> IF g = 1 THEN "gone" ELSE "none"] /\ revocations = <<PastRevocation>>

MCSpec == MCInit /\ [][Next]_vars /\ Fairness

=============================================================================

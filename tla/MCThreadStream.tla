---------------------------- MODULE MCThreadStream ----------------------------
(* A conversation of three events in a log of five entries that keeps four, in *)
(* casts: the faults a cast leaves out are over before a behaviour starts.     *)
EXTENDS ThreadStream, TLC

Cast(crashes, drops, resyncs, forgets) ==
  /\ Quiet
  /\ faults = [crashes |-> MaxCrashes - crashes, drops |-> MaxDrops - drops,
               resyncs |-> MaxResyncs - resyncs, forgets |-> MaxForgets - forgets]

MCInit ==
  \/ Cast(1, 0, 0, 1)
  \/ Cast(1, 1, 0, 0)
  \/ Cast(0, 1, 1, 0)
  \/ Cast(0, 1, 0, 1)
  \/ Cast(1, 0, 1, 0)

MCSpec == MCInit /\ [][Next]_vars /\ Fairness
===============================================================================

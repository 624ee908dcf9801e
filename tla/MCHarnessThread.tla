---------------------------- MODULE MCHarnessThread ----------------------------
(* Four prompts and a retry of two of them, one with attachments, a cancel     *)
(* request and a request outside a turn, in casts: the requests and faults a   *)
(* cast leaves out are over before a behaviour starts.                         *)
EXTENDS HarnessThread, TLC

CONSTANTS p, q, r, w, m1, m2, m3, m4, m5, m6, s1, u1

MCIds == {p, q, r, w}
MCMessages == {m1, m2, m3, m4, m5, m6}
MCIdOf == m1 :> p @@ m2 :> q @@ m3 :> r @@ m4 :> p @@ m5 :> w @@ m6 :> w

Cast(ms, ss, us, told, fs) ==
  /\ Quiet /\ capable = told
  /\ msg = [m \in Messages |-> IF m \in ms THEN Fresh ELSE Done]
  /\ cut = [a \in Messages \cup Stops |-> IF a \in Messages \cup ss THEN NoCut ELSE [NoCut EXCEPT !.step = "done"]]
  /\ use = [u \in Uses |-> IF u \in us THEN Unused ELSE [Unused EXCEPT !.at = "done"]]
  /\ faults = [crashes |-> MaxCrashes - fs[1], deaths |-> MaxDeaths - fs[2], ends |-> MaxEnds - fs[3]]

MCInit ==
  \/ Cast({m1, m2, m3}, {}, {}, TRUE, <<0, 0, 0>>)
  \/ Cast({m1, m2, m4}, {}, {}, TRUE, <<1, 0, 0>>)
  \/ Cast({m1, m2}, Stops, {}, TRUE, <<0, 1, 0>>)
  \/ Cast({m1, m2}, {}, {}, TRUE, <<1, 0, 1>>)
  \/ Cast({m1, m2}, {}, Uses, TRUE, <<0, 0, 0>>)
  \/ Cast({m1, m2}, {}, {}, FALSE, <<0, 0, 0>>)
  \/ Cast({m5, m6}, {}, {}, FALSE, <<1, 0, 0>>)
  \/ Cast({m1}, Stops, Uses, TRUE, <<0, 1, 0>>)
  \/ Cast({m1}, Stops, Uses, TRUE, <<0, 0, 1>>)

MCSpec == MCInit /\ [][Next]_vars /\ Fairness
================================================================================

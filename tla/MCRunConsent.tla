------------------------------ MODULE MCRunConsent ------------------------------
(* A root run with a delegated one, and an independent run. *)
EXTENDS RunConsent, TLC

CONSTANTS main, child, lone, w1, w2, w3

MCRuns == {main, child, lone}
MCRootOf == main :> main @@ child :> main @@ lone :> lone
MCCommands == {w1, w2, w3}
MCRunOf == w1 :> main @@ w2 :> child @@ w3 :> lone

================================================================================

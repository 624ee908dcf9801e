--------------------------- MODULE MCRouteWorkspace ---------------------------
(***************************************************************************)
(* Five short lives of one document: four writes and restores in a row; an *)
(* Address taken after Work was staged, with a page, a failing store and a *)
(* restart; an older document set aside, with the same; a page that        *)
(* connects twice around a restart; and a page that had heard the first    *)
(* write before the host started again.                                    *)
(***************************************************************************)
EXTENDS RouteWorkspace, TLC

CONSTANTS x, y

MCPaths == {x, y}
MCPatches == {x :> 1, x :> 0, x :> 1 @@ y :> 1}

Returned == [view |-> [is |-> "ready", work |-> Staged], seen |-> 1, trusted |-> {1}]

Cast(stores, pages, requests, restores, visits, crashes, failures) ==
  /\ Quiet /\ page \in pages /\ store \in stores
  /\ spent = [requests |-> MaxRequests - requests, restores |-> MaxRestores - restores, visits |-> MaxVisits - visits,
              crashes |-> MaxCrashes - crashes, failures |-> MaxFailures - failures]

MCInit ==
  \/ Cast({Only("work", None)}, {NoPage}, 4, 2, 0, 0, 0)
  \/ Cast({Only("open", Staged), Only("open", Older)}, {NoPage}, 2, 1, 1, 1, 1)
  \/ Cast({Only("work", Older)}, {NoPage}, 3, 1, 0, 1, 1)
  \/ Cast({Only("work", None)}, {NoPage}, 2, 1, 2, 1, 0)
  \/ Cast({Only("work", Staged)}, {Returned}, 2, 0, 1, 1, 0)

MCSpec == MCInit /\ [][Next]_vars /\ Fairness
===============================================================================

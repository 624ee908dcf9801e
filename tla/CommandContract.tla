--------------------------- MODULE CommandContract ---------------------------
(***************************************************************************)
(* What a command promises its submitter, whatever happens to the host: an *)
(* operation takes effect only while the command has no final answer,      *)
(* "succeeded" is answered only when all of it was done, "not dispatched"  *)
(* only when none of it was, and an answer is final.                       *)
(***************************************************************************)
CONSTANTS
  Actions,
  Required    \* Required[a]: the operations a succeeded command has performed

VARIABLES
  answer,     \* answer[a]: what the journal says of the command
  performed,  \* performed[a]: the operations that took effect
  untouched   \* untouched[a]: the answer claims that nothing was dispatched

Final == {"succeeded", "failed", "cancelled"}

Init ==
  /\ answer = [a \in Actions |-> "none"]
  /\ performed = [a \in Actions |-> {}]
  /\ untouched = [a \in Actions |-> FALSE]

Same(a) ==
  /\ answer'[a] = answer[a]
  /\ performed'[a] = performed[a]
  /\ untouched'[a] = untouched[a]

\* Submitted, or an unresolved command resumed.
Submit(a) ==
  /\ answer[a] \in {"none", "unresolved"}
  /\ answer'[a] = "pending"
  /\ performed'[a] = performed[a]
  /\ ~untouched'[a]

\* One operation takes effect, possibly after its answer was lost.
Perform(a) ==
  /\ answer[a] \in {"pending", "unresolved"}
  /\ answer'[a] = answer[a] /\ untouched'[a] = untouched[a]
  /\ \E n \in performed'[a] : n \notin performed[a] /\ performed'[a] = performed[a] \cup {n}

\* An answer: final, or unresolved until somebody recovers or resumes it.
Answer(a) ==
  /\ answer[a] \notin Final
  /\ answer'[a] \in Final \cup {"unresolved"}
  /\ performed'[a] = performed[a]
  /\ answer'[a] = "succeeded" => Required[a] \subseteq performed[a]
  /\ untouched'[a] => answer'[a] \in {"failed", "cancelled"} /\ performed[a] = {}

\* A recovery finds operations in effect and may settle the command, never as succeeded.
Find(a) ==
  /\ answer[a] = "unresolved"
  /\ answer'[a] \in {"unresolved", "failed", "cancelled"}
  /\ performed[a] \subseteq performed'[a]
  /\ untouched'[a] => answer'[a] # "unresolved" /\ performed'[a] = {}

\* A host stop answers every pending command at once.
Next == \A a \in Actions : Same(a) \/ Submit(a) \/ Perform(a) \/ Answer(a) \/ Find(a)

Spec == Init /\ [][Next]_<<answer, performed, untouched>>

=============================================================================

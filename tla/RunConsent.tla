------------------------------- MODULE RunConsent -------------------------------
(***************************************************************************)
(* The consent a turn of Pea needs before it writes                        *)
(* (ts/apps/host/src/run-consent.ts, with the doors of control.ts): one    *)
(* decision per root run, shared by delegated runs, asked by the first     *)
(* consequential command, given by a person or by a countdown, ended by    *)
(* the run.  Callers other than Pea never wait here and are left out.      *)
(***************************************************************************)
EXTENDS Naturals, FiniteSets

CONSTANTS
  Runs,      \* turns; an identity is never opened twice
  RootOf,    \* the root each run is bound to
  Commands,  \* consequential commands of Pea
  RunOf      \* the run each command was submitted under

ASSUME ConsentAssumption ==
  /\ IsFiniteSet(Runs) /\ IsFiniteSet(Commands)
  /\ RootOf \in [Runs -> Runs] /\ \A r \in Runs : RootOf[RootOf[r]] = RootOf[r]
  /\ RunOf \in [Commands -> Runs]

VARIABLES
  runs,      \* the registry; a request is named by the root that asked it
  answers,   \* the requests that got an answer
  ask,       \* what the transcript says of the request of each root: "none", "open" or how it resolved
  command,   \* where each command is: "new", "asking", "granted", "refused" or "cancelled"
  promise,   \* what its authorize() waits for: "none", "decision" or "null"
  writes     \* ghost: whether a command passed a checkpoint after its consent

vars == <<runs, answers, ask, command, promise, writes>>

Absent == [state |-> "absent", reason |-> "none", decision |-> FALSE, waiters |-> {}, timer |-> FALSE]
Root(c) == RootOf[RunOf[c]]

-----------------------------------------------------------------------------
\* assertOpen: both the run and its root are in the registry and not closed.
Open(r) == \A q \in {r, RootOf[r]} : runs[q].state \in {"idle", "waiting", "allowed"}

Stopped(r) == runs[r].state = "closed" /\ runs[r].reason # "completed"

\* checkpoint: whether a granted command may still write.
Passes(c) ==
  /\ \A r \in {RunOf[c], Root(c)} :
       /\ runs[r].state \notin {"absent", "forgotten"}
       /\ ~Stopped(r)
       /\ runs[r].state = "closed" => runs[r].decision
  /\ runs[Root(c)].state \in {"allowed", "closed"} /\ runs[Root(c)].decision

BugGrantsAll(cs, value) == [c \in Commands |-> IF c \in cs THEN "decision" ELSE promise[c]]

\* Those among the commands that wait for an answer.
Resolve(cs, value) == [c \in Commands |-> IF c \in cs THEN value ELSE promise[c]]

BugOwnDecision(r, reason) ==
  LET mine == IF RootOf[r] = r THEN {} ELSE {c \in runs[RootOf[r]].waiters : RunOf[c] = r}
  IN  /\ runs' = [runs EXCEPT
           ![r] = [state |-> "closed", reason |-> reason, decision |-> @.state = "allowed",
                   waiters |-> {}, timer |-> FALSE],
           ![RootOf[r]].waiters = IF RootOf[r] = r THEN {} ELSE @ \ mine]
      /\ promise' = Resolve(runs[r].waiters \cup mine, "null")
      /\ answers' = IF runs[r].state = "waiting" THEN answers \cup {r} ELSE answers
      /\ ask' = IF runs[r].state = "waiting" THEN [ask EXCEPT ![r] = "cancel"] ELSE ask

BugStrandsChildren(r, reason) ==
  /\ runs' = [runs EXCEPT
       ![r] = [state |-> "closed", reason |-> reason, decision |-> runs[RootOf[r]].decision,
               waiters |-> {}, timer |-> FALSE]]
  /\ promise' = Resolve({c \in runs[r].waiters : RunOf[c] = r}, "null")
  /\ answers' = IF runs[r].state = "waiting" THEN answers \cup {r} ELSE answers
  /\ ask' = IF runs[r].state = "waiting" THEN [ask EXCEPT ![r] = "cancel"] ELSE ask

\* close: the decision of the root stays with the run; its own waiters, and those of the root that
\* came from it, get null.
Close(r, reason) ==
  LET mine == IF RootOf[r] = r THEN {} ELSE {c \in runs[RootOf[r]].waiters : RunOf[c] = r}
  IN  /\ runs' = [runs EXCEPT
           ![r] = [state |-> "closed", reason |-> reason, decision |-> runs[RootOf[r]].decision,
                   waiters |-> {}, timer |-> FALSE],
           ![RootOf[r]].waiters = IF RootOf[r] = r THEN {} ELSE @ \ mine]
      /\ promise' = Resolve(runs[r].waiters \cup mine, "null")
      /\ answers' = IF runs[r].state = "waiting" THEN answers \cup {r} ELSE answers
      /\ ask' = IF runs[r].state = "waiting" THEN [ask EXCEPT ![r] = "cancel"] ELSE ask

Closable(r) == runs[r].state \in {"idle", "waiting", "allowed"}

-----------------------------------------------------------------------------
\* A turn starts.  A delegated one needs its root open, and takes its binding from the host.
OpenRun(r) ==
  /\ runs[r].state = "absent"
  /\ RootOf[r] # r => Open(RootOf[r])
  /\ runs' = [runs EXCEPT ![r].state = "idle"]
  /\ UNCHANGED <<answers, ask, command, promise, writes>>

\* A command of a closed run is refused.
AuthorizeRefused(c) ==
  /\ command[c] = "new" /\ ~Open(RunOf[c])
  /\ command' = [command EXCEPT ![c] = "refused"]
  /\ UNCHANGED <<runs, answers, ask, promise, writes>>

AuthorizeAllowed(c) ==
  /\ command[c] = "new" /\ Open(RunOf[c]) /\ runs[Root(c)].state = "allowed"
  /\ command' = [command EXCEPT ![c] = "granted"]
  /\ UNCHANGED <<runs, answers, ask, promise, writes>>

\* The first command opens the countdown, the others join it.
AuthorizeWaits(c) ==
  LET root == Root(c)
  IN  /\ command[c] = "new" /\ Open(RunOf[c]) /\ runs[root].state \in {"idle", "waiting"}
      /\ command' = [command EXCEPT ![c] = "asking"]
      /\ runs' = [runs EXCEPT ![root] = [@ EXCEPT !.state = "waiting", !.timer = TRUE,
                                          !.waiters = runs[root].waiters \cup {c}]]
      /\ ask' = IF runs[root].state = "idle" THEN [ask EXCEPT ![root] = "open"] ELSE ask
      /\ UNCHANGED <<answers, promise, writes>>

BugWaitsOnNull(c) ==
  /\ command[c] = "asking" /\ promise[c] = "decision"
  /\ command' = [command EXCEPT ![c] = "granted"]
  /\ UNCHANGED <<runs, answers, ask, promise, writes>>

\* authorize() resumes with its answer.
Answered(c) ==
  /\ command[c] = "asking" /\ promise[c] # "none"
  /\ command' = [command EXCEPT ![c] = IF promise[c] = "decision" THEN "granted" ELSE "refused"]
  /\ UNCHANGED <<runs, answers, ask, promise, writes>>

\* The journal stops waiting for a command somebody cancelled; its waiter stays registered.
CancelCommand(c) ==
  /\ command[c] = "asking"
  /\ command' = [command EXCEPT ![c] = "cancelled"]
  /\ UNCHANGED <<runs, answers, ask, promise, writes>>

Allow(r, by) ==
  /\ runs' = [runs EXCEPT ![r] = [@ EXCEPT !.state = "allowed", !.decision = TRUE, !.waiters = {}, !.timer = FALSE]]
  /\ answers' = answers \cup {r}
  /\ ask' = [ask EXCEPT ![r] = by]
  /\ promise' = Resolve(runs[r].waiters, "decision")

BugAnswersClosed(r) == runs[r].state \in {"waiting", "closed"}

\* decide: an answered or a decided request keeps its answer.
Undecided(r) == r \notin answers /\ runs[r].state = "waiting"

DecideAllow(r) ==
  /\ Undecided(r)
  /\ Allow(r, "user")
  /\ UNCHANGED <<command, writes>>

Deadline(r) ==
  /\ runs[r].timer /\ Undecided(r)
  /\ Allow(r, "deadline")
  /\ UNCHANGED <<command, writes>>

DecideStop(r) ==
  /\ Undecided(r)
  /\ Close(r, "stopped")
  /\ UNCHANGED <<command, writes>>

\* The turn ends, is cancelled or fails.
CloseRun(r) ==
  /\ Closable(r)
  /\ \E reason \in {"completed", "stopped"} : Close(r, reason)
  /\ UNCHANGED <<command, writes>>

\* closeAll closes every run that is open, one after the other.
CloseAll ==
  /\ \E r \in Runs : Closable(r)
  /\ runs' = [r \in Runs |->
       IF Closable(r) THEN [state |-> "closed", reason |-> "restart", decision |-> runs[RootOf[r]].decision,
                            waiters |-> {}, timer |-> FALSE]
       ELSE runs[r]]
  /\ promise' = Resolve(UNION {runs[r].waiters : r \in Runs}, "null")
  /\ answers' = answers \cup {r \in Runs : runs[r].state = "waiting"}
  /\ ask' = [r \in Runs |-> IF runs[r].state = "waiting" THEN "cancel" ELSE ask[r]]
  /\ UNCHANGED <<command, writes>>

\* A host that restarts remembers no run; receipts keep the consents they were given.
Restart ==
  /\ \E r \in Runs : runs[r].state \notin {"absent", "forgotten"}
  /\ runs' = [r \in Runs |-> IF runs[r].state = "absent" THEN Absent ELSE [Absent EXCEPT !.state = "forgotten"]]
  /\ answers' = {}
  /\ command' = [c \in Commands |-> IF command[c] = "asking" THEN "cancelled" ELSE command[c]]
  /\ UNCHANGED <<ask, promise, writes>>

\* A granted command passes a checkpoint, or is refused at it.
Checkpoint(c) ==
  /\ command[c] = "granted"
  /\ IF Passes(c) THEN writes' = writes \cup {c} /\ UNCHANGED command
     ELSE command' = [command EXCEPT ![c] = "refused"] /\ UNCHANGED writes
  /\ UNCHANGED <<runs, answers, ask, promise>>

-----------------------------------------------------------------------------
Init ==
  /\ runs = [r \in Runs |-> Absent]
  /\ answers = {} /\ ask = [r \in Runs |-> "none"]
  /\ command = [c \in Commands |-> "new"] /\ promise = [c \in Commands |-> "none"]
  /\ writes = {}

Next ==
  \/ \E r \in Runs : OpenRun(r) \/ DecideAllow(r) \/ DecideStop(r) \/ Deadline(r) \/ CloseRun(r)
  \/ \E c \in Commands :
       \/ AuthorizeRefused(c) \/ AuthorizeAllowed(c) \/ AuthorizeWaits(c) \/ Answered(c)
       \/ CancelCommand(c) \/ Checkpoint(c)
  \/ CloseAll \/ Restart

Spec == Init /\ [][Next]_vars

\* The countdown runs out and a resolved promise is resumed; people, turns and commands owe nothing.
FairSpec ==
  /\ Spec
  /\ \A r \in Runs : WF_vars(Deadline(r))
  /\ \A c \in Commands : WF_vars(Answered(c))

-----------------------------------------------------------------------------
\* Types, and that only a waiting run has waiters and a timer.
TypeOK ==
  /\ \A r \in Runs : runs[r].timer = (runs[r].state = "waiting") /\ (runs[r].waiters # {} => runs[r].timer)
  /\ runs \in [Runs -> [state : {"absent", "idle", "waiting", "allowed", "closed", "forgotten"},
                       reason : {"none", "completed", "stopped", "restart"}, decision : BOOLEAN,
                       waiters : SUBSET Commands, timer : BOOLEAN]]
  /\ answers \subseteq Runs /\ ask \in [Runs -> {"none", "open", "user", "deadline", "cancel"}]
  /\ command \in [Commands -> {"new", "asking", "granted", "refused", "cancelled"}]
  /\ promise \in [Commands -> {"none", "decision", "null"}] /\ writes \subseteq Commands

\* "Child completion cancels only its unapproved commands, leaving the root countdown intact": a
\* command still waits only while its run is open and a countdown that holds it is running.
NoneStranded ==
  \A c \in Commands :
    command[c] = "asking" /\ promise[c] = "none" =>
      /\ Open(RunOf[c])
      /\ runs[Root(c)].state = "waiting" /\ runs[Root(c)].timer /\ c \in runs[Root(c)].waiters

\* Whatever is granted, or was written, has behind it the one answer its own root run got, and the
\* transcript says which: a closed run grants nothing to those who were waiting.
Consented == \A c \in Commands : command[c] = "granted" \/ c \in writes => ask[Root(c)] \in {"user", "deadline"}

\* "Normal completion ... permits already-authorized bounded commands to finish": what was granted
\* stays good while neither the run nor its root was stopped or forgotten.
AuthorizedFinish ==
  \A c \in Commands :
    command[c] = "granted" /\ (\A r \in {RunOf[c], Root(c)} : ~Stopped(r) /\ runs[r].state # "forgotten") =>
      Passes(c)

\* A request is answered once, whoever repeats the answer, races the countdown or answers a turn that
\* has just closed; and a command that waited is told, once, what the transcript says of its root.
OneAnswer == [][
  /\ \A r \in Runs : ask[r] \in {"user", "deadline", "cancel"} => ask'[r] = ask[r]
  /\ \A c \in Commands :
       /\ promise[c] # "none" => promise'[c] = promise[c]
       /\ promise'[c] # promise[c] => (promise'[c] = "decision" <=> ask'[Root(c)] \in {"user", "deadline"})]_vars

\* A command that waits for consent gets an answer without anybody's help.
EveryAnswered == \A c \in Commands : []<>(command[c] # "asking")

=============================================================================

--------------------------- MODULE RunConsentProofs ---------------------------
(***************************************************************************)
(* The consent of a run, for any set of runs, delegations and commands.    *)
(*                                                                         *)
(* The argument: a countdown holds exactly the commands of open runs of    *)
(* its own tree, and closing a run answers all of those it may strand.     *)
(* Consent is given only by an answered countdown, so what is granted has  *)
(* a decided root, which stays decided until a stop or a restart.          *)
(***************************************************************************)
EXTENDS RunConsent, TLAPS

Given == {c \in Commands : command[c] = "granted" \/ (command[c] = "asking" /\ promise[c] = "decision")}
Allowed == {"user", "deadline"}
Ours(c) == {RunOf[c], Root(c)}

\* The transcript says what the registry does, as long as the registry remembers the run.
AskOK ==
  \A r \in Runs :
    /\ runs[r].state \in {"absent", "idle"} => ask[r] = "none"
    /\ runs[r].state = "waiting" => ask[r] = "open"
    /\ runs[r].state = "allowed" => ask[r] \in Allowed /\ runs[r].decision

\* The commands of a countdown are those of its own tree whose runs are open; none has its answer yet.
WaitersOK ==
  \A r \in Runs : \A c \in runs[r].waiters :
    Root(c) = r /\ Open(RunOf[c]) /\ command[c] # "new" /\ promise[c] = "none"

\* A command that was given consent, resumed or not, has an answer behind it, belongs to runs that
\* were opened, and stays good until one of them is stopped or forgotten.
GivenOK ==
  /\ \A c \in Commands : command[c] = "new" => promise[c] = "none"
  /\ \A c \in Given \cup writes : ask[Root(c)] \in Allowed
  /\ \A c \in Given : \A r \in Ours(c) : runs[r].state # "absent"
  /\ \A c \in Given :
       (\A r \in Ours(c) : ~Stopped(r) /\ runs[r].state # "forgotten") => Passes(c)

IInv == TypeOK /\ NoneStranded /\ AskOK /\ WaitersOK /\ GivenOK

RunEntry == [state : {"absent", "idle", "waiting", "allowed", "closed", "forgotten"},
             reason : {"none", "completed", "stopped", "restart"}, decision : BOOLEAN,
             waiters : SUBSET Commands, timer : BOOLEAN]

LEMMA ClosedIs ==
  ASSUME TypeOK, NEW r \in Runs, NEW reason \in {"completed", "stopped"}, Close(r, reason)
  PROVE  /\ runs' \in [Runs -> RunEntry]
         /\ runs'[r].state = "closed" /\ runs'[r].reason = reason
         /\ runs'[r].decision = runs[RootOf[r]].decision /\ runs'[r].waiters = {} /\ ~runs'[r].timer
         /\ \A q \in Runs \ {r} :
              /\ runs'[q].state = runs[q].state /\ runs'[q].reason = runs[q].reason
              /\ runs'[q].decision = runs[q].decision /\ runs'[q].timer = runs[q].timer
              /\ runs'[q].waiters \subseteq runs[q].waiters
              /\ \A c \in runs[q].waiters : q # RootOf[r] \/ RunOf[c] # r => c \in runs'[q].waiters
              /\ q = RootOf[r] => \A c \in runs'[q].waiters : RunOf[c] # r
<1> RootOf[r] \in Runs
  BY ConsentAssumption
<1>1. runs \in [Runs -> RunEntry]
  BY DEF TypeOK, RunEntry
<1> DEFINE mine == IF RootOf[r] = r THEN {} ELSE {c \in runs[RootOf[r]].waiters : RunOf[c] = r}
           next == [state |-> "closed", reason |-> reason, decision |-> runs[RootOf[r]].decision,
                    waiters |-> {}, timer |-> FALSE]
           first == [runs EXCEPT ![r] = next]
           left == IF RootOf[r] = r THEN {} ELSE first[RootOf[r]].waiters \ mine
<1>2. runs' = [first EXCEPT ![RootOf[r]].waiters = left]
  BY DEF Close
<1>3. next \in RunEntry
  BY <1>1 DEF RunEntry
<1>4. first \in [Runs -> RunEntry]
  BY <1>1, <1>3
<1>5. next.state = "closed" /\ next.reason = reason /\ next.decision = runs[RootOf[r]].decision
      /\ next.waiters = {} /\ ~next.timer
  BY <1>1 DEF RunEntry
<1>6. left \subseteq Commands
  BY <1>1, <1>4 DEF RunEntry
<1> HIDE DEF next
<1>7. first[r] = next /\ \A q \in Runs \ {r} : first[q] = runs[q]
  BY <1>1
<1> HIDE DEF first
<1>71. [first[RootOf[r]] EXCEPT !.waiters = left] \in RunEntry
  BY <1>4, <1>6 DEF RunEntry
<1> HIDE DEF left
<1>8. /\ runs' \in [Runs -> RunEntry]
      /\ \A q \in Runs \ {RootOf[r]} : runs'[q] = first[q]
      /\ runs'[RootOf[r]] = [first[RootOf[r]] EXCEPT !.waiters = left]
  BY <1>2, <1>4, <1>71
<1>9. LET e == runs'[RootOf[r]] f == first[RootOf[r]]
      IN  e.state = f.state /\ e.reason = f.reason /\ e.decision = f.decision /\ e.timer = f.timer /\ e.waiters = left
  BY <1>4, <1>8 DEF RunEntry
<1>10. CASE RootOf[r] = r
  <2>1. left = {}
    BY <1>10 DEF left
  <2> QED
    BY <1>5, <1>7, <1>8, <1>9, <1>10, <2>1, ZenonT(60)
<1>11. CASE RootOf[r] # r
  <2>1. left = {c \in runs[RootOf[r]].waiters : RunOf[c] # r}
    BY <1>7, <1>11 DEF left
  <2> QED
    BY <1>5, <1>7, <1>8, <1>9, <1>11, <2>1, ZenonT(60)
<1> QED
  BY <1>10, <1>11

LEMMA AnsweredByClose ==
  ASSUME TypeOK, NEW r \in Runs, NEW reason \in {"completed", "stopped"}, Close(r, reason)
  PROVE  /\ promise' \in [Commands -> {"none", "decision", "null"}]
         /\ \A c \in Commands :
              /\ c \in runs[r].waiters \/ (c \in runs[RootOf[r]].waiters /\ RunOf[c] = r) => promise'[c] = "null"
              /\ promise'[c] # "null" => promise'[c] = promise[c]
              /\ promise'[c] # promise[c] =>
                   c \in runs[r].waiters \/ (c \in runs[RootOf[r]].waiters /\ RunOf[c] = r)
         /\ answers' \subseteq Runs
         /\ ask' = IF runs[r].state = "waiting" THEN [ask EXCEPT ![r] = "cancel"] ELSE ask
BY DEF TypeOK, Close, Resolve

-----------------------------------------------------------------------------
(* One lemma for each action: what it keeps of the invariant.                *)

LEMMA OpenRunKeeps ==
  ASSUME IInv, NEW r \in Runs, OpenRun(r)
  PROVE  IInv'
<1> USE ConsentAssumption
<1>1. TypeOK'
  <2>1. runs \in [Runs -> RunEntry]
    BY DEF IInv, TypeOK, RunEntry
  <2>2. [runs[r] EXCEPT !.state = "idle"] \in RunEntry
    BY <2>1 DEF RunEntry
  <2>3. runs' \in [Runs -> RunEntry]
    BY <2>1, <2>2 DEF OpenRun
  <2> QED
    BY <2>1, <2>3 DEF IInv, OpenRun, TypeOK, RunEntry
<1>2. NoneStranded'
  BY DEF IInv, OpenRun, NoneStranded, Open, Root, TypeOK
<1>3. AskOK'
  BY DEF IInv, OpenRun, AskOK, Allowed, TypeOK
<1>4. WaitersOK'
  BY DEF IInv, OpenRun, WaitersOK, Open, Root, TypeOK
<1>5. GivenOK'
  BY DEF IInv, OpenRun, GivenOK, Given, Ours, Passes, Stopped, Open, Root, Allowed, AskOK, WaitersOK, TypeOK
<1> QED
  BY <1>1, <1>2, <1>3, <1>4, <1>5 DEF IInv

LEMMA AuthorizeRefusedKeeps ==
  ASSUME IInv, NEW c \in Commands, AuthorizeRefused(c)
  PROVE  IInv'
<1> USE ConsentAssumption
<1>1. TypeOK'
  BY DEF IInv, AuthorizeRefused, TypeOK, RunEntry, Absent
<1>2. NoneStranded'
  BY DEF IInv, AuthorizeRefused, NoneStranded, Open, Root, TypeOK
<1>3. AskOK'
  BY DEF IInv, AuthorizeRefused, AskOK, Allowed, TypeOK
<1>4. WaitersOK'
  BY DEF IInv, AuthorizeRefused, WaitersOK, Open, Root, TypeOK
<1>5. GivenOK'
  <2>1. \A d \in Commands : command'[d] = "new" => command[d] = "new"
    BY DEF IInv, AuthorizeRefused, TypeOK
  <2>2. Given' = Given
    BY DEF IInv, AuthorizeRefused, Given, TypeOK
  <2>3. \A d \in Given : Passes(d)' = Passes(d)
    BY DEF AuthorizeRefused, Passes, Stopped, Root
  <2>4. \A r \in Runs : Stopped(r)' = Stopped(r)
    BY DEF AuthorizeRefused, Stopped
  <2>5. \A d \in Given : Ours(d) \subseteq Runs
    BY DEF Given, Ours, Root
  <2> QED
    BY <2>1, <2>2, <2>3, <2>4, <2>5 DEF IInv, AuthorizeRefused, GivenOK, Ours, Root
<1> QED
  BY <1>1, <1>2, <1>3, <1>4, <1>5 DEF IInv

LEMMA AuthorizeAllowedKeeps ==
  ASSUME IInv, NEW c \in Commands, AuthorizeAllowed(c)
  PROVE  IInv'
<1> USE ConsentAssumption
<1>1. TypeOK'
  BY DEF IInv, AuthorizeAllowed, TypeOK, RunEntry, Absent
<1>2. NoneStranded'
  BY DEF IInv, AuthorizeAllowed, NoneStranded, Open, Root, TypeOK
<1>3. AskOK'
  BY DEF IInv, AuthorizeAllowed, AskOK, Allowed, TypeOK
<1>4. WaitersOK'
  BY DEF IInv, AuthorizeAllowed, WaitersOK, Open, Root, TypeOK
<1>5. GivenOK'
  <2>1. \A d \in Commands : command'[d] = "new" => promise'[d] = "none"
    BY DEF IInv, AuthorizeAllowed, GivenOK, TypeOK, WaitersOK
  <2>2. \A d \in Given' \cup writes' : ask'[Root(d)] \in Allowed
    BY DEF IInv, AuthorizeAllowed, GivenOK, Given, Root, Allowed, AskOK, TypeOK
  <2>3. \A d \in Given' : \A r \in Ours(d) : runs'[r].state # "absent"
    BY DEF IInv, AuthorizeAllowed, GivenOK, Given, Ours, Open, Root, TypeOK
  <2>4. \A d \in Given' : (\A r \in Ours(d) : ~Stopped(r)' /\ runs'[r].state # "forgotten") => Passes(d)'
    <3> TAKE d \in Given'
    <3>1. CASE d = c
      BY <3>1 DEF IInv, AuthorizeAllowed, Given, Ours, Passes, Stopped, Open, Root, AskOK, TypeOK
    <3>2. CASE d # c
      <4>1. d \in Given /\ Stopped(RunOf[d])' = Stopped(RunOf[d]) /\ Stopped(Root(d))' = Stopped(Root(d)) /\ Passes(d)' = Passes(d)
        BY <3>2 DEF IInv, AuthorizeAllowed, Given, Stopped, Passes, Root, TypeOK
      <4> QED
        BY <4>1 DEF IInv, AuthorizeAllowed, GivenOK, Ours, Root
    <3> QED
      BY <3>1, <3>2
  <2> QED
    BY <2>1, <2>2, <2>3, <2>4 DEF GivenOK, Given, Ours, Root
<1> QED
  BY <1>1, <1>2, <1>3, <1>4, <1>5 DEF IInv

LEMMA AuthorizeWaitsKeeps ==
  ASSUME IInv, NEW c \in Commands, AuthorizeWaits(c)
  PROVE  IInv'
<1> USE ConsentAssumption
<1> DEFINE joined == [runs[Root(c)] EXCEPT !.state = "waiting", !.timer = TRUE, !.waiters = runs[Root(c)].waiters \cup {c}]
<1>1. runs \in [Runs -> RunEntry] /\ Root(c) \in Runs /\ RunOf[c] \in Runs
  BY DEF IInv, TypeOK, RunEntry, Root
<1>2. joined \in RunEntry /\ joined.state = "waiting" /\ joined.timer /\ joined.waiters = runs[Root(c)].waiters \cup {c}
  BY <1>1, ZenonT(60) DEF RunEntry
<1> HIDE DEF joined
<1>3. runs' = [runs EXCEPT ![Root(c)] = joined]
  BY DEF AuthorizeWaits, joined
<1>4. /\ command' = [command EXCEPT ![c] = "asking"]
      /\ command[c] = "new" /\ Open(RunOf[c]) /\ runs[Root(c)].state \in {"idle", "waiting"}
      /\ UNCHANGED <<answers, promise, writes>>
      /\ ask' = IF runs[Root(c)].state = "idle" THEN [ask EXCEPT ![Root(c)] = "open"] ELSE ask
  BY DEF AuthorizeWaits
<1>5. /\ runs' \in [Runs -> RunEntry] /\ runs'[Root(c)] = joined
      /\ \A q \in Runs \ {Root(c)} : runs'[q] = runs[q]
  BY <1>1, <1>2, <1>3, <1>4
<1>7. TypeOK'
  BY <1>1, <1>2, <1>3, <1>4, <1>5 DEF IInv, TypeOK, RunEntry
<1>8. \A q \in Runs : Open(q) => Open(q)'
  BY <1>1, <1>2, <1>3, <1>4, <1>5 DEF Open
<1>9. NoneStranded'
  BY <1>1, <1>2, <1>3, <1>4, <1>5, <1>8 DEF IInv, NoneStranded, Root, TypeOK
<1>10. AskOK'
  BY <1>1, <1>2, <1>3, <1>4, <1>5 DEF IInv, AskOK, Allowed, TypeOK
<1>11. WaitersOK'
  <2>1. promise' = promise /\ promise[c] = "none"
    BY <1>4 DEF IInv, GivenOK
  <2> QED
    BY <1>1, <1>2, <1>3, <1>4, <1>5, <1>8, <2>1 DEF IInv, WaitersOK, Root, TypeOK, RunEntry
<1>12. GivenOK'
  BY <1>1, <1>2, <1>3, <1>4, <1>5 DEF IInv, GivenOK, Given, Ours, Passes, Stopped, Open, Root, Allowed, AskOK, TypeOK
<1> QED
  BY <1>7, <1>9, <1>10, <1>11, <1>12 DEF IInv

LEMMA AnsweredKeeps ==
  ASSUME IInv, NEW c \in Commands, Answered(c)
  PROVE  IInv'
<1> USE ConsentAssumption
<1>1. TypeOK'
  BY DEF IInv, Answered, TypeOK, RunEntry, Absent
<1>2. NoneStranded'
  BY DEF IInv, Answered, NoneStranded, Open, Root, TypeOK
<1>3. AskOK'
  BY DEF IInv, Answered, AskOK, Allowed, TypeOK
<1>4. WaitersOK'
  BY DEF IInv, Answered, WaitersOK, Open, Root, TypeOK
<1>5. GivenOK'
  BY DEF IInv, Answered, GivenOK, Given, Ours, Passes, Stopped, Open, Root, Allowed, AskOK, WaitersOK, TypeOK
<1> QED
  BY <1>1, <1>2, <1>3, <1>4, <1>5 DEF IInv

LEMMA CancelCommandKeeps ==
  ASSUME IInv, NEW c \in Commands, CancelCommand(c)
  PROVE  IInv'
<1> USE ConsentAssumption
<1>1. TypeOK'
  BY DEF IInv, CancelCommand, TypeOK, RunEntry, Absent
<1>2. NoneStranded'
  BY DEF IInv, CancelCommand, NoneStranded, Open, Root, TypeOK
<1>3. AskOK'
  BY DEF IInv, CancelCommand, AskOK, Allowed, TypeOK
<1>4. WaitersOK'
  BY DEF IInv, CancelCommand, WaitersOK, Open, Root, TypeOK
<1>5. GivenOK'
  BY DEF IInv, CancelCommand, GivenOK, Given, Ours, Passes, Stopped, Open, Root, Allowed, AskOK, WaitersOK, TypeOK
<1> QED
  BY <1>1, <1>2, <1>3, <1>4, <1>5 DEF IInv

LEMMA EntryAllowed ==
  ASSUME NEW e \in RunEntry
  PROVE  LET f == [e EXCEPT !.state = "allowed", !.decision = TRUE, !.waiters = {}, !.timer = FALSE]
         IN  /\ f \in RunEntry
             /\ f.state = "allowed" /\ f.waiters = {} /\ f.timer = FALSE /\ f.decision = TRUE
BY DEF RunEntry

LEMMA AllowKeeps ==
  ASSUME IInv, NEW r \in Runs, NEW by \in {"user", "deadline"},
         Undecided(r), Allow(r, by), UNCHANGED <<command, writes>>
  PROVE  IInv'
<1> USE ConsentAssumption
<1>1. TypeOK'
  <2>1. runs \in [Runs -> RunEntry]
    BY DEF IInv, TypeOK, RunEntry
  <2> DEFINE allowed == [runs[r] EXCEPT !.state = "allowed", !.decision = TRUE, !.waiters = {}, !.timer = FALSE]
  <2>4. /\ allowed \in RunEntry
        /\ allowed.state = "allowed" /\ allowed.waiters = {} /\ allowed.timer = FALSE /\ allowed.decision = TRUE
    BY <2>1, EntryAllowed
  <2>5. runs' = [runs EXCEPT ![r] = allowed]
    BY DEF Allow
  <2> HIDE DEF allowed
  <2>6. runs' \in [Runs -> RunEntry] /\ runs'[r] = allowed /\ \A q \in Runs \ {r} : runs'[q] = runs[q]
    BY <2>1, <2>4, <2>5
  <2>7. ASSUME NEW q \in Runs
        PROVE  runs'[q].timer = (runs'[q].state = "waiting") /\ (runs'[q].waiters # {} => runs'[q].timer)
    <3>1. CASE q = r
      BY <2>4, <2>6, <3>1
    <3>2. CASE q # r
      BY <2>6, <3>2 DEF IInv, TypeOK
    <3> QED
      BY <3>1, <3>2
  <2>8. answers' \subseteq Runs /\ ask' \in [Runs -> {"none", "open", "user", "deadline", "cancel"}]
        /\ promise' \in [Commands -> {"none", "decision", "null"}]
    BY DEF IInv, Allow, Resolve, TypeOK
  <2> QED
    BY <2>6, <2>7, <2>8 DEF IInv, TypeOK, RunEntry
<1>2. NoneStranded'
  BY DEF IInv, Undecided, Allow, Resolve, NoneStranded, Open, Root, TypeOK
<1>3. AskOK'
  BY DEF IInv, Undecided, Allow, Resolve, AskOK, Allowed, TypeOK
<1>4. WaitersOK'
  BY DEF IInv, Undecided, Allow, Resolve, WaitersOK, Open, Root, TypeOK
<1>5. GivenOK'
  BY DEF IInv, Undecided, Allow, Resolve, GivenOK, Given, Ours, Passes, Stopped, Open, Root, Allowed, AskOK, WaitersOK, TypeOK
<1> QED
  BY <1>1, <1>2, <1>3, <1>4, <1>5 DEF IInv

LEMMA CloseAllKeeps ==
  ASSUME IInv, CloseAll
  PROVE  IInv'
<1> USE ConsentAssumption
<1>1. TypeOK'
  BY DEF IInv, CloseAll, Resolve, Closable, TypeOK, RunEntry, Absent
<1>2. NoneStranded'
  BY DEF IInv, CloseAll, Resolve, Closable, NoneStranded, Open, Root, TypeOK
<1>3. AskOK'
  BY DEF IInv, CloseAll, Resolve, Closable, AskOK, Allowed, TypeOK
<1>4. WaitersOK'
  BY DEF IInv, CloseAll, Resolve, Closable, WaitersOK, Open, Root, TypeOK
<1>5. GivenOK'
  <2>1. \A d \in Commands : command'[d] = "new" => promise'[d] = "none"
    BY DEF IInv, CloseAll, Resolve, Closable, GivenOK, TypeOK, WaitersOK
  <2>2. \A d \in Given' \cup writes' : ask'[Root(d)] \in Allowed
    BY DEF IInv, CloseAll, Resolve, Closable, GivenOK, Given, Root, Allowed, AskOK, TypeOK
  <2>3. \A d \in Given' : \A r \in Ours(d) : runs'[r].state # "absent"
    BY DEF IInv, CloseAll, Resolve, Closable, GivenOK, Given, Ours, Open, Root, TypeOK
  <2>4. \A d \in Given' : (\A r \in Ours(d) : ~Stopped(r)' /\ runs'[r].state # "forgotten") => Passes(d)'
    <3> SUFFICES ASSUME NEW d \in Given', \A r \in Ours(d) : ~Stopped(r)' /\ runs'[r].state # "forgotten"
                 PROVE  Passes(d)'
      BY DEF Ours, Root
    <3>1. d \in Given /\ RunOf[d] \in Runs /\ Root(d) \in Runs
      BY DEF IInv, CloseAll, Resolve, Given, Root, TypeOK
    <3>2. \A r \in Ours(d) : ~Closable(r)
      BY <3>1 DEF CloseAll, Stopped, Ours
    <3>3. \A r \in Ours(d) : runs'[r] = runs[r]
      BY <3>1, <3>2 DEF CloseAll, Ours
    <3> QED
      BY <3>1, <3>3 DEF IInv, GivenOK, Ours, Passes, Stopped, Root
  <2> QED
    BY <2>1, <2>2, <2>3, <2>4 DEF GivenOK, Given, Ours, Root
<1> QED
  BY <1>1, <1>2, <1>3, <1>4, <1>5 DEF IInv

LEMMA RestartKeeps ==
  ASSUME IInv, Restart
  PROVE  IInv'
<1> USE ConsentAssumption
<1>1. TypeOK'
  BY DEF IInv, Restart, TypeOK, RunEntry, Absent
<1>2. NoneStranded'
  BY DEF IInv, Restart, NoneStranded, Open, Root, TypeOK
<1>3. AskOK'
  BY DEF IInv, Restart, Absent, AskOK, Allowed, TypeOK
<1>4. WaitersOK'
  BY DEF IInv, Restart, Absent, WaitersOK, Open, Root, TypeOK
<1>5. GivenOK'
  <2>1. \A d \in Commands : command'[d] = "new" => command[d] = "new"
    BY DEF IInv, Restart, TypeOK
  <2>2. Given' \subseteq Given
    BY DEF IInv, Restart, Given, TypeOK
  <2>3. \A r \in Runs : runs'[r].state \in {"absent", "forgotten"} /\ (runs'[r].state = "absent" => runs[r].state = "absent")
    BY DEF Restart, Absent
  <2>4. \A d \in Commands : Ours(d) \subseteq Runs /\ Ours(d) # {}
    BY DEF Ours, Root
  <2>5. Given \subseteq Commands
    BY DEF Given
  <2>6. \A d \in Given' : \A r \in Ours(d) : runs'[r].state # "absent"
    BY <2>2, <2>3, <2>4, <2>5 DEF IInv, GivenOK
  <2>7. \A d \in Given' \cup writes' : ask'[Root(d)] \in Allowed
    BY <2>2 DEF IInv, Restart, GivenOK
  <2>8. \A d \in Commands : command'[d] = "new" => promise'[d] = "none"
    BY <2>1 DEF IInv, Restart, GivenOK
  <2>9. \A d \in Given' : \E r \in Ours(d) : runs'[r].state = "forgotten"
    BY <2>2, <2>3, <2>4, <2>5, <2>6
  <2> QED
    BY <2>6, <2>7, <2>8, <2>9 DEF GivenOK, Ours, Root
<1> QED
  BY <1>1, <1>2, <1>3, <1>4, <1>5 DEF IInv

LEMMA CheckpointKeeps ==
  ASSUME IInv, NEW c \in Commands, Checkpoint(c)
  PROVE  IInv'
<1> USE ConsentAssumption
<1>1. TypeOK'
  BY DEF IInv, Checkpoint, TypeOK, RunEntry, Absent
<1>2. NoneStranded'
  BY DEF IInv, Checkpoint, NoneStranded, Open, Root, TypeOK
<1>3. AskOK'
  BY DEF IInv, Checkpoint, AskOK, Allowed, TypeOK
<1>4. WaitersOK'
  BY DEF IInv, Checkpoint, WaitersOK, Open, Root, TypeOK
<1>5. GivenOK'
  BY DEF IInv, Checkpoint, GivenOK, Given, Ours, Passes, Stopped, Open, Root, Allowed, AskOK, WaitersOK, TypeOK
<1> QED
  BY <1>1, <1>2, <1>3, <1>4, <1>5 DEF IInv

LEMMA CloseKeeps ==
  ASSUME IInv, NEW r \in Runs, NEW reason \in {"completed", "stopped"},
         Closable(r), Close(r, reason), UNCHANGED <<command, writes>>
  PROVE  IInv'
<1> USE ConsentAssumption
<1>1. TypeOK
  BY DEF IInv
<1>2. /\ runs' \in [Runs -> RunEntry] /\ runs \in [Runs -> RunEntry]
      /\ runs'[r].state = "closed" /\ runs'[r].reason = reason
      /\ runs'[r].decision = runs[RootOf[r]].decision /\ runs'[r].waiters = {} /\ ~runs'[r].timer
      /\ \A q \in Runs \ {r} :
           /\ runs'[q].state = runs[q].state /\ runs'[q].reason = runs[q].reason
           /\ runs'[q].decision = runs[q].decision /\ runs'[q].timer = runs[q].timer
           /\ runs'[q].waiters \subseteq runs[q].waiters
           /\ \A c \in runs[q].waiters : q # RootOf[r] \/ RunOf[c] # r => c \in runs'[q].waiters
           /\ q = RootOf[r] => \A c \in runs'[q].waiters : RunOf[c] # r
  BY <1>1, ClosedIs DEF TypeOK, RunEntry
<1>3. /\ promise' \in [Commands -> {"none", "decision", "null"}] /\ answers' \subseteq Runs
      /\ \A c \in Commands :
           /\ c \in runs[r].waiters \/ (c \in runs[RootOf[r]].waiters /\ RunOf[c] = r) => promise'[c] = "null"
           /\ promise'[c] # "null" => promise'[c] = promise[c]
           /\ promise'[c] # promise[c] =>
                c \in runs[r].waiters \/ (c \in runs[RootOf[r]].waiters /\ RunOf[c] = r)
      /\ ask' = IF runs[r].state = "waiting" THEN [ask EXCEPT ![r] = "cancel"] ELSE ask
  BY <1>1, AnsweredByClose
<1>4. command' = command /\ writes' = writes
  OBVIOUS
<1>5. TypeOK'
  BY <1>1, <1>2, <1>3, <1>4 DEF TypeOK, RunEntry
<1>6. NoneStranded'
  <2> SUFFICES ASSUME NEW c \in Commands, command[c] = "asking", promise'[c] = "none"
               PROVE  /\ Open(RunOf[c])'
                      /\ runs'[Root(c)].state = "waiting" /\ runs'[Root(c)].timer /\ c \in runs'[Root(c)].waiters
    BY <1>4 DEF NoneStranded, Root
  <2>1. /\ Open(RunOf[c]) /\ runs[Root(c)].state = "waiting" /\ runs[Root(c)].timer /\ c \in runs[Root(c)].waiters
        /\ Root(c) \in Runs /\ RunOf[c] \in Runs
    BY <1>3 DEF IInv, NoneStranded, Root
  <2>2. Root(c) # r /\ RunOf[c] # r
    BY <1>3, <2>1 DEF Root
  <2> QED
    BY <1>2, <2>1, <2>2 DEF Open, Root
<1>7. AskOK'
  BY <1>1, <1>2, <1>3 DEF IInv, AskOK, Allowed, TypeOK
<1>8. WaitersOK'
  <2> SUFFICES ASSUME NEW q \in Runs, NEW c \in runs'[q].waiters
               PROVE  Root(c) = q /\ Open(RunOf[c])' /\ command[c] # "new" /\ promise'[c] = "none"
    BY <1>4 DEF WaitersOK, Root
  <2>1. q # r /\ c \in runs[q].waiters /\ c \in Commands
    BY <1>2 DEF RunEntry
  <2>2. Root(c) = q /\ Open(RunOf[c]) /\ command[c] # "new" /\ promise[c] = "none"
    BY <2>1 DEF IInv, WaitersOK
  <2>3. RunOf[c] # r
    BY <1>2, <2>1, <2>2 DEF Root
  <2>4. c \notin runs[r].waiters
    BY <2>1, <2>2 DEF IInv, WaitersOK
  <2>5. promise'[c] = "none"
    BY <1>3, <2>1, <2>2, <2>3, <2>4
  <2> QED
    BY <1>2, <2>1, <2>2, <2>3, <2>5 DEF Open, Root
<1>9. \A c \in Given' : c \in Given
  BY <1>3, <1>4 DEF Given
<1>10. \A c \in Commands : command'[c] = "new" => promise'[c] = "none"
  BY <1>1, <1>2, <1>3, <1>4 DEF IInv, GivenOK, WaitersOK, RunEntry
<1>11. \A c \in Given' \cup writes' : ask'[Root(c)] \in Allowed
  BY <1>1, <1>3, <1>4, <1>9 DEF IInv, GivenOK, AskOK, Root, Allowed, Given, TypeOK
<1>12. \A c \in Given' : \A q \in Ours(c) : runs'[q].state # "absent"
  BY <1>2, <1>9 DEF IInv, GivenOK, Ours, Root, Given
<1>13. ASSUME NEW c \in Given', \A q \in Ours(c) : ~Stopped(q)' /\ runs'[q].state # "forgotten"
       PROVE  Passes(c)'
  <2>1. c \in Given /\ c \in Commands /\ Root(c) \in Runs /\ RunOf[c] \in Runs /\ RootOf[Root(c)] = Root(c)
    BY <1>9 DEF Given, Root
  <2>2. \A q \in Ours(c) : ~Stopped(q) /\ runs[q].state # "forgotten"
    BY <1>2, <1>13, <2>1 DEF Ours, Stopped, Closable
  <2>3. Passes(c)
    BY <2>1, <2>2 DEF IInv, GivenOK
  <2>4. RootOf[RunOf[c]] = Root(c)
    BY DEF Root
  <2> QED
    BY <1>2, <1>13, <2>1, <2>3, <2>4 DEF Passes, Stopped, Ours, Root
<1>14. GivenOK'
  BY <1>10, <1>11, <1>12, <1>13 DEF GivenOK, Ours, Root
<1> QED
  BY <1>5, <1>6, <1>7, <1>8, <1>14 DEF IInv

-----------------------------------------------------------------------------
LEMMA Starts == Init => IInv
<1> SUFFICES ASSUME Init PROVE IInv
  OBVIOUS
<1> USE ConsentAssumption DEF Init
<1>1. TypeOK
  BY DEF TypeOK, Absent
<1>2. NoneStranded
  BY DEF NoneStranded
<1>3. AskOK /\ WaitersOK
  BY DEF AskOK, WaitersOK, Absent
<1>4. GivenOK
  BY DEF GivenOK, Given
<1> QED
  BY <1>1, <1>2, <1>3, <1>4 DEF IInv

LEMMA Keeps == IInv /\ [Next]_vars => IInv'
<1> SUFFICES ASSUME IInv, [Next]_vars PROVE IInv'
  OBVIOUS
<1>1. ASSUME NEW r \in Runs, OpenRun(r) PROVE IInv'
  BY <1>1, OpenRunKeeps
<1>2. ASSUME NEW r \in Runs, DecideAllow(r) PROVE IInv'
  BY <1>2, AllowKeeps DEF DecideAllow
<1>3. ASSUME NEW r \in Runs, DecideStop(r) PROVE IInv'
  BY <1>3, CloseKeeps DEF DecideStop, Undecided, Closable
<1>4. ASSUME NEW r \in Runs, Deadline(r) PROVE IInv'
  BY <1>4, AllowKeeps DEF Deadline
<1>5. ASSUME NEW r \in Runs, CloseRun(r) PROVE IInv'
  BY <1>5, CloseKeeps DEF CloseRun
<1>6. ASSUME NEW c \in Commands, AuthorizeRefused(c) PROVE IInv'
  BY <1>6, AuthorizeRefusedKeeps
<1>7. ASSUME NEW c \in Commands, AuthorizeAllowed(c) PROVE IInv'
  BY <1>7, AuthorizeAllowedKeeps
<1>8. ASSUME NEW c \in Commands, AuthorizeWaits(c) PROVE IInv'
  BY <1>8, AuthorizeWaitsKeeps
<1>9. ASSUME NEW c \in Commands, Answered(c) PROVE IInv'
  BY <1>9, AnsweredKeeps
<1>10. ASSUME NEW c \in Commands, CancelCommand(c) PROVE IInv'
  BY <1>10, CancelCommandKeeps
<1>11. ASSUME NEW c \in Commands, Checkpoint(c) PROVE IInv'
  BY <1>11, CheckpointKeeps
<1>12. CASE CloseAll
  BY <1>12, CloseAllKeeps
<1>13. CASE Restart
  BY <1>13, RestartKeeps
<1>14. CASE UNCHANGED vars
  BY <1>14 DEF vars, IInv, TypeOK, NoneStranded, AskOK, WaitersOK, GivenOK, Given, Ours, Root, Open, Passes, Stopped
<1> QED
  BY <1>1, <1>2, <1>3, <1>4, <1>5, <1>6, <1>7, <1>8, <1>9, <1>10, <1>11, <1>12, <1>13, <1>14 DEF Next

LEMMA Invariant == Spec => []IInv
BY Starts, Keeps, PTL DEF Spec

\* The registry keeps its shape, and only a waiting run has a timer or waiters (run-consent.ts:115,
\* 163, 212), for any runs and commands.
THEOREM ConsentTyped == Spec => []TypeOK
<1>1. IInv => TypeOK
  BY DEF IInv
<1> QED
  BY <1>1, Invariant, PTL

\* A command that waits is always in a countdown that runs, whoever completes, stops or cancels
\* around it (run-consent.ts:212-242).
THEOREM NobodyStranded == Spec => []NoneStranded
<1>1. IInv => NoneStranded
  BY DEF IInv
<1> QED
  BY <1>1, Invariant, PTL

\* Whatever was granted or written was allowed by a person or the countdown of its own root
\* (run-consent.ts:89-150, 163-185).
THEOREM AlwaysConsented == Spec => []Consented
<1>1. IInv => Consented
  BY DEF IInv, GivenOK, Given, Consented, Allowed
<1> QED
  BY <1>1, Invariant, PTL

\* A granted command may finish until its run or its root is stopped or forgotten
\* (run-consent.ts:187-222).
THEOREM GrantsLast == Spec => []AuthorizedFinish
<1>1. IInv => AuthorizedFinish
  BY DEF IInv, GivenOK, Given, AuthorizedFinish, Ours
<1> QED
  BY <1>1, Invariant, PTL

\* A step that answers nobody keeps every promise.
LEMMA AnswersNobody ==
  ASSUME IInv, [Next]_vars,
         ~\E r \in Runs : DecideAllow(r) \/ Deadline(r) \/ DecideStop(r) \/ CloseRun(r),
         ~CloseAll
  PROVE  promise' = promise
BY DEF Next, vars, OpenRun, AuthorizeRefused, AuthorizeAllowed, AuthorizeWaits, Answered, CancelCommand,
       Checkpoint, Restart

\* What a waiting command is told is what the transcript says of its root from then on.
LEMMA ToldTheAnswer ==
  ASSUME IInv, [Next]_vars, NEW c \in Commands, promise'[c] # promise[c]
  PROVE  promise[c] = "none" /\ (promise'[c] = "decision" <=> ask'[Root(c)] \in {"user", "deadline"})
<1>1. /\ Root(c) \in Runs /\ RunOf[c] \in Runs /\ RootOf[Root(c)] = Root(c) /\ Root(c) = RootOf[RunOf[c]]
      /\ ask \in [Runs -> {"none", "open", "user", "deadline", "cancel"}]
      /\ runs \in [Runs -> RunEntry]
  BY ConsentAssumption DEF Root, IInv, TypeOK, RunEntry
<1>2. \A r \in Runs : c \in runs[r].waiters =>
        r = Root(c) /\ promise[c] = "none" /\ runs[r].state = "waiting" /\ ask[r] = "open"
  BY DEF IInv, WaitersOK, AskOK, TypeOK
<1>3. ASSUME NEW r \in Runs, NEW by \in {"user", "deadline"}, Allow(r, by)
      PROVE  promise[c] = "none" /\ (promise'[c] = "decision" <=> ask'[Root(c)] \in {"user", "deadline"})
  <2>1. c \in runs[r].waiters /\ promise'[c] = "decision"
    BY <1>3 DEF Allow, Resolve
  <2>2. ask'[r] = by
    BY <1>1, <1>3 DEF Allow
  <2> QED
    BY <1>2, <2>1, <2>2
<1>4. ASSUME NEW r \in Runs, NEW reason \in {"completed", "stopped"}, Close(r, reason)
      PROVE  promise[c] = "none" /\ (promise'[c] = "decision" <=> ask'[Root(c)] \in {"user", "deadline"})
  <2>1. /\ c \in runs[r].waiters \/ (c \in runs[RootOf[r]].waiters /\ RunOf[c] = r)
        /\ promise'[c] = "null"
        /\ ask' = IF runs[r].state = "waiting" THEN [ask EXCEPT ![r] = "cancel"] ELSE ask
    BY <1>4, AnsweredByClose DEF IInv
  <2>2. promise[c] = "none" /\ ask[Root(c)] = "open"
    BY <1>1, <1>2, <2>1, ConsentAssumption
  <2>3. ask'[Root(c)] \in {"open", "cancel"}
    BY <1>1, <2>1, <2>2
  <2> QED
    BY <2>1, <2>2, <2>3
<1>5. CASE CloseAll
  <2>1. promise'[c] = "null" /\ \E r \in Runs : c \in runs[r].waiters
    BY <1>5 DEF CloseAll, Resolve
  <2>2. promise[c] = "none" /\ runs[Root(c)].state = "waiting"
    BY <1>2, <2>1
  <2>3. ask'[Root(c)] = "cancel"
    BY <1>1, <1>5, <2>2 DEF CloseAll
  <2> QED
    BY <2>1, <2>2, <2>3
<1> QED
  BY <1>3, <1>4, <1>5, AnswersNobody DEF DecideAllow, Deadline, DecideStop, CloseRun

\* No request is answered twice, whatever a person, the countdown and the end of its run do at once,
\* and every command that waited is told that answer, once (run-consent.ts:152-185, 212-242).
THEOREM AnswersStay == Spec => OneAnswer
<1>1. IInv /\ [Next]_vars => \A r \in Runs : ask[r] \in {"user", "deadline", "cancel"} => ask'[r] = ask[r]
  <2> SUFFICES ASSUME IInv, [Next]_vars, NEW r \in Runs, ask[r] \in {"user", "deadline", "cancel"}
               PROVE  ask'[r] = ask[r]
    OBVIOUS
  <2>1. runs[r].state \notin {"absent", "idle", "waiting"} /\ ask \in [Runs -> {"none", "open", "user", "deadline", "cancel"}]
    BY DEF IInv, AskOK, TypeOK
  <2>2. ASSUME NEW q \in Runs, DecideAllow(q) \/ Deadline(q) PROVE ask'[r] = ask[r]
    BY <2>1, <2>2 DEF DecideAllow, Deadline, Undecided, Allow
  <2>3. ASSUME NEW q \in Runs, DecideStop(q) \/ CloseRun(q) PROVE ask'[r] = ask[r]
    BY <2>1, <2>3 DEF DecideStop, CloseRun, Close
  <2>4. ASSUME NEW c \in Commands, AuthorizeWaits(c) PROVE ask'[r] = ask[r]
    BY <2>1, <2>4 DEF AuthorizeWaits
  <2>5. CASE CloseAll
    BY <2>1, <2>5 DEF CloseAll
  <2>6. CASE UNCHANGED ask
    BY <2>6
  <2>7. ASSUME NEW q \in Runs, OpenRun(q) PROVE UNCHANGED ask
    BY <2>7 DEF OpenRun
  <2>8. ASSUME NEW c \in Commands,
               \/ AuthorizeRefused(c) \/ AuthorizeAllowed(c) \/ Answered(c) \/ CancelCommand(c) \/ Checkpoint(c)
        PROVE  UNCHANGED ask
    BY <2>8 DEF AuthorizeRefused, AuthorizeAllowed, Answered, CancelCommand, Checkpoint
  <2> QED
    BY <2>2, <2>3, <2>4, <2>5, <2>6, <2>7, <2>8 DEF Next, vars, Restart
<1>2. IInv /\ [Next]_vars => \A c \in Commands :
        /\ promise[c] # "none" => promise'[c] = promise[c]
        /\ promise'[c] # promise[c] => (promise'[c] = "decision" <=> ask'[Root(c)] \in {"user", "deadline"})
  BY ToldTheAnswer
<1> QED
  BY <1>1, <1>2, Invariant, PTL DEF Spec, OneAnswer

=============================================================================

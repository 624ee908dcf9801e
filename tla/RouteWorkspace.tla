---------------------------- MODULE RouteWorkspace ----------------------------
(***************************************************************************)
(* The durable Work of one document on one route                           *)
(* (ts/packages/runtime/src/route-workspace.ts over the store of           *)
(* ts/apps/host/src/route-document-store.ts), and a page that observes it: *)
(* its value through an owner read (owner-read.ts), its accepted writes    *)
(* through a bounded tail (resource-stream.ts). The document was staged    *)
(* without an Address, under the key "open", and may have one since, under *)
(* the key "work". Every operation runs alone; an action is what it does   *)
(* between two awaits of the store.                                        *)
(***************************************************************************)
EXTENDS Naturals, Sequences, FiniteSets, FiniteSetsExt, SequencesExt

CONSTANTS
  None,
  Paths, Values,  \* of a document
  Patches,        \* the edits that clients and the host make
  Window,         \* accepted writes and inverses the host remembers
  AckFrames,      \* accepted writes a connection holds for a slow reader
  MaxAsides,      \* bound: documents set aside
  MaxRequests,    \* bound: writes asked for
  MaxRestores,    \* bound: of them, restores
  MaxVisits,      \* bound: connections of the page
  MaxCrashes,     \* bound: restarts of the host
  MaxFailures     \* bound: calls of the store that throw

ASSUME WorkAssumption ==
  /\ Values # {} /\ Patches \subseteq UNION {[edited -> Values] : edited \in SUBSET Paths}
  /\ None \notin [revision : Nat, age : {"current", "older"}, doc : [Paths -> Values]]
  /\ {Window, AckFrames} \subseteq Nat \ {0} /\ Window <= AckFrames
  /\ {MaxAsides, MaxRequests, MaxRestores, MaxVisits, MaxCrashes, MaxFailures} \subseteq Nat

VARIABLES
  store,     \* what each key holds: Work or nothing
  asides,    \* the documents set aside, by their number
  op,        \* the operation that runs
  records,   \* the inverses of this host lifetime, by the revision of their write
  accepted,  \* its retained window of accepted writes
  reader,    \* the owner read of the observed Work: where it is, and whether it was invalidated
  conn,      \* the page is connected
  slot,      \* the snapshot its connection holds
  tail,      \* the accepted writes its connection holds, and whether older ones were dropped
  page,      \* the value it shows, the last write it heard, the writes it can still undo
  touched,   \* ghost: the last revision at which somebody else changed a path
  spent      \* writes, visits, crashes and failures so far

vars == <<store, asides, op, records, accepted, reader, conn, slot, tail, page, touched, spent>>
pageVars == <<conn, slot, tail, page>>
memory == <<records, accepted>>
kept == <<asides, records, accepted>>

Keys == {"open", "work"}
Docs == [Paths -> Values]
Work(rev, age, doc) == [revision |-> rev, age |-> age, doc |-> doc]
IdleRead == [at |-> "idle", dirty |-> FALSE, value |-> None]
QueuedRead == [IdleRead EXCEPT !.at = "queued"]
NoTail == [frames |-> <<>>, gap |-> FALSE]
NoPage == [view |-> None, seen |-> None, trusted |-> {}]
InitialValue == CHOOSE v \in Values : TRUE
Blank == [p \in Paths |-> InitialValue]

Applied(doc, patch) == [p \in Paths |-> IF p \in DOMAIN patch THEN patch[p] ELSE doc[p]]
Delta(before, after) == [p \in {q \in Paths : before[q] # after[q]} |-> after[p]]

\* The Work at a key, the empty one when there is none yet.
Loaded(key) == IF store[key] = None THEN Work(0, "current", Blank) ELSE store[key]

\* A reader's value: no Work, Work an older version wrote and this one cannot read, or Work.
Failure == [is |-> "failure", work |-> None]
Reads == IF store["work"] = None THEN [is |-> "absent", work |-> None]
         ELSE IF store["work"].age = "older" THEN [is |-> "unreadable", work |-> None]
         ELSE [is |-> "ready", work |-> store["work"]]

\* Work at the Address; before it has any, what was staged while addressless.
Current == IF store["work"] = None /\ store["open"] # None THEN store["open"] ELSE Loaded("work")

-------------------------------------------------------------------------------
(* Observers *)

\* Every notification, and every attach, reads again; one that comes during a read invalidates it.
BugReadOnce(r) == IF r.at = "idle" THEN QueuedRead ELSE r
Refreshed(r) == IF r.at = "idle" THEN QueuedRead ELSE [r EXCEPT !.dirty = TRUE]
Notify == reader' = IF conn THEN Refreshed(reader) ELSE reader

\* A tail keeps the latest; what it drops is covered by one gap.
Offered(t, ack) ==
  IF Len(t.frames) = AckFrames
    THEN [frames |-> Append(Tail(t.frames), ack), gap |-> TRUE]
    ELSE [t EXCEPT !.frames = Append(@, ack)]

ReadLands ==
  /\ reader.at = "read"
  /\ IF reader.dirty
       THEN reader' = QueuedRead /\ UNCHANGED slot
       ELSE reader' = IdleRead /\ slot' = reader.value
  /\ UNCHANGED <<store, op, kept, conn, tail, page, touched, spent>>

\* A connection replays the retained window and reads the value afresh.
Connect ==
  /\ ~conn /\ spent.visits < MaxVisits
  /\ conn' = TRUE
  /\ reader' = Refreshed(IdleRead)
  /\ tail' = [NoTail EXCEPT !.frames = accepted]
  /\ spent' = [spent EXCEPT !.visits = @ + 1]
  /\ UNCHANGED <<store, op, kept, slot, page, touched>>

Disconnected == conn' = FALSE /\ reader' = IdleRead /\ slot' = None /\ tail' = NoTail

Drop ==
  /\ conn /\ spent.visits < MaxVisits
  /\ Disconnected
  /\ UNCHANGED <<store, op, kept, page, touched, spent>>

Shows ==
  /\ slot # None
  /\ page' = [page EXCEPT !.view = slot] /\ slot' = None
  /\ UNCHANGED <<store, op, kept, reader, conn, tail, touched, spent>>

\* A replayed write is dropped; one that does not follow the last starts a new history.
BugTrustsTransport(ack) ==
  IF page.seen # None /\ ack.revision <= page.seen THEN page
  ELSE [page EXCEPT !.seen = ack.revision, !.trusted = @ \cup {ack.revision}]
Heard(ack) ==
  IF page.seen # None /\ ack.revision <= page.seen THEN page
  ELSE [page EXCEPT !.seen = ack.revision,
                    !.trusted = (IF ack.base = page.seen THEN @ ELSE {}) \cup {ack.revision}]
Hears ==
  /\ tail # NoTail
  /\ IF tail.gap
       THEN tail' = [tail EXCEPT !.gap = FALSE] /\ page' = [page EXCEPT !.trusted = {}]
       ELSE tail' = [tail EXCEPT !.frames = Tail(@)] /\ page' = Heard(Head(tail.frames))
  /\ UNCHANGED <<store, op, kept, reader, conn, slot, touched, spent>>

-------------------------------------------------------------------------------
(* Operations *)

Request(kind, by, key, patch, expected) ==
  [kind |-> kind, by |-> by, key |-> key, patch |-> patch, expected |-> expected, step |-> "ready",
   next |-> None, record |-> None]

\* The first use of an Address carries the Work staged before there was one; nothing is carried onto
\* Work the Address already has.
BugCarriesAgain(key) == key = "work" /\ store["open"] # None
Carries(key) == key = "work" /\ store["work"] = None /\ store["open"] # None

\* Operations run one after another.
Begin(request) ==
  /\ op = None
  /\ op' = [request EXCEPT !.step = IF Carries(request.key) /\ request.kind # "fresh" THEN "carry" ELSE "ready"]
  /\ UNCHANGED <<store, kept, pageVars, touched>>
Asked(request) ==
  /\ spent.requests < MaxRequests
  /\ spent' = [spent EXCEPT !.requests = @ + 1, !.restores = @ + (IF request.kind = "restore" THEN 1 ELSE 0)]
  /\ Begin(request)
  /\ UNCHANGED reader

\* A write names the revision its author read: the current one or one that is over.
At(key) == IF key = "work" THEN Current ELSE Loaded(key)
BeginWrite ==
  \E by \in {"human", "pea"}, key \in {"open", "work"}, patch \in Patches :
    \E expected \in {0, At(key).revision} :
      Asked(Request("apply", by, key, [whole |-> FALSE, patch |-> patch], expected))

\* An observation of the host, under a person's name.
BeginPublish ==
  \E patch \in Patches :
    Asked(Request("publish", "human", "work", [whole |-> FALSE, patch |-> patch], Current.revision))

\* A restore names an inverse that some accepted write had.
Inverses == {r.inverse : r \in records} \cup [whole : {FALSE}, patch : Patches]
BeginRestore ==
  /\ spent.restores < MaxRestores
  /\ \E by \in {"human", "pea"}, inverse \in Inverses :
    Asked(Request("restore", by, "work", inverse, Current.revision))

BeginFresh == Len(asides) < MaxAsides /\ \E by \in {"human", "pea"} : Asked(Request("fresh", by, "work", None, 0))

BeginRead ==
  /\ reader.at = "queued"
  /\ Begin(Request("read", "human", "work", None, 0))
  /\ reader' = [reader EXCEPT !.at = "reading"]
  /\ UNCHANGED spent

\* The copy is complete before the original goes.
Does(step) == op # None /\ op.step = step
CarryCopies ==
  /\ Does("carry")
  /\ store' = [store EXCEPT !["work"] = store["open"]]
  /\ op' = [op EXCEPT !.step = "carried"]
  /\ UNCHANGED <<kept, reader, pageVars, touched, spent>>
CarryClears ==
  /\ Does("carried")
  /\ store' = [store EXCEPT !["open"] = None]
  /\ op' = [op EXCEPT !.step = "ready"]
  /\ UNCHANGED <<kept, reader, pageVars, touched, spent>>

Read ==
  /\ Does("ready") /\ op.kind = "read"
  /\ op' = None
  /\ reader' = IF reader.at = "reading"
                 THEN [reader EXCEPT !.at = "read", !.value = Reads] ELSE reader
  /\ UNCHANGED <<store, kept, pageVars, touched, spent>>

\* The record an inverse names: the latest, if its paths are as it left them.
Named(inverse) ==
  LET named == {r \in records : r.inverse = inverse}
  IN  IF named = {} THEN None ELSE CHOOSE r \in named : \A q \in named : q.revision <= r.revision
Unmoved(record, doc) == \A p \in DOMAIN record.inverse.patch : doc[p] = record.after[p]
Found(doc) ==
  IF op.kind # "restore" THEN None
  ELSE LET record == Named(op.patch) IN IF record = None \/ ~Unmoved(record, doc) THEN None ELSE record

\* A write is refused when the Work moved, when an older version wrote it, or when its inverse is
\* unknown or its paths changed; and the route's own rule may refuse what would land, but not the
\* return of what was set aside. Only an answer that got as far as the edit is published.
Stale(work) == op.expected # work.revision
Unknown(work) == op.kind = "restore" /\ Found(work.doc) = None
Returns(work) == Found(work.doc) # None /\ Found(work.doc).inverse.whole
Silent(work) == \/ work.age = "older" \/ Unknown(work) \/ Returns(work)

\* Returning what was set aside brings the older document back whole.
Landed(work) ==
  Work(work.revision + 1, IF Returns(work) THEN "older" ELSE "current", Applied(work.doc, op.patch.patch))

Lands ==
  /\ Does("ready") /\ op.kind \in {"apply", "publish", "restore"}
  /\ LET work == Loaded(op.key) IN
       /\ work.age = "current" /\ ~Unknown(work) /\ ~Stale(work)
       /\ op' = [op EXCEPT !.step = "persist", !.next = Landed(work), !.record = Found(work.doc)]
  /\ UNCHANGED <<store, kept, reader, pageVars, touched, spent>>

Refuses ==
  /\ Does("ready") /\ op.kind \in {"apply", "publish", "restore"}
  /\ LET work == Loaded(op.key) IN
       /\ Returns(work) => Stale(work)
       /\ IF Silent(work) \/ op.key # "work" THEN UNCHANGED reader ELSE Notify
  /\ op' = None
  /\ UNCHANGED <<store, kept, pageVars, touched, spent>>

BugFreshFirst ==
  /\ Does("ready") /\ op.kind = "fresh"
  /\ LET work == Loaded("work")
         fresh == Work(work.revision + 1, "current", Blank)
     IN  IF work.age = "older"
           THEN store' = [store EXCEPT !["work"] = fresh] /\ op' = [op EXCEPT !.step = "persist", !.next = fresh]
           ELSE op' = None /\ UNCHANGED store
  /\ UNCHANGED <<kept, reader, pageVars, touched, spent>>

\* Start fresh: an unreadable older document is copied to the first free place, then an empty one
\* starts. What was set aside once stays there.
SetsAside ==
  /\ Does("ready") /\ op.kind = "fresh"
  /\ LET work == Loaded("work") IN
       IF work.age = "older"
         THEN /\ asides' = Append(asides, work)
              /\ op' = [op EXCEPT !.step = "persist", !.next = Work(work.revision + 1, "current", Blank)]
         ELSE op' = None /\ UNCHANGED asides
  /\ UNCHANGED <<store, memory, reader, pageVars, touched, spent>>

\* The new Work replaces the old one in one rename.
Persist ==
  /\ Does("persist")
  /\ store' = [store EXCEPT ![op.key] = op.next]
  /\ op' = [op EXCEPT !.step = "stored", !.next = Loaded(op.key)]
  /\ UNCHANGED <<kept, reader, pageVars, touched, spent>>

\* Foreign writes are barriers, even if a later write happens to put the same values back.
Foreign == op.by = "pea" \/ op.kind = "publish"
BugNoBarrier(changed) == records
Kept(changed) ==
  IF Foreign THEN {r \in records : DOMAIN r.inverse.patch \cap changed = {}} ELSE records

\* One more than the window: the oldest goes.
Oldest(rs) == CHOOSE r \in rs : \A q \in rs : r.revision <= q.revision
Recent(rs) == IF Cardinality(rs) > Window THEN rs \ {Oldest(rs)} ELSE rs

Latest(s) == SubSeq(s, (IF Len(s) > Window THEN Len(s) - Window ELSE 0) + 1, Len(s))

\* The write is remembered, acknowledged and published in one step. Only a write at the Address is
\* observed here.
Accept ==
  /\ Does("stored") /\ op.key = "work"
  /\ LET before == op.next
         after == store["work"]
         changed == DOMAIN Delta(before.doc, after.doc)
         fresh == op.kind = "fresh"
         inverse == [whole |-> fresh, patch |-> IF fresh THEN before.doc ELSE Delta(after.doc, before.doc)]
         record == [revision |-> after.revision, after |-> after.doc, inverse |-> inverse]
         ack == [base |-> before.revision, revision |-> after.revision]
     IN  /\ records' = Recent((IF fresh THEN {} ELSE Kept(changed)) \cup {record})
         /\ accepted' = Latest(Append(accepted, ack))
         /\ tail' = IF conn THEN Offered(tail, ack) ELSE tail
         /\ touched' = [p \in Paths |-> IF Foreign /\ p \in changed THEN after.revision ELSE touched[p]]
  /\ Notify
  /\ op' = None
  /\ UNCHANGED <<store, asides, conn, slot, page, spent>>

AcceptElsewhere ==
  /\ Does("stored") /\ op.key # "work"
  /\ op' = None
  /\ UNCHANGED <<store, kept, reader, pageVars, touched, spent>>

\* The store throws: the operation fails where it is, what it did before stays, and a read that was
\* part of it answers with the failure.
StoreFails ==
  /\ op # None /\ op.step \in {"carry", "carried", "persist"}
  /\ spent.failures < MaxFailures
  /\ op' = None
  /\ reader' = IF reader.at = "reading" /\ op.kind = "read"
                 THEN [reader EXCEPT !.at = "read", !.value = Failure] ELSE reader
  /\ spent' = [spent EXCEPT !.failures = @ + 1]
  /\ UNCHANGED <<store, kept, pageVars, touched>>

\* The host starts again: the files are what is left.
Restart ==
  /\ spent.crashes < MaxCrashes
  /\ spent' = [spent EXCEPT !.crashes = @ + 1]
  /\ op' = None /\ records' = {} /\ accepted' = <<>>
  /\ Disconnected
  /\ UNCHANGED <<store, asides, page, touched>>

-------------------------------------------------------------------------------
Quiet ==
  /\ op = None /\ asides = <<>> /\ records = {} /\ accepted = <<>>
  /\ conn = FALSE /\ reader = IdleRead /\ slot = None /\ tail = NoTail
  /\ touched = [p \in Paths |-> 0]

\* Nothing yet, Work staged without an Address, or Work that an older version saved.
Only(key, work) == [k \in Keys |-> IF k = key THEN work ELSE None]
Staged == Work(1, "current", Blank)
Older == Work(1, "older", Blank)
Init ==
  /\ Quiet /\ page = NoPage
  /\ spent = [requests |-> 0, restores |-> 0, visits |-> 0, crashes |-> 0, failures |-> 0]
  /\ store \in {Only("open", None)} \cup {Only(key, work) : key \in {"open", "work"}, work \in {Staged, Older}}

Observing == ReadLands \/ Connect \/ Drop \/ Shows \/ Hears
Beginning == BeginWrite \/ BeginPublish \/ BeginRestore \/ BeginFresh \/ BeginRead
Running ==
  \/ CarryCopies \/ CarryClears \/ Read \/ Lands \/ Refuses \/ SetsAside \/ Persist
  \/ Accept \/ AcceptElsewhere
Next == Observing \/ Beginning \/ Running \/ StoreFails \/ Restart

\* An operation that began goes on, a page reconnects, the queue of operations reaches a read, and
\* what a connection holds is read.
Fairness ==
  /\ WF_vars(Running) /\ WF_vars(Connect) /\ SF_vars(BeginRead)
  /\ WF_vars(ReadLands) /\ WF_vars(Shows) /\ WF_vars(Hears)

Spec == Init /\ [][Next]_vars /\ Fairness

-------------------------------------------------------------------------------
(* Properties *)

TypeOK ==
  /\ \A k \in Keys : store[k] # None =>
       store[k].revision \in 0 .. MaxRequests + 1 /\ store[k].age \in {"current", "older"} /\ store[k].doc \in Docs
  /\ op # None => op.step \in {"carry", "carried", "ready", "persist", "stored"}
  /\ Len(asides) <= MaxAsides /\ Cardinality(records) <= Window /\ Len(accepted) <= Window
  /\ Len(tail.frames) <= AckFrames
  /\ reader.at \in {"idle", "queued", "reading", "read"} /\ conn \in BOOLEAN
  /\ ~conn => reader = IdleRead /\ slot = None /\ tail = NoTail

\* "Foreign writes are barriers even if a later write happens to put the same values back": a restore
\* never takes back a path that Pea or the host changed after the write it undoes.
RestoreHonest ==
  op # None /\ op.record # None =>
    \A p \in DOMAIN op.record.inverse.patch : touched[p] <= op.record.revision

\* An older version's document is never lost: it is at one of the keys, over start fresh, restores,
\* carry-over, failures and restarts.
OldSomewhere == asides # <<>> \/ \E k \in Keys : store[k] # None /\ store[k].age = "older"
OldKept == [][OldSomewhere => OldSomewhere']_vars

\* What a page can undo is a whole stretch of history up to the last write it heard: what it missed,
\* in the tail or over a restart, ends it.
HistoryWhole ==
  /\ TypeOK
  /\ page.trusted # {} => page.trusted = Min(page.trusted) .. page.seen

\* The Work of the Address is a register: carrying it over, failures and restarts leave its value and
\* revision alone.
Register == INSTANCE WorkRegister WITH
  value <- [age |-> Current.age, doc |-> Current.doc], revision <- Current.revision
OneRegister == Register!Spec

\* A page that observes the Work shows it in the end, unless its last read failed, or it read that
\* there is none before some was carried over: neither is told to it again.
Untold == page.view # None /\ page.view.is \in {"failure", "absent"}
Gone == ~conn /\ spent.visits = MaxVisits
ViewCurrent == []<>(page.view = Reads \/ Untold \/ Gone)
===============================================================================

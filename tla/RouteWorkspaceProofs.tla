------------------------- MODULE RouteWorkspaceProofs -------------------------
(***************************************************************************)
(* The durable Work of one document, for every set of paths, values and    *)
(* edits, every window and every bound.                                    *)
(*                                                                         *)
(* The inductive invariant WorkInv says where the running operation is     *)
(* (Stepped), how many writes the revisions can have counted (Counted),    *)
(* what a remembered inverse may take back (Barriers), and that the writes *)
(* a page hears are single steps (Chained).                                *)
(***************************************************************************)
EXTENDS RouteWorkspace, FiniteSetTheorems, SequenceTheorems, TLAPS

-----------------------------------------------------------------------------
(* Types *)

Ages == {"current", "older"}
Works == [revision : Nat, age : Ages, doc : Docs]
Edits == UNION {[edited -> Values] : edited \in SUBSET Paths}
Changes == [whole : BOOLEAN, patch : Edits]
Records == [revision : Nat, after : Docs, inverse : Changes]
Acks == [base : Nat, revision : Nat]
Kinds == {"apply", "publish", "restore", "fresh", "read"}
Writing == {"apply", "publish", "restore"}
Steps == {"carry", "carried", "ready", "persist", "stored"}
Ops == [kind : Kinds, by : {"human", "pea"}, key : Keys, patch : Changes \cup {None}, expected : Nat,
        step : Steps, next : Works \cup {None}, record : Records \cup {None}]
Views == [is : {"failure", "absent", "unreadable", "ready"}, work : Works \cup {None}] \cup {None}

Stores ==
  /\ store \in [Keys -> Works \cup {None}]
  /\ op \in Ops \cup {None}
  /\ touched \in [Paths -> Nat]
  /\ asides \in Seq(Works)
  /\ records \in SUBSET Records /\ IsFiniteSet(records) /\ Cardinality(records) <= Window
  /\ accepted \in Seq(Acks) /\ Len(accepted) <= Window

Spending ==
  /\ spent \in [requests : Nat, restores : Nat, visits : Nat, crashes : Nat, failures : Nat]
  /\ spent.requests <= MaxRequests

Pages ==
  /\ conn \in BOOLEAN
  /\ reader \in [at : {"idle", "queued", "reading", "read"}, dirty : BOOLEAN, value : Views]
  /\ slot \in Views
  /\ tail \in [frames : Seq(Acks), gap : BOOLEAN] /\ Len(tail.frames) <= AckFrames
  /\ page \in [view : Views, seen : Nat \cup {None}, trusted : SUBSET Nat]
  /\ ~conn => reader = IdleRead /\ slot = None /\ tail = NoTail

Typed == Stores /\ Spending /\ Pages

-----------------------------------------------------------------------------
(* The inductive invariant *)

\* Where the running operation is, and what it has done.
Stepped ==
  op # None =>
    /\ op.kind \in {"publish", "restore", "fresh", "read"} => op.key = "work"
    /\ op.kind \in Writing => op.patch \in Changes
    /\ op.kind = "fresh" => op.step \in {"ready", "persist", "stored"}
    /\ op.kind = "fresh" /\ op.step = "ready" => Len(asides) < MaxAsides
    /\ op.kind = "read" => op.step \notin {"persist", "stored"}
    /\ op.step \in {"carry", "carried"} => op.key = "work" /\ store["open"] # None
    /\ op.step = "carry" => store["work"] = None
    /\ op.step = "carried" => store["work"] = store["open"]
    /\ op.step \in {"ready", "persist"} /\ op.kind # "fresh" => ~Carries(op.key)
    /\ op.step = "persist" =>
         /\ op.next \in Works /\ op.next.revision = Loaded(op.key).revision + 1
         /\ op.kind = "fresh" => store["work"] # None /\ asides # <<>>
         /\ op.kind # "fresh" => Loaded(op.key).age = "current"
    /\ op.step = "stored" =>
         op.next \in Works /\ store[op.key] \in Works /\ store[op.key].revision = op.next.revision + 1

\* Every revision was asked for, but the one that Work may have had from the start.
Pending == op # None /\ op.kind # "read" /\ op.step \in {"carry", "carried", "ready", "persist"}
Counted ==
  /\ Len(asides) <= MaxAsides
  /\ \A k \in Keys : Loaded(k).revision <= (IF Pending THEN spent.requests ELSE spent.requests + 1)

\* An inverse that is remembered, or about to be applied, takes back no foreign change.
Honest(r) == \A p \in DOMAIN r.inverse.patch : touched[p] <= r.revision
Barriers ==
  /\ \A p \in Paths : touched[p] <= Loaded("work").revision
  /\ \A r \in records : Honest(r) /\ r.revision <= Loaded("work").revision
  /\ op # None /\ op.record # None => Honest(op.record)

\* What is acknowledged is one step, and what a page trusts is a stretch of them.
Single(acks) == \A i \in DOMAIN acks : acks[i].revision = acks[i].base + 1
Stretch == page.trusted # {} => page.seen \in Nat /\ \E low \in page.trusted : page.trusted = low .. page.seen
Chained == Single(accepted) /\ Single(tail.frames) /\ Stretch

WorkInv == Typed /\ Stepped /\ Counted /\ Barriers /\ Chained

-----------------------------------------------------------------------------
(* Finite sets of records have an oldest and a latest one. *)

\* The order of the naturals as a set of pairs.
Less == {pair \in Nat \X Nat : pair[1] < pair[2]}

\* The least element of a non-empty set of naturals, from the well-foundedness of their order.
LEMMA LeastExists ==
  ASSUME NEW S \in SUBSET Nat, S # {}
  PROVE  \E least \in S : \A n \in S : least <= n
<1>1. \A i, j \in Nat : <<i, j>> \in Less <=> i < j
  BY DEF Less
<1>2. IsWellFoundedOn(Less, Nat)
  BY NatLessThanWellFounded, Zenon DEF OpToRel, Less
<1>3. S \subseteq Nat
  OBVIOUS
<1>4. PICK x \in S : \A y \in S : ~(<<y, x>> \in Less)
  BY <1>2, <1>3, WFMin, Zenon
<1>5. \A y \in S : x <= y
  <2> TAKE y \in S
  <2>1. x \in Nat /\ y \in Nat /\ ~(<<y, x>> \in Less)
    BY <1>3, <1>4, Zenon
  <2>2. ~(y < x)
    BY <1>1, <2>1, Zenon
  <2> QED
    BY <2>1, <2>2
<1> QED
  BY <1>5, Zenon

LEMMA GreatestExists ==
  ASSUME NEW S \in SUBSET Nat, S # {}, NEW bound \in Nat, \A n \in S : n <= bound
  PROVE  \E greatest \in S : \A n \in S : n <= greatest
<1> DEFINE Gaps == {bound - n : n \in S}
<1>1. Gaps \in SUBSET Nat /\ Gaps # {}
  <2>1. \A n \in S : bound - n \in Nat
    OBVIOUS
  <2> QED
    BY <2>1, Zenon
<1> HIDE DEF Gaps
<1>2. PICK least \in Gaps : \A n \in Gaps : least <= n
  BY <1>1, LeastExists
<1>3. PICK greatest \in S : least = bound - greatest
  BY <1>2 DEF Gaps
<1>4. \A n \in S : bound - n \in Gaps
  BY DEF Gaps
<1> QED
  BY <1>2, <1>3, <1>4

LEMMA OldestIsOne ==
  ASSUME NEW rs \in SUBSET Records, rs # {}
  PROVE  Oldest(rs) \in rs
<1> DEFINE Revisions == {r.revision : r \in rs}
<1>1. Revisions \in SUBSET Nat /\ Revisions # {}
  BY DEF Records
<1> HIDE DEF Revisions
<1>2. PICK least \in Revisions : \A n \in Revisions : least <= n
  BY <1>1, LeastExists
<1>3. PICK r \in rs : r.revision = least
  BY <1>2 DEF Revisions
<1>4. \A q \in rs : r.revision <= q.revision
  BY <1>2, <1>3 DEF Revisions
<1> QED
  BY <1>4 DEF Oldest

\* The record an inverse names is a remembered one.
LEMMA NamedIsOne ==
  ASSUME records \in SUBSET Records, NEW bound \in Nat, \A r \in records : r.revision <= bound,
         NEW inverse, Named(inverse) # None
  PROVE  Named(inverse) \in records
<1> DEFINE named == {r \in records : r.inverse = inverse}
           Revisions == {r.revision : r \in named}
<1>1. named # {}
  BY DEF Named
<1>2. Revisions \in SUBSET Nat /\ Revisions # {} /\ \A n \in Revisions : n <= bound
  BY <1>1 DEF Records
<1> HIDE DEF Revisions
<1>3. PICK greatest \in Revisions : \A n \in Revisions : n <= greatest
  BY <1>2, GreatestExists
<1>4. PICK r \in named : r.revision = greatest
  BY <1>3 DEF Revisions
<1>5. \A q \in named : q.revision <= r.revision
  BY <1>3, <1>4 DEF Revisions
<1>6. Named(inverse) = CHOOSE q \in named : \A p \in named : p.revision <= q.revision
  BY <1>1 DEF Named
<1> HIDE DEF named
<1>7. Named(inverse) \in named
  BY <1>4, <1>5, <1>6
<1> QED
  BY <1>7 DEF named

LEMMA FoundIsOne ==
  ASSUME records \in SUBSET Records, NEW bound \in Nat, \A r \in records : r.revision <= bound,
         NEW doc, Found(doc) # None
  PROVE  Found(doc) \in records
<1>1. Named(op.patch) # None /\ Found(doc) = Named(op.patch)
  BY DEF Found
<1> QED
  BY <1>1, NamedIsOne

-----------------------------------------------------------------------------
(* What the operators return. *)

LEMMA RecentKeeps ==
  ASSUME NEW rs \in SUBSET Records, IsFiniteSet(rs), NEW record \in Records, Cardinality(rs) <= Window
  PROVE  /\ Recent(rs \cup {record}) \in SUBSET (rs \cup {record})
         /\ IsFiniteSet(Recent(rs \cup {record}))
         /\ Cardinality(Recent(rs \cup {record})) <= Window
<1> DEFINE more == rs \cup {record}
<1>1. IsFiniteSet(more) /\ Cardinality(more) <= Cardinality(rs) + 1 /\ Cardinality(rs) \in Nat
  <2>1. Cardinality(rs) \in Nat
    BY FS_CardinalityType
  <2>2. IsFiniteSet(more) /\ Cardinality(more) = IF record \in rs THEN Cardinality(rs) ELSE Cardinality(rs) + 1
    BY FS_AddElement
  <2> HIDE DEF more
  <2> QED
    BY <2>1, <2>2
<1>2. Window \in Nat \ {0} /\ Cardinality(more) \in Nat
  BY <1>1, WorkAssumption, FS_CardinalityType
<1>3. more \in SUBSET Records /\ more # {}
  OBVIOUS
<1> HIDE DEF more
<1>4. CASE Cardinality(more) > Window
  <2>1. Oldest(more) \in more
    BY <1>3, OldestIsOne
  <2>2. /\ IsFiniteSet(more \ {Oldest(more)})
        /\ Cardinality(more \ {Oldest(more)}) = Cardinality(more) - 1
    BY <1>1, <2>1, FS_RemoveElement
  <2> QED
    BY <1>1, <1>2, <1>4, <2>2 DEF Recent, more
<1>5. CASE ~(Cardinality(more) > Window)
  BY <1>1, <1>2, <1>5 DEF Recent, more
<1> QED
  BY <1>4, <1>5

LEMMA LatestKeeps ==
  ASSUME NEW s \in Seq(Acks)
  PROVE  /\ Latest(s) \in Seq(Acks) /\ Len(Latest(s)) <= Window
         /\ Single(s) => Single(Latest(s))
<1> DEFINE first == (IF Len(s) > Window THEN Len(s) - Window ELSE 0) + 1
<1>1. Window \in Nat \ {0} /\ Len(s) \in Nat
  BY WorkAssumption
<1>2. first \in Nat \ {0} /\ first <= Len(s) + 1 /\ Len(s) - first + 1 <= Window
  BY <1>1
<1>3. Latest(s) = SubSeq(s, first, Len(s))
  BY DEF Latest
<1> HIDE DEF first
<1>4. \A i \in first .. Len(s) : s[i] \in Acks
  BY <1>1, <1>2
<1>5. /\ Latest(s) \in Seq(Acks)
      /\ Len(Latest(s)) = IF first <= Len(s) THEN Len(s) - first + 1 ELSE 0
      /\ \A i \in 1 .. Len(s) - first + 1 : Latest(s)[i] = s[first + i - 1]
  BY <1>1, <1>2, <1>3, <1>4, SubSeqProperties
<1>6. Single(s) => Single(Latest(s))
  <2> SUFFICES ASSUME Single(s), NEW i \in DOMAIN Latest(s)
               PROVE  Latest(s)[i].revision = Latest(s)[i].base + 1
    BY DEF Single
  <2>1. i \in 1 .. Len(s) - first + 1
    BY <1>1, <1>2, <1>5
  <2>2. first + i - 1 \in DOMAIN s
    BY <1>1, <1>2, <2>1
  <2> QED
    BY <1>5, <2>1, <2>2 DEF Single
<1> QED
  BY <1>1, <1>2, <1>5, <1>6

LEMMA AppendKeeps ==
  ASSUME NEW s \in Seq(Acks), NEW ack \in Acks, Single(s), ack.revision = ack.base + 1
  PROVE  Append(s, ack) \in Seq(Acks) /\ Len(Append(s, ack)) = Len(s) + 1 /\ Single(Append(s, ack))
BY DEF Single

LEMMA TailKeeps ==
  ASSUME NEW s \in Seq(Acks), s # <<>>, Single(s)
  PROVE  /\ Tail(s) \in Seq(Acks) /\ Len(Tail(s)) = Len(s) - 1 /\ Single(Tail(s))
         /\ Head(s) \in Acks /\ Head(s).revision = Head(s).base + 1
<1>1. /\ Head(s) = s[1] /\ 1 \in DOMAIN s /\ Tail(s) \in Seq(Acks) /\ Len(Tail(s)) = Len(s) - 1
      /\ \A i \in DOMAIN Tail(s) : i + 1 \in DOMAIN s /\ Tail(s)[i] = s[i + 1]
  OBVIOUS
<1> QED
  BY <1>1 DEF Single

LEMMA BlankIsDoc == Blank \in Docs
BY WorkAssumption DEF Blank, Docs, InitialValue

LEMMA AppliedIsDoc ==
  ASSUME NEW doc \in Docs, NEW patch \in Edits
  PROVE  Applied(doc, patch) \in Docs
<1>1. PICK edited \in SUBSET Paths : patch \in [edited -> Values]
  BY DEF Edits
<1> QED
  BY <1>1 DEF Applied, Docs

LEMMA DeltaIsEdit ==
  ASSUME NEW before \in Docs, NEW after \in Docs
  PROVE  Delta(before, after) \in Edits /\ DOMAIN Delta(before, after) = {q \in Paths : before[q] # after[q]}
<1> DEFINE edited == {q \in Paths : before[q] # after[q]}
<1>1. Delta(before, after) \in [edited -> Values]
  BY DEF Delta, Docs
<1> QED
  BY <1>1 DEF Edits

LEMMA DocIsEdit ==
  ASSUME NEW doc \in Docs
  PROVE  doc \in Edits /\ DOMAIN doc = Paths
BY DEF Docs, Edits

\* No Work is not Work.
LEMMA WorkIsSome == \A work \in Works : work # None
BY WorkAssumption DEF Works, Ages, Docs

LEMMA WorkIsWork ==
  ASSUME NEW revision \in Nat, NEW age \in Ages, NEW doc \in Docs
  PROVE  /\ Work(revision, age, doc) \in Works
         /\ Work(revision, age, doc).revision = revision /\ Work(revision, age, doc).age = age
         /\ Work(revision, age, doc).doc = doc
BY DEF Work, Works

LEMMA LoadedIsWork ==
  ASSUME Stores
  PROVE  \A k \in Keys : Loaded(k) \in Works /\ (store[k] # None => store[k] \in Works)
<1>1. Work(0, "current", Blank) \in Works
  BY BlankIsDoc, WorkIsWork DEF Ages
<1> QED
  BY <1>1 DEF Stores, Loaded

-----------------------------------------------------------------------------
(* Observers: what a connection and a page do leaves the Work alone. *)

LEMMA Frame ==
  ASSUME WorkInv, UNCHANGED <<store, op, kept, touched, spent>>, Pages', Single(tail.frames)', Stretch'
  PROVE  WorkInv'
<1>1. Stores' /\ Spending'
  BY DEF WorkInv, Typed, Stores, Spending, kept
<1>2. Stepped' /\ Counted' /\ Barriers'
  BY DEF WorkInv, Stepped, Counted, Barriers, Honest, Pending, Loaded, Carries, kept
<1>3. Single(accepted)'
  BY DEF WorkInv, Chained, Single, kept
<1> QED
  BY <1>1, <1>2, <1>3 DEF WorkInv, Typed, Chained

LEMMA RefreshedIsRead ==
  ASSUME NEW r \in [at : {"idle", "queued", "reading", "read"}, dirty : BOOLEAN, value : Views]
  PROVE  Refreshed(r) \in [at : {"idle", "queued", "reading", "read"}, dirty : BOOLEAN, value : Views]
BY DEF Refreshed, QueuedRead, IdleRead, Views

LEMMA IdleIsRead ==
  /\ IdleRead \in [at : {"idle", "queued", "reading", "read"}, dirty : BOOLEAN, value : Views]
  /\ NoTail \in [frames : Seq(Acks), gap : BOOLEAN] /\ Len(NoTail.frames) = 0 /\ Single(NoTail.frames)
BY DEF IdleRead, Views, NoTail, Single

LEMMA ReadLandsStep == ASSUME WorkInv, ReadLands PROVE WorkInv'
<1>1. Pages'
  <2>1. reader.at = "read" => conn
    BY DEF WorkInv, Typed, Pages, IdleRead
  <2>2. /\ QueuedRead \in [at : {"idle", "queued", "reading", "read"}, dirty : BOOLEAN, value : Views]
        /\ reader.value \in Views
    BY IdleIsRead DEF WorkInv, Typed, Pages, QueuedRead, IdleRead
  <2> QED
    BY <2>1, <2>2, IdleIsRead DEF WorkInv, Typed, Pages, ReadLands
<1>2. Single(tail.frames)' /\ Stretch'
  BY DEF WorkInv, Chained, Single, Stretch, ReadLands
<1> QED
  BY <1>1, <1>2, Frame DEF ReadLands

LEMMA ConnectStep == ASSUME WorkInv, Connect PROVE WorkInv'
<1>1. Stores' /\ Spending'
  <2>1. Stores'
    BY DEF WorkInv, Typed, Stores, Connect, kept
  <2>2. Spending'
    BY DEF WorkInv, Typed, Spending, Connect
  <2> QED
    BY <2>1, <2>2
<1>2. Stepped' /\ Counted' /\ Barriers'
  BY DEF WorkInv, Typed, Spending, Stepped, Counted, Barriers, Honest, Pending, Loaded, Carries, Connect, kept
<1>3. tail' = [frames |-> accepted, gap |-> FALSE]
  BY DEF Connect, NoTail
<1>4. reader' \in [at : {"idle", "queued", "reading", "read"}, dirty : BOOLEAN, value : Views]
  BY IdleIsRead, RefreshedIsRead DEF Connect
<1>5. Pages'
  <2>1. Window \in Nat /\ AckFrames \in Nat /\ Window <= AckFrames
    BY WorkAssumption
  <2>2. accepted \in Seq(Acks) /\ Len(accepted) \in Nat /\ Len(accepted) <= AckFrames
    BY <2>1 DEF WorkInv, Typed, Stores
  <2> QED
    BY <1>3, <1>4, <2>2 DEF WorkInv, Typed, Pages, Connect
<1>6. Chained'
  BY <1>3 DEF WorkInv, Chained, Single, Stretch, Connect, kept
<1> QED
  BY <1>1, <1>2, <1>5, <1>6 DEF WorkInv, Typed

LEMMA DropStep == ASSUME WorkInv, Drop PROVE WorkInv'
<1>1. Pages'
  <2>1. AckFrames \in Nat
    BY WorkAssumption
  <2>2. conn' = FALSE /\ reader' = IdleRead /\ slot' = None /\ tail' = NoTail /\ page' = page
    BY DEF Drop, Disconnected
  <2>3. None \in Views
    BY DEF Views
  <2>4. 0 <= AckFrames
    BY <2>1
  <2> QED
    BY <2>2, <2>3, <2>4, IdleIsRead DEF WorkInv, Typed, Pages
<1>2. Single(tail.frames)' /\ Stretch'
  BY IdleIsRead DEF WorkInv, Chained, Single, Stretch, Drop, Disconnected
<1> QED
  BY <1>1, <1>2, Frame DEF Drop

LEMMA ShowsStep == ASSUME WorkInv, Shows PROVE WorkInv'
<1>1. Pages'
  BY DEF WorkInv, Typed, Pages, Shows, Views
<1>2. Single(tail.frames)' /\ Stretch'
  BY DEF WorkInv, Typed, Pages, Chained, Single, Stretch, Shows
<1> QED
  BY <1>1, <1>2, Frame DEF Shows

\* A page that hears a write trusts it with the stretch it follows, or alone.
LEMMA HeardStretch ==
  ASSUME page \in [view : Views, seen : Nat \cup {None}, trusted : SUBSET Nat], Stretch,
         NEW ack \in Acks, ack.revision = ack.base + 1, page' = Heard(ack)
  PROVE  page' \in [view : Views, seen : Nat \cup {None}, trusted : SUBSET Nat] /\ Stretch'
<1>1. CASE page.seen # None /\ ack.revision <= page.seen
  BY <1>1 DEF Heard, Stretch
<1>2. CASE ~(page.seen # None /\ ack.revision <= page.seen)
  <2> DEFINE followed == IF ack.base = page.seen THEN page.trusted ELSE {}
  <2>1. ack.base \in Nat /\ ack.revision \in Nat
    BY DEF Acks
  <2>2. followed \in SUBSET Nat
    OBVIOUS
  <2>3. page' = [page EXCEPT !.seen = ack.revision, !.trusted = followed \cup {ack.revision}]
    BY <1>2 DEF Heard
  <2> DEFINE trusted == followed \cup {ack.revision}
  <2>4. trusted \in SUBSET Nat
    BY <2>1, <2>2
  <2>5. /\ page' \in [view : Views, seen : Nat \cup {None}, trusted : SUBSET Nat]
        /\ page'.seen = ack.revision /\ page'.trusted = trusted
    <3>1. page' = [page EXCEPT !.seen = ack.revision, !.trusted = trusted]
      BY <2>3
    <3> HIDE DEF trusted
    <3> QED
      BY <2>1, <2>4, <3>1
  <2>6. Stretch'
    <3>1. CASE followed = {}
      <4>1. page'.trusted = ack.revision .. page'.seen
        BY <2>1, <2>5, <3>1
      <4> QED
        BY <2>1, <2>5, <4>1 DEF Stretch
    <3>2. CASE followed # {}
      <4>1. ack.base = page.seen /\ followed = page.trusted
        BY <3>2
      <4>2. PICK low \in page.trusted : page.trusted = low .. page.seen
        BY <3>2, <4>1 DEF Stretch
      <4>3. low \in Nat /\ low <= ack.base
        <5>1. low \in Nat
          BY <4>2
        <5>2. low \in low .. ack.base
          BY <4>1, <4>2
        <5> QED
          BY <2>1, <5>1, <5>2
      <4>4. page'.trusted = low .. page'.seen
        <5>1. (low .. ack.base) \cup {ack.revision} = low .. ack.revision
          BY <2>1, <4>3
        <5> QED
          BY <2>5, <4>1, <4>2, <5>1
      <4>5. low \in page'.trusted
        BY <2>5, <4>1
      <4> QED
        BY <2>1, <2>5, <4>4, <4>5 DEF Stretch
    <3> QED
      BY <3>1, <3>2
  <2> QED
    BY <2>5, <2>6
<1> QED
  BY <1>1, <1>2

LEMMA HearsStep == ASSUME WorkInv, Hears PROVE WorkInv'
<1> DEFINE Tails == [frames : Seq(Acks), gap : BOOLEAN]
<1>1. tail \in Tails /\ Len(tail.frames) \in Nat /\ Len(tail.frames) <= AckFrames /\ AckFrames \in Nat
  BY WorkAssumption DEF WorkInv, Typed, Pages
<1>2. conn
  BY DEF WorkInv, Typed, Pages, Hears
<1>3. CASE tail.gap
  <2>1. /\ tail' = [tail EXCEPT !.gap = FALSE] /\ page' = [page EXCEPT !.trusted = {}]
        /\ UNCHANGED <<reader, conn, slot>>
    BY <1>3 DEF Hears
  <2>2. tail' \in Tails /\ tail'.frames = tail.frames
    BY <1>1, <2>1
  <2>3. page' \in [view : Views, seen : Nat \cup {None}, trusted : SUBSET Nat] /\ page'.trusted = {}
    BY <2>1 DEF WorkInv, Typed, Pages
  <2>4. Pages' /\ Single(tail.frames)' /\ Stretch'
    BY <1>1, <1>2, <2>1, <2>2, <2>3 DEF WorkInv, Typed, Pages, Chained, Single, Stretch
  <2> QED
    BY <2>4, Frame DEF Hears
<1>4. CASE ~tail.gap
  <2>1. /\ tail' = [tail EXCEPT !.frames = Tail(@)] /\ page' = Heard(Head(tail.frames))
        /\ UNCHANGED <<reader, conn, slot>>
    BY <1>4 DEF Hears
  <2>2. tail.frames # <<>>
    BY <1>1, <1>4 DEF Hears, NoTail
  <2>3. tail' \in Tails /\ tail'.frames = Tail(tail.frames)
    <3> DEFINE frames == Tail(tail.frames)
    <3>1. frames \in Seq(Acks) /\ tail' = [tail EXCEPT !.frames = frames]
      BY <1>1, <2>1, <2>2
    <3> HIDE DEF frames
    <3>2. tail' \in Tails /\ tail'.frames = frames
      BY <1>1, <3>1
    <3> QED
      BY <3>2 DEF frames
  <2>4. /\ Tail(tail.frames) \in Seq(Acks) /\ Len(Tail(tail.frames)) = Len(tail.frames) - 1
        /\ Single(Tail(tail.frames))
        /\ Head(tail.frames) \in Acks /\ Head(tail.frames).revision = Head(tail.frames).base + 1
    BY <1>1, <2>2, TailKeeps DEF WorkInv, Chained
  <2>5. page' \in [view : Views, seen : Nat \cup {None}, trusted : SUBSET Nat] /\ Stretch'
    BY <2>1, <2>4, HeardStretch DEF WorkInv, Typed, Pages, Chained
  <2>6. Pages' /\ Single(tail.frames)'
    BY <1>1, <1>2, <2>1, <2>3, <2>4, <2>5 DEF WorkInv, Typed, Pages, Chained, Single
  <2> QED
    BY <2>5, <2>6, Frame DEF Hears
<1> QED
  BY <1>3, <1>4

-----------------------------------------------------------------------------
(* Operations: what a page and its connection hold stays. *)

LEMMA OwnFrame ==
  ASSUME WorkInv, UNCHANGED <<accepted, pageVars>>, Stores', Spending', Stepped', Counted', Barriers',
         reader' \in [at : {"idle", "queued", "reading", "read"}, dirty : BOOLEAN, value : Views],
         ~conn => reader' = reader
  PROVE  WorkInv'
<1>1. Pages'
  BY DEF WorkInv, Typed, Pages, pageVars
<1>2. Chained'
  BY DEF WorkInv, Chained, Single, Stretch, pageVars
<1> QED
  BY <1>1, <1>2 DEF WorkInv, Typed

LEMMA ReaderTyped ==
  ASSUME WorkInv
  PROVE  reader \in [at : {"idle", "queued", "reading", "read"}, dirty : BOOLEAN, value : Views]
BY DEF WorkInv, Typed, Pages

\* A request that may begin.
Fits(request) ==
  /\ request \in Ops /\ request.next = None /\ request.record = None
  /\ request.kind \in {"publish", "restore", "fresh", "read"} => request.key = "work"
  /\ request.kind \in Writing => request.patch \in Changes
  /\ request.kind = "fresh" => Len(asides) < MaxAsides

LEMMA Begun ==
  ASSUME WorkInv, NEW request, Fits(request), Begin(request), Spending',
         spent'.requests = spent.requests + (IF request.kind = "read" THEN 0 ELSE 1),
         reader' \in [at : {"idle", "queued", "reading", "read"}, dirty : BOOLEAN, value : Views],
         ~conn => reader' = reader
  PROVE  WorkInv'
<1> DEFINE step == IF Carries(request.key) /\ request.kind # "fresh" THEN "carry" ELSE "ready"
<1>1. /\ op = None /\ op' = [request EXCEPT !.step = step] /\ UNCHANGED <<store, touched, pageVars>>
      /\ UNCHANGED <<asides, records, accepted>>
  BY DEF Begin, kept
<1>2. /\ op' \in Ops /\ op'.kind = request.kind /\ op'.key = request.key /\ op'.patch = request.patch
      /\ op'.step = step /\ op'.record = None
  <2>1. step \in Steps
    BY DEF Steps
  <2> HIDE DEF step
  <2> QED
    BY <1>1, <2>1 DEF Fits, Ops
<1>3. Stores'
  BY <1>1, <1>2 DEF WorkInv, Typed, Stores
<1>4. Stepped'
  <2>1. \A k \in Keys : Carries(k)' = Carries(k)
    BY <1>1 DEF Carries
  <2>2. op'.key \in Keys
    BY <1>2 DEF Ops
  <2>3. step = "carry" => op'.key = "work" /\ store["work"] = None /\ store["open"] # None /\ op'.kind # "fresh"
    BY <1>2 DEF Carries
  <2>4. step # "carry" => step = "ready" /\ (op'.kind # "fresh" => ~Carries(op'.key))
    BY <1>2
  <2>5. Carries(op.key)' = Carries(op'.key)
    BY <1>1 DEF Carries
  <2> HIDE DEF step
  <2> QED
    BY <1>1, <1>2, <2>3, <2>4, <2>5 DEF Stepped, Fits
<1>5. Counted'
  <2>1. \A k \in Keys : Loaded(k)' = Loaded(k)
    BY <1>1 DEF Loaded
  <2>2. \A k \in Keys : Loaded(k) \in Works
    BY LoadedIsWork DEF WorkInv, Typed
  <2>3. ~Pending
    BY <1>1 DEF Pending
  <2>4. Pending' => request.kind # "read"
    BY <1>2 DEF Pending
  <2>5. spent.requests \in Nat /\ spent'.requests \in Nat
    BY DEF WorkInv, Typed, Spending
  <2>6. \A k \in Keys : Loaded(k).revision \in Nat
    BY <2>2 DEF Works
  <2>7. \A k \in Keys : Loaded(k).revision <= spent.requests + 1
    BY <2>3 DEF WorkInv, Counted
  <2>8. Len(asides') <= MaxAsides
    BY <1>1 DEF WorkInv, Counted
  <2> QED
    BY <2>1, <2>4, <2>5, <2>6, <2>7, <2>8 DEF Counted
<1>6. Barriers'
  BY <1>1, <1>2 DEF WorkInv, Barriers, Honest, Loaded
<1> QED
  BY <1>1, <1>3, <1>4, <1>5, <1>6, OwnFrame

LEMMA RequestFits ==
  ASSUME NEW kind \in Kinds, NEW by \in {"human", "pea"}, NEW key \in Keys, NEW patch \in Changes \cup {None},
         NEW expected \in Nat,
         kind \in {"publish", "restore", "fresh", "read"} => key = "work",
         kind \in Writing => patch \in Changes,
         kind = "fresh" => Len(asides) < MaxAsides
  PROVE  Fits(Request(kind, by, key, patch, expected)) /\ Request(kind, by, key, patch, expected).kind = kind
BY DEF Fits, Request, Ops, Steps

LEMMA AskedStep ==
  ASSUME WorkInv, NEW request, Fits(request), request.kind # "read", Asked(request)
  PROVE  WorkInv'
<1>1. /\ spent.requests < MaxRequests
      /\ spent' = [spent EXCEPT !.requests = @ + 1, !.restores = @ + (IF request.kind = "restore" THEN 1 ELSE 0)]
      /\ UNCHANGED reader
  BY DEF Asked
<1>2. Spending' /\ spent'.requests = spent.requests + 1
  <2>1. MaxRequests \in Nat
    BY WorkAssumption
  <2>2. spent \in [requests : Nat, restores : Nat, visits : Nat, crashes : Nat, failures : Nat]
    BY DEF WorkInv, Typed, Spending
  <2>3. spent.restores + (IF request.kind = "restore" THEN 1 ELSE 0) \in Nat
    BY <2>2
  <2>4. spent.requests + 1 \in Nat /\ spent.requests + 1 <= MaxRequests
    BY <1>1, <2>1, <2>2
  <2>5. /\ spent' \in [requests : Nat, restores : Nat, visits : Nat, crashes : Nat, failures : Nat]
        /\ spent'.requests = spent.requests + 1
    BY <1>1, <2>2, <2>3, <2>4
  <2> QED
    BY <2>4, <2>5 DEF Spending
<1> QED
  BY <1>1, <1>2, Begun, ReaderTyped DEF Asked

LEMMA PatchesAreChanges == \A patch \in Patches : [whole |-> FALSE, patch |-> patch] \in Changes
BY WorkAssumption DEF Changes, Edits

LEMMA CurrentCounts ==
  ASSUME WorkInv
  PROVE  Current.revision \in Nat /\ \A k \in Keys : At(k).revision \in Nat
<1>1. Current \in Works /\ \A k \in Keys : At(k) \in Works
  BY LoadedIsWork DEF WorkInv, Typed, Current, At, Keys
<1> QED
  BY <1>1 DEF Works

LEMMA BeginStep == ASSUME WorkInv, Beginning PROVE WorkInv'
<1>1. ASSUME BeginWrite PROVE WorkInv'
  <2>1. PICK by \in {"human", "pea"}, key \in {"open", "work"}, patch \in Patches :
          \E expected \in {0, At(key).revision} :
            Asked(Request("apply", by, key, [whole |-> FALSE, patch |-> patch], expected))
    BY <1>1 DEF BeginWrite
  <2>2. PICK expected \in {0, At(key).revision} :
          Asked(Request("apply", by, key, [whole |-> FALSE, patch |-> patch], expected))
    BY <2>1
  <2>3. key \in Keys /\ expected \in Nat /\ [whole |-> FALSE, patch |-> patch] \in Changes
    BY CurrentCounts, PatchesAreChanges DEF Keys
  <2>4. "apply" \in Kinds /\ "apply" \notin {"publish", "restore", "fresh", "read"}
    BY DEF Kinds
  <2> QED
    BY <2>2, <2>3, <2>4, RequestFits, AskedStep
<1>2. ASSUME BeginPublish PROVE WorkInv'
  <2>1. PICK patch \in Patches :
          Asked(Request("publish", "human", "work", [whole |-> FALSE, patch |-> patch], Current.revision))
    BY <1>2 DEF BeginPublish
  <2>2. "work" \in Keys /\ Current.revision \in Nat /\ [whole |-> FALSE, patch |-> patch] \in Changes
    BY CurrentCounts, PatchesAreChanges DEF Keys
  <2>3. "publish" \in Kinds /\ "publish" # "fresh" /\ "publish" # "read"
    BY DEF Kinds
  <2> QED
    BY <2>1, <2>2, <2>3, RequestFits, AskedStep
<1>3. ASSUME BeginRestore PROVE WorkInv'
  <2>1. PICK by \in {"human", "pea"}, inverse \in Inverses :
          Asked(Request("restore", by, "work", inverse, Current.revision))
    BY <1>3 DEF BeginRestore
  <2>2. "work" \in Keys /\ Current.revision \in Nat
    BY CurrentCounts DEF Keys
  <2>3. inverse \in Changes
    <3>1. \A r \in records : r.inverse \in Changes
      BY DEF WorkInv, Typed, Stores, Records
    <3>2. [whole : {FALSE}, patch : Patches] \subseteq Changes
      BY WorkAssumption DEF Changes, Edits
    <3> QED
      BY <3>1, <3>2 DEF Inverses
  <2>4. "restore" \in Kinds /\ "restore" # "fresh" /\ "restore" # "read"
    BY DEF Kinds
  <2> QED
    BY <2>1, <2>2, <2>3, <2>4, RequestFits, AskedStep
<1>4. ASSUME BeginFresh PROVE WorkInv'
  <2>1. /\ Len(asides) < MaxAsides
        /\ \E by \in {"human", "pea"} : Asked(Request("fresh", by, "work", None, 0))
    BY <1>4 DEF BeginFresh
  <2>2. PICK by \in {"human", "pea"} : Asked(Request("fresh", by, "work", None, 0))
    BY <2>1
  <2>3. "work" \in Keys /\ "fresh" \in Kinds /\ "fresh" \notin Writing /\ "fresh" # "read"
    BY DEF Keys, Kinds, Writing
  <2> QED
    BY <2>1, <2>2, <2>3, RequestFits, AskedStep
<1>5. ASSUME BeginRead PROVE WorkInv'
  <2>1. /\ reader.at = "queued" /\ Begin(Request("read", "human", "work", None, 0))
        /\ reader' = [reader EXCEPT !.at = "reading"] /\ UNCHANGED spent
    BY <1>5 DEF BeginRead
  <2>2. "work" \in Keys /\ "read" \in Kinds /\ "read" \notin Writing /\ "read" # "fresh"
    BY DEF Keys, Kinds, Writing
  <2>3. Fits(Request("read", "human", "work", None, 0)) /\ Request("read", "human", "work", None, 0).kind = "read"
    BY <2>2, RequestFits
  <2>4. conn
    BY <2>1 DEF WorkInv, Typed, Pages, IdleRead
  <2>5. reader' \in [at : {"idle", "queued", "reading", "read"}, dirty : BOOLEAN, value : Views]
    BY <2>1, ReaderTyped
  <2>6. Spending' /\ spent'.requests = spent.requests + 0
    BY <2>1 DEF WorkInv, Typed, Spending
  <2> QED
    BY <2>1, <2>3, <2>4, <2>5, <2>6, Begun
<1> QED
  BY <1>1, <1>2, <1>3, <1>4, <1>5 DEF Beginning

-----------------------------------------------------------------------------
(* The end of an operation that changes no Work. *)

LEMMA Ended ==
  ASSUME WorkInv, op' = None, UNCHANGED <<store, asides, records, accepted, touched, pageVars>>,
         Spending', spent'.requests = spent.requests,
         reader' \in [at : {"idle", "queued", "reading", "read"}, dirty : BOOLEAN, value : Views],
         ~conn => reader' = reader
  PROVE  WorkInv'
<1>1. Stores'
  BY DEF WorkInv, Typed, Stores
<1>2. Stepped'
  BY DEF Stepped
<1>3. Counted'
  <2>1. \A k \in Keys : Loaded(k)' = Loaded(k) /\ Loaded(k).revision \in Nat
    BY LoadedIsWork DEF Loaded, Works, WorkInv, Typed
  <2>2. spent.requests \in Nat
    BY DEF WorkInv, Typed, Spending
  <2>3. \A k \in Keys : Loaded(k).revision <= spent.requests + 1
    BY <2>1, <2>2 DEF WorkInv, Counted
  <2>4. ~Pending'
    BY DEF Pending
  <2> QED
    BY <2>1, <2>3, <2>4 DEF WorkInv, Counted
<1>4. Barriers'
  BY DEF WorkInv, Barriers, Honest, Loaded
<1> QED
  BY <1>1, <1>2, <1>3, <1>4, OwnFrame

LEMMA SameSpending ==
  ASSUME WorkInv, UNCHANGED spent
  PROVE  Spending' /\ spent'.requests = spent.requests
BY DEF WorkInv, Typed, Spending

LEMMA NotifyTyped ==
  ASSUME WorkInv, Notify
  PROVE  /\ reader' \in [at : {"idle", "queued", "reading", "read"}, dirty : BOOLEAN, value : Views]
         /\ ~conn => reader' = reader
BY ReaderTyped, RefreshedIsRead DEF Notify

LEMMA ReadStep == ASSUME WorkInv, Read PROVE WorkInv'
<1>1. Reads \in Views
  BY LoadedIsWork DEF WorkInv, Typed, Reads, Views, Keys
<1>2. reader.at = "reading" => conn
  BY DEF WorkInv, Typed, Pages, IdleRead
<1>3. /\ reader' \in [at : {"idle", "queued", "reading", "read"}, dirty : BOOLEAN, value : Views]
      /\ ~conn => reader' = reader
  BY <1>1, <1>2, ReaderTyped DEF Read
<1> QED
  BY <1>3, Ended, SameSpending DEF Read, kept

LEMMA RefusesStep == ASSUME WorkInv, Refuses PROVE WorkInv'
<1>1. UNCHANGED reader \/ Notify
  BY DEF Refuses
<1>2. /\ reader' \in [at : {"idle", "queued", "reading", "read"}, dirty : BOOLEAN, value : Views]
      /\ ~conn => reader' = reader
  BY <1>1, NotifyTyped, ReaderTyped
<1> QED
  BY <1>2, Ended, SameSpending DEF Refuses, kept

LEMMA AcceptElsewhereStep == ASSUME WorkInv, AcceptElsewhere PROVE WorkInv'
BY Ended, SameSpending, ReaderTyped DEF AcceptElsewhere, kept

LEMMA StoreFailsStep == ASSUME WorkInv, StoreFails PROVE WorkInv'
<1>1. Failure \in Views
  BY DEF Failure, Views
<1>2. reader.at = "reading" => conn
  BY DEF WorkInv, Typed, Pages, IdleRead
<1>3. /\ reader' \in [at : {"idle", "queued", "reading", "read"}, dirty : BOOLEAN, value : Views]
      /\ ~conn => reader' = reader
  BY <1>1, <1>2, ReaderTyped DEF StoreFails
<1>4. Spending' /\ spent'.requests = spent.requests
  BY DEF WorkInv, Typed, Spending, StoreFails
<1> QED
  BY <1>3, <1>4, Ended DEF StoreFails, kept

LEMMA RestartStep == ASSUME WorkInv, Restart PROVE WorkInv'
<1>1. /\ op' = None /\ records' = {} /\ accepted' = <<>> /\ UNCHANGED <<store, asides, page, touched>>
      /\ conn' = FALSE /\ reader' = IdleRead /\ slot' = None /\ tail' = NoTail
      /\ spent' = [spent EXCEPT !.crashes = @ + 1]
  BY DEF Restart, Disconnected
<1>2. Stores'
  <2>1. Window \in Nat /\ IsFiniteSet({}) /\ Cardinality({}) = 0
    BY WorkAssumption, FS_EmptySet
  <2> QED
    BY <1>1, <2>1 DEF WorkInv, Typed, Stores
<1>3. Spending' /\ spent'.requests = spent.requests
  BY <1>1 DEF WorkInv, Typed, Spending
<1>4. Pages'
  <2>1. AckFrames \in Nat /\ None \in Views
    BY WorkAssumption DEF Views
  <2>2. 0 <= AckFrames
    BY <2>1
  <2> QED
    BY <1>1, <2>1, <2>2, IdleIsRead DEF WorkInv, Typed, Pages
<1>5. Stepped'
  BY <1>1 DEF Stepped
<1>6. Counted'
  <2>1. \A k \in Keys : Loaded(k)' = Loaded(k) /\ Loaded(k).revision \in Nat
    BY <1>1, LoadedIsWork DEF Loaded, Works, WorkInv, Typed
  <2>2. spent.requests \in Nat
    BY DEF WorkInv, Typed, Spending
  <2>3. \A k \in Keys : Loaded(k).revision <= spent.requests + 1
    BY <2>1, <2>2 DEF WorkInv, Counted
  <2>4. ~Pending'
    BY <1>1 DEF Pending
  <2> QED
    BY <1>1, <1>3, <2>1, <2>3, <2>4 DEF WorkInv, Counted
<1>7. Barriers'
  BY <1>1 DEF WorkInv, Barriers, Loaded
<1>8. Chained'
  BY <1>1, IdleIsRead DEF WorkInv, Chained, Single, Stretch
<1> QED
  BY <1>2, <1>3, <1>4, <1>5, <1>6, <1>7, <1>8 DEF WorkInv, Typed

-----------------------------------------------------------------------------
(* The steps of an operation. *)

LEMMA CountedStands ==
  ASSUME WorkInv, Pending' => Pending, spent' = spent, Len(asides') <= MaxAsides,
         \A k \in Keys : Loaded(k)'.revision = 0 \/ \E j \in Keys : Loaded(k)'.revision = Loaded(j).revision
  PROVE  Counted'
<1>1. spent.requests \in Nat
  BY DEF WorkInv, Typed, Spending
<1>2. \A k \in Keys : Loaded(k).revision \in Nat
  BY LoadedIsWork DEF WorkInv, Typed, Works
<1>3. ASSUME NEW k \in Keys
      PROVE  Loaded(k)'.revision <= (IF Pending' THEN spent.requests ELSE spent.requests + 1)
  <2>1. CASE Loaded(k)'.revision = 0
    BY <1>1, <2>1
  <2>2. ASSUME NEW j \in Keys, Loaded(k)'.revision = Loaded(j).revision
        PROVE  Loaded(k)'.revision <= (IF Pending' THEN spent.requests ELSE spent.requests + 1)
    <3>1. Loaded(j).revision <= (IF Pending THEN spent.requests ELSE spent.requests + 1)
      BY DEF WorkInv, Counted
    <3> QED
      BY <1>1, <1>2, <2>2, <3>1
  <2> QED
    BY <2>1, <2>2
<1> QED
  BY <1>3 DEF Counted

\* Work at the Address never goes back, so the barriers stand.
LEMMA BarriersStand ==
  ASSUME WorkInv, UNCHANGED <<touched, records>>, op' # None => op'.record = None \/ Honest(op'.record),
         Loaded("work").revision <= Loaded("work")'.revision, Stores'
  PROVE  Barriers'
<1>1. Loaded("work").revision \in Nat /\ Loaded("work")'.revision \in Nat
  <2>1. Loaded("work") \in Works
    BY LoadedIsWork DEF WorkInv, Typed, Keys
  <2>2. Loaded("work")' \in Works
    BY BlankIsDoc, WorkIsWork DEF Stores, Loaded, Keys, Ages
  <2> QED
    BY <2>1, <2>2 DEF Works
<1>2. \A p \in Paths : touched[p] \in Nat
  BY DEF WorkInv, Typed, Stores
<1>3. \A r \in records : r.revision \in Nat
  BY DEF WorkInv, Typed, Stores, Records
<1>4. \A p \in Paths : touched'[p] <= Loaded("work")'.revision
  BY <1>1, <1>2 DEF WorkInv, Barriers
<1>5. \A r \in records : Honest(r)' /\ r.revision <= Loaded("work")'.revision
  BY <1>1, <1>3 DEF WorkInv, Barriers, Honest
<1>6. op' # None /\ op'.record # None => Honest(op.record)'
  BY DEF Honest
<1> QED
  BY <1>4, <1>5, <1>6 DEF Barriers

LEMMA CarryCopiesStep == ASSUME WorkInv, CarryCopies PROVE WorkInv'
<1>1. /\ op # None /\ op.step = "carry" /\ store' = [store EXCEPT !["work"] = store["open"]]
      /\ op' = [op EXCEPT !.step = "carried"]
      /\ UNCHANGED <<asides, records, accepted, reader, pageVars, touched, spent>>
  BY DEF CarryCopies, Does, kept
<1>2. op \in Ops /\ store \in [Keys -> Works \cup {None}]
  BY <1>1 DEF WorkInv, Typed, Stores
<1>3. /\ op' \in Ops /\ op'.step = "carried" /\ op'.kind = op.kind /\ op'.key = op.key
      /\ op'.patch = op.patch /\ op'.record = op.record
  BY <1>1, <1>2 DEF Ops, Steps
<1>4. op.key = "work" /\ store["open"] # None /\ store["work"] = None /\ op.kind # "fresh"
  BY <1>1 DEF WorkInv, Stepped
<1>5. store["open"] \in Works /\ store'["work"] = store["open"] /\ store'["open"] = store["open"]
  BY <1>1, <1>2, <1>4 DEF Keys
<1>6. Stores'
  <2>1. store' \in [Keys -> Works \cup {None}]
    BY <1>1, <1>2, <1>5
  <2> QED
    BY <1>1, <1>3, <2>1 DEF WorkInv, Typed, Stores
<1>7. Stepped'
  BY <1>1, <1>3, <1>4, <1>5 DEF WorkInv, Stepped
<1>8. Loaded("work") = Work(0, "current", Blank) /\ \A k \in Keys : Loaded(k)' = Loaded("open")
  BY <1>4, <1>5 DEF Loaded, Keys
<1>9. Counted'
  <2>1. Pending' => Pending
    BY <1>1, <1>3 DEF Pending
  <2>2. Len(asides') <= MaxAsides
    BY <1>1 DEF WorkInv, Counted
  <2>3. "open" \in Keys
    BY DEF Keys
  <2> QED
    BY <1>1, <1>8, <2>1, <2>2, <2>3, CountedStands
<1>10. Barriers'
  <2>1. Loaded("work").revision = 0 /\ Loaded("work")'.revision \in Nat
    <3>1. Loaded("open") \in Works /\ "work" \in Keys
      BY LoadedIsWork DEF WorkInv, Typed, Keys
    <3> QED
      BY <1>8, <3>1 DEF Work, Works
  <2>2. op.record # None => Honest(op.record)
    BY <1>1 DEF WorkInv, Barriers
  <2> QED
    BY <1>1, <1>3, <1>6, <2>1, <2>2, BarriersStand
<1> QED
  BY <1>1, <1>6, <1>7, <1>9, <1>10, OwnFrame, SameSpending, ReaderTyped

LEMMA CarryClearsStep == ASSUME WorkInv, CarryClears PROVE WorkInv'
<1>1. /\ op # None /\ op.step = "carried" /\ store' = [store EXCEPT !["open"] = None]
      /\ op' = [op EXCEPT !.step = "ready"]
      /\ UNCHANGED <<asides, records, accepted, reader, pageVars, touched, spent>>
  BY DEF CarryClears, Does, kept
<1>2. op \in Ops /\ store \in [Keys -> Works \cup {None}]
  BY <1>1 DEF WorkInv, Typed, Stores
<1>3. /\ op' \in Ops /\ op'.step = "ready" /\ op'.kind = op.kind /\ op'.key = op.key
      /\ op'.patch = op.patch /\ op'.record = op.record
  BY <1>1, <1>2 DEF Ops, Steps
<1>4. op.key = "work" /\ store["open"] # None /\ store["work"] = store["open"] /\ op.kind # "fresh"
  BY <1>1 DEF WorkInv, Stepped
<1>5. store'["work"] = store["work"] /\ store'["open"] = None
  BY <1>1, <1>2 DEF Keys
<1>6. Stores'
  <2>1. store' \in [Keys -> Works \cup {None}]
    BY <1>1, <1>2
  <2> QED
    BY <1>1, <1>3, <2>1 DEF WorkInv, Typed, Stores
<1>7. Stepped'
  BY <1>1, <1>3, <1>4, <1>5 DEF WorkInv, Stepped, Carries
<1>8. /\ Loaded("work")' = Loaded("work") /\ Loaded("open")' = Work(0, "current", Blank)
      /\ Loaded("work").revision \in Nat /\ Work(0, "current", Blank).revision = 0
  <2>1. Loaded("work") \in Works
    BY LoadedIsWork DEF WorkInv, Typed, Keys
  <2> QED
    BY <1>5, <2>1 DEF Loaded, Work, Works
<1>9. Counted'
  <2>1. Pending' => Pending
    BY <1>1, <1>3 DEF Pending
  <2>2. Len(asides') <= MaxAsides
    BY <1>1 DEF WorkInv, Counted
  <2>3. \A k \in Keys : Loaded(k)'.revision = 0 \/ Loaded(k)'.revision = Loaded("work").revision
    BY <1>8 DEF Keys
  <2>4. "work" \in Keys
    BY DEF Keys
  <2> QED
    BY <1>1, <2>1, <2>2, <2>3, <2>4, CountedStands
<1>10. Barriers'
  <2>1. op.record # None => Honest(op.record)
    BY <1>1 DEF WorkInv, Barriers
  <2> QED
    BY <1>1, <1>3, <1>6, <1>8, <2>1, BarriersStand
<1> QED
  BY <1>1, <1>6, <1>7, <1>9, <1>10, OwnFrame, SameSpending, ReaderTyped

LEMMA LandedIsNext ==
  ASSUME WorkInv, op # None, op.kind \in Writing, NEW work \in Works
  PROVE  Landed(work) \in Works /\ Landed(work).revision = work.revision + 1
<1>1. op.patch.patch \in Edits
  BY DEF WorkInv, Stepped, Changes
<1>2. work.revision + 1 \in Nat /\ work.doc \in Docs
  BY DEF Works
<1>3. Applied(work.doc, op.patch.patch) \in Docs
  BY <1>1, <1>2, AppliedIsDoc
<1> DEFINE age == IF Returns(work) THEN "older" ELSE "current"
<1>4. age \in Ages /\ Landed(work) = Work(work.revision + 1, age, Applied(work.doc, op.patch.patch))
  BY DEF Ages, Landed
<1> QED
  BY <1>2, <1>3, <1>4, WorkIsWork

LEMMA LandsStep == ASSUME WorkInv, Lands PROVE WorkInv'
<1> DEFINE work == Loaded(op.key)
<1>1. /\ op # None /\ op.step = "ready" /\ op.kind \in Writing /\ work.age = "current"
      /\ op' = [op EXCEPT !.step = "persist", !.next = Landed(work), !.record = Found(work.doc)]
      /\ UNCHANGED <<store, asides, records, accepted, reader, pageVars, touched, spent>>
  BY DEF Lands, Does, kept, Writing
<1>2. op \in Ops /\ op.key \in Keys
  BY <1>1 DEF WorkInv, Typed, Stores, Ops
<1>3. work \in Works
  BY <1>2, LoadedIsWork DEF WorkInv, Typed
<1> HIDE DEF work
<1>4. Landed(work) \in Works /\ Landed(work).revision = work.revision + 1
  BY <1>1, <1>3, LandedIsNext
<1>5. Found(work.doc) # None => Found(work.doc) \in records
  <2>1. Loaded("work").revision \in Nat
    BY LoadedIsWork DEF WorkInv, Typed, Keys, Works
  <2>2. records \in SUBSET Records /\ \A r \in records : r.revision <= Loaded("work").revision
    BY DEF WorkInv, Typed, Stores, Barriers
  <2> QED
    BY <2>1, <2>2, FoundIsOne
<1>6. Found(work.doc) \in Records \cup {None}
  BY <1>5 DEF WorkInv, Typed, Stores
<1>7. /\ op' \in Ops /\ op'.step = "persist" /\ op'.kind = op.kind /\ op'.key = op.key /\ op'.patch = op.patch
      /\ op'.next = Landed(work) /\ op'.record = Found(work.doc)
  <2> DEFINE next == Landed(work)
             record == Found(work.doc)
  <2>1. op' = [op EXCEPT !.step = "persist", !.next = next, !.record = record]
    BY <1>1
  <2>2. next \in Works \cup {None} /\ record \in Records \cup {None} /\ "persist" \in Steps
    BY <1>4, <1>6 DEF Steps
  <2> HIDE DEF next, record
  <2>3. /\ op' \in Ops /\ op'.step = "persist" /\ op'.kind = op.kind /\ op'.key = op.key /\ op'.patch = op.patch
        /\ op'.next = next /\ op'.record = record
    BY <1>2, <2>1, <2>2 DEF Ops
  <2> QED
    BY <2>3 DEF next, record
<1>8. Stores'
  BY <1>1, <1>7 DEF WorkInv, Typed, Stores
<1>9. Loaded(op.key)' = work /\ (Carries(op.key)' <=> Carries(op.key))
  BY <1>1, <1>7 DEF work, Loaded, Carries
<1>10. op.kind # "fresh" /\ op.kind # "read" /\ ~Carries(op.key)
  BY <1>1 DEF WorkInv, Stepped, Writing
<1>11. Stepped'
  BY <1>1, <1>4, <1>7, <1>9, <1>10 DEF WorkInv, Stepped
<1>12. Counted'
  <2>1. Pending' => Pending
    BY <1>1, <1>10 DEF Pending
  <2>2. Len(asides') <= MaxAsides
    BY <1>1 DEF WorkInv, Counted
  <2>3. \A k \in Keys : Loaded(k)' = Loaded(k)
    BY <1>1 DEF Loaded
  <2> QED
    BY <1>1, <2>1, <2>2, <2>3, CountedStands
<1>13. Barriers'
  <2>1. op'.record = None \/ Honest(op'.record)
    BY <1>5, <1>7 DEF WorkInv, Barriers
  <2>2. Loaded("work")' = Loaded("work") /\ Loaded("work").revision \in Nat
    BY <1>1, LoadedIsWork DEF Loaded, WorkInv, Typed, Keys, Works
  <2> QED
    BY <1>1, <1>8, <2>1, <2>2, BarriersStand
<1> QED
  BY <1>1, <1>8, <1>11, <1>12, <1>13, OwnFrame, SameSpending, ReaderTyped

LEMMA SetsAsideStep == ASSUME WorkInv, SetsAside PROVE WorkInv'
<1> DEFINE work == Loaded("work")
<1>1. /\ op # None /\ op.step = "ready" /\ op.kind = "fresh"
      /\ UNCHANGED <<store, records, accepted, reader, pageVars, touched, spent>>
  BY DEF SetsAside, Does, memory
<1>2. CASE work.age # "older"
  <2>1. op' = None /\ UNCHANGED asides
    BY <1>2 DEF SetsAside
  <2> QED
    BY <1>1, <2>1, Ended, SameSpending, ReaderTyped
<1>3. CASE work.age = "older"
  <2> DEFINE fresh == Work(work.revision + 1, "current", Blank)
  <2>1. asides' = Append(asides, work) /\ op' = [op EXCEPT !.step = "persist", !.next = fresh]
    BY <1>3 DEF SetsAside
  <2>2. work \in Works /\ op \in Ops /\ asides \in Seq(Works)
    BY <1>1, LoadedIsWork DEF WorkInv, Typed, Stores, Keys
  <2>3. fresh \in Works /\ fresh.revision = work.revision + 1
    <3>1. work.revision + 1 \in Nat /\ "current" \in Ages
      BY <2>2 DEF Works, Ages
    <3> QED
      BY <3>1, BlankIsDoc, WorkIsWork
  <2>4. store["work"] # None
    BY <1>3 DEF Loaded, Work
  <2>5. op.key = "work" /\ Len(asides) < MaxAsides
    BY <1>1 DEF WorkInv, Stepped
  <2> HIDE DEF fresh, work
  <2>6. /\ op' \in Ops /\ op'.step = "persist" /\ op'.kind = op.kind /\ op'.key = op.key /\ op'.patch = op.patch
        /\ op'.next = fresh /\ op'.record = op.record
    BY <2>1, <2>2, <2>3 DEF Ops, Steps
  <2>7. asides' \in Seq(Works) /\ asides' # <<>> /\ Len(asides') <= MaxAsides
    <3>1. Len(asides) \in Nat /\ MaxAsides \in Nat
      BY <2>2, WorkAssumption
    <3> QED
      BY <2>1, <2>2, <2>5, <3>1
  <2>8. Stores'
    BY <1>1, <2>6, <2>7 DEF WorkInv, Typed, Stores
  <2>9. Loaded("work")' = work
    BY <1>1 DEF Loaded, work
  <2>10. Stepped'
    <3>1. op'.key = "work" /\ op'.kind = "fresh" /\ "fresh" \notin Writing /\ store' = store
      BY <1>1, <2>5, <2>6 DEF Writing
    <3> QED
      BY <2>3, <2>4, <2>6, <2>7, <2>9, <3>1 DEF Stepped
  <2>11. Counted'
    <3>1. Pending' => Pending
      BY <1>1 DEF Pending
    <3>2. \A k \in Keys : Loaded(k)' = Loaded(k)
      BY <1>1 DEF Loaded
    <3> QED
      BY <1>1, <2>7, <3>1, <3>2, CountedStands
  <2>12. Barriers'
    <3>1. op'.record = None \/ Honest(op'.record)
      BY <1>1, <2>6 DEF WorkInv, Barriers
    <3>2. work.revision \in Nat
      BY <2>2 DEF Works
    <3>3. Loaded("work") = work
      BY DEF work
    <3> QED
      BY <1>1, <2>8, <2>9, <3>1, <3>2, <3>3, BarriersStand
  <2> QED
    BY <1>1, <2>8, <2>10, <2>11, <2>12, OwnFrame, SameSpending, ReaderTyped
<1> QED
  BY <1>2, <1>3

LEMMA PersistStep == ASSUME WorkInv, Persist PROVE WorkInv'
<1> DEFINE old == Loaded(op.key)
<1>1. /\ op # None /\ op.step = "persist" /\ store' = [store EXCEPT ![op.key] = op.next]
      /\ op' = [op EXCEPT !.step = "stored", !.next = old]
      /\ UNCHANGED <<asides, records, accepted, reader, pageVars, touched, spent>>
  BY DEF Persist, Does, kept
<1>2. op \in Ops /\ op.key \in Keys /\ store \in [Keys -> Works \cup {None}]
  BY <1>1 DEF WorkInv, Typed, Stores, Ops
<1>3. old \in Works /\ op.next \in Works /\ op.next.revision = old.revision + 1
  BY <1>1, <1>2, LoadedIsWork DEF WorkInv, Typed, Stepped
<1> HIDE DEF old
<1>4. /\ op' \in Ops /\ op'.step = "stored" /\ op'.kind = op.kind /\ op'.key = op.key /\ op'.patch = op.patch
      /\ op'.next = old /\ op'.record = op.record
  BY <1>1, <1>2, <1>3 DEF Ops, Steps
<1>5. store' \in [Keys -> Works \cup {None}] /\ store'[op.key] = op.next
  BY <1>1, <1>2, <1>3
<1>6. Stores'
  BY <1>1, <1>4, <1>5 DEF WorkInv, Typed, Stores
<1>7. op.kind # "read"
  BY <1>1 DEF WorkInv, Stepped
<1>8. Stepped'
  <2>1. store'[op'.key] \in Works /\ store'[op'.key].revision = op'.next.revision + 1 /\ op'.next \in Works
    BY <1>3, <1>4, <1>5
  <2> QED
    BY <1>1, <1>4, <1>7, <2>1 DEF WorkInv, Stepped
<1>9. /\ Loaded(op.key)' = op.next
      /\ \A k \in Keys \ {op.key} : Loaded(k)' = Loaded(k)
  <2>1. store'[op'.key] # None /\ op'.key = op.key
    BY <1>3, <1>4, <1>5, WorkIsSome
  <2>2. \A k \in Keys \ {op.key} : store'[k] = store[k]
    BY <1>1, <1>2
  <2> QED
    BY <1>5, <2>1, <2>2 DEF Loaded
<1>10. \A k \in Keys : Loaded(k).revision \in Nat /\ Loaded(k).revision <= spent.requests
  <2>1. Pending
    BY <1>1, <1>7 DEF Pending
  <2> QED
    BY <2>1, LoadedIsWork DEF WorkInv, Typed, Works, Counted
<1>11. Counted'
  <2>1. ~Pending'
    BY <1>4 DEF Pending
  <2>2. spent.requests \in Nat
    BY DEF WorkInv, Typed, Spending
  <2>3. \A k \in Keys : Loaded(k)'.revision <= spent.requests + 1
    <3> TAKE k \in Keys
    <3>1. CASE k = op.key
      <4>1. Loaded(k)' = op.next
        BY <1>4, <1>9, <3>1 DEF Loaded
      <4>2. old.revision \in Nat /\ old.revision <= spent.requests
        BY <1>2, <1>10 DEF old
      <4> QED
        BY <1>3, <2>2, <4>1, <4>2
    <3>2. CASE k # op.key
      BY <1>9, <1>10, <2>2, <3>2
    <3> QED
      BY <3>1, <3>2
  <2> QED
    BY <1>1, <2>1, <2>3 DEF WorkInv, Counted
<1>12. Barriers'
  <2>1. op'.record = None \/ Honest(op'.record)
    BY <1>1, <1>4 DEF WorkInv, Barriers
  <2>2. Loaded("work").revision <= Loaded("work")'.revision
    <3>1. "work" \in Keys
      BY DEF Keys
    <3>2. CASE op.key = "work"
      <4>1. Loaded("work")' = op.next /\ Loaded("work") = old
        BY <1>4, <1>9, <3>2 DEF Loaded, old
      <4>2. old.revision \in Nat
        BY <1>3 DEF Works
      <4> QED
        BY <1>3, <4>1, <4>2
    <3>3. CASE op.key # "work"
      BY <1>9, <1>10, <3>1, <3>3
    <3> QED
      BY <3>2, <3>3
  <2> QED
    BY <1>1, <1>6, <2>1, <2>2, BarriersStand
<1> QED
  BY <1>1, <1>6, <1>8, <1>11, <1>12, OwnFrame, SameSpending, ReaderTyped

LEMMA OfferedKeeps ==
  ASSUME NEW t \in [frames : Seq(Acks), gap : BOOLEAN], Len(t.frames) <= AckFrames, Single(t.frames),
         NEW ack \in Acks, ack.revision = ack.base + 1
  PROVE  /\ Offered(t, ack) \in [frames : Seq(Acks), gap : BOOLEAN]
         /\ Len(Offered(t, ack).frames) <= AckFrames /\ Single(Offered(t, ack).frames)
<1>1. AckFrames \in Nat \ {0} /\ t.frames \in Seq(Acks) /\ Len(t.frames) \in Nat
  BY WorkAssumption
<1>2. CASE Len(t.frames) = AckFrames
  <2>1. t.frames # <<>>
    BY <1>1, <1>2
  <2>2. /\ Tail(t.frames) \in Seq(Acks) /\ Len(Tail(t.frames)) = Len(t.frames) - 1 /\ Single(Tail(t.frames))
    BY <1>1, <2>1, TailKeeps
  <2> DEFINE more == Append(Tail(t.frames), ack)
  <2>3. more \in Seq(Acks) /\ Len(more) = Len(t.frames) /\ Single(more)
    <3>1. more \in Seq(Acks) /\ Len(more) = Len(Tail(t.frames)) + 1 /\ Single(more)
      BY <2>2, AppendKeeps
    <3> QED
      BY <1>1, <2>2, <3>1
  <2>4. Offered(t, ack) = [frames |-> more, gap |-> TRUE]
    BY <1>2 DEF Offered
  <2> HIDE DEF more
  <2> QED
    BY <1>1, <1>2, <2>3, <2>4
<1>3. CASE Len(t.frames) # AckFrames
  <2> DEFINE more == Append(t.frames, ack)
  <2>1. more \in Seq(Acks) /\ Len(more) = Len(t.frames) + 1 /\ Single(more)
    BY <1>1, AppendKeeps
  <2>2. Offered(t, ack) = [t EXCEPT !.frames = more]
    BY <1>3 DEF Offered
  <2> HIDE DEF more
  <2>3. Offered(t, ack) \in [frames : Seq(Acks), gap : BOOLEAN] /\ Offered(t, ack).frames = more
    BY <2>1, <2>2
  <2> QED
    BY <1>1, <1>3, <2>1, <2>3
<1> QED
  BY <1>2, <1>3

LEMMA AcceptStep == ASSUME WorkInv, Accept PROVE WorkInv'
<1> DEFINE before == op.next
           after == store["work"]
           changed == DOMAIN Delta(before.doc, after.doc)
           fresh == op.kind = "fresh"
           inverse == [whole |-> fresh, patch |-> IF fresh THEN before.doc ELSE Delta(after.doc, before.doc)]
           record == [revision |-> after.revision, after |-> after.doc, inverse |-> inverse]
           ack == [base |-> before.revision, revision |-> after.revision]
           left == IF fresh THEN {} ELSE Kept(changed)
<1>1. /\ op # None /\ op.step = "stored" /\ op.key = "work" /\ op' = None
      /\ records' = Recent(left \cup {record})
      /\ accepted' = Latest(Append(accepted, ack))
      /\ tail' = IF conn THEN Offered(tail, ack) ELSE tail
      /\ touched' = [p \in Paths |-> IF Foreign /\ p \in changed THEN after.revision ELSE touched[p]]
      /\ Notify
      /\ UNCHANGED <<store, asides, conn, slot, page, spent>>
  BY DEF Accept, Does
<1>2. before \in Works /\ after \in Works /\ after.revision = before.revision + 1
  BY <1>1 DEF WorkInv, Stepped
<1>3. after.revision \in Nat /\ after.doc \in Docs /\ before.revision \in Nat /\ before.doc \in Docs
  BY <1>2 DEF Works
<1>4. ack \in Acks /\ ack.revision = ack.base + 1
  BY <1>2, <1>3 DEF Acks
<1>5. inverse \in Changes /\ DOMAIN inverse.patch \subseteq Paths
  <2> DEFINE patch == IF fresh THEN before.doc ELSE Delta(after.doc, before.doc)
  <2>1. patch \in Edits /\ DOMAIN patch \subseteq Paths
    <3>1. Delta(after.doc, before.doc) \in Edits /\ DOMAIN Delta(after.doc, before.doc) \subseteq Paths
      BY <1>3, DeltaIsEdit
    <3>2. before.doc \in Edits /\ DOMAIN before.doc \subseteq Paths
      BY <1>3, DocIsEdit
    <3> HIDE DEF fresh, after
    <3> QED
      BY <3>1, <3>2
  <2>2. fresh \in BOOLEAN /\ inverse = [whole |-> fresh, patch |-> patch]
    OBVIOUS
  <2> HIDE DEF patch, fresh, inverse
  <2> QED
    BY <2>1, <2>2 DEF Changes
<1>6. record \in Records /\ record.revision = after.revision
  <2> HIDE DEF inverse, after
  <2> QED
    BY <1>3, <1>5 DEF Records
<1>7. changed \subseteq Paths
  BY <1>3, DeltaIsEdit
<1>8. left \in SUBSET records
  BY DEF Kept
<1>9. /\ records \in SUBSET Records /\ IsFiniteSet(records) /\ Cardinality(records) <= Window
      /\ Cardinality(records) \in Nat /\ Window \in Nat
  BY WorkAssumption, FS_CardinalityType DEF WorkInv, Typed, Stores
<1>10. left \in SUBSET Records /\ IsFiniteSet(left) /\ Cardinality(left) <= Window
  <2>1. IsFiniteSet(left) /\ Cardinality(left) <= Cardinality(records)
    BY <1>8, <1>9, FS_Subset
  <2>2. Cardinality(left) \in Nat
    BY <2>1, FS_CardinalityType
  <2> HIDE DEF left
  <2> QED
    BY <1>8, <1>9, <2>1, <2>2
<1>11. Loaded("work") = after /\ Loaded("work")' = after
  BY <1>1, <1>2, WorkIsSome DEF Loaded
<1>12. \A p \in Paths : touched[p] \in Nat /\ touched[p] <= after.revision
  BY <1>11 DEF WorkInv, Typed, Stores, Barriers
<1>13. touched' \in [Paths -> Nat] /\ \A p \in Paths : touched'[p] <= after.revision
  <2> HIDE DEF changed, after
  <2> QED
    BY <1>1, <1>3, <1>12
<1>14. ASSUME NEW r \in left PROVE Honest(r)' /\ r.revision <= after.revision
  <2>1. r \in records /\ Honest(r) /\ r.revision <= after.revision
    BY <1>8, <1>11 DEF WorkInv, Barriers
  <2>2. Foreign => DOMAIN r.inverse.patch \cap changed = {}
    BY DEF Kept
  <2>3. DOMAIN r.inverse.patch \subseteq Paths
    <3>1. r.inverse.patch \in Edits
      BY <1>9, <2>1 DEF Records, Changes
    <3> QED
      BY <3>1 DEF Edits
  <2> HIDE DEF changed, after, left
  <2>4. \A p \in DOMAIN r.inverse.patch : touched'[p] = touched[p]
    BY <1>1, <2>2, <2>3
  <2> QED
    BY <2>1, <2>4 DEF Honest
<1>15. \A p \in DOMAIN record.inverse.patch : touched'[p] <= record.revision
  <2>1. record.inverse = inverse /\ record.revision = after.revision
    OBVIOUS
  <2> HIDE DEF after, inverse, record
  <2> QED
    BY <1>5, <1>13, <2>1
<1>16. /\ records' \in SUBSET (left \cup {record}) /\ IsFiniteSet(records') /\ Cardinality(records') <= Window
  <2> HIDE DEF left, record
  <2> QED
    BY <1>1, <1>6, <1>10, RecentKeeps
<1>17. /\ accepted' \in Seq(Acks) /\ Len(accepted') <= Window /\ Single(accepted')
  <2> HIDE DEF ack
  <2>1. Append(accepted, ack) \in Seq(Acks) /\ Single(Append(accepted, ack))
    BY <1>4, AppendKeeps DEF WorkInv, Typed, Stores, Chained
  <2> QED
    BY <1>1, <2>1, LatestKeeps
<1>18. Stores'
  <2> HIDE DEF left, record
  <2>1. records' \in SUBSET Records
    BY <1>6, <1>10, <1>16
  <2> QED
    BY <1>1, <1>13, <1>16, <1>17, <2>1 DEF WorkInv, Typed, Stores
<1>19. Spending' /\ spent' = spent
  BY <1>1, SameSpending
<1>20. Pages' /\ Single(tail.frames)'
  <2> HIDE DEF ack
  <2>1. tail \in [frames : Seq(Acks), gap : BOOLEAN] /\ Len(tail.frames) <= AckFrames /\ Single(tail.frames)
    BY DEF WorkInv, Typed, Pages, Chained
  <2>2. /\ tail' \in [frames : Seq(Acks), gap : BOOLEAN] /\ Len(tail'.frames) <= AckFrames /\ Single(tail'.frames)
    BY <1>1, <1>4, <2>1, OfferedKeeps
  <2>3. /\ reader' \in [at : {"idle", "queued", "reading", "read"}, dirty : BOOLEAN, value : Views]
        /\ ~conn => reader' = reader
    BY <1>1, NotifyTyped
  <2>4. ~conn => tail' = tail
    BY <1>1
  <2>5. Pages'
    BY <1>1, <2>2, <2>3, <2>4 DEF WorkInv, Typed, Pages
  <2> QED
    BY <2>2, <2>5
<1>21. Stepped'
  BY <1>1 DEF Stepped
<1>22. Counted'
  <2>1. Pending' => Pending
    BY <1>1 DEF Pending
  <2>2. \A k \in Keys : Loaded(k)' = Loaded(k)
    BY <1>1 DEF Loaded
  <2>3. Len(asides') <= MaxAsides
    BY <1>1 DEF WorkInv, Counted
  <2> QED
    BY <1>19, <2>1, <2>2, <2>3, CountedStands
<1>23. Barriers'
  <2> HIDE DEF left, record, after
  <2>1. \A r \in records' : Honest(r)' /\ r.revision <= after.revision
    <3> TAKE r \in records'
    <3>1. CASE r \in left
      BY <1>14, <3>1
    <3>2. CASE r = record
      BY <1>3, <1>6, <1>15, <3>2 DEF Honest
    <3> QED
      BY <1>16, <3>1, <3>2
  <2>2. \A p \in Paths : touched'[p] <= Loaded("work")'.revision
    BY <1>11, <1>13
  <2> QED
    BY <1>1, <1>11, <2>1, <2>2 DEF Barriers
<1>24. Stretch'
  BY <1>1 DEF WorkInv, Chained, Stretch
<1> QED
  BY <1>17, <1>18, <1>19, <1>20, <1>21, <1>22, <1>23, <1>24 DEF WorkInv, Typed, Chained

-----------------------------------------------------------------------------
(* The invariant. *)

LEMMA WorkInitially == Init => WorkInv
<1> SUFFICES ASSUME Init PROVE WorkInv
  OBVIOUS
<1>1. /\ op = None /\ asides = <<>> /\ records = {} /\ accepted = <<>> /\ conn = FALSE /\ reader = IdleRead
      /\ slot = None /\ tail = NoTail /\ touched = [p \in Paths |-> 0] /\ page = NoPage
      /\ spent = [requests |-> 0, restores |-> 0, visits |-> 0, crashes |-> 0, failures |-> 0]
  BY DEF Init, Quiet
<1>2. Staged \in Works /\ Staged.revision = 1 /\ Older \in Works /\ Older.revision = 1
  BY BlankIsDoc, WorkIsWork DEF Staged, Older, Ages
<1>3. PICK key \in Keys, work \in {None, Staged, Older} : store = [k \in Keys |-> IF k = key THEN work ELSE None]
  BY DEF Init, Only, Keys
<1>4. store \in [Keys -> {None, Staged, Older}]
  BY <1>3
<1>5. Stores
  <2>1. Window \in Nat /\ IsFiniteSet({}) /\ Cardinality({}) = 0
    BY WorkAssumption, FS_EmptySet
  <2>2. store \in [Keys -> Works \cup {None}]
    BY <1>2, <1>4
  <2> HIDE DEF Staged, Older
  <2> QED
    BY <1>1, <2>1, <2>2 DEF Stores
<1>6. Spending
  BY <1>1, WorkAssumption DEF Spending
<1>7. Pages
  <2>1. AckFrames \in Nat /\ None \in Views
    BY WorkAssumption DEF Views
  <2>2. page \in [view : Views, seen : Nat \cup {None}, trusted : SUBSET Nat]
    BY <1>1, <2>1 DEF NoPage
  <2>3. 0 <= AckFrames
    BY <2>1
  <2> QED
    BY <1>1, <2>1, <2>2, <2>3, IdleIsRead DEF Pages
<1>8. \A k \in Keys : Loaded(k).revision \in {0, 1}
  BY <1>2, <1>4 DEF Loaded, Work
<1>9. Stepped /\ Counted
  <2>1. MaxAsides \in Nat
    BY WorkAssumption
  <2>2. ~Pending
    BY <1>1 DEF Pending
  <2>3. \A k \in Keys : Loaded(k).revision <= spent.requests + 1
    BY <1>1, <1>8
  <2>4. Len(asides) <= MaxAsides
    BY <1>1, <2>1
  <2> QED
    BY <1>1, <2>2, <2>3, <2>4 DEF Stepped, Counted
<1>10. Barriers
  BY <1>1, <1>8 DEF Barriers, Keys
<1>11. Chained
  BY <1>1, IdleIsRead DEF Chained, Single, Stretch, NoPage
<1> QED
  BY <1>5, <1>6, <1>7, <1>9, <1>10, <1>11 DEF WorkInv, Typed

LEMMA WorkStep == WorkInv /\ [Next]_vars => WorkInv'
<1> SUFFICES ASSUME WorkInv, [Next]_vars PROVE WorkInv'
  OBVIOUS
<1>1. CASE Observing
  BY <1>1, ReadLandsStep, ConnectStep, DropStep, ShowsStep, HearsStep DEF Observing
<1>2. CASE Beginning
  BY <1>2, BeginStep
<1>3. CASE Running
  BY <1>3, CarryCopiesStep, CarryClearsStep, ReadStep, LandsStep, RefusesStep, SetsAsideStep, PersistStep,
     AcceptStep, AcceptElsewhereStep DEF Running
<1>4. CASE StoreFails
  BY <1>4, StoreFailsStep
<1>5. CASE Restart
  BY <1>5, RestartStep
<1>6. CASE UNCHANGED vars
  <2>1. Pages' /\ Single(tail.frames)' /\ Stretch'
    BY <1>6 DEF vars, WorkInv, Typed, Pages, Chained, Single, Stretch
  <2> QED
    BY <1>6, <2>1, Frame DEF vars, kept
<1> QED
  BY <1>1, <1>2, <1>3, <1>4, <1>5, <1>6 DEF Next

LEMMA WorkAlways == Spec => []WorkInv
BY WorkInitially, WorkStep, PTL DEF Spec

-----------------------------------------------------------------------------
(* The theorems. *)

\* The steps that write a file.
LEMMA Writers ==
  ASSUME [Next]_vars
  PROVE  UNCHANGED store \/ CarryCopies \/ CarryClears \/ Persist
<1>1. Observing => UNCHANGED store
  BY DEF Observing, ReadLands, Connect, Drop, Shows, Hears
<1>2. Beginning => UNCHANGED store
  BY DEF Beginning, BeginWrite, BeginPublish, BeginRestore, BeginFresh, BeginRead, Asked, Begin
<1>3. Running => UNCHANGED store \/ CarryCopies \/ CarryClears \/ Persist
  BY DEF Running, Read, Lands, Refuses, SetsAside, Accept, AcceptElsewhere
<1>4. StoreFails \/ Restart \/ UNCHANGED vars => UNCHANGED store
  BY DEF StoreFails, Restart, vars
<1> QED
  BY <1>1, <1>2, <1>3, <1>4 DEF Next

\* What has been set aside stays there.
LEMMA AsidesGrow ==
  ASSUME WorkInv, [Next]_vars, asides # <<>>
  PROVE  asides' # <<>>
<1>1. Observing \/ StoreFails \/ Restart \/ UNCHANGED vars => UNCHANGED asides
  BY DEF Observing, ReadLands, Connect, Drop, Shows, Hears, StoreFails, Restart, vars, kept
<1>2. Beginning => UNCHANGED asides
  BY DEF Beginning, BeginWrite, BeginPublish, BeginRestore, BeginFresh, BeginRead, Asked, Begin, kept
<1>3. Running => UNCHANGED asides \/ SetsAside
  BY DEF Running, CarryCopies, CarryClears, Read, Lands, Refuses, Persist, Accept, AcceptElsewhere, kept
<1>4. SetsAside => UNCHANGED asides \/ asides' = Append(asides, Loaded("work"))
  BY DEF SetsAside
<1>5. asides \in Seq(Works) /\ Loaded("work") \in Works
  BY LoadedIsWork DEF WorkInv, Typed, Stores, Keys
<1> QED
  BY <1>1, <1>2, <1>3, <1>4, <1>5 DEF Next

LEMMA RegisterStep ==
  ASSUME WorkInv, [Next]_vars
  PROVE  Current' = Current \/ Current'.revision = Current.revision + 1
<1>1. ASSUME UNCHANGED store PROVE Current' = Current
  BY <1>1 DEF Current, Loaded
<1>2. store \in [Keys -> Works \cup {None}]
  BY DEF WorkInv, Typed, Stores
<1>3. ASSUME CarryCopies PROVE Current' = Current
  <2>1. store["open"] # None /\ store["work"] = None /\ store' = [store EXCEPT !["work"] = store["open"]]
    BY <1>3 DEF WorkInv, Stepped, CarryCopies, Does
  <2>2. store'["work"] = store["open"]
    BY <1>2, <2>1 DEF Keys
  <2> QED
    BY <2>1, <2>2 DEF Current, Loaded
<1>4. ASSUME CarryClears PROVE Current' = Current
  <2>1. store["open"] # None /\ store["work"] = store["open"] /\ store' = [store EXCEPT !["open"] = None]
    BY <1>4 DEF WorkInv, Stepped, CarryClears, Does
  <2>2. store'["work"] = store["work"]
    BY <1>2, <2>1 DEF Keys
  <2> QED
    BY <2>1, <2>2 DEF Current, Loaded
<1>5. ASSUME Persist PROVE Current' = Current \/ Current'.revision = Current.revision + 1
  <2>1. op # None /\ op.step = "persist" /\ store' = [store EXCEPT ![op.key] = op.next]
    BY <1>5 DEF Persist, Does
  <2>2. op.key \in Keys /\ op.next \in Works /\ op.next.revision = Loaded(op.key).revision + 1
    BY <2>1 DEF WorkInv, Typed, Stores, Stepped, Ops
  <2>3. store'[op.key] = op.next /\ op.next # None
    BY <1>2, <2>1, <2>2, WorkIsSome
  <2>4. CASE op.key = "work"
    <3>1. Current = Loaded("work")
      <4>1. store["work"] # None \/ ~Carries("work")
        BY <2>1, <2>4 DEF WorkInv, Stepped
      <4> QED
        BY <4>1 DEF Current, Carries
    <3>2. Current' = op.next
      BY <2>3, <2>4 DEF Current, Loaded
    <3> QED
      BY <2>2, <2>4, <3>1, <3>2
  <2>5. CASE op.key = "open"
    <3>1. store'["work"] = store["work"] /\ store'["open"] = op.next
      BY <1>2, <2>1, <2>3, <2>5 DEF Keys
    <3>2. CASE store["work"] # None
      BY <3>1, <3>2 DEF Current, Loaded
    <3>3. CASE store["work"] = None
      <4>1. Current = Loaded("open")
        BY <3>3 DEF Current, Loaded
      <4>2. Current' = op.next
        BY <2>3, <3>1, <3>3 DEF Current
      <4> QED
        BY <2>2, <2>5, <4>1, <4>2
    <3> QED
      BY <3>2, <3>3
  <2> QED
    BY <2>2, <2>4, <2>5 DEF Keys
<1> QED
  BY <1>1, <1>3, <1>4, <1>5, Writers

\* The Work of an Address is one register for every document: its value changes only with its
\* revision, which counts up by one, whatever is carried over, fails or starts again between the
\* steps of a write.
THEOREM WorkIsARegister == Spec => OneRegister
<1>1. WorkInv /\ [Next]_vars => [Register!Write]_<<[age |-> Current.age, doc |-> Current.doc], Current.revision>>
  BY RegisterStep DEF Register!Write
<1> QED
  BY <1>1, WorkAlways, PTL DEF Spec, OneRegister, Register!Spec

\* A document an older version wrote is never lost: every step leaves it at a key or set aside.
THEOREM OldDocumentsStay == Spec => OldKept
<1>1. ASSUME WorkInv, [Next]_vars, OldSomewhere PROVE OldSomewhere'
  <2>1. CASE asides # <<>>
    BY <1>1, <2>1, AsidesGrow DEF OldSomewhere
  <2>2. ASSUME NEW k \in Keys, store[k] # None, store[k].age = "older" PROVE OldSomewhere'
    <3>1. store \in [Keys -> Works \cup {None}]
      BY <1>1 DEF WorkInv, Typed, Stores
    <3>2. CASE UNCHANGED store
      BY <2>2, <3>2 DEF OldSomewhere
    <3>3. CASE CarryCopies
      <4>1. store["work"] = None /\ store' = [store EXCEPT !["work"] = store["open"]]
        BY <1>1, <3>3 DEF WorkInv, Stepped, CarryCopies, Does
      <4>2. store'[k] = store[k]
        BY <2>2, <3>1, <4>1
      <4> QED
        BY <2>2, <4>2 DEF OldSomewhere
    <3>4. CASE CarryClears
      <4>1. store["work"] = store["open"] /\ store' = [store EXCEPT !["open"] = None]
        BY <1>1, <3>4 DEF WorkInv, Stepped, CarryClears, Does
      <4>2. store'["work"] = store[k]
        BY <2>2, <3>1, <4>1 DEF Keys
      <4> QED
        BY <2>2, <4>2 DEF OldSomewhere, Keys
    <3>5. CASE Persist
      <4>1. op # None /\ op.step = "persist" /\ store' = [store EXCEPT ![op.key] = op.next]
        BY <3>5 DEF Persist, Does
      <4>2. CASE op.kind = "fresh"
        BY <1>1, <4>1, <4>2, AsidesGrow DEF WorkInv, Stepped, OldSomewhere
      <4>3. CASE op.kind # "fresh"
        <5>1. Loaded(op.key).age = "current"
          BY <1>1, <4>1, <4>3 DEF WorkInv, Stepped
        <5>2. k # op.key
          BY <2>2, <5>1 DEF Loaded
        <5>3. store'[k] = store[k]
          BY <3>1, <4>1, <5>2
        <5> QED
          BY <2>2, <5>3 DEF OldSomewhere
      <4> QED
        BY <4>2, <4>3
    <3> QED
      BY <1>1, <3>2, <3>3, <3>4, <3>5, Writers
  <2> QED
    BY <1>1, <2>1, <2>2 DEF OldSomewhere
<1> QED
  BY <1>1, WorkAlways, PTL DEF Spec, OldKept

\* A restore that was admitted never takes back a path that Pea or the host changed after the write it
\* undoes, even when the value there looks the same again.
THEOREM RestoresAreHonest == Spec => []RestoreHonest
<1>1. WorkInv => RestoreHonest
  BY DEF WorkInv, Barriers, Honest, RestoreHonest
<1> QED
  BY <1>1, WorkAlways, PTL

\* The writes a page offers to undo are a stretch without holes up to the last it heard, whatever its
\* connection dropped and however often the host started again; and every bound of the types is kept.
THEOREM HistoriesAreWhole == Spec => []HistoryWhole
<1>1. WorkInv => HistoryWhole
  <2> SUFFICES ASSUME WorkInv PROVE HistoryWhole
    OBVIOUS
  <2>1. TypeOK
    <3>1. ASSUME NEW k \in Keys, store[k] # None
          PROVE  /\ store[k].revision \in 0 .. MaxRequests + 1 /\ store[k].age \in {"current", "older"}
                 /\ store[k].doc \in Docs
      <4>1. store[k] \in Works /\ Loaded(k) = store[k]
        BY <3>1, LoadedIsWork DEF WorkInv, Typed, Loaded
      <4>2. /\ store[k].revision \in Nat /\ spent.requests \in Nat /\ MaxRequests \in Nat
            /\ spent.requests <= MaxRequests
        BY <4>1, WorkAssumption DEF WorkInv, Typed, Spending, Works
      <4>3. store[k].revision <= spent.requests + 1
        BY <4>1, <4>2 DEF WorkInv, Counted
      <4> QED
        BY <4>1, <4>2, <4>3 DEF Works, Ages
    <3>2. op # None => op.step \in {"carry", "carried", "ready", "persist", "stored"}
      BY DEF WorkInv, Typed, Stores, Ops, Steps
    <3> QED
      BY <3>1, <3>2 DEF TypeOK, WorkInv, Typed, Stores, Pages, Counted
  <2>2. page.trusted # {} => page.trusted = Min(page.trusted) .. page.seen
    <3> SUFFICES ASSUME page.trusted # {} PROVE page.trusted = Min(page.trusted) .. page.seen
      OBVIOUS
    <3>1. PICK low \in page.trusted : page.trusted = low .. page.seen
      BY DEF WorkInv, Chained, Stretch
    <3>2. page.seen \in Nat /\ low \in Nat
      BY DEF WorkInv, Typed, Pages, Chained, Stretch
    <3>3. \A n \in page.trusted : n \in Nat /\ low <= n
      BY <3>1, <3>2
    <3>4. Min(page.trusted) = low
      <4>1. \A m \in page.trusted : (\A n \in page.trusted : m <= n) => m = low
        BY <3>1, <3>3
      <4> QED
        BY <3>3, <4>1 DEF Min
    <3> QED
      BY <3>1, <3>4
  <2> QED
    BY <2>1, <2>2 DEF HistoryWhole
<1> QED
  BY <1>1, WorkAlways, PTL

===============================================================================

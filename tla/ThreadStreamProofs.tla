-------------------------- MODULE ThreadStreamProofs --------------------------
(***************************************************************************)
(* The host log and the page that follows it, for a log and a conversation *)
(* of any size: what was said of the conversation can be replayed, a       *)
(* reconnect skips nothing, the page has no hole and takes nothing back.   *)
(***************************************************************************)
EXTENDS ThreadStream, SequenceTheorems, FiniteSetTheorems, WellFoundedInduction, TLAPS

-----------------------------------------------------------------------------
(* Numbers and sequences.                                                   *)

(* A non-empty set of naturals has a least member: induction over data is done by a least
   counterexample. *)
LEMMA Least ==
  ASSUME NEW T \in SUBSET Nat, T # {}
  PROVE  \E n \in T : \A m \in T : n <= m
<1>1. IsWellFoundedOn(OpToRel(<, Nat), Nat)
  BY NatLessThanWellFounded
<1>2. PICK n \in T : \A m \in T : ~(<<m, n>> \in OpToRel(<, Nat))
  BY <1>1, WFMin
<1>3. ASSUME NEW m \in T PROVE n <= m
  <2>1. ~(<<m, n>> \in {ss \in Nat \X Nat : ss[1] < ss[2]})
    BY <1>2 DEF OpToRel
  <2> QED
    BY <2>1
<1> QED
  BY <1>3

(* A set of naturals that holds 0 and with each number its successor, up to N, holds all up to N. *)
LEMMA Climb ==
  ASSUME NEW N \in Nat, NEW S, 0 \in S, \A n \in 0 .. N : n \in S /\ n < N => n + 1 \in S
  PROVE  0 .. N \subseteq S
<1> SUFFICES ASSUME {n \in 0 .. N : n \notin S} # {} PROVE FALSE
  OBVIOUS
<1>1. PICK n \in {m \in 0 .. N : m \notin S} : \A m \in {k \in 0 .. N : k \notin S} : n <= m
  <2>1. {m \in 0 .. N : m \notin S} \in SUBSET Nat
    OBVIOUS
  <2> QED
    BY <2>1, Least
<1>2. n - 1 \in 0 .. N /\ n - 1 \in S
  BY <1>1
<1> QED
  BY <1>1, <1>2

(* A bounded, non-empty set of naturals has a greatest member, and Max is it. *)
LEMMA MaxIsGreatest ==
  ASSUME NEW S \in SUBSET Nat, S # {}, NEW N \in Nat, \A s \in S : s <= N
  PROVE  Max(S) \in S /\ \A s \in S : s <= Max(S)
<1> DEFINE Bounds == {n \in Nat : \A s \in S : s <= n}
<1>1. PICK n \in Bounds : \A m \in Bounds : n <= m
  <2>1. N \in Bounds
    OBVIOUS
  <2> QED
    BY <2>1, Least
<1>2. n \in S
  <2> SUFFICES ASSUME n \notin S PROVE FALSE
    OBVIOUS
  <2>1. n # 0
    <3>1. PICK s \in S : s \in Nat /\ s <= n
      BY <1>1
    <3> QED
      BY <3>1
  <2>2. \A s \in S : s <= n - 1
    BY <1>1
  <2>3. n - 1 \in Bounds
    BY <2>1, <2>2
  <2> QED
    BY <1>1, <2>3
<1>3. \E x \in S : \A y \in S : x >= y
  BY <1>1, <1>2
<1> QED
  BY <1>3 DEF Max

-----------------------------------------------------------------------------
(* The members of a sequence in a set.                                      *)

\* The first n steps of the selection.
Selects(f, s, S, n) ==
  f = [m \in 0 .. n |-> IF m = 0 THEN <<>>
                        ELSE IF s[m] \in S THEN Append(f[m - 1], s[m]) ELSE f[m - 1]]

LEMMA SelectionStep ==
  ASSUME NEW f, NEW s, NEW S, NEW N \in Nat, Selects(f, s, S, N), NEW m \in 1 .. N
  PROVE  f[m] = IF s[m] \in S THEN Append(f[m - 1], s[m]) ELSE f[m - 1]
<1>1. \A k \in 0 .. N : f[k] = IF k = 0 THEN <<>>
                               ELSE IF s[k] \in S THEN Append(f[k - 1], s[k]) ELSE f[k - 1]
  BY DEF Selects
<1>2. m \in 0 .. N /\ m # 0
  OBVIOUS
<1> QED
  BY <1>1, <1>2

LEMMA SelectionExists ==
  ASSUME NEW s, NEW S, NEW N \in Nat
  PROVE  \E f : Selects(f, s, S, N)
<1> DEFINE Has == {n \in Nat : \E f : Selects(f, s, S, n)}
<1>1. 0 \in Has
  <2> DEFINE f == [m \in 0 .. 0 |-> <<>>]
  <2>1. Selects(f, s, S, 0)
    BY DEF Selects
  <2> QED
    BY <2>1
<1>2. ASSUME NEW n \in 0 .. N, n \in Has PROVE n + 1 \in Has
  <2>1. PICK f : Selects(f, s, S, n)
    BY <1>2
  <2> DEFINE next == IF s[n + 1] \in S THEN Append(f[n], s[n + 1]) ELSE f[n]
             g == [m \in 0 .. n + 1 |-> IF m = n + 1 THEN next ELSE f[m]]
  <2>2. \A m \in 0 .. n + 1 :
          g[m] = IF m = 0 THEN <<>> ELSE IF s[m] \in S THEN Append(g[m - 1], s[m]) ELSE g[m - 1]
    <3> SUFFICES ASSUME NEW m \in 0 .. n + 1
                 PROVE  g[m] = IF m = 0 THEN <<>>
                               ELSE IF s[m] \in S THEN Append(g[m - 1], s[m]) ELSE g[m - 1]
      OBVIOUS
    <3>1. CASE m = n + 1
      BY <3>1
    <3>2. CASE m # n + 1
      <4>1. m \in 0 .. n /\ g[m] = f[m] /\ (m # 0 => g[m - 1] = f[m - 1])
        BY <3>2
      <4>2. f[m] = IF m = 0 THEN <<>> ELSE IF s[m] \in S THEN Append(f[m - 1], s[m]) ELSE f[m - 1]
        BY <2>1, <4>1 DEF Selects
      <4> QED
        BY <4>1, <4>2
    <3> QED
      BY <3>1, <3>2
  <2>3. Selects(g, s, S, n + 1)
    BY <2>2 DEF Selects
  <2> QED
    BY <2>3
<1> HIDE DEF Has
<1>3. N \in Has
  BY <1>1, <1>2, Climb
<1> QED
  BY <1>3 DEF Has

\* r is what positions "at" of s hold, in their order, and they are the ones whose member is in S.
Picks(r, s, S, n, at) ==
  /\ at \in [1 .. Len(r) -> 1 .. n]
  /\ \A k \in 1 .. Len(r) : r[k] = s[at[k]] /\ r[k] \in S
  /\ \A k, l \in 1 .. Len(r) : k < l => at[k] < at[l]
  /\ \A m \in 1 .. n : s[m] \in S => \E k \in 1 .. Len(r) : at[k] = m

(* Only(s, S) holds the members of s that are in S, all of them and in their order. *)
LEMMA OnlyPicks ==
  ASSUME NEW T, NEW s \in Seq(T), NEW S
  PROVE  Only(s, S) \in Seq(T) /\ \E at : Picks(Only(s, S), s, S, Len(s), at)
<1>1. PICK f : Only(s, S) = f[Len(s)] /\ Selects(f, s, S, Len(s))
  <2>1. \E f : Selects(f, s, S, Len(s))
    BY SelectionExists, LenProperties
  <2> QED
    BY <2>1 DEF Only, Selects
<1> DEFINE Good == {n \in 0 .. Len(s) : f[n] \in Seq(T) /\ \E at : Picks(f[n], s, S, n, at)}
<1>2. 0 \in Good
  <2>1. f[0] = <<>>
    BY <1>1 DEF Selects
  <2>2. Picks(<<>>, s, S, 0, [k \in 1 .. 0 |-> 0])
    BY DEF Picks
  <2>3. <<>> \in Seq(T) /\ 0 \in 0 .. Len(s)
    BY LenProperties
  <2> QED
    BY <2>1, <2>2, <2>3
<1>3. ASSUME NEW n \in 0 .. Len(s), n \in Good, n < Len(s) PROVE n + 1 \in Good
  <2>1. PICK at : Picks(f[n], s, S, n, at)
    BY <1>3
  <2>2. f[n] \in Seq(T) /\ n + 1 \in 1 .. Len(s) /\ s[n + 1] \in T
    BY <1>3, ElementOfSeq
  <2>3. f[n + 1] = IF s[n + 1] \in S THEN Append(f[n], s[n + 1]) ELSE f[n]
    <3>1. Len(s) \in Nat /\ n + 1 - 1 = n
      BY LenProperties
    <3> HIDE DEF Good
    <3>2. f[n + 1] = IF s[n + 1] \in S THEN Append(f[n + 1 - 1], s[n + 1]) ELSE f[n + 1 - 1]
      BY <1>1, <2>2, <3>1, SelectionStep
    <3> QED
      BY <3>1, <3>2
  <2>4. CASE s[n + 1] \notin S
    <3>1. f[n + 1] = f[n]
      BY <2>3, <2>4
    <3>2. Picks(f[n], s, S, n + 1, at)
      BY <2>1, <2>4 DEF Picks
    <3> QED
      BY <2>2, <3>1, <3>2
  <2>5. CASE s[n + 1] \in S
    <3> DEFINE r == f[n]
               q == Append(r, s[n + 1])
               on == [k \in 1 .. Len(r) + 1 |-> IF k = Len(r) + 1 THEN n + 1 ELSE at[k]]
    <3>1. f[n + 1] = q /\ q \in Seq(T) /\ Len(q) = Len(r) + 1 /\ q[Len(r) + 1] = s[n + 1]
          /\ \A k \in 1 .. Len(r) : q[k] = r[k]
      BY <2>2, <2>3, <2>5, AppendProperties
    <3>2. Len(r) \in Nat
      BY <2>2
    <3> HIDE DEF q, r
    <3>3. on \in [1 .. Len(q) -> 1 .. n + 1]
      BY <2>1, <3>1, <3>2 DEF Picks, r
    <3>4. \A k \in 1 .. Len(q) : q[k] = s[on[k]] /\ q[k] \in S
      <4> SUFFICES ASSUME NEW k \in 1 .. Len(q) PROVE q[k] = s[on[k]] /\ q[k] \in S
        OBVIOUS
      <4>1. CASE k = Len(r) + 1
        BY <2>5, <3>1, <3>2, <4>1
      <4>2. CASE k # Len(r) + 1
        <5>1. k \in 1 .. Len(r) /\ on[k] = at[k]
          BY <3>1, <3>2, <4>2
        <5> QED
          BY <2>1, <3>1, <5>1 DEF Picks, r
      <4> QED
        BY <4>1, <4>2
    <3>5. \A k, l \in 1 .. Len(q) : k < l => on[k] < on[l]
      <4> SUFFICES ASSUME NEW k \in 1 .. Len(q), NEW l \in 1 .. Len(q), k < l
                   PROVE  on[k] < on[l]
        OBVIOUS
      <4>1. k \in 1 .. Len(r) /\ on[k] = at[k] /\ at[k] \in 1 .. n
        BY <2>1, <3>1, <3>2 DEF Picks, r
      <4>2. CASE l = Len(r) + 1
        BY <3>1, <3>2, <4>1, <4>2
      <4>3. CASE l # Len(r) + 1
        <5>1. l \in 1 .. Len(r) /\ on[l] = at[l]
          BY <3>1, <3>2, <4>3
        <5> QED
          BY <2>1, <4>1, <5>1 DEF Picks, r
      <4> QED
        BY <4>2, <4>3
    <3>6. \A m \in 1 .. n + 1 : s[m] \in S => \E k \in 1 .. Len(q) : on[k] = m
      <4> SUFFICES ASSUME NEW m \in 1 .. n + 1, s[m] \in S PROVE \E k \in 1 .. Len(q) : on[k] = m
        OBVIOUS
      <4>1. CASE m = n + 1
        BY <3>1, <3>2, <4>1
      <4>2. CASE m # n + 1
        <5>1. PICK k \in 1 .. Len(r) : at[k] = m
          BY <2>1, <4>2 DEF Picks, r
        <5>2. k \in 1 .. Len(q) /\ on[k] = m
          BY <3>1, <3>2, <5>1
        <5> QED
          BY <5>2
      <4> QED
        BY <4>1, <4>2
    <3>7. Picks(q, s, S, n + 1, on)
      BY <3>3, <3>4, <3>5, <3>6 DEF Picks
    <3> QED
      BY <2>2, <3>1, <3>7
  <2> QED
    BY <2>4, <2>5
<1> HIDE DEF Good
<1>4. Len(s) \in Good
  <2>1. Len(s) \in Nat
    BY LenProperties
  <2>2. 0 .. Len(s) \subseteq Good
    BY <1>2, <1>3, <2>1, Climb
  <2> QED
    BY <2>1, <2>2
<1> QED
  BY <1>1, <1>4 DEF Good

-----------------------------------------------------------------------------
(* Sequences put one after the other.                                       *)

Flattens(f, ss, N) == f = [i \in 1 .. N |-> IF i = 1 THEN ss[i] ELSE f[i - 1] \o ss[i]]

LEMMA FlatteningStep ==
  ASSUME NEW f, NEW ss, NEW N \in Nat, Flattens(f, ss, N), NEW i \in 1 .. N
  PROVE  f[i] = IF i = 1 THEN ss[i] ELSE f[i - 1] \o ss[i]
BY DEF Flattens

LEMMA FlatteningExists ==
  ASSUME NEW ss, NEW N \in Nat
  PROVE  \E f : Flattens(f, ss, N)
<1> DEFINE Has == {n \in Nat : \E f : Flattens(f, ss, n)}
<1>1. 0 \in Has
  <2> DEFINE f == [i \in 1 .. 0 |-> <<>>]
  <2>1. Flattens(f, ss, 0)
    BY DEF Flattens
  <2> QED
    BY <2>1
<1>2. ASSUME NEW n \in 0 .. N, n \in Has PROVE n + 1 \in Has
  <2>1. PICK f : Flattens(f, ss, n)
    BY <1>2
  <2> DEFINE next == IF n = 0 THEN ss[1] ELSE f[n] \o ss[n + 1]
             g == [i \in 1 .. n + 1 |-> IF i = n + 1 THEN next ELSE f[i]]
  <2>2. \A i \in 1 .. n + 1 : g[i] = IF i = 1 THEN ss[i] ELSE g[i - 1] \o ss[i]
    <3> SUFFICES ASSUME NEW i \in 1 .. n + 1
                 PROVE  g[i] = IF i = 1 THEN ss[i] ELSE g[i - 1] \o ss[i]
      OBVIOUS
    <3>1. CASE i = n + 1
      BY <3>1
    <3>2. CASE i # n + 1
      <4>1. i \in 1 .. n /\ g[i] = f[i] /\ (i # 1 => g[i - 1] = f[i - 1])
        BY <3>2
      <4>2. f[i] = IF i = 1 THEN ss[i] ELSE f[i - 1] \o ss[i]
        BY <2>1, <4>1, FlatteningStep
      <4> QED
        BY <4>1, <4>2
    <3> QED
      BY <3>1, <3>2
  <2>3. Flattens(g, ss, n + 1)
    BY <2>2 DEF Flattens
  <2> QED
    BY <2>3
<1> HIDE DEF Has
<1>3. N \in Has
  BY <1>1, <1>2, Climb
<1> QED
  BY <1>3 DEF Has

\* r holds nothing but members of the sequences in ss.
HeldBy(r, ss) == \A k \in DOMAIN r : \E i \in DOMAIN ss : \E j \in DOMAIN ss[i] : r[k] = ss[i][j]

LEMMA ConcatHeld ==
  ASSUME NEW T, NEW ss, NEW r \in Seq(T), HeldBy(r, ss), NEW n \in DOMAIN ss, NEW t \in Seq(T), t = ss[n]
  PROVE  r \o t \in Seq(T) /\ HeldBy(r \o t, ss)
<1>1. /\ r \o t \in Seq(T) /\ Len(r \o t) = Len(r) + Len(t)
      /\ \A k \in 1 .. Len(r) + Len(t) : (r \o t)[k] = IF k <= Len(r) THEN r[k] ELSE t[k - Len(r)]
  BY ConcatProperties
<1>2. /\ Len(r) \in Nat /\ DOMAIN r = 1 .. Len(r) /\ Len(t) \in Nat /\ DOMAIN t = 1 .. Len(t)
      /\ DOMAIN (r \o t) = 1 .. Len(r) + Len(t)
  BY <1>1, LenProperties
<1>3. ASSUME NEW k \in DOMAIN (r \o t)
      PROVE  \E i \in DOMAIN ss : \E j \in DOMAIN ss[i] : (r \o t)[k] = ss[i][j]
  <2>1. CASE k <= Len(r)
    <3>1. k \in DOMAIN r /\ (r \o t)[k] = r[k]
      BY <1>1, <1>2, <1>3, <2>1
    <3> QED
      BY <3>1 DEF HeldBy
  <2>2. CASE ~(k <= Len(r))
    <3>1. k - Len(r) \in DOMAIN t /\ (r \o t)[k] = t[k - Len(r)]
      BY <1>1, <1>2, <1>3, <2>2
    <3> QED
      BY <3>1
  <2> QED
    BY <2>1, <2>2
<1> QED
  BY <1>1, <1>3 DEF HeldBy

(* FlattenSeq(ss) holds nothing but members of the sequences in ss. *)
LEMMA FlattenHolds ==
  ASSUME NEW T, NEW ss \in Seq(Seq(T))
  PROVE  FlattenSeq(ss) \in Seq(T) /\ HeldBy(FlattenSeq(ss), ss)
<1>1. Len(ss) \in Nat /\ DOMAIN ss = 1 .. Len(ss)
  BY LenProperties
<1>2. CASE Len(ss) = 0
  <2>1. ss = <<>> /\ FlattenSeq(ss) = ss
    BY <1>2, EmptySeq DEF FlattenSeq
  <2>2. <<>> \in Seq(T) /\ DOMAIN <<>> = {}
    BY EmptySeq
  <2> QED
    BY <2>1, <2>2 DEF HeldBy
<1>3. CASE Len(ss) # 0
  <2>1. PICK f : FlattenSeq(ss) = f[Len(ss)] /\ Flattens(f, ss, Len(ss))
    <3>1. \E f : Flattens(f, ss, Len(ss))
      BY <1>1, FlatteningExists
    <3> QED
      BY <1>3, <3>1 DEF FlattenSeq, Flattens
  <2> DEFINE Good == {n \in 0 .. Len(ss) : n # 0 => f[n] \in Seq(T) /\ HeldBy(f[n], ss)}
  <2>2. 0 \in Good
    BY <1>1
  <2>3. ASSUME NEW n \in 0 .. Len(ss), n \in Good, n < Len(ss) PROVE n + 1 \in Good
    <3>1. n + 1 \in DOMAIN ss /\ ss[n + 1] \in Seq(T)
      BY <1>1, <2>3, ElementOfSeq
    <3>2. f[n + 1] = IF n = 0 THEN ss[n + 1] ELSE f[n] \o ss[n + 1]
      <4>1. f[n + 1] = IF n + 1 = 1 THEN ss[n + 1] ELSE f[n + 1 - 1] \o ss[n + 1]
        BY <1>1, <2>1, <3>1, FlatteningStep
      <4>2. n + 1 - 1 = n /\ (n + 1 = 1 <=> n = 0)
        BY <1>1
      <4> QED
        BY <4>1, <4>2
    <3>3. f[n + 1] \in Seq(T) /\ HeldBy(f[n + 1], ss)
      <4>1. CASE n = 0
        BY <3>1, <3>2, <4>1 DEF HeldBy
      <4>2. CASE n # 0
        <5>1. f[n] \in Seq(T) /\ HeldBy(f[n], ss)
          BY <2>3, <4>2
        <5>2. f[n] \o ss[n + 1] \in Seq(T) /\ HeldBy(f[n] \o ss[n + 1], ss)
          BY <3>1, <5>1, ConcatHeld
        <5> QED
          BY <3>2, <4>2, <5>2
      <4> QED
        BY <4>1, <4>2
    <3> QED
      BY <1>1, <3>1, <3>3
  <2> HIDE DEF Good
  <2>4. Len(ss) \in Good
    <3>1. 0 .. Len(ss) \subseteq Good
      BY <1>1, <2>2, <2>3, Climb
    <3> QED
      BY <1>1, <3>1
  <2> QED
    BY <1>3, <2>1, <2>4 DEF Good
<1> QED
  BY <1>2, <1>3

-----------------------------------------------------------------------------
(* The invariant of the log.                                                *)

LogEntry == [id : Nat, seq : Nat, fits : BOOLEAN]
Segment == [first : Nat \ {0}, lines : Seq(LogEntry), torn : BOOLEAN]

\* The lines of segment i that can be read.
Lines(segs, i) == {j \in DOMAIN segs[i].lines : segs[i].lines[j].id # 0}

\* Segments are named in order.
NamesRise(segs) == \A i, k \in DOMAIN segs : i < k => segs[i].first < segs[k].first

\* The ids of a segment are at or above its name and below the names of later ones.
InTheirSegment(segs) ==
  \A i \in DOMAIN segs : \A j \in Lines(segs, i) :
    /\ segs[i].first <= segs[i].lines[j].id
    /\ \A k \in DOMAIN segs : i < k => segs[i].lines[j].id < segs[k].first

\* The ids of a segment rise from line to line.
LinesRise(segs) ==
  \A i \in DOMAIN segs : \A j, l \in Lines(segs, i) : j < l => segs[i].lines[j].id < segs[i].lines[l].id

\* The tail ends with the log's last id, or was opened behind it.
TailTells(segs, top) ==
  IF segs = <<>> THEN top = 0
  ELSE LET n == Len(segs) IN
       /\ segs[n].first <= top + 1
       /\ \A j \in Lines(segs, n) : segs[n].lines[j].id <= top
       /\ segs[n].first = top + 1 \/ \E j \in Lines(segs, n) : segs[n].lines[j].id = top

\* The log holds what was said, and of the conversation everything from the oldest segment on.
HoldsSaid(segs, sd) ==
  \A i \in DOMAIN segs : \A j \in Lines(segs, i) : segs[i].lines[j] \in sd
KeepsOurs(segs, sd) ==
  \A e \in sd : ~Another(e) /\ segs # <<>> /\ segs[1].first <= e.id =>
    \E i \in DOMAIN segs : \E j \in Lines(segs, i) : segs[i].lines[j] = e

LogOk(segs, top, sd) ==
  /\ segs \in Seq(Segment) /\ top \in Nat
  /\ NamesRise(segs) /\ InTheirSegment(segs) /\ LinesRise(segs)
  /\ TailTells(segs, top) /\ HoldsSaid(segs, sd) /\ KeepsOurs(segs, sd)

\* Everything said has an id of its own, and the conversation's events rise with it.
SaidOk(sd, top, ts) ==
  /\ \A e \in sd : e \in LogEntry /\ 0 < e.id /\ e.id <= top /\ e.seq <= ts
  /\ \A e, f \in sd : e.id = f.id => e = f
  /\ \A e, f \in sd : ~Another(e) /\ ~Another(f) /\ e.id < f.id => e.seq < f.seq

LastWhole(segs) == segs # <<>> => ~segs[Len(segs)].torn

\* A crash that left a whole line took an id that the host has not counted.
LogInv ==
  /\ up \in BOOLEAN /\ transcript \in 0 .. MaxSeq /\ lastId \in 0 .. MaxId
  /\ up => LastWhole(segments)
  /\ \E top \in 0 .. MaxId :
       /\ top = lastId \/ (~up /\ top = lastId + 1)
       /\ LogOk(segments, top, said) /\ SaidOk(said, top, transcript)

-----------------------------------------------------------------------------
(* The invariant of the page.                                               *)

Bodies == [seq : Nat, cursor : Nat]

\* A body shows everything said up to its cursor.
BodyOk(b, sd, ts, id) ==
  /\ b \in Bodies /\ b.seq <= ts /\ b.cursor <= id
  /\ \A e \in sd : ~Another(e) /\ e.id <= b.cursor => e.seq <= b.seq

\* A frame under way is a gap or an event that was said.
Frames == [kind : {"event", "gap"}, id : Nat, seq : Nat]
FrameOk(f, sd, ts, id) ==
  /\ f \in Frames /\ f.id <= id /\ f.seq <= ts
  /\ f.kind = "event" => \E e \in sd : ~Another(e) /\ e.id = f.id /\ e.seq = f.seq

WiresInv ==
  /\ conn \in [open : BOOLEAN, lane : Seq(Frames)] /\ wire \in Seq(Frames)
  /\ Len(conn.lane) <= LogFrames /\ Len(wire) <= MaxWire
  /\ \A i \in DOMAIN conn.lane : FrameOk(conn.lane[i], said, transcript, lastId)
  /\ \A i \in DOMAIN wire : FrameOk(wire[i], said, transcript, lastId)
  /\ conn.open => page.at = "open"

\* The body and the events applied show every event up to s.
Covers(s, b, applied) == \A t \in 1 .. s : t <= b.seq \/ t \in applied

\* A page that shows a body has no hole in it, and shows every event up to the last it holds.
Shows(b, last, applied) == Covers(last, b, applied) /\ \A s \in applied : Covers(s, b, applied)

\* Where a follower is: the cursor it would reopen from, the last event it holds.
Followers == [at : {"none", "opening", "open", "stopped"}, cursor : Nat, last : Nat]

\* A body that is under way is no older than the one shown and shows what was applied before it.
FetchOk ==
  /\ fetch.at \in {"none", "asked", "answered"}
  /\ fetch.at = "answered" =>
       /\ BodyOk(fetch.body, said, transcript, lastId)
       /\ body # None => body.seq <= fetch.body.seq
       /\ body = None => \A s \in live : s <= fetch.body.seq

PageInv ==
  /\ page \in Followers /\ page.cursor <= lastId /\ page.last <= transcript
  /\ body = None <=> page.at = "none"
  /\ body # None => BodyOk(body, said, transcript, lastId) /\ Shows(body, page.last, live)
  /\ FetchOk
  /\ live \subseteq 1 .. transcript /\ twice \subseteq live
  /\ CursorSafe

StreamInv == LogInv /\ WiresInv /\ PageInv

-----------------------------------------------------------------------------
(* What an append, an opened segment and a rewrite do to the log.           *)

LEMMA SegmentTyped ==
  ASSUME NEW segs \in Seq(Segment)
  PROVE  /\ Len(segs) \in Nat /\ DOMAIN segs = 1 .. Len(segs)
         /\ segs # <<>> => Len(segs) \in DOMAIN segs /\ 1 \in DOMAIN segs /\ Len(segs) > 0
         /\ \A i \in DOMAIN segs :
              /\ segs[i] \in Segment /\ segs[i].first \in Nat \ {0} /\ segs[i].lines \in Seq(LogEntry)
              /\ DOMAIN segs[i].lines = 1 .. Len(segs[i].lines) /\ Len(segs[i].lines) \in Nat
              /\ \A j \in DOMAIN segs[i].lines :
                   segs[i].lines[j] \in LogEntry /\ segs[i].lines[j].id \in Nat
<1>1. Len(segs) \in Nat /\ DOMAIN segs = 1 .. Len(segs)
  BY LenProperties
<1>2. segs # <<>> => Len(segs) # 0
  BY EmptySeq
<1>3. ASSUME NEW i \in DOMAIN segs
      PROVE  /\ segs[i] \in Segment /\ segs[i].first \in Nat \ {0} /\ segs[i].lines \in Seq(LogEntry)
             /\ DOMAIN segs[i].lines = 1 .. Len(segs[i].lines) /\ Len(segs[i].lines) \in Nat
             /\ \A j \in DOMAIN segs[i].lines :
                  segs[i].lines[j] \in LogEntry /\ segs[i].lines[j].id \in Nat
  <2>1. segs[i] \in Segment
    BY <1>1, <1>3, ElementOfSeq
  <2>2. segs[i].first \in Nat \ {0} /\ segs[i].lines \in Seq(LogEntry)
    BY <2>1 DEF Segment
  <2>3. DOMAIN segs[i].lines = 1 .. Len(segs[i].lines) /\ Len(segs[i].lines) \in Nat
    BY <2>2, LenProperties
  <2>4. ASSUME NEW j \in DOMAIN segs[i].lines
        PROVE  segs[i].lines[j] \in LogEntry /\ segs[i].lines[j].id \in Nat
    <3>1. segs[i].lines[j] \in LogEntry
      BY <2>2, <2>3, <2>4, ElementOfSeq
    <3> QED
      BY <3>1 DEF LogEntry
  <2> QED
    BY <2>1, <2>2, <2>3, <2>4
<1> QED
  BY <1>1, <1>2, <1>3

(* Every id of the log is at most its last one, and every segment is named at most one above it. *)
LEMMA TopBounds ==
  ASSUME NEW segs, NEW top, NEW sd, LogOk(segs, top, sd), NEW i \in DOMAIN segs
  PROVE  /\ segs[i].first <= top + 1
         /\ i # Len(segs) => segs[i].first < segs[Len(segs)].first
         /\ \A j \in Lines(segs, i) : segs[i].lines[j].id <= top
<1>1. segs \in Seq(Segment) /\ top \in Nat /\ segs # <<>>
  BY EmptySeq DEF LogOk
<1> DEFINE n == Len(segs)
<1>2. /\ n \in DOMAIN segs /\ segs[n].first \in Nat /\ segs[i].first \in Nat /\ (i # n => i < n)
      /\ \A j \in Lines(segs, i) : segs[i].lines[j].id \in Nat
  BY <1>1, SegmentTyped DEF Lines
<1>3. segs[n].first <= top + 1 /\ \A j \in Lines(segs, n) : segs[n].lines[j].id <= top
  BY <1>1 DEF LogOk, TailTells
<1>4. i # n => segs[i].first < segs[n].first /\ \A j \in Lines(segs, i) : segs[i].lines[j].id < segs[n].first
  BY <1>2 DEF LogOk, NamesRise, InTheirSegment
<1> HIDE DEF n
<1>5. CASE i = n
  BY <1>3, <1>5 DEF n
<1>6. CASE i # n
  BY <1>1, <1>2, <1>3, <1>4, <1>6 DEF n
<1> QED
  BY <1>5, <1>6

NewSegment(first) == [first |-> first, lines |-> <<>>, torn |-> FALSE]

LEMMA NewSegmentLog ==
  ASSUME NEW segs, NEW top, NEW sd, NEW ts, LogOk(segs, top, sd), SaidOk(sd, top, ts),
         segs # <<>> => segs[Len(segs)].first # top + 1
  PROVE  LogOk(Append(segs, NewSegment(top + 1)), top, sd)
<1> DEFINE new == NewSegment(top + 1)
           more == Append(segs, new)
<1>1. segs \in Seq(Segment) /\ top \in Nat
  BY DEF LogOk
<1>2. new \in Segment /\ new.first = top + 1 /\ new.lines = <<>>
  BY <1>1 DEF NewSegment, Segment
<1>3. /\ more \in Seq(Segment) /\ Len(more) = Len(segs) + 1 /\ more[Len(segs) + 1] = new
      /\ \A i \in 1 .. Len(segs) : more[i] = segs[i]
  BY <1>1, <1>2, AppendProperties
<1>4. /\ Len(segs) \in Nat /\ DOMAIN segs = 1 .. Len(segs) /\ DOMAIN more = 1 .. Len(segs) + 1
      /\ more # <<>>
  BY <1>1, <1>3, LenProperties, EmptySeq
<1> HIDE DEF new, more
<1>5. \A i \in DOMAIN segs : i \in DOMAIN more /\ Lines(more, i) = Lines(segs, i)
  BY <1>3, <1>4 DEF Lines
<1>6. Lines(more, Len(more)) = {}
  BY <1>2, <1>3 DEF Lines
<1>7. \A i \in DOMAIN segs : segs[i].first < top + 1 /\ \A j \in Lines(segs, i) : segs[i].lines[j].id < top + 1
  <2> SUFFICES ASSUME NEW i \in DOMAIN segs
               PROVE  segs[i].first < top + 1 /\ \A j \in Lines(segs, i) : segs[i].lines[j].id < top + 1
    OBVIOUS
  <2>1. segs # <<>> /\ segs[i].first \in Nat /\ segs[Len(segs)].first \in Nat
        /\ \A j \in Lines(segs, i) : segs[i].lines[j].id \in Nat
    BY <1>1, SegmentTyped, EmptySeq DEF Lines
  <2>2. /\ segs[i].first <= top + 1 /\ segs[Len(segs)].first <= top + 1
        /\ i # Len(segs) => segs[i].first < segs[Len(segs)].first
        /\ \A j \in Lines(segs, i) : segs[i].lines[j].id <= top
    BY <2>1, <1>1, TopBounds, SegmentTyped
  <2> QED
    BY <1>1, <2>1, <2>2
<1>8. NamesRise(more)
  <2> SUFFICES ASSUME NEW i \in DOMAIN more, NEW k \in DOMAIN more, i < k
               PROVE  more[i].first < more[k].first
    BY DEF NamesRise
  <2>1. i \in DOMAIN segs /\ more[i] = segs[i]
    BY <1>3, <1>4
  <2>2. CASE k \in DOMAIN segs
    BY <1>3, <1>4, <2>1, <2>2 DEF LogOk, NamesRise
  <2>3. CASE k \notin DOMAIN segs
    BY <1>2, <1>3, <1>4, <1>7, <2>1, <2>3
  <2> QED
    BY <2>2, <2>3
<1>9. InTheirSegment(more)
  <2> SUFFICES ASSUME NEW i \in DOMAIN more, NEW j \in Lines(more, i)
               PROVE  /\ more[i].first <= more[i].lines[j].id
                      /\ \A k \in DOMAIN more : i < k => more[i].lines[j].id < more[k].first
    BY DEF InTheirSegment
  <2>1. i \in DOMAIN segs /\ more[i] = segs[i] /\ j \in Lines(segs, i)
    BY <1>3, <1>4, <1>5, <1>6
  <2>2. /\ segs[i].first <= segs[i].lines[j].id
        /\ \A k \in DOMAIN segs : i < k => segs[i].lines[j].id < segs[k].first
    BY <2>1 DEF LogOk, InTheirSegment
  <2>3. \A k \in DOMAIN more : (k \in DOMAIN segs /\ more[k] = segs[k]) \/ more[k] = new
    BY <1>3, <1>4
  <2> QED
    BY <1>2, <1>7, <2>1, <2>2, <2>3
<1>10. LinesRise(more)
  <2> SUFFICES ASSUME NEW i \in DOMAIN more, NEW j \in Lines(more, i), NEW l \in Lines(more, i), j < l
               PROVE  more[i].lines[j].id < more[i].lines[l].id
    BY DEF LinesRise
  <2>1. i \in DOMAIN segs /\ more[i] = segs[i] /\ j \in Lines(segs, i) /\ l \in Lines(segs, i)
    BY <1>3, <1>4, <1>5, <1>6
  <2> QED
    BY <2>1 DEF LogOk, LinesRise
<1>11. TailTells(more, top)
  BY <1>1, <1>2, <1>3, <1>4, <1>6 DEF TailTells
<1>12. HoldsSaid(more, sd)
  <2> SUFFICES ASSUME NEW i \in DOMAIN more, NEW j \in Lines(more, i)
               PROVE  more[i].lines[j] \in sd
    BY DEF HoldsSaid
  <2>1. i \in DOMAIN segs /\ more[i] = segs[i] /\ j \in Lines(segs, i)
    BY <1>3, <1>4, <1>5, <1>6
  <2> QED
    BY <2>1 DEF LogOk, HoldsSaid
<1>13. KeepsOurs(more, sd)
  <2> SUFFICES ASSUME NEW e \in sd, ~Another(e), more[1].first <= e.id
               PROVE  \E i \in DOMAIN more : \E j \in Lines(more, i) : more[i].lines[j] = e
    BY DEF KeepsOurs
  <2>1. segs # <<>>
    <3> SUFFICES ASSUME segs = <<>> PROVE FALSE
      OBVIOUS
    <3>1. top = 0
      BY DEF LogOk, TailTells
    <3>2. e.id \in Nat /\ 0 < e.id /\ e.id <= top
      BY DEF SaidOk, LogEntry
    <3> QED
      BY <3>1, <3>2
  <2>2. 1 \in DOMAIN segs /\ more[1] = segs[1]
    BY <1>1, <1>3, <1>4, <2>1, SegmentTyped
  <2>3. PICK i \in DOMAIN segs : \E j \in Lines(segs, i) : segs[i].lines[j] = e
    BY <2>1, <2>2 DEF LogOk, KeepsOurs
  <2> QED
    BY <1>3, <1>4, <1>5, <2>3
<1> QED
  BY <1>1, <1>3, <1>8, <1>9, <1>10, <1>11, <1>12, <1>13 DEF LogOk, more, new

LEMMA SuffixOf ==
  ASSUME NEW segs \in Seq(Segment), NEW d \in Nat, d < Len(segs)
  PROVE  /\ SubSeq(segs, d + 1, Len(segs)) \in Seq(Segment)
         /\ Len(SubSeq(segs, d + 1, Len(segs))) = Len(segs) - d
         /\ \A i \in 1 .. Len(segs) - d : SubSeq(segs, d + 1, Len(segs))[i] = segs[i + d]
<1> DEFINE rest == SubSeq(segs, d + 1, Len(segs))
<1>1. Len(segs) \in Nat /\ DOMAIN segs = 1 .. Len(segs)
  BY LenProperties
<1>2. \A i \in d + 1 .. Len(segs) : segs[i] \in Segment
  BY <1>1, ElementOfSeq
<1>3. /\ rest \in Seq(Segment)
      /\ Len(rest) = IF d + 1 <= Len(segs) THEN Len(segs) - (d + 1) + 1 ELSE 0
      /\ \A i \in 1 .. Len(segs) - (d + 1) + 1 : rest[i] = segs[d + 1 + i - 1]
  BY <1>1, <1>2, SubSeqProperties
<1> HIDE DEF rest
<1>4. Len(segs) - (d + 1) + 1 = Len(segs) - d /\ d + 1 <= Len(segs)
  BY <1>1
<1>5. Len(rest) = Len(segs) - d
  BY <1>3, <1>4
<1>6. ASSUME NEW i \in 1 .. Len(segs) - d PROVE rest[i] = segs[i + d]
  <2>1. rest[i] = segs[d + 1 + i - 1]
    BY <1>3, <1>4
  <2>2. d + 1 + i - 1 = i + d
    BY <1>1
  <2> QED
    BY <2>1, <2>2
<1> QED
  BY <1>3, <1>5, <1>6 DEF rest

(* Dropping the oldest segments leaves a log. *)
LEMMA SuffixLog ==
  ASSUME NEW segs, NEW top, NEW sd, NEW ts, LogOk(segs, top, sd), SaidOk(sd, top, ts), NEW d \in Nat, d < Len(segs),
         
         NEW rest \in Seq(Segment), Len(rest) = Len(segs) - d,
         \A i \in 1 .. Len(segs) - d : rest[i] = segs[i + d]
  PROVE  LogOk(rest, top, sd) /\ rest # <<>> /\ rest[Len(rest)] = segs[Len(segs)]
<1>1. segs \in Seq(Segment) /\ top \in Nat /\ Len(segs) \in Nat /\ DOMAIN segs = 1 .. Len(segs)
  BY LenProperties DEF LogOk
<1>3. DOMAIN rest = 1 .. Len(segs) - d /\ rest # <<>>
  BY <1>1, LenProperties, EmptySeq
<1>4. \A i \in DOMAIN rest : i + d \in DOMAIN segs /\ rest[i] = segs[i + d] /\ Lines(rest, i) = Lines(segs, i + d)
  BY <1>1, <1>3 DEF Lines
<1>5. rest[Len(rest)] = segs[Len(segs)] /\ Lines(rest, Len(rest)) = Lines(segs, Len(segs))
  BY <1>1, <1>3, <1>4
<1>6. NamesRise(rest)
  <2> SUFFICES ASSUME NEW i \in DOMAIN rest, NEW k \in DOMAIN rest, i < k
               PROVE  rest[i].first < rest[k].first
    BY DEF NamesRise
  <2>1. i + d \in DOMAIN segs /\ k + d \in DOMAIN segs /\ i + d < k + d
    BY <1>3, <1>4
  <2> QED
    BY <1>4, <2>1 DEF LogOk, NamesRise
<1>7. InTheirSegment(rest)
  <2> SUFFICES ASSUME NEW i \in DOMAIN rest, NEW j \in Lines(rest, i)
               PROVE  /\ rest[i].first <= rest[i].lines[j].id
                      /\ \A k \in DOMAIN rest : i < k => rest[i].lines[j].id < rest[k].first
    BY DEF InTheirSegment
  <2>1. /\ segs[i + d].first <= segs[i + d].lines[j].id
        /\ \A k \in DOMAIN segs : i + d < k => segs[i + d].lines[j].id < segs[k].first
    BY <1>4 DEF LogOk, InTheirSegment
  <2>2. \A k \in DOMAIN rest : i < k => i + d < k + d
    BY <1>3
  <2> QED
    BY <1>4, <2>1, <2>2
<1>8. LinesRise(rest) /\ HoldsSaid(rest, sd)
  BY <1>4 DEF LogOk, LinesRise, HoldsSaid
<1>9. TailTells(rest, top)
  <2>1. segs # <<>>
    BY <1>1, EmptySeq
  <2> QED
    BY <1>3, <1>5, <2>1 DEF LogOk, TailTells
<1>10. KeepsOurs(rest, sd)
  <2> SUFFICES ASSUME NEW e \in sd, ~Another(e), rest[1].first <= e.id
               PROVE  \E i \in DOMAIN rest : \E j \in Lines(rest, i) : rest[i].lines[j] = e
    BY DEF KeepsOurs
  <2>1. /\ segs # <<>> /\ 1 \in DOMAIN segs /\ 1 + d \in DOMAIN segs /\ rest[1] = segs[1 + d]
        /\ segs[1].first \in Nat /\ segs[1 + d].first \in Nat
    <3>1. segs # <<>>
      BY <1>1, EmptySeq
    <3>2. 1 \in DOMAIN rest /\ 1 + d \in DOMAIN segs /\ 1 \in DOMAIN segs
      BY <1>1, <1>3
    <3>3. rest[1] = segs[1 + d]
      BY <1>4, <3>2
    <3>4. segs[1].first \in Nat /\ segs[1 + d].first \in Nat
      BY <1>1, <3>2, SegmentTyped
    <3> QED
      BY <3>1, <3>2, <3>3, <3>4
  <2>2. segs[1].first <= segs[1 + d].first
    <3>1. d = 0 \/ 1 < 1 + d
      OBVIOUS
    <3>2. 1 < 1 + d => segs[1].first < segs[1 + d].first
      BY <2>1 DEF LogOk, NamesRise
    <3> QED
      BY <2>1, <3>1, <3>2
  <2>3. \A i \in DOMAIN segs : \A j \in Lines(segs, i) : segs[i].lines[j].id \in Nat
    BY <1>1, SegmentTyped DEF Lines
  <2>4. e.id \in Nat /\ segs[1].first <= e.id
    BY <2>1, <2>2 DEF SaidOk, LogEntry
  <2>5. PICK i \in DOMAIN segs : \E j \in Lines(segs, i) : segs[i].lines[j] = e
    BY <2>1, <2>4 DEF LogOk, KeepsOurs
  <2>6. PICK j \in Lines(segs, i) : segs[i].lines[j] = e
    BY <2>5
  <2>7. i > d
    <3> SUFFICES ASSUME ~(i > d) PROVE FALSE
      OBVIOUS
    <3>1. i < 1 + d
      BY <1>1
    <3>2. segs[i].lines[j].id < segs[1 + d].first
      BY <2>1, <3>1 DEF LogOk, InTheirSegment
    <3> QED
      BY <2>1, <2>4, <2>6, <3>2
  <2>8. i - d \in DOMAIN rest /\ i - d + d = i
    BY <1>1, <1>3, <2>7
  <2> QED
    BY <1>4, <2>6, <2>8
<1> QED
  BY <1>1, <1>3, <1>5, <1>6, <1>7, <1>8, <1>9, <1>10 DEF LogOk

(* Opening a segment behind the last id drops the oldest ones and keeps the log in order. *)
LEMMA OpenedLog ==
  ASSUME NEW segs, NEW top, NEW sd, NEW ts, LogOk(segs, top, sd), SaidOk(sd, top, ts),
         NEW open, open = Opened(segs, top + 1)
  PROVE  /\ LogOk(open, top, sd) /\ open # <<>> /\ open[Len(open)].first = top + 1
         /\ LastWhole(segs) => LastWhole(open)
<1> DEFINE more == IF segs # <<>> /\ Last(segs).first = top + 1 THEN segs
                   ELSE Append(segs, [first |-> top + 1, lines |-> <<>>, torn |-> FALSE])
           drop == IF Len(more) > MaxSegments THEN Len(more) - MaxSegments ELSE 0
<1>1. open = SubSeq(more, drop + 1, Len(more))
  BY DEF Opened
<1>2. segs \in Seq(Segment) /\ top \in Nat /\ Last(segs) = segs[Len(segs)]
  BY DEF LogOk, Last
<1>3. /\ LogOk(more, top, sd) /\ more # <<>> /\ more[Len(more)].first = top + 1
      /\ LastWhole(segs) => LastWhole(more)
  <2>1. CASE segs # <<>> /\ Last(segs).first = top + 1
    BY <1>2, <2>1
  <2>2. CASE ~(segs # <<>> /\ Last(segs).first = top + 1)
    <3>1. more = Append(segs, NewSegment(top + 1))
      BY <2>2 DEF NewSegment
    <3>2. LogOk(more, top, sd)
      BY <1>2, <2>2, <3>1, NewSegmentLog
    <3>3. NewSegment(top + 1) \in Segment
      BY <1>2 DEF NewSegment, Segment
    <3>4. Len(more) = Len(segs) + 1 /\ more[Len(more)] = NewSegment(top + 1) /\ more # <<>>
      BY <1>2, <3>1, <3>3, AppendProperties, LenProperties, EmptySeq
    <3> QED
      BY <3>2, <3>4 DEF NewSegment, LastWhole
  <2> QED
    BY <2>1, <2>2
<1> HIDE DEF more
<1>4. Len(more) \in Nat /\ Len(more) > 0 /\ drop \in Nat /\ drop < Len(more)
  <2>1. more \in Seq(Segment)
    BY <1>3 DEF LogOk
  <2> QED
    BY <1>3, <2>1, SegmentTyped, LogAssumption
<1> HIDE DEF drop
<1>5. LogOk(open, top, sd) /\ open # <<>> /\ open[Len(open)] = more[Len(more)]
  <2>1. more \in Seq(Segment)
    BY <1>3 DEF LogOk
  <2>2. /\ open \in Seq(Segment) /\ Len(open) = Len(more) - drop
        /\ \A i \in 1 .. Len(more) - drop : open[i] = more[i + drop]
    <3> HIDE DEF more
    <3>1. /\ SubSeq(more, drop + 1, Len(more)) \in Seq(Segment)
          /\ Len(SubSeq(more, drop + 1, Len(more))) = Len(more) - drop
          /\ \A i \in 1 .. Len(more) - drop : SubSeq(more, drop + 1, Len(more))[i] = more[i + drop]
      BY ONLY <1>4, <2>1, SuffixOf
    <3> QED
      BY ONLY <1>1, <3>1
  <2> QED
    BY <1>3, <1>4, <2>2, SuffixLog
<1> QED
  BY <1>3, <1>5 DEF LastWhole

LEMMA ReadyLog ==
  ASSUME NEW segs, NEW top, NEW sd, NEW ts, LogOk(segs, top, sd), SaidOk(sd, top, ts),
         NEW ready, ready = Ready(segs, top + 1)
  PROVE  LogOk(ready, top, sd) /\ ready # <<>> /\ (LastWhole(segs) => LastWhole(ready))
<1>1. CASE segs = <<>> \/ Len(Last(segs).lines) >= SegmentSize
  <2>1. ready = Opened(segs, top + 1)
    BY <1>1 DEF Ready
  <2> QED
    BY <2>1, OpenedLog
<1>2. CASE ~(segs = <<>> \/ Len(Last(segs).lines) >= SegmentSize)
  BY <1>2 DEF Ready
<1> QED
  BY <1>1, <1>2

\* next is segs with one more line in its tail.
Longer(next, segs, line) ==
  /\ next \in Seq(Segment) /\ Len(next) = Len(segs)
  /\ \A i \in DOMAIN segs : i # Len(segs) => next[i] = segs[i]
  /\ next[Len(segs)].first = segs[Len(segs)].first
  /\ next[Len(segs)].lines = Append(segs[Len(segs)].lines, line)

LEMMA LongerIs ==
  ASSUME NEW segs \in Seq(Segment), segs # <<>>, NEW line \in LogEntry, NEW b \in BOOLEAN,
         NEW next, next = [segs EXCEPT ![Len(segs)].lines = Append(@, line), ![Len(segs)].torn = b]
  PROVE  Longer(next, segs, line) /\ next[Len(segs)].torn = b
<1> DEFINE n == Len(segs)
           last == [segs[n] EXCEPT !.lines = Append(@, line), !.torn = b]
<1>1. n \in 1 .. n /\ n \in Nat /\ DOMAIN segs = 1 .. n /\ segs[n] \in Segment /\ segs[n].lines \in Seq(LogEntry)
  BY SegmentTyped
<1>2. Append(segs[n].lines, line) \in Seq(LogEntry)
  BY <1>1, AppendProperties
<1>3. /\ last \in Segment /\ last.first = segs[n].first /\ last.lines = Append(segs[n].lines, line)
      /\ last.torn = b
  BY <1>1, <1>2 DEF Segment
<1>4. next = [segs EXCEPT ![n] = last]
  BY <1>1
<1> HIDE DEF last
<1>5. next \in Seq(Segment) /\ Len(next) = n /\ next[n] = last /\ \A i \in 1 .. n : i # n => next[i] = segs[i]
  <2>1. n \in 1 .. Len(segs) /\ last \in Segment
    BY <1>1, <1>3
  <2>2. /\ [segs EXCEPT ![n] = last] \in Seq(Segment) /\ Len([segs EXCEPT ![n] = last]) = Len(segs)
        /\ \A j \in 1 .. Len(segs) : [segs EXCEPT ![n] = last][j] = IF j = n THEN last ELSE segs[j]
    BY <2>1, ExceptSeq
  <2> QED
    BY <1>1, <1>4, <2>2
<1> QED
  BY <1>1, <1>3, <1>5 DEF Longer

(* A line at the end of the tail: unreadable, or an entry with the next id. *)
LEMMA LongerLog ==
  ASSUME NEW segs, NEW top, NEW sd, NEW ts, LogOk(segs, top, sd), SaidOk(sd, top, ts), segs # <<>>,
         NEW line \in LogEntry, NEW next, Longer(next, segs, line), NEW newTop, NEW newSd,
         \/ line.id = 0 /\ newTop = top /\ newSd = sd
         \/ line.id = top + 1 /\ newTop = top + 1 /\ newSd = sd \cup {line}
  PROVE  LogOk(next, newTop, newSd)
<1> DEFINE n == Len(segs)
           m == Len(segs[n].lines) + 1
<1>1. /\ segs \in Seq(Segment) /\ top \in Nat /\ newTop \in Nat /\ sd \subseteq newSd /\ top <= newTop
      /\ n \in DOMAIN segs /\ DOMAIN segs = 1 .. n /\ n \in Nat
      /\ segs[n].lines \in Seq(LogEntry) /\ m - 1 \in Nat /\ m \in Nat
      /\ DOMAIN segs[n].lines = 1 .. m - 1
      /\ segs[n].first \in Nat
  BY SegmentTyped DEF LogOk
<1>2. /\ DOMAIN next = DOMAIN segs /\ Len(next) = n /\ next # <<>>
      /\ \A i \in DOMAIN segs : next[i].first = segs[i].first
  BY <1>1, LenProperties, EmptySeq DEF Longer
<1>3. /\ DOMAIN next[n].lines = 1 .. m /\ next[n].lines[m] = line
      /\ \A j \in 1 .. m - 1 : next[n].lines[j] = segs[n].lines[j]
  BY <1>1, AppendProperties, LenProperties DEF Longer
<1>4. \A i \in DOMAIN segs : i # n => Lines(next, i) = Lines(segs, i) /\ next[i] = segs[i]
  BY DEF Longer, Lines
<1>5. Lines(next, n) = Lines(segs, n) \cup {j \in {m} : line.id # 0} /\ m \notin Lines(segs, n)
  <2> HIDE DEF n, m
  <2>1. \A j : j \in 1 .. m <=> j \in 1 .. m - 1 \/ j = m
    BY <1>1
  <2>2. m \notin 1 .. m - 1
    BY <1>1
  <2> QED
    BY <1>1, <1>3, <2>1, <2>2 DEF Lines
<1> HIDE DEF n, m
<1>6. ASSUME NEW i \in DOMAIN segs, NEW j \in Lines(next, i)
      PROVE  \/ j \in Lines(segs, i) /\ next[i].lines[j] = segs[i].lines[j]
             \/ i = n /\ j = m /\ next[i].lines[j] = line /\ line.id = newTop /\ newTop = top + 1 /\ line \in newSd
  <2>1. CASE i # n
    BY <1>4, <1>6, <2>1
  <2>2. CASE i = n /\ j \in Lines(segs, n)
    BY <1>1, <1>3, <2>2 DEF Lines
  <2>3. CASE i = n /\ j \notin Lines(segs, n)
    BY <1>3, <1>5, <1>6, <2>3
  <2> QED
    BY <2>1, <2>2, <2>3
<1>7. \A i \in DOMAIN segs : \A j \in Lines(segs, i) :
        j \in Lines(next, i) /\ next[i].lines[j] = segs[i].lines[j]
  <2> SUFFICES ASSUME NEW i \in DOMAIN segs, NEW j \in Lines(segs, i)
               PROVE  j \in Lines(next, i) /\ next[i].lines[j] = segs[i].lines[j]
    OBVIOUS
  <2>1. CASE i # n
    BY <1>4, <2>1
  <2>2. CASE i = n
    BY <1>1, <1>3, <1>5, <2>2 DEF Lines
  <2> QED
    BY <2>1, <2>2
<1>8. \A i \in DOMAIN segs : /\ segs[i].first \in Nat /\ segs[i].first <= top + 1
                             /\ \A j \in Lines(segs, i) : /\ segs[i].lines[j].id \in Nat
                                                          /\ segs[i].lines[j].id <= top
  <2>1. \A i \in DOMAIN segs : segs[i].first \in Nat /\ \A j \in Lines(segs, i) : segs[i].lines[j].id \in Nat
    BY <1>1, SegmentTyped DEF Lines
  <2> QED
    BY <2>1, TopBounds
<1>9. NamesRise(next)
  BY <1>2 DEF LogOk, NamesRise
<1>10. InTheirSegment(next)
  <2> SUFFICES ASSUME NEW i \in DOMAIN segs, NEW j \in Lines(next, i)
               PROVE  /\ next[i].first <= next[i].lines[j].id
                      /\ \A k \in DOMAIN segs : i < k => next[i].lines[j].id < next[k].first
    BY <1>2 DEF InTheirSegment
  <2>1. CASE j \in Lines(segs, i) /\ next[i].lines[j] = segs[i].lines[j]
    BY <1>2, <2>1 DEF LogOk, InTheirSegment
  <2>2. CASE i = n /\ next[i].lines[j] = line /\ line.id = top + 1
    BY <1>1, <1>2, <1>8, <2>2
  <2> QED
    BY <1>6, <2>1, <2>2
<1>11. LinesRise(next)
  <2> SUFFICES ASSUME NEW i \in DOMAIN segs, NEW j \in Lines(next, i), NEW l \in Lines(next, i), j < l
               PROVE  next[i].lines[j].id < next[i].lines[l].id
    BY <1>2 DEF LinesRise
  <2>1. CASE l \in Lines(segs, i) /\ j \in Lines(segs, i)
    <3>1. segs[i].lines[j].id < segs[i].lines[l].id
      BY <2>1 DEF LogOk, LinesRise
    <3> QED
      BY <1>7, <2>1, <3>1
  <2>2. CASE l \notin Lines(segs, i) /\ j \in Lines(segs, i)
    <3>1. next[i].lines[l].id = top + 1 /\ next[i].lines[j].id \in Nat /\ next[i].lines[j].id <= top
      BY <1>6, <1>7, <1>8, <2>2
    <3> QED
      BY <1>1, <3>1
  <2>3. CASE j \notin Lines(segs, i)
    <3>1. i = n /\ j = m
      BY <1>6, <2>3
    <3>2. l \in 1 .. m
      BY <1>3, <3>1 DEF Lines
    <3> QED
      BY <1>1, <3>1, <3>2
  <2> QED
    BY <2>1, <2>2, <2>3
<1>12. TailTells(next, newTop)
  <2>1. segs[n].first <= top + 1 /\ (segs[n].first = top + 1 \/ \E j \in Lines(segs, n) : segs[n].lines[j].id = top)
    BY DEF LogOk, TailTells, n
  <2>2. next[n].first <= newTop + 1 /\ \A j \in Lines(next, n) : next[n].lines[j].id <= newTop
    <3>1. next[n].first <= newTop + 1
      BY <1>1, <1>2, <2>1
    <3>2. ASSUME NEW j \in Lines(next, n) PROVE next[n].lines[j].id <= newTop
      <4>1. CASE j \in Lines(segs, n) /\ next[n].lines[j] = segs[n].lines[j]
        BY <1>1, <1>8, <4>1
      <4>2. CASE next[n].lines[j] = line /\ line.id = newTop
        BY <1>1, <4>2
      <4> QED
        BY <1>1, <1>6, <3>2, <4>1, <4>2
    <3> QED
      BY <3>1, <3>2
  <2>3. next[n].first = newTop + 1 \/ \E j \in Lines(next, n) : next[n].lines[j].id = newTop
    <3>1. CASE line.id = 0
      <4>1. newTop = top
        BY <1>1, <3>1
      <4> QED
        BY <1>1, <1>2, <1>7, <2>1, <4>1
    <3>2. CASE line.id # 0
      <4>1. newTop = line.id /\ m \in Lines(next, n)
        BY <1>5, <3>2
      <4> QED
        BY <1>3, <4>1
    <3> QED
      BY <3>1, <3>2
  <2> QED
    BY <1>2, <2>2, <2>3 DEF TailTells
<1>13. HoldsSaid(next, newSd)
  <2> SUFFICES ASSUME NEW i \in DOMAIN segs, NEW j \in Lines(next, i) PROVE next[i].lines[j] \in newSd
    BY <1>2 DEF HoldsSaid
  <2>1. j \in Lines(segs, i) => segs[i].lines[j] \in sd
    BY DEF LogOk, HoldsSaid
  <2> QED
    BY <1>1, <1>6, <2>1
<1>14. KeepsOurs(next, newSd)
  <2> SUFFICES ASSUME NEW e \in newSd, ~Another(e), segs[1].first <= e.id
               PROVE  \E i \in DOMAIN segs : \E j \in Lines(next, i) : next[i].lines[j] = e
    <3>1. 1 \in DOMAIN segs
      BY <1>1
    <3> QED
      BY <1>2, <3>1 DEF KeepsOurs
  <2>1. CASE e \in sd
    <3>1. PICK i \in DOMAIN segs : \E j \in Lines(segs, i) : segs[i].lines[j] = e
      BY <2>1 DEF LogOk, KeepsOurs
    <3> QED
      BY <1>7, <3>1
  <2>2. CASE e \notin sd
    <3>1. e = line /\ line.id # 0
      BY <1>1, <2>2
    <3>2. m \in Lines(next, n)
      BY <1>5, <3>1
    <3> QED
      BY <1>1, <1>3, <3>1, <3>2
  <2> QED
    BY <2>1, <2>2
<1> QED
  BY <1>1, <1>9, <1>10, <1>11, <1>12, <1>13, <1>14 DEF LogOk, Longer

\* A rewritten segment holds lines of the old one, in their order, and all of the conversation's.
Rewrites(new, old, at) ==
  /\ new \in Segment /\ new.first = old.first /\ ~new.torn
  /\ at \in [DOMAIN new.lines -> DOMAIN old.lines]
  /\ \A k \in DOMAIN new.lines : new.lines[k] = old.lines[at[k]] /\ new.lines[k].id # 0
  /\ \A k, l \in DOMAIN new.lines : k < l => at[k] < at[l]
  /\ \A j \in DOMAIN old.lines : old.lines[j].id # 0 /\ ~Another(old.lines[j]) =>
       \E k \in DOMAIN new.lines : at[k] = j

LEMMA RewrittenIs ==
  ASSUME NEW old \in Segment
  PROVE  \E at : Rewrites(Rewritten(old), old, at)
<1> DEFINE lines == old.lines
           ours == {e \in Range(lines) : e.id # 0 /\ ~Another(e)}
           new == Rewritten(old)
<1>1. lines \in Seq(LogEntry) /\ DOMAIN lines = 1 .. Len(lines)
  BY LenProperties DEF Segment
<1>2. Only(lines, ours) \in Seq(LogEntry) /\ \E at : Picks(Only(lines, ours), lines, ours, Len(lines), at)
  <2> HIDE DEF lines, ours
  <2> QED
    BY <1>1, OnlyPicks
<1>3. PICK at : Picks(Only(lines, ours), lines, ours, Len(lines), at)
  BY <1>2
<1>4. DOMAIN Only(lines, ours) = 1 .. Len(Only(lines, ours))
  BY <1>2, LenProperties
<1>5. new \in Segment /\ new.first = old.first /\ ~new.torn /\ new.lines = Only(lines, ours)
  BY <1>2 DEF Rewritten, Segment
<1>6. \A j \in DOMAIN lines : lines[j] \in ours <=> lines[j].id # 0 /\ ~Another(lines[j])
  BY DEF Range
<1>7. \A e \in ours : e.id # 0
  OBVIOUS
<1> HIDE DEF lines, ours, new
<1>8. Rewrites(new, old, at)
  BY <1>1, <1>3, <1>4, <1>5, <1>6, <1>7 DEF Rewrites, Picks, lines
<1> QED
  BY <1>8 DEF new

(* Rewriting every segment of a log whose tail was opened behind the last id. *)
LEMMA RewrittenLog ==
  ASSUME NEW segs, NEW top, NEW sd, LogOk(segs, top, sd), segs # <<>>, segs[Len(segs)].first = top + 1,
         NEW next, next = [i \in DOMAIN segs |-> Rewritten(segs[i])]
  PROVE  LogOk(next, top, sd) /\ LastWhole(next)
<1>1. /\ segs \in Seq(Segment) /\ top \in Nat /\ Len(segs) \in Nat /\ DOMAIN segs = 1 .. Len(segs)
      /\ \A i \in DOMAIN segs : segs[i] \in Segment
  BY SegmentTyped DEF LogOk
<1>2. \A i \in DOMAIN segs : \E at : Rewrites(next[i], segs[i], at)
  BY <1>1, RewrittenIs
<1>3. next \in Seq(Segment) /\ Len(next) = Len(segs) /\ DOMAIN next = DOMAIN segs /\ next # <<>>
  <2>1. \A i \in DOMAIN segs : Rewritten(segs[i]) \in Segment
    BY <1>2 DEF Rewrites
  <2>2. next \in [1 .. Len(segs) -> Segment]
    BY <1>1, <2>1
  <2>3. next \in Seq(Segment) /\ Len(next) = Len(segs)
    BY <1>1, <2>2
  <2> QED
    BY <1>1, <2>2, <2>3, EmptySeq
<1>4. ASSUME NEW i \in DOMAIN segs
      PROVE  /\ next[i].first = segs[i].first /\ ~next[i].torn
             /\ \A k \in Lines(next, i) : \E j \in Lines(segs, i) : next[i].lines[k] = segs[i].lines[j]
             /\ \A j \in Lines(segs, i) : ~Another(segs[i].lines[j]) =>
                  \E k \in Lines(next, i) : next[i].lines[k] = segs[i].lines[j]
             /\ \A k, l \in Lines(next, i) : k < l => next[i].lines[k].id < next[i].lines[l].id
  <2>1. PICK at : Rewrites(next[i], segs[i], at)
    BY <1>2
  <2>2. \A k \in Lines(next, i) : at[k] \in Lines(segs, i) /\ next[i].lines[k] = segs[i].lines[at[k]]
    BY <2>1 DEF Rewrites, Lines
  <2>3. ASSUME NEW j \in Lines(segs, i), ~Another(segs[i].lines[j])
        PROVE  \E k \in Lines(next, i) : next[i].lines[k] = segs[i].lines[j]
    BY <2>1, <2>3 DEF Rewrites, Lines
  <2>4. ASSUME NEW k \in Lines(next, i), NEW l \in Lines(next, i), k < l
        PROVE  next[i].lines[k].id < next[i].lines[l].id
    <3>1. at[k] < at[l]
      BY <2>1, <2>4 DEF Rewrites, Lines
    <3> QED
      BY <2>2, <3>1 DEF LogOk, LinesRise
  <2> QED
    BY <2>1, <2>2, <2>3, <2>4 DEF Rewrites
<1>5. NamesRise(next) /\ LinesRise(next)
  <2>1. NamesRise(next)
    <3> SUFFICES ASSUME NEW i \in DOMAIN segs, NEW k \in DOMAIN segs, i < k
                 PROVE  next[i].first < next[k].first
      BY <1>3 DEF NamesRise
    <3>1. segs[i].first < segs[k].first
      BY DEF LogOk, NamesRise
    <3> QED
      BY <1>4, <3>1
  <2>2. LinesRise(next)
    BY <1>3, <1>4 DEF LinesRise
  <2> QED
    BY <2>1, <2>2
<1>6. InTheirSegment(next)
  <2> SUFFICES ASSUME NEW i \in DOMAIN segs, NEW k \in Lines(next, i)
               PROVE  /\ next[i].first <= next[i].lines[k].id
                      /\ \A h \in DOMAIN segs : i < h => next[i].lines[k].id < next[h].first
    BY <1>3 DEF InTheirSegment
  <2>1. PICK j \in Lines(segs, i) : next[i].lines[k] = segs[i].lines[j]
    BY <1>4
  <2> QED
    BY <1>4, <2>1 DEF LogOk, InTheirSegment
<1>7. HoldsSaid(next, sd)
  BY <1>3, <1>4 DEF LogOk, HoldsSaid
<1>8. TailTells(next, top)
  <2>1. Len(segs) \in DOMAIN segs
    BY <1>1, SegmentTyped
  <2>2. next[Len(segs)].first = top + 1
    BY <1>4, <2>1
  <2>3. \A j \in Lines(segs, Len(segs)) : segs[Len(segs)].lines[j].id <= top
    BY DEF LogOk, TailTells
  <2>4. \A k \in Lines(next, Len(segs)) : next[Len(segs)].lines[k].id <= top
    BY <1>4, <2>1, <2>3
  <2> QED
    BY <1>1, <1>3, <2>2, <2>4 DEF TailTells
<1>9. KeepsOurs(next, sd)
  <2> SUFFICES ASSUME NEW e \in sd, ~Another(e), next[1].first <= e.id
               PROVE  \E i \in DOMAIN segs : \E k \in Lines(next, i) : next[i].lines[k] = e
    BY <1>3 DEF KeepsOurs
  <2>1. 1 \in DOMAIN segs /\ next[1].first = segs[1].first
    BY <1>1, <1>4, SegmentTyped
  <2>2. PICK i \in DOMAIN segs : \E j \in Lines(segs, i) : segs[i].lines[j] = e
    BY <2>1 DEF LogOk, KeepsOurs
  <2> QED
    BY <1>4, <2>2
<1>10. LastWhole(next)
  BY <1>1, <1>3, <1>4, SegmentTyped DEF LastWhole
<1> QED
  BY <1>1, <1>3, <1>5, <1>6, <1>7, <1>8, <1>9, <1>10 DEF LogOk

(* What a starting host takes for its last id is the log's. *)
LEMMA TailIdIs ==
  ASSUME NEW top, NEW sd, LogOk(segments, top, sd), segments # <<>>
  PROVE  TailId = top
<1> DEFINE n == Len(segments)
           tail == segments[n]
           read == Lines(segments, n)
<1>1. /\ segments \in Seq(Segment) /\ top \in Nat /\ n \in DOMAIN segments
      /\ DOMAIN tail.lines = 1 .. Len(tail.lines) /\ Len(tail.lines) \in Nat
      /\ tail.first \in Nat /\ \A j \in read : tail.lines[j].id \in Nat
  BY SegmentTyped DEF LogOk, Lines
<1>2. TailId = IF read = {} THEN tail.first - 1 ELSE tail.lines[Max(read)].id
  BY DEF TailId, Last, Lines
<1>3. /\ \A j \in read : tail.lines[j].id <= top /\ tail.first <= tail.lines[j].id
      /\ tail.first = top + 1 \/ \E j \in read : tail.lines[j].id = top
      /\ \A j, l \in read : j < l => tail.lines[j].id < tail.lines[l].id
  BY <1>1 DEF LogOk, TailTells, InTheirSegment, LinesRise
<1>4. read \in SUBSET Nat /\ \A j \in read : j <= Len(tail.lines)
  BY <1>1 DEF Lines
<1> HIDE DEF n, tail, read
<1>5. CASE read = {}
  BY <1>1, <1>2, <1>3, <1>5
<1>6. CASE read # {}
  <2>1. Max(read) \in read /\ \A j \in read : j <= Max(read)
    <3>1. Len(tail.lines) \in Nat
      BY <1>1
    <3> QED
      BY <1>4, <1>6, <3>1, MaxIsGreatest
  <2>2. PICK j \in read : tail.lines[j].id = top
    BY <1>1, <1>3, <1>6
  <2>3. j = Max(read)
    <3>1. j \in Nat /\ Max(read) \in Nat /\ j <= Max(read)
      BY <1>4, <2>1
    <3>2. j < Max(read) => tail.lines[j].id < tail.lines[Max(read)].id
      BY <1>3, <2>1
    <3>3. tail.lines[Max(read)].id <= top /\ tail.lines[Max(read)].id \in Nat
      BY <1>1, <1>3, <2>1
    <3> QED
      BY <1>1, <2>2, <3>1, <3>2, <3>3
  <2> QED
    BY <1>2, <1>6, <2>2, <2>3
<1> QED
  BY <1>5, <1>6

-----------------------------------------------------------------------------
(* The log's invariant, step by step.                                       *)

LEMMA SaidMore ==
  ASSUME NEW sd, NEW top \in Nat, NEW ts \in Nat, SaidOk(sd, top, ts),
         NEW e \in LogEntry, e.id = top + 1, NEW more \in {ts, ts + 1},
         e.seq = 0 \/ (e.seq = ts + 1 /\ more = ts + 1)
  PROVE  SaidOk(sd \cup {e}, top + 1, more)
<1>1. \A f \in sd : f \in LogEntry /\ f.id \in Nat /\ f.seq \in Nat /\ 0 < f.id /\ f.id <= top /\ f.seq <= ts
  BY DEF SaidOk, LogEntry
<1>2. e.seq \in Nat
  BY DEF LogEntry
<1>3. \A f \in sd \cup {e} : f \in LogEntry /\ 0 < f.id /\ f.id <= top + 1 /\ f.seq <= more
  BY <1>1, <1>2
<1>4. \A f, g \in sd \cup {e} : f.id = g.id => f = g
  BY <1>1 DEF SaidOk
<1>5. \A f, g \in sd \cup {e} : ~Another(f) /\ ~Another(g) /\ f.id < g.id => f.seq < g.seq
  BY <1>1, <1>2 DEF SaidOk, Another
<1> QED
  BY <1>3, <1>4, <1>5 DEF SaidOk

LEMMA SaidLater ==
  ASSUME NEW sd, NEW top, NEW ts \in Nat, SaidOk(sd, top, ts)
  PROVE  SaidOk(sd, top, ts + 1)
<1>1. \A f \in sd : f.seq <= ts + 1
  BY DEF SaidOk, LogEntry
<1> QED
  BY <1>1 DEF SaidOk

\* The conversation, the log's ids and what was said only grow, at the end.
Grows ==
  /\ transcript <= transcript' /\ lastId <= lastId' /\ said \subseteq said'
  /\ \A e \in said' : e \notin said => e.id = lastId + 1

LEMMA EntryIs ==
  ASSUME NEW seq \in Nat, lastId \in Nat
  PROVE  Entry(seq) \in LogEntry /\ Entry(seq).id = lastId + 1 /\ Entry(seq).seq = seq
BY DEF Entry, LogEntry

\* What a running host has on disk.
LEMMA UpLog ==
  ASSUME LogInv, up
  PROVE  /\ lastId \in Nat /\ lastId <= MaxId /\ transcript \in Nat
         /\ LogOk(segments, lastId, said) /\ SaidOk(said, lastId, transcript) /\ LastWhole(segments)
BY DEF LogInv

LEMMA LogSays ==
  ASSUME LogInv, NEW seq \in Nat, Log(seq), up' = up,
         transcript' \in 0 .. MaxSeq,
         \/ seq = 0 /\ transcript' = transcript
         \/ seq = transcript + 1 /\ transcript' = transcript + 1
  PROVE  LogInv' /\ Grows
<1> DEFINE ready == Ready(segments, lastId + 1)
           e == Entry(seq)
<1>1. /\ lastId \in Nat /\ lastId < MaxId /\ transcript \in Nat /\ up /\ lastId' = lastId + 1
      /\ LogOk(segments, lastId, said) /\ SaidOk(said, lastId, transcript) /\ LastWhole(segments)
      /\ segments' = Written(ready, e) /\ said' = said \cup {e}
  BY UpLog DEF Log
<1>2. e \in LogEntry /\ e.id = lastId + 1 /\ e.seq = seq
  BY <1>1, EntryIs
<1>3. LogOk(ready, lastId, said) /\ ready # <<>> /\ LastWhole(ready) /\ ready \in Seq(Segment)
  <2>1. LogOk(ready, lastId, said) /\ ready # <<>> /\ LastWhole(ready)
    BY <1>1, ReadyLog
  <2> QED
    BY <2>1 DEF LogOk
<1> HIDE DEF ready, e
<1>4. segments' = [ready EXCEPT ![Len(ready)].lines = Append(@, e), ![Len(ready)].torn = FALSE]
  BY <1>1, <1>3 DEF Written, LastWhole, Last
<1>5. Longer(segments', ready, e) /\ segments'[Len(ready)].torn = FALSE
  BY <1>2, <1>3, <1>4, LongerIs
<1>6. LogOk(segments', lastId', said')
  BY <1>1, <1>2, <1>3, <1>5, LongerLog
<1>7. SaidOk(said', lastId', transcript')
  BY <1>1, <1>2, SaidMore
<1>8. LastWhole(segments')
  BY <1>5 DEF LastWhole, Longer
<1>9. lastId' \in 0 .. MaxId
  BY <1>1, StreamAssumption
<1>10. LogInv'
  BY <1>1, <1>6, <1>7, <1>8, <1>9 DEF LogInv
<1> QED
  BY <1>1, <1>2, <1>10 DEF Grows

LEMMA ForgetSays ==
  ASSUME LogInv, Forget
  PROVE  LogInv' /\ Grows
<1> DEFINE fresh == Opened(segments, lastId + 1)
<1>1. /\ lastId \in 0 .. MaxId /\ transcript \in 0 .. MaxSeq /\ up
      /\ LogOk(segments, lastId, said) /\ SaidOk(said, lastId, transcript)
      /\ segments' = [i \in DOMAIN fresh |-> Rewritten(fresh[i])]
      /\ lastId' = lastId /\ up' = up /\ transcript' = transcript /\ said' = said
  BY UpLog DEF Forget, Forgotten, LogInv
<1>2. LogOk(fresh, lastId, said) /\ fresh # <<>> /\ fresh[Len(fresh)].first = lastId + 1
  BY <1>1, OpenedLog
<1> HIDE DEF fresh
<1>3. LogOk(segments', lastId, said) /\ LastWhole(segments')
  BY <1>1, <1>2, RewrittenLog
<1>4. LogInv'
  BY <1>1, <1>3 DEF LogInv
<1> QED
  BY <1>1, <1>4 DEF Grows

LEMMA CrashSays ==
  ASSUME LogInv, Crash
  PROVE  LogInv' /\ Grows
<1>1. /\ lastId' = lastId /\ up /\ up' = FALSE /\ transcript' = transcript /\ said' = said /\ segments' = segments
      /\ lastId \in 0 .. MaxId /\ transcript \in 0 .. MaxSeq
  BY DEF Crash, Dies, LogInv
<1>2. LogOk(segments, lastId, said) /\ SaidOk(said, lastId, transcript)
  BY <1>1, UpLog
<1>3. LogInv'
  BY <1>1, <1>2 DEF LogInv
<1> QED
  BY <1>1, <1>3 DEF Grows

LEMMA BootSays ==
  ASSUME LogInv, Boot
  PROVE  LogInv' /\ Grows
<1>1. PICK top \in 0 .. MaxId : /\ top = lastId \/ top = lastId + 1
                                /\ LogOk(segments, top, said) /\ SaidOk(said, top, transcript)
  BY DEF LogInv
<1>2. /\ up' = TRUE /\ transcript' = transcript /\ said' = said
      /\ transcript \in 0 .. MaxSeq /\ lastId \in 0 .. MaxId
  BY DEF Boot, LogInv
<1>3. CASE segments = <<>>
  <2>1. top = 0 /\ lastId' = 0 /\ segments' = segments
    BY <1>1, <1>3 DEF LogOk, TailTells, Boot, Resumed
  <2>2. LogInv'
    BY <1>1, <1>2, <1>3, <2>1 DEF LogInv, LastWhole
  <2>3. lastId <= lastId'
    BY <1>1, <1>2, <2>1
  <2> QED
    BY <1>2, <2>2, <2>3 DEF Grows
<1>4. CASE segments # <<>>
  <2> DEFINE n == Len(segments)
  <2>1. lastId' = top /\ segments' = [segments EXCEPT ![n].torn = FALSE]
    BY <1>1, <1>4, TailIdIs DEF Boot, Resumed
  <2>2. /\ segments \in Seq(Segment) /\ n \in DOMAIN segments /\ DOMAIN segments = 1 .. n
        /\ \A i \in DOMAIN segments : segments[i] \in Segment
    BY <1>1, <1>4, SegmentTyped DEF LogOk
  <2> DEFINE last == [segments[n] EXCEPT !.torn = FALSE]
  <2>3. /\ last \in Segment /\ last.first = segments[n].first /\ last.lines = segments[n].lines
        /\ last.torn = FALSE
    BY <2>2 DEF Segment
  <2>4. segments' = [segments EXCEPT ![n] = last]
    BY <2>1
  <2> HIDE DEF last
  <2>5. /\ segments' \in Seq(Segment) /\ Len(segments') = n /\ segments'[n] = last
        /\ \A i \in DOMAIN segments : i # n => segments'[i] = segments[i]
    <3>1. /\ [segments EXCEPT ![n] = last] \in Seq(Segment) /\ Len([segments EXCEPT ![n] = last]) = n
          /\ \A j \in 1 .. n : [segments EXCEPT ![n] = last][j] = IF j = n THEN last ELSE segments[j]
      BY <2>2, <2>3, ExceptSeq
    <3> QED
      BY <2>2, <2>4, <3>1
  <2>6. DOMAIN segments' = DOMAIN segments /\ segments' # <<>>
    BY <2>2, <2>5, LenProperties, EmptySeq
  <2>7. \A i \in DOMAIN segments : /\ segments'[i].first = segments[i].first
                                   /\ segments'[i].lines = segments[i].lines
    BY <2>3, <2>5
  <2> HIDE DEF n
  <2>8. \A i \in DOMAIN segments : Lines(segments', i) = Lines(segments, i)
    BY <2>7 DEF Lines
  <2>9. 1 \in DOMAIN segments
    BY <2>2, <1>4, SegmentTyped
  <2>10. LogOk(segments', top, said)
    <3>1. NamesRise(segments') /\ InTheirSegment(segments') /\ LinesRise(segments') /\ HoldsSaid(segments', said)
      BY <1>1, <2>6, <2>7, <2>8 DEF LogOk, NamesRise, InTheirSegment, LinesRise, HoldsSaid
    <3>2. TailTells(segments', top)
      BY <1>1, <1>4, <2>2, <2>5, <2>6, <2>7, <2>8 DEF LogOk, TailTells, n
    <3>3. KeepsOurs(segments', said)
      BY <1>1, <1>4, <2>6, <2>7, <2>8, <2>9 DEF LogOk, KeepsOurs
    <3> QED
      BY <1>1, <2>5, <3>1, <3>2, <3>3 DEF LogOk
  <2>11. LastWhole(segments')
    BY <2>3, <2>5 DEF LastWhole
  <2>12. LogInv'
    BY <1>1, <1>2, <2>1, <2>10, <2>11 DEF LogInv
  <2>13. lastId <= lastId'
    BY <1>1, <1>2, <2>1
  <2> QED
    BY <1>2, <2>12, <2>13 DEF Grows
<1> QED
  BY <1>3, <1>4

LEMMA CrashAppendingSays ==
  ASSUME LogInv, CrashAppending
  PROVE  LogInv' /\ Grows
<1> DEFINE e == Entry(transcript + 1)
           ready == Ready(segments, lastId + 1)
<1>1. /\ lastId \in 0 .. MaxId /\ lastId \in Nat /\ lastId < MaxId
      /\ transcript \in 0 .. MaxSeq /\ transcript \in Nat /\ transcript < MaxSeq
      /\ up' = FALSE /\ lastId' = lastId /\ transcript' = transcript + 1
      /\ LogOk(segments, lastId, said) /\ SaidOk(said, lastId, transcript)
  BY UpLog DEF CrashAppending, Dies, LogInv
<1>2. PICK cut \in Cuts :
        /\ segments' = Torn(segments, e, cut)
        /\ said' = IF cut = "whole" THEN said \cup {e} ELSE said
  BY DEF CrashAppending
<1>3. e \in LogEntry /\ e.id = lastId + 1 /\ e.seq = transcript + 1
  BY <1>1, EntryIs
<1>4. LogOk(ready, lastId, said) /\ ready # <<>> /\ ready \in Seq(Segment)
  <2>1. LogOk(ready, lastId, said) /\ ready # <<>>
    BY <1>1, ReadyLog
  <2> QED
    BY <2>1 DEF LogOk
<1>5. /\ transcript' \in 0 .. MaxSeq /\ lastId' \in 0 .. MaxId /\ lastId + 1 \in 0 .. MaxId
      /\ SaidOk(said, lastId, transcript')
  BY <1>1, SaidLater, StreamAssumption
<1>6. Ready(segments, e.id) = ready
  BY <1>3
<1> HIDE DEF e, ready
<1>7. CASE cut = "none" \/ cut = "opened"
  <2>1. said' = said /\ (segments' = segments \/ segments' = ready)
    BY <1>2, <1>6, <1>7 DEF Torn
  <2>2. LogInv'
    BY <1>1, <1>4, <1>5, <2>1 DEF LogInv
  <2> QED
    BY <1>1, <2>1, <2>2 DEF Grows
<1>8. CASE cut = "part"
  <2>1. said' = said /\ segments' = [ready EXCEPT ![Len(ready)].lines = Append(@, Unreadable),
                                                  ![Len(ready)].torn = TRUE]
    BY <1>2, <1>6, <1>8 DEF Torn
  <2>2. Unreadable \in LogEntry /\ Unreadable.id = 0
    BY DEF Unreadable, LogEntry
  <2>3. Longer(segments', ready, Unreadable)
    BY <1>4, <2>1, <2>2, LongerIs
  <2>4. LogOk(segments', lastId, said)
    BY <1>1, <1>4, <2>2, <2>3, LongerLog
  <2>5. LogInv'
    BY <1>1, <1>5, <2>1, <2>4 DEF LogInv
  <2> QED
    BY <1>1, <2>1, <2>5 DEF Grows
<1>9. CASE cut = "whole"
  <2>1. /\ said' = said \cup {e}
        /\ segments' = [ready EXCEPT ![Len(ready)].lines = Append(@, e), ![Len(ready)].torn = TRUE]
    BY <1>2, <1>6, <1>9 DEF Torn
  <2>2. Longer(segments', ready, e)
    BY <1>3, <1>4, <2>1, LongerIs
  <2>3. LogOk(segments', lastId + 1, said')
    BY <1>1, <1>3, <1>4, <2>1, <2>2, LongerLog
  <2>4. SaidOk(said', lastId + 1, transcript')
    BY <1>1, <1>3, <2>1, SaidMore
  <2>5. LogInv'
    BY <1>1, <1>5, <2>3, <2>4 DEF LogInv
  <2> QED
    BY <1>1, <1>3, <2>1, <2>5 DEF Grows
<1> QED
  BY <1>7, <1>8, <1>9 DEF Cuts

LEMMA LogUnchanged ==
  ASSUME LogInv, UNCHANGED <<segments, lastId, up, transcript, said>>
  PROVE  LogInv' /\ Grows
<1>1. LogInv'
  BY DEF LogInv
<1>2. transcript \in Nat /\ lastId \in Nat
  BY DEF LogInv
<1> QED
  BY <1>1, <1>2 DEF Grows

(* Every step keeps the log's invariant, and what it says it says at the end. *)
LEMMA LogKept ==
  ASSUME LogInv, [Next]_vars
  PROVE  LogInv' /\ Grows
<1>1. CASE AppendEvent
  <2>1. transcript \in Nat /\ transcript + 1 \in Nat /\ transcript + 1 \in 0 .. MaxSeq
    BY <1>1, StreamAssumption DEF AppendEvent, LogInv
  <2> QED
    BY <1>1, <2>1, LogSays DEF AppendEvent
<1>2. CASE AppendOther
  <2>1. transcript \in 0 .. MaxSeq /\ 0 \in Nat
    BY DEF LogInv
  <2> QED
    BY <1>2, <2>1, LogSays DEF AppendOther
<1>3. CASE Stream \/ Page \/ UNCHANGED vars
  <2>1. UNCHANGED <<segments, lastId, up, transcript, said>>
    BY <1>3 DEF Stream, Page, Connect, Pull, Stall, Drop, Receive, BodyServed, BodyLands, BodyFails, Resync,
                logVars, vars
  <2> QED
    BY <2>1, LogUnchanged
<1> QED
  BY <1>1, <1>2, <1>3, ForgetSays, CrashSays, CrashAppendingSays, BootSays DEF Next, Host

-----------------------------------------------------------------------------
(* The page and the frames on their way to it.                              *)

\* What was true of the log's growth stays true of bodies and frames.
LEMMA BodyStays ==
  ASSUME LogInv, LogInv', Grows, NEW b, BodyOk(b, said, transcript, lastId)
  PROVE  BodyOk(b, said', transcript', lastId')
<1>1. /\ transcript \in Nat /\ transcript' \in Nat /\ lastId \in Nat /\ lastId' \in Nat
      /\ b.seq \in Nat /\ b.cursor \in Nat
  BY DEF LogInv, BodyOk, Bodies
<1>2. \A e \in said' : e.id <= b.cursor => e \in said
  BY <1>1 DEF Grows, BodyOk
<1> QED
  BY <1>1, <1>2 DEF Grows, BodyOk

LEMMA FrameStays ==
  ASSUME LogInv, LogInv', Grows, NEW f, FrameOk(f, said, transcript, lastId)
  PROVE  FrameOk(f, said', transcript', lastId')
<1>1. /\ transcript \in Nat /\ transcript' \in Nat /\ lastId \in Nat /\ lastId' \in Nat
      /\ f.seq \in Nat /\ f.id \in Nat
  BY DEF LogInv, FrameOk, Frames
<1> QED
  BY <1>1 DEF Grows, FrameOk

(* What a follower may have been told up to its cursor stays on its page. *)
LEMMA CursorStays ==
  ASSUME LogInv, LogInv', Grows, NEW c \in Nat, NEW s, c <= lastId,
         \A e \in said : ~Another(e) /\ e.id <= c => e.seq <= s
  PROVE  c <= lastId' /\ \A e \in said' : ~Another(e) /\ e.id <= c => e.seq <= s
<1>1. lastId \in Nat /\ lastId' \in Nat
  BY DEF LogInv
<1> QED
  BY <1>1 DEF Grows

LEMMA PageStays ==
  ASSUME LogInv, LogInv', Grows, PageInv, UNCHANGED <<page, body, fetch, live, twice>>
  PROVE  PageInv'
<1>1. transcript \in Nat /\ transcript' \in Nat /\ lastId \in Nat /\ lastId' \in Nat
  BY DEF LogInv
<1>2. page' \in Followers /\ page'.cursor <= lastId' /\ page'.last <= transcript'
  <2>1. page.cursor \in Nat /\ page.last \in Nat
    BY DEF PageInv, Followers
  <2> QED
    BY <1>1, <2>1 DEF PageInv, Grows
<1>3. body # None => BodyOk(body', said', transcript', lastId') /\ Shows(body', page'.last, live')
  BY BodyStays DEF PageInv
<1>4. FetchOk'
  BY BodyStays DEF PageInv, FetchOk
<1>5. live' \subseteq 1 .. transcript' /\ twice' \subseteq live'
  BY <1>1 DEF PageInv, Grows
<1>6. CursorSafe'
  <2>1. page.cursor \in Nat /\ page.cursor <= lastId
    BY DEF PageInv, Followers
  <2> QED
    BY <2>1, CursorStays DEF PageInv, CursorSafe
<1> QED
  BY <1>2, <1>3, <1>4, <1>5, <1>6 DEF PageInv

LEMMA WiresStay ==
  ASSUME LogInv, LogInv', Grows, WiresInv
  PROVE  /\ \A i \in DOMAIN conn.lane : FrameOk(conn.lane[i], said', transcript', lastId')
         /\ \A i \in DOMAIN wire : FrameOk(wire[i], said', transcript', lastId')
BY FrameStays DEF WiresInv

(* An entry's frame. *)
LEMMA FrameIs ==
  ASSUME NEW e \in LogEntry, NEW sd, e \in sd, ~Another(e), NEW ts \in Nat, NEW id \in Nat, e.seq <= ts, e.id <= id
  PROVE  FrameOk(Frame(e), sd, ts, id)
BY DEF Frame, FrameOk, Frames, LogEntry

(* What a connection replays was said of the conversation. *)
LEMMA AfterHolds ==
  ASSUME NEW top, LogOk(segments, top, said), NEW cursor \in Nat
  PROVE  After(cursor) \in Seq(LogEntry) /\ \A k \in DOMAIN After(cursor) : After(cursor)[k] \in said /\ ~Another(After(cursor)[k])
<1> DEFINE passed == {i \in DOMAIN segments : i < Len(segments) /\ segments[i + 1].first <= cursor + 1}
           read == [i \in DOMAIN segments |-> IF i \in passed THEN <<>> ELSE segments[i].lines]
           lines == FlattenSeq(read)
           ahead == {e \in Range(lines) : e.id > cursor /\ ~Another(e)}
<1>1. After(cursor) = Only(lines, ahead)
  BY DEF After
<1>2. /\ segments \in Seq(Segment) /\ Len(segments) \in Nat /\ DOMAIN segments = 1 .. Len(segments)
      /\ \A i \in DOMAIN segments : segments[i].lines \in Seq(LogEntry)
  BY SegmentTyped DEF LogOk
<1> HIDE DEF passed
<1>3. read \in Seq(Seq(LogEntry)) /\ DOMAIN read = DOMAIN segments
  <2>1. <<>> \in Seq(LogEntry)
    BY EmptySeq
  <2>2. read \in [1 .. Len(segments) -> Seq(LogEntry)]
    BY <1>2, <2>1
  <2> QED
    BY <1>2, <2>2
<1>4. \A i \in DOMAIN read : \A j \in DOMAIN read[i] : j \in DOMAIN segments[i].lines /\ read[i][j] = segments[i].lines[j]
  BY <1>3, EmptySeq
<1> HIDE DEF read
<1>5. lines \in Seq(LogEntry) /\ HeldBy(lines, read)
  BY <1>3, FlattenHolds
<1> HIDE DEF lines
<1>6. \A e \in ahead : e \in said /\ ~Another(e)
  <2> SUFFICES ASSUME NEW e \in ahead PROVE e \in said /\ ~Another(e)
    OBVIOUS
  <2>1. PICK k \in DOMAIN lines : lines[k] = e
    BY DEF Range
  <2>2. PICK i \in DOMAIN read : \E j \in DOMAIN read[i] : lines[k] = read[i][j]
    BY <1>5 DEF HeldBy
  <2>3. PICK j \in DOMAIN segments[i].lines : e = segments[i].lines[j]
    BY <1>4, <2>1, <2>2
  <2>4. e.id # 0
    <3>1. segments[i].lines[j].id \in Nat
      BY <1>2, <1>3, SegmentTyped
    <3> QED
      BY <2>3, <3>1
  <2> QED
    BY <1>3, <2>3, <2>4 DEF LogOk, HoldsSaid, Lines
<1> HIDE DEF ahead
<1>7. Only(lines, ahead) \in Seq(LogEntry)
      /\ \A k \in 1 .. Len(Only(lines, ahead)) : Only(lines, ahead)[k] \in ahead
  BY <1>5, OnlyPicks DEF Picks
<1> QED
  BY <1>1, <1>6, <1>7, LenProperties

-----------------------------------------------------------------------------
(* The connection, step by step.                                            *)

LEMMA ClosedIs ==
  Closed \in [open : BOOLEAN, lane : Seq(Frames)] /\ Closed.lane = <<>> /\ ~Closed.open
    /\ Len(<<>>) = 0 /\ DOMAIN <<>> = {} /\ <<>> \in Seq(Frames)
BY EmptySeq DEF Closed

LEMMA WiresSame ==
  ASSUME LogInv, LogInv', Grows, WiresInv, conn' = conn, wire' = wire, page'.at = page.at
  PROVE  WiresInv'
BY WiresStay DEF WiresInv

LEMMA WiresCut ==
  ASSUME conn' = Closed, wire' = <<>>
  PROVE  WiresInv'
BY ClosedIs, StreamAssumption DEF WiresInv

(* An entry reaches the lane of an open connection. *)
LEMMA WiresPublish ==
  ASSUME LogInv, LogInv', Grows, WiresInv, NEW seq \in Nat, Log(seq), seq <= transcript',
         wire' = wire, page' = page
  PROVE  WiresInv'
<1> DEFINE e == Entry(seq)
<1>1. /\ lastId \in Nat /\ lastId' = lastId + 1 /\ transcript' \in Nat /\ e \in said' /\ conn' = Published(e)
      /\ e \in LogEntry /\ e.id = lastId + 1 /\ e.seq = seq
  BY EntryIs DEF Log, LogInv
<1> HIDE DEF e
<1>2. CASE conn' = conn
  BY <1>2, WiresStay DEF WiresInv
<1>3. CASE conn' = Closed
  BY <1>3, ClosedIs, WiresStay, StreamAssumption DEF WiresInv
<1>4. CASE /\ conn.open /\ ~Another(e) /\ Len(conn.lane) # LogFrames
           /\ conn' = [conn EXCEPT !.lane = Append(@, Frame(e))]
  <2>1. FrameOk(Frame(e), said', transcript', lastId')
    BY <1>1, <1>4, FrameIs
  <2>2. Frame(e) \in Frames /\ conn.lane \in Seq(Frames)
    BY <2>1 DEF FrameOk, WiresInv
  <2>3. /\ Append(conn.lane, Frame(e)) \in Seq(Frames)
        /\ Len(Append(conn.lane, Frame(e))) = Len(conn.lane) + 1
        /\ Append(conn.lane, Frame(e))[Len(conn.lane) + 1] = Frame(e)
        /\ \A i \in 1 .. Len(conn.lane) : Append(conn.lane, Frame(e))[i] = conn.lane[i]
    BY <2>2, AppendProperties
  <2>4. Len(conn.lane) \in Nat /\ LogFrames \in Nat /\ Len(conn.lane) <= LogFrames
    BY <2>2, LenProperties, StreamAssumption DEF WiresInv
  <2>5. /\ conn' \in [open : BOOLEAN, lane : Seq(Frames)] /\ conn'.open
        /\ conn'.lane = Append(conn.lane, Frame(e))
    BY <1>4, <2>3 DEF WiresInv
  <2>6. Len(conn'.lane) <= LogFrames /\ DOMAIN conn'.lane = 1 .. Len(conn.lane) + 1
    BY <1>4, <2>3, <2>4, <2>5, LenProperties
  <2>7. ASSUME NEW i \in DOMAIN conn'.lane PROVE FrameOk(conn'.lane[i], said', transcript', lastId')
    <3>1. CASE i = Len(conn.lane) + 1
      BY <2>1, <2>3, <2>5, <3>1
    <3>2. CASE i # Len(conn.lane) + 1
      <4>1. i \in 1 .. Len(conn.lane) /\ i \in DOMAIN conn.lane
        BY <2>2, <2>4, <2>6, <3>2, LenProperties
      <4> QED
        BY <2>3, <2>5, <4>1, WiresStay
    <3> QED
      BY <3>1, <3>2
  <2> QED
    BY <1>4, <2>5, <2>6, <2>7, WiresStay DEF WiresInv
<1> QED
  BY <1>1, <1>2, <1>3, <1>4 DEF Published

LEMMA WiresConnect ==
  ASSUME LogInv, LogInv', Grows, WiresInv, PageInv, Connect
  PROVE  WiresInv'
<1> DEFINE replay == Replay(page.cursor)
<1>1. /\ page' = [page EXCEPT !.at = "open"] /\ wire' = <<>> /\ up
      /\ conn' = IF Len(replay) > LogFrames THEN Closed ELSE [open |-> TRUE, lane |-> replay]
      /\ said' = said /\ lastId' = lastId /\ transcript' = transcript
  BY DEF Connect, logVars
<1>2. page'.at = "open" /\ page.cursor \in Nat
  BY <1>1 DEF PageInv, Followers
<1>3. /\ lastId \in Nat /\ transcript \in Nat /\ LogOk(segments, lastId, said)
      /\ SaidOk(said, lastId, transcript)
  BY <1>1, UpLog
<1>4. replay \in Seq(Frames) /\ \A i \in DOMAIN replay : FrameOk(replay[i], said, transcript, lastId)
  <2>1. CASE Gap(page.cursor)
    <3>1. FrameOk(GapFrame, said, transcript, lastId) /\ GapFrame \in Frames
      BY <1>3 DEF GapFrame, FrameOk, Frames
    <3>2. replay = <<GapFrame>>
      BY <2>1 DEF Replay
    <3> HIDE DEF replay
    <3> QED
      BY <3>1, <3>2
  <2>2. CASE ~Gap(page.cursor)
    <3> DEFINE mine == After(page.cursor)
    <3>1. mine \in Seq(LogEntry) /\ \A k \in DOMAIN mine : mine[k] \in said /\ ~Another(mine[k])
      BY <1>2, <1>3, AfterHolds
    <3>2. replay = [i \in DOMAIN mine |-> Frame(mine[i])]
      BY <2>2 DEF Replay
    <3> HIDE DEF mine, replay
    <3>3. Len(mine) \in Nat /\ DOMAIN mine = 1 .. Len(mine)
      BY <3>1, LenProperties
    <3>4. \A k \in DOMAIN mine : FrameOk(Frame(mine[k]), said, transcript, lastId)
      <4>1. \A k \in DOMAIN mine : mine[k] \in LogEntry /\ mine[k].seq <= transcript /\ mine[k].id <= lastId
        BY <1>3, <3>1 DEF SaidOk
      <4> QED
        BY <1>3, <3>1, <4>1, FrameIs
    <3>5. \A k \in DOMAIN mine : Frame(mine[k]) \in Frames
      BY <3>4 DEF FrameOk
    <3>6. replay \in [1 .. Len(mine) -> Frames]
      BY <3>2, <3>3, <3>5
    <3> QED
      BY <3>2, <3>3, <3>4, <3>6
  <2> QED
    BY <2>1, <2>2
<1> HIDE DEF replay
<1>5. CASE Len(replay) > LogFrames
  BY <1>1, <1>5, WiresCut
<1>6. CASE ~(Len(replay) > LogFrames)
  <2>1. conn' = [open |-> TRUE, lane |-> replay]
    BY <1>1, <1>6
  <2>2. Len(replay) <= LogFrames
    BY <1>4, <1>6, LenProperties, StreamAssumption
  <2> QED
    BY <1>1, <1>2, <1>4, <2>1, <2>2, ClosedIs, StreamAssumption DEF WiresInv
<1> QED
  BY <1>5, <1>6

LEMMA TailFrames ==
  ASSUME NEW s \in Seq(Frames), s # <<>>
  PROVE  /\ Head(s) = s[1] /\ 1 \in DOMAIN s /\ Tail(s) \in Seq(Frames)
         /\ Len(Tail(s)) = Len(s) - 1 /\ Len(s) \in Nat
         /\ \A i \in DOMAIN Tail(s) : i + 1 \in DOMAIN s /\ Tail(s)[i] = s[i + 1]
<1>1. /\ Head(s) = s[1] /\ Tail(s) \in Seq(Frames) /\ Len(Tail(s)) = Len(s) - 1
      /\ \A i \in 1 .. Len(Tail(s)) : Tail(s)[i] = s[i + 1]
  BY HeadTailProperties
<1>2. Len(s) \in Nat /\ Len(s) # 0 /\ DOMAIN s = 1 .. Len(s) /\ DOMAIN Tail(s) = 1 .. Len(s) - 1
  BY <1>1, LenProperties, EmptySeq
<1> QED
  BY <1>1, <1>2

LEMMA WiresPull ==
  ASSUME LogInv, LogInv', Grows, WiresInv, Pull
  PROVE  WiresInv'
<1> DEFINE f == Head(conn.lane)
<1>1. /\ conn.open /\ conn.lane # <<>> /\ Len(wire) < MaxWire /\ wire' = Append(wire, f)
      /\ conn' = [conn EXCEPT !.lane = Tail(@)] /\ page' = page
      /\ conn \in [open : BOOLEAN, lane : Seq(Frames)] /\ wire \in Seq(Frames)
  BY DEF Pull, WiresInv, pageVars
<1>2. /\ f = conn.lane[1] /\ 1 \in DOMAIN conn.lane /\ Tail(conn.lane) \in Seq(Frames)
      /\ Len(Tail(conn.lane)) = Len(conn.lane) - 1 /\ Len(conn.lane) \in Nat
      /\ \A i \in DOMAIN Tail(conn.lane) : i + 1 \in DOMAIN conn.lane /\ Tail(conn.lane)[i] = conn.lane[i + 1]
  BY <1>1, TailFrames
<1>3. FrameOk(f, said', transcript', lastId') /\ f \in Frames
  <2>1. FrameOk(conn.lane[1], said', transcript', lastId')
    BY <1>2, WiresStay
  <2> QED
    BY <1>2, <2>1 DEF FrameOk
<1> HIDE DEF f
<1>4. /\ wire' \in Seq(Frames) /\ Len(wire') = Len(wire) + 1 /\ wire'[Len(wire) + 1] = f
      /\ \A i \in 1 .. Len(wire) : wire'[i] = wire[i]
  BY <1>1, <1>3, AppendProperties
<1>5. Len(wire) \in Nat /\ DOMAIN wire = 1 .. Len(wire) /\ DOMAIN wire' = 1 .. Len(wire) + 1
  BY <1>1, <1>4, LenProperties
<1>6. \A i \in DOMAIN wire' : FrameOk(wire'[i], said', transcript', lastId')
  BY <1>3, <1>4, <1>5, WiresStay
<1>7. /\ conn' \in [open : BOOLEAN, lane : Seq(Frames)] /\ conn'.lane = Tail(conn.lane) /\ conn'.open
      /\ \A i \in DOMAIN conn'.lane : FrameOk(conn'.lane[i], said', transcript', lastId')
  BY <1>1, <1>2, WiresStay
<1>8. Len(conn'.lane) <= LogFrames /\ Len(wire') <= MaxWire
  BY <1>1, <1>2, <1>4, <1>5, <1>7, StreamAssumption DEF WiresInv
<1>9. page'.at = "open"
  BY <1>1 DEF WiresInv
<1> QED
  BY <1>4, <1>6, <1>7, <1>8, <1>9 DEF WiresInv

LEMMA WiresReceive ==
  ASSUME LogInv, LogInv', Grows, WiresInv, PageInv, Receive
  PROVE  WiresInv'
<1>1. CASE conn' = Closed /\ wire' = <<>>
  BY <1>1, WiresCut
<1>2. CASE conn' = conn /\ wire' = Tail(wire) /\ page'.at = page.at
  <2>1. wire \in Seq(Frames) /\ wire # <<>>
    BY DEF Receive, WiresInv
  <2>2. /\ wire' \in Seq(Frames) /\ Len(wire') = Len(wire) - 1 /\ Len(wire) \in Nat
        /\ \A i \in DOMAIN wire' : i + 1 \in DOMAIN wire /\ wire'[i] = wire[i + 1]
    BY <1>2, <2>1, TailFrames
  <2>3. \A i \in DOMAIN wire' : FrameOk(wire'[i], said', transcript', lastId')
    BY <2>2, WiresStay
  <2>4. Len(wire') <= MaxWire
    BY <2>2, StreamAssumption DEF WiresInv
  <2> QED
    BY <1>2, <2>2, <2>3, <2>4, WiresStay DEF WiresInv
<1>3. (conn' = Closed /\ wire' = <<>>) \/ (conn' = conn /\ wire' = Tail(wire) /\ page'.at = page.at)
  BY DEF Receive, PageInv, Followers
<1> QED
  BY <1>1, <1>2, <1>3

LEMMA WiresKept ==
  ASSUME LogInv, LogInv', Grows, WiresInv, PageInv, [Next]_vars
  PROVE  WiresInv'
<1>1. CASE AppendEvent
  <2>1. transcript + 1 \in Nat /\ transcript + 1 <= transcript'
    BY <1>1 DEF AppendEvent, LogInv
  <2> QED
    BY <1>1, <2>1, WiresPublish DEF AppendEvent, pageVars
<1>2. CASE AppendOther
  <2>1. 0 \in Nat /\ 0 <= transcript'
    BY DEF LogInv
  <2> QED
    BY <1>2, <2>1, WiresPublish DEF AppendOther, pageVars
<1>3. CASE Forget \/ Boot \/ BodyServed \/ UNCHANGED vars
  <2>1. conn' = conn /\ wire' = wire /\ page' = page
    BY <1>3 DEF Forget, Boot, BodyServed, pageVars, vars
  <2> QED
    BY <2>1, WiresSame
<1>4. CASE Crash \/ CrashAppending \/ Stall
  <2>1. conn' = Closed /\ wire' = wire
    BY <1>4 DEF Crash, CrashAppending, Dies, Stall
  <2> QED
    BY <2>1, ClosedIs, WiresStay, StreamAssumption DEF WiresInv
<1>5. CASE Drop \/ BodyFails
  <2>1. conn' = Closed /\ wire' = <<>>
    BY <1>5 DEF Drop, BodyFails
  <2> QED
    BY <2>1, WiresCut
<1>6. CASE BodyLands \/ Resync
  <2>1. (conn' = Closed /\ wire' = <<>>) \/ (conn' = conn /\ wire' = wire /\ page' = page)
    BY <1>6 DEF BodyLands, Resync, Restarts, Follows
  <2> QED
    BY <2>1, WiresCut, WiresSame
<1> QED
  BY <1>1, <1>2, <1>3, <1>4, <1>5, <1>6, WiresConnect, WiresPull, WiresReceive DEF Next, Host, Stream, Page

-----------------------------------------------------------------------------
(* The page, step by step.                                                  *)

\* Of a state whose host did not move.
HostSame == UNCHANGED <<segments, lastId, up, transcript, said>>

LEMMA PageTyped ==
  ASSUME LogInv, PageInv
  PROVE  /\ transcript \in Nat /\ lastId \in Nat
         /\ page.cursor \in Nat /\ page.last \in Nat
         /\ \A c : [page EXCEPT !.at = c] = [at |-> c, cursor |-> page.cursor, last |-> page.last]
         /\ \A s \in live : s \in Nat /\ s <= transcript
         /\ body # None => body.seq \in Nat /\ body.cursor \in Nat
         /\ fetch.at = "answered" => fetch.body.seq \in Nat /\ fetch.body.cursor \in Nat
BY DEF LogInv, PageInv, Followers, FetchOk, BodyOk, Bodies

LEMMA CoversMore ==
  ASSUME NEW s, NEW b, NEW c, NEW A, NEW B, Covers(s, b, A), A \subseteq B, b.seq \in Nat, c.seq \in Nat,
         b.seq <= c.seq
  PROVE  Covers(s, c, B)
BY DEF Covers

LEMMA PageConnects ==
  ASSUME LogInv, PageInv, Connect
  PROVE  PageInv'
<1>1. /\ page.at = "opening" /\ page' = [page EXCEPT !.at = "open"]
      /\ UNCHANGED <<body, fetch, live, twice, said, transcript, lastId>>
  BY DEF Connect, logVars
<1>2. page' = [at |-> "open", cursor |-> page.cursor, last |-> page.last]
  BY <1>1, PageTyped
<1>3. CursorSafe'
  BY <1>1, <1>2 DEF PageInv, CursorSafe
<1>4. page' \in Followers
  BY <1>2, PageTyped DEF Followers
<1>5. FetchOk'
  BY <1>1 DEF PageInv, FetchOk
<1> QED
  BY <1>1, <1>2, <1>3, <1>4, <1>5 DEF PageInv

LEMMA PageDrops ==
  ASSUME LogInv, PageInv, Drop
  PROVE  PageInv'
<1>1. /\ page.at = "open" /\ page' = [page EXCEPT !.at = "opening"]
      /\ UNCHANGED <<body, fetch, live, twice, said, transcript, lastId>>
  BY DEF Drop, logVars
<1>2. page' = [at |-> "opening", cursor |-> page.cursor, last |-> page.last]
  BY <1>1, PageTyped
<1>3. CursorSafe'
  BY <1>1, <1>2 DEF PageInv, CursorSafe
<1>4. page' \in Followers
  BY <1>2, PageTyped DEF Followers
<1>5. FetchOk'
  BY <1>1 DEF PageInv, FetchOk
<1> QED
  BY <1>1, <1>2, <1>3, <1>4, <1>5 DEF PageInv

(* A frame that carries an event leaves nothing of the conversation unsaid before it. *)
LEMMA EventIsNext ==
  ASSUME LogInv, NEW f, FrameOk(f, said, transcript, lastId), f.kind = "event"
  PROVE  \A e \in said : ~Another(e) /\ e.id <= f.id => e.seq <= f.seq
<1>1. PICK d \in said : ~Another(d) /\ d.id = f.id /\ d.seq = f.seq
  BY DEF FrameOk
<1>2. PICK top : SaidOk(said, top, transcript)
  BY DEF LogInv
<1>3. \A e \in said : e.id \in Nat /\ e.seq \in Nat
  BY <1>2 DEF SaidOk, LogEntry
<1> SUFFICES ASSUME NEW e \in said, ~Another(e), e.id <= f.id PROVE e.seq <= f.seq
  OBVIOUS
<1>4. CASE e.id = d.id
  <2>1. e = d
    BY <1>2, <1>4 DEF SaidOk
  <2> QED
    BY <1>1, <1>3, <2>1
<1>5. CASE e.id # d.id
  <2>1. e.id < d.id
    BY <1>1, <1>3, <1>5
  <2>2. e.seq < d.seq
    BY <1>1, <1>2, <2>1 DEF SaidOk
  <2> QED
    BY <1>1, <1>3, <2>2
<1> QED
  BY <1>4, <1>5

(* What the rule says of a frame. *)
LEMMA StepIs ==
  ASSUME NEW f \in Frames, page.last \in Nat
  PROVE  /\ Step(f) = "apply" => f.kind = "event" /\ f.seq = page.last + 1
         /\ Step(f) = "skip" => f.kind = "event" /\ f.seq <= page.last
<1> f.kind \in {"event", "gap"} /\ f.seq \in Nat
  BY DEF Frames
<1> QED
  BY DEF Step

LEMMA PageReceives ==
  ASSUME LogInv, WiresInv, PageInv, Receive
  PROVE  PageInv'
<1> DEFINE f == Head(wire)
<1>1. wire # <<>> /\ wire \in Seq(Frames) /\ page.at = "open" /\ UNCHANGED <<body, said, transcript, lastId>>
  BY DEF Receive, WiresInv, logVars
<1>2. FrameOk(f, said, transcript, lastId) /\ f.seq \in Nat /\ f.id \in Nat /\ f.id <= lastId /\ f.seq <= transcript
  <2>1. FrameOk(wire[1], said, transcript, lastId) /\ f = wire[1]
    BY <1>1, TailFrames DEF WiresInv
  <2> QED
    BY <2>1 DEF FrameOk, Frames
<1>3. body # None /\ BodyOk(body, said, transcript, lastId) /\ Shows(body, page.last, live)
  BY <1>1 DEF PageInv
<1>4. /\ page \in Followers /\ page.cursor \in Nat /\ page.last \in Nat /\ page.last <= transcript
      /\ transcript \in Nat /\ live \subseteq 1 .. transcript /\ twice \subseteq live
      /\ body.seq \in Nat
  BY <1>3, PageTyped DEF PageInv
<1>5. \/ /\ Step(f) = "apply" /\ page' = [page EXCEPT !.cursor = f.id, !.last = f.seq]
         /\ live' = live \cup {f.seq}
         /\ twice' = IF f.seq \in live THEN twice \cup {f.seq} ELSE twice
         /\ fetch' = IF f.seq \in BodyEvents THEN Asked ELSE fetch
      \/ Step(f) = "skip" /\ page' = [page EXCEPT !.cursor = f.id] /\ UNCHANGED <<fetch, live, twice>>
      \/ /\ Step(f) = "reread" /\ page' = [page EXCEPT !.at = "stopped", !.cursor = f.id]
         /\ fetch' = Asked /\ UNCHANGED <<live, twice>>
  BY DEF Receive
<1> HIDE DEF f
<1>6. FetchOk'
  BY <1>1, <1>3, <1>5 DEF PageInv, FetchOk, Asked
<1>7. CASE Step(f) = "apply"
  <2>1. f.kind = "event" /\ f.seq = page.last + 1
    BY <1>2, <1>4, <1>7, StepIs DEF FrameOk
  <2>2. /\ page' = [at |-> "open", cursor |-> f.id, last |-> f.seq] /\ live' = live \cup {f.seq}
        /\ twice' = IF f.seq \in live THEN twice \cup {f.seq} ELSE twice
    BY <1>1, <1>4, <1>5, <1>7 DEF Followers
  <2>3. \A e \in said : ~Another(e) /\ e.id <= f.id => e.seq <= f.seq
    BY <1>2, <2>1, EventIsNext
  <2>4. Shows(body, f.seq, live')
    <3>1. Covers(page.last, body, live) /\ \A s \in live : Covers(s, body, live)
      BY <1>3 DEF Shows
    <3>2. Covers(f.seq, body, live')
      BY <1>4, <2>1, <2>2, <3>1 DEF Covers
    <3>3. ASSUME NEW s \in live PROVE Covers(s, body, live')
      BY <2>2, <3>1 DEF Covers
    <3> QED
      BY <2>2, <3>2, <3>3 DEF Shows
  <2>5. live' \subseteq 1 .. transcript /\ twice' \subseteq live'
    <3>1. f.seq \in 1 .. transcript
      BY <1>2, <1>4, <2>1
    <3>2. twice' \subseteq twice \cup {f.seq}
      BY <2>2
    <3> QED
      BY <1>4, <2>2, <3>1, <3>2
  <2>6. page' \in Followers
    BY <1>2, <2>2 DEF Followers
  <2> QED
    BY <1>1, <1>2, <1>3, <1>6, <2>2, <2>3, <2>4, <2>5, <2>6 DEF PageInv, CursorSafe
<1>8. CASE Step(f) = "skip"
  <2>1. f.kind = "event" /\ f.seq <= page.last
    BY <1>2, <1>4, <1>8, StepIs DEF FrameOk
  <2>2. /\ page' = [at |-> "open", cursor |-> f.id, last |-> page.last] /\ UNCHANGED <<live, twice>>
    BY <1>1, <1>4, <1>5, <1>8 DEF Followers
  <2>3. \A e \in said : ~Another(e) /\ e.id <= f.id => e.seq <= page.last
    <3>1. \A e \in said : ~Another(e) /\ e.id <= f.id => e.seq <= f.seq /\ e.seq \in Nat
      <4>1. \A e \in said : e.seq \in Nat
        BY DEF LogInv, SaidOk, LogEntry
      <4> QED
        BY <1>2, <2>1, <4>1, EventIsNext
    <3> QED
      BY <1>2, <1>4, <2>1, <3>1
  <2>4. page' \in Followers
    BY <1>2, <1>4, <2>2 DEF Followers
  <2> QED
    BY <1>1, <1>2, <1>3, <1>4, <1>6, <2>2, <2>3, <2>4 DEF PageInv, CursorSafe
<1>9. CASE Step(f) = "reread"
  <2>1. /\ page' = [at |-> "stopped", cursor |-> f.id, last |-> page.last] /\ UNCHANGED <<live, twice>>
    BY <1>1, <1>4, <1>5, <1>9 DEF Followers
  <2>2. page' \in Followers
    BY <1>2, <1>4, <2>1 DEF Followers
  <2> QED
    BY <1>1, <1>2, <1>3, <1>4, <1>6, <2>1, <2>2 DEF PageInv, CursorSafe
<1> QED
  BY <1>5, <1>7, <1>8, <1>9

LEMMA PageIsServed ==
  ASSUME LogInv, PageInv, BodyServed
  PROVE  PageInv'
<1> DEFINE b == [seq |-> transcript, cursor |-> lastId]
<1>1. /\ up /\ fetch' = [at |-> "answered", body |-> b]
      /\ UNCHANGED <<page, body, live, twice, said, transcript, lastId>>
  BY DEF BodyServed, logVars
<1>2. /\ lastId \in Nat /\ transcript \in Nat /\ SaidOk(said, lastId, transcript)
  BY <1>1, UpLog
<1>3. BodyOk(b, said, transcript, lastId)
  BY <1>2 DEF BodyOk, Bodies, SaidOk
<1>4. (body # None => body.seq <= transcript) /\ \A s \in live : s <= transcript
  BY <1>2 DEF PageInv, BodyOk
<1>5. FetchOk'
  BY <1>1, <1>3, <1>4 DEF FetchOk
<1>6. CursorSafe'
  BY <1>1 DEF PageInv, CursorSafe
<1> QED
  BY <1>1, <1>5, <1>6 DEF PageInv

(* Where a follower starts from a body. *)
LEMMA FollowsBody ==
  ASSUME LogInv, NEW b, BodyOk(b, said, transcript, lastId), Follows(b), UNCHANGED <<said, transcript, lastId>>
  PROVE  /\ page' \in Followers /\ page'.cursor <= lastId' /\ page'.last <= transcript'
         /\ page'.at = "opening" /\ page'.last = b.seq /\ CursorSafe'
<1>1. page' = [at |-> "opening", cursor |-> b.cursor, last |-> b.seq]
  BY DEF Follows
<1> QED
  BY <1>1 DEF BodyOk, Bodies, Followers, CursorSafe

LEMMA PageGetsBody ==
  ASSUME LogInv, PageInv, BodyLands
  PROVE  PageInv'
<1> DEFINE b == fetch.body
<1>1. /\ fetch.at = "answered" /\ body' = b /\ fetch' = NoFetch /\ Restarts(b)
      /\ UNCHANGED <<live, twice, said, transcript, lastId>>
  BY DEF BodyLands, KeepsTail, logVars
<1>2. /\ BodyOk(b, said, transcript, lastId) /\ b \in Bodies /\ b.seq \in Nat
      /\ body # None => body.seq <= b.seq /\ body.seq \in Nat
      /\ body = None => \A s \in live : s <= b.seq
  BY <1>1, PageTyped DEF PageInv, FetchOk, BodyOk
<1>3. body' # None
  BY <1>1, <1>2, StreamAssumption DEF Bodies
<1>4. FetchOk'
  BY <1>1 DEF FetchOk, NoFetch
<1>5. \A s \in live : s \in Nat
  BY PageTyped
<1> HIDE DEF b
<1>6. \A s \in live : Covers(s, b, live)
  <2>1. CASE body = None
    BY <1>2, <1>5, <2>1 DEF Covers
  <2>2. CASE body # None
    BY <1>2, <2>2, CoversMore DEF PageInv, Shows
  <2> QED
    BY <2>1, <2>2
<1>7. CASE Follows(b)
  <2>1. Covers(b.seq, b, live)
    BY <1>2 DEF Covers
  <2> QED
    BY <1>1, <1>2, <1>3, <1>4, <1>6, <1>7, <2>1, FollowsBody DEF PageInv, Shows
<1>8. CASE body # None /\ page' = page
  <2>1. Covers(page.last, b, live)
    BY <1>2, <1>8, CoversMore DEF PageInv, Shows
  <2>2. CursorSafe'
    BY <1>1, <1>8 DEF PageInv, CursorSafe
  <2> QED
    BY <1>1, <1>2, <1>3, <1>4, <1>6, <1>8, <2>1, <2>2 DEF PageInv, Shows
<1> QED
  BY <1>1, <1>7, <1>8 DEF Restarts

LEMMA PageLosesBody ==
  ASSUME LogInv, PageInv, BodyFails
  PROVE  PageInv'
<1>1. /\ body' = None /\ fetch' = NoFetch /\ page' = NoPage
      /\ UNCHANGED <<live, twice, said, transcript, lastId>>
  BY DEF BodyFails, logVars
<1>2. lastId \in Nat /\ transcript \in Nat
  BY DEF LogInv
<1>3. page' \in Followers /\ page'.cursor <= lastId /\ page'.last <= transcript /\ page'.at = "none"
  BY <1>1, <1>2 DEF NoPage, Followers
<1>4. FetchOk' /\ CursorSafe'
  BY <1>1, <1>3 DEF FetchOk, NoFetch, CursorSafe
<1> QED
  BY <1>1, <1>3, <1>4 DEF PageInv

LEMMA PageResyncs ==
  ASSUME LogInv, PageInv, Resync
  PROVE  PageInv'
<1>1. fetch' = Asked /\ UNCHANGED <<body, live, twice, said, transcript, lastId>>
  BY DEF Resync, logVars
<1>2. FetchOk'
  BY <1>1 DEF FetchOk, Asked
<1>3. CASE body = None
  <2>1. page' = page
    BY <1>3 DEF Resync
  <2>2. CursorSafe'
    BY <1>1, <2>1 DEF PageInv, CursorSafe
  <2> QED
    BY <1>1, <1>2, <1>3, <2>1, <2>2 DEF PageInv
<1>4. CASE body # None
  <2>1. Follows(body)
    BY <1>4 DEF Resync
  <2>2. BodyOk(body, said, transcript, lastId) /\ body.seq \in Nat /\ \A s \in live : Covers(s, body, live)
    BY <1>4, PageTyped DEF PageInv, Shows
  <2>3. Covers(body.seq, body, live)
    BY <2>2 DEF Covers
  <2> QED
    BY <1>1, <1>2, <1>4, <2>1, <2>2, <2>3, FollowsBody DEF PageInv, Shows
<1> QED
  BY <1>3, <1>4

LEMMA PageKept ==
  ASSUME LogInv, LogInv', Grows, WiresInv, PageInv, [Next]_vars
  PROVE  PageInv'
<1>1. CASE Host \/ Pull \/ Stall \/ UNCHANGED vars
  <2>1. UNCHANGED <<page, body, fetch, live, twice>>
    BY <1>1 DEF Host, AppendEvent, AppendOther, Forget, Crash, CrashAppending, Dies, Boot, Pull, Stall,
                pageVars, vars
  <2> QED
    BY <2>1, PageStays
<1> QED
  BY <1>1, PageConnects, PageDrops, PageReceives, PageIsServed, PageGetsBody, PageLosesBody, PageResyncs
     DEF Next, Stream, Page

-----------------------------------------------------------------------------
(* The theorems.                                                            *)

LEMMA StreamStarts ==
  ASSUME Init
  PROVE  StreamInv
<1>1. /\ segments = <<>> /\ lastId = 0 /\ up = TRUE /\ transcript = 0 /\ said = {}
      /\ conn = Closed /\ wire = <<>> /\ page = NoPage /\ body = None /\ fetch = Asked
      /\ live = {} /\ twice = {}
  BY DEF Init, Quiet, LogInit
<1>2. <<>> \in Seq(Segment) /\ Len(<<>>) = 0 /\ DOMAIN <<>> = {} /\ <<>> \in Seq(Frames)
  OBVIOUS
<1>3. LogInv
  <2>1. LogOk(segments, 0, said)
    BY <1>1, <1>2 DEF LogOk, NamesRise, InTheirSegment, LinesRise, TailTells, HoldsSaid, KeepsOurs
  <2>2. SaidOk(said, 0, transcript)
    BY <1>1 DEF SaidOk
  <2>3. 0 \in 0 .. MaxSeq /\ 0 \in 0 .. MaxId
    BY StreamAssumption
  <2> QED
    BY <1>1, <2>1, <2>2, <2>3 DEF LogInv, LastWhole
<1>4. WiresInv
  BY <1>1, <1>2, StreamAssumption DEF WiresInv, Closed
<1>5. PageInv
  BY <1>1 DEF PageInv, NoPage, Followers, FetchOk, Asked, CursorSafe
<1> QED
  BY <1>3, <1>4, <1>5 DEF StreamInv

LEMMA StreamKept ==
  ASSUME StreamInv, [Next]_vars
  PROVE  StreamInv'
<1>1. LogInv' /\ Grows
  BY LogKept DEF StreamInv
<1>2. WiresInv' /\ PageInv'
  BY <1>1, WiresKept, PageKept DEF StreamInv
<1> QED
  BY <1>1, <1>2 DEF StreamInv

(* The inductive invariant: what the log holds, what is under way to the    *)
(* page, and what the page has.                                             *)
THEOREM StreamInvariant == Spec => []StreamInv
<1>1. Init => StreamInv
  BY StreamStarts
<1>2. StreamInv /\ [Next]_vars => StreamInv'
  BY StreamKept
<1> QED
  BY <1>1, <1>2, PTL DEF Spec

LEMMA SaidIsHeld ==
  ASSUME LogInv
  PROVE  Replayable
<1>1. PICK top \in 0 .. MaxId :
        /\ top = lastId \/ (~up /\ top = lastId + 1)
        /\ LogOk(segments, top, said) /\ SaidOk(said, top, transcript)
  BY DEF LogInv
<1>2. segments \in Seq(Segment)
  BY <1>1 DEF LogOk
<1>3. \A i \in DOMAIN segments : DOMAIN segments[i].lines = 1 .. Len(segments[i].lines)
  BY <1>2, SegmentTyped
<1>4. ASSUME NEW p \in Entries
      PROVE  /\ p = <<p[1], p[2]>> /\ p[1] \in DOMAIN segments /\ p[2] \in Lines(segments, p[1])
             /\ At(p) = segments[p[1]].lines[p[2]]
  <2>1. PICK i \in DOMAIN segments : p \in {i} \X DOMAIN segments[i].lines
    BY DEF Entries
  <2>2. At(p).id # 0
    BY DEF Entries
  <2> QED
    BY <2>1, <2>2 DEF At, Lines
<1>5. ASSUME NEW i \in DOMAIN segments, NEW j \in Lines(segments, i)
      PROVE  <<i, j>> \in Entries /\ At(<<i, j>>) = segments[i].lines[j]
  <2>1. At(<<i, j>>) = segments[i].lines[j] /\ j \in DOMAIN segments[i].lines /\ At(<<i, j>>).id # 0
    BY DEF At, Lines
  <2> QED
    BY <2>1 DEF Entries
<1>6. \A e, f \in said : e.id = f.id => e = f
  BY <1>1 DEF SaidOk
<1>7. ASSUME NEW e \in said, ~Another(e), e.id >= Floor
      PROVE  \E p \in Entries : At(p) = e
  <2>1. segments # <<>>
    <3>1. SUFFICES ASSUME segments = <<>> PROVE FALSE
      OBVIOUS
    <3>2. top = 0 /\ e.id <= top /\ e.id \in Nat /\ 0 < e.id
      BY <1>1, <3>1 DEF LogOk, TailTells, SaidOk, LogEntry
    <3> QED
      BY <3>2
  <2>2. segments[1].first <= e.id
    <3>1. Floor = segments[1].first
      BY <1>2, <2>1, HeadTailProperties DEF Floor
    <3>2. segments[1].first \in Nat /\ e.id \in Nat
      BY <1>1, <1>2, <2>1, SegmentTyped DEF SaidOk, LogEntry
    <3> QED
      BY <1>7, <3>1, <3>2
  <2>3. PICK i \in DOMAIN segments : \E j \in Lines(segments, i) : segments[i].lines[j] = e
    BY <1>1, <1>7, <2>1, <2>2 DEF LogOk, KeepsOurs
  <2>4. PICK j \in Lines(segments, i) : segments[i].lines[j] = e
    BY <2>3
  <2> QED
    BY <1>5, <2>4
<1>8. ASSUME NEW p \in Entries, NEW q \in Entries, Before(p, q)
      PROVE  At(p).id < At(q).id
  <2>1. /\ p[1] \in DOMAIN segments /\ p[2] \in Lines(segments, p[1]) /\ At(p) = segments[p[1]].lines[p[2]]
        /\ q[1] \in DOMAIN segments /\ q[2] \in Lines(segments, q[1]) /\ At(q) = segments[q[1]].lines[q[2]]
    BY <1>4
  <2>2. CASE p[1] = q[1] /\ p[2] < q[2]
    BY <1>1, <2>1, <2>2 DEF LogOk, LinesRise
  <2>3. CASE p[1] < q[1]
    <3>1. At(p).id < segments[q[1]].first /\ segments[q[1]].first <= At(q).id
      BY <1>1, <2>1, <2>3 DEF LogOk, InTheirSegment
    <3>2. At(p).id \in Nat /\ At(q).id \in Nat /\ segments[q[1]].first \in Nat
      BY <1>2, <2>1, SegmentTyped DEF Lines
    <3> QED
      BY <3>1, <3>2
  <2> QED
    BY <1>8, <2>2, <2>3 DEF Before
<1> QED
  BY <1>6, <1>7, <1>8 DEF Replayable

(* Ids never repeat, and the log still holds every event of the             *)
(* conversation the host ever said from its oldest segment on, in order:    *)
(* over torn lines, retention, restarts and the deletion of other           *)
(* conversations, for every size and number of segments (host-log.ts).      *)
THEOREM SaidIsReplayable == Spec => []Replayable
<1>1. StreamInv => Replayable
  BY SaidIsHeld DEF StreamInv
<1> QED
  BY <1>1, StreamInvariant, PTL

(* Whatever reconnects, restarts and lost frames came before, a follower    *)
(* that reopens after its cursor misses nothing (followThread and the       *)
(* resource stream's replay).                                               *)
THEOREM ReconnectsAreSafe == Spec => []CursorSafe
<1>1. StreamInv => CursorSafe
  BY DEF StreamInv, PageInv
<1> QED
  BY <1>1, StreamInvariant, PTL

(* The newest of a set of numbers and 0. *)
LEMMA NewestOf ==
  ASSUME NEW S \in SUBSET Nat, NEW N \in Nat, \A s \in S : s <= N
  PROVE  /\ Max(S \cup {0}) \in Nat /\ Max(S \cup {0}) \in S \cup {0}
         /\ \A s \in S : s <= Max(S \cup {0})
<1>1. S \cup {0} \in SUBSET Nat /\ S \cup {0} # {} /\ \A s \in S \cup {0} : s <= N
  OBVIOUS
<1>2. Max(S \cup {0}) \in S \cup {0} /\ \A s \in S \cup {0} : s <= Max(S \cup {0})
  BY <1>1, MaxIsGreatest
<1> QED
  BY <1>1, <1>2

(* What is on a page are numbers the transcript reached. *)
LEMMA ShownIs ==
  ASSUME StreamInv
  PROVE  transcript \in Nat /\ Shown \in SUBSET Nat /\ \A s \in Shown : s <= transcript
<1>1. transcript \in Nat /\ live \subseteq 1 .. transcript
  BY DEF StreamInv, LogInv, PageInv
<1>2. body # None => body.seq \in Nat /\ body.seq <= transcript
  BY DEF StreamInv, PageInv, BodyOk, Bodies
<1>3. ASSUME NEW s \in Shown PROVE s \in Nat /\ s <= transcript
  <2>1. body # None /\ (s \in 1 .. body.seq \/ s \in live)
    <3>1. CASE body = None
      BY <3>1 DEF Shown
    <3>2. CASE body # None
      <4>1. Shown = (1 .. body.seq) \cup live
        BY <3>2 DEF Shown
      <4> QED
        BY <3>2, <4>1
    <3> QED
      BY <3>1, <3>2
  <2>2. body.seq \in Nat /\ body.seq <= transcript
    BY <1>2, <2>1
  <2>3. CASE s \in 1 .. body.seq
    BY <1>1, <2>2, <2>3
  <2>4. CASE s \in live
    BY <1>1, <2>4
  <2> QED
    BY <2>1, <2>3, <2>4
<1> QED
  BY <1>1, <1>3

LEMMA StreamTyped ==
  ASSUME StreamInv
  PROVE  TypeOK
<1>1. /\ up \in BOOLEAN /\ transcript \in 0 .. MaxSeq /\ lastId \in 0 .. MaxId
      /\ conn.open \in BOOLEAN /\ Len(conn.lane) <= LogFrames /\ Len(wire) <= MaxWire
      /\ conn.open => page.at = "open"
  BY DEF StreamInv, LogInv, WiresInv
<1>2. /\ page.at \in {"none", "opening", "open", "stopped"} /\ page.cursor \in Nat /\ page.cursor <= lastId
      /\ page.last <= transcript /\ fetch.at \in {"none", "asked", "answered"}
      /\ body # None => body.seq <= transcript
      /\ twice \subseteq live /\ live \subseteq 1 .. transcript
  BY DEF StreamInv, PageInv, Followers, FetchOk, BodyOk
<1>3. page.cursor <= MaxId
  BY <1>1, <1>2, StreamAssumption
<1> QED
  BY <1>1, <1>2, <1>3 DEF TypeOK

LEMMA ShownIsWhole ==
  ASSUME StreamInv
  PROVE  Shown = 1 .. Newest
<1>1. /\ transcript \in Nat /\ Shown \in SUBSET Nat
      /\ Newest \in Nat /\ Newest \in Shown \cup {0} /\ \A s \in Shown : s <= Newest
  BY ShownIs, NewestOf DEF Newest
<1>2. CASE body = None
  <2>1. Shown = {} /\ Newest = 0
    BY <1>1, <1>2 DEF Shown
  <2> QED
    BY <2>1
<1>3. CASE body # None
  <2>1. Shown = (1 .. body.seq) \cup live /\ body.seq \in Nat /\ live \subseteq 1 .. transcript
    BY <1>3 DEF Shown, StreamInv, PageInv, BodyOk, Bodies
  <2>2. \A s \in live : Covers(s, body, live)
    BY <1>3 DEF StreamInv, PageInv, Shows
  <2>3. ASSUME NEW t \in 1 .. Newest PROVE t \in Shown
    <3>1. CASE Newest \in live
      BY <1>1, <2>1, <2>2, <3>1 DEF Covers
    <3>2. CASE Newest \in 1 .. body.seq
      BY <1>1, <2>1, <3>2
    <3>3. CASE Newest = 0
      BY <3>3
    <3> QED
      BY <1>1, <2>1, <3>1, <3>2, <3>3
  <2>4. \A s \in Shown : s \in 1 .. Newest
    BY <1>1, <2>1
  <2> QED
    BY <2>3, <2>4
<1> QED
  BY <1>2, <1>3

(* The body and the tail a page shows never leave a hole between them,      *)
(* whichever body lands when (chat-state.ts and the provider's merge).      *)
THEOREM NoHoles == Spec => []NoHole
<1>1. StreamInv => NoHole
  BY StreamTyped, ShownIsWhole DEF NoHole
<1> QED
  BY <1>1, StreamInvariant, PTL

LEMMA ShownGrows ==
  ASSUME StreamInv, [Next]_vars, body # None, body' # None
  PROVE  Shown \subseteq Shown'
<1>1. live \subseteq live'
  BY DEF Next, Host, Stream, Page, AppendEvent, AppendOther, Forget, Crash, CrashAppending, Dies, Boot, Connect,
         Pull, Stall, Drop, Receive, BodyServed, BodyLands, KeepsTail, BodyFails, Resync, pageVars, vars
<1>2. body' = body \/ (fetch.at = "answered" /\ body' = fetch.body)
  BY DEF Next, Host, Stream, Page, AppendEvent, AppendOther, Forget, Crash, CrashAppending, Dies, Boot, Connect,
         Pull, Stall, Drop, Receive, BodyServed, BodyLands, BodyFails, Resync, pageVars, vars
<1>3. body.seq \in Nat /\ body'.seq \in Nat /\ body.seq <= body'.seq
  BY <1>2 DEF StreamInv, PageInv, FetchOk, BodyOk, Bodies
<1> QED
  BY <1>1, <1>3 DEF Shown

(* What a page once showed it does not take back, whatever body lands late  *)
(* (the provider's read-back and the follower it restarts).                 *)
THEOREM NothingIsTakenBack == Spec => NeverBack
<1>1. ASSUME StreamInv, StreamInv', [Next]_vars, body # None, body' # None
      PROVE  Newest' >= Newest
  <2>1. Newest \in Nat /\ Newest \in Shown \cup {0}
    BY <1>1, ShownIs, NewestOf DEF Newest
  <2>2. transcript' \in Nat /\ Shown' \in SUBSET Nat /\ \A s \in Shown' : s <= transcript'
    <3>1. transcript' \in Nat /\ live' \subseteq 1 .. transcript'
      BY <1>1 DEF StreamInv, LogInv, PageInv
    <3>2. body'.seq \in Nat /\ body'.seq <= transcript'
      BY <1>1 DEF StreamInv, PageInv, BodyOk, Bodies
    <3>3. ASSUME NEW s \in Shown' PROVE s \in Nat /\ s <= transcript'
      <4>1. Shown' = (1 .. body'.seq) \cup live'
        BY <1>1 DEF Shown
      <4> QED
        BY <3>1, <3>2, <4>1
    <3> QED
      BY <3>1, <3>3
  <2>3. Newest' \in Nat /\ \A s \in Shown' : s <= Newest'
    BY <2>2, NewestOf DEF Newest
  <2>4. Shown \subseteq Shown'
    BY <1>1, ShownGrows
  <2> QED
    BY <2>1, <2>3, <2>4
<1>2. StreamInv /\ StreamInv' /\ [Next]_vars =>
        [body # None /\ body' # None => Newest' >= Newest]_vars
  BY <1>1
<1> QED
  BY <1>2, StreamInvariant, PTL DEF Spec, NeverBack

==============================================================================

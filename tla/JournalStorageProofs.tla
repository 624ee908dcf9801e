------------------------- MODULE JournalStorageProofs -------------------------
(***************************************************************************)
(* The file under the journal, for any number of receipts, revisions,      *)
(* crashes and failing writes: what a commit acknowledged is read back     *)
(* forever, and a file no append failed on is loaded with exactly what     *)
(* the host answered.  The cuts are those that fall inside a line.         *)
(***************************************************************************)
EXTENDS JournalStorage, SequenceTheorems, FiniteSetTheorems, WellFoundedInduction, TLAPS

-----------------------------------------------------------------------------
(* The inductive invariant.                                                 *)

\* The lines of a file that are receipts of id.
Held(f, id) == {n \in 2 .. Len(f) : Whole(f[n]) /\ f[n][1].id = id}

\* The last revision of every receipt in the file is the one in revs.
Agrees(f, revs) ==
  \A id \in Ids : /\ \A n \in Held(f, id) : f[n][1].rev <= revs[id]
                  /\ revs[id] > 0 => \E n \in Held(f, id) : f[n][1].rev = revs[id]

\* A file that load accepts, but for its last text.
Good(f) ==
  /\ f[1] = <<Version>>
  /\ \A n \in 2 .. Len(f) - 1 : f[n] = <<>> \/ Whole(f[n])
  /\ \A id \in Ids : \A m, n \in Held(f, id) : m < n => f[m][1].rev < f[n][1].rev

\* Lines and memory hold no more revisions than the instance allows, and finitely many receipts.
Bounded ==
  /\ \A n \in 1 .. Len(file) : Whole(file[n]) => file[n][1].rev <= MaxRevision
  /\ \A id \in Ids : revision[id] <= MaxRevision
  /\ IsFiniteSet({id \in Ids : revision[id] > 0})

\* No cut leaves a whole line without its newline, or less than the first line.
Ended == file # <<>> => Len(file) > 1 /\ ~Whole(file[Len(file)])

\* What a running journal remembers of its file is enough to write after it, and a load that compacts
\* has read its file.
Remembered ==
  /\ phase = "compact" => file # <<>> /\ revision = ReadBack(file)
  /\ Running => /\ file # <<>> => torn \/ file[Len(file)] = <<>>
                /\ header => file # <<>>

\* An acknowledged revision is in memory and, with a line of its own, in the file.
Kept ==
  /\ Running \/ phase = "compact" => \A id \in Ids : acked[id] <= revision[id]
  /\ \A id \in Ids : acked[id] > 0 => \E n \in Held(file, id) : file[n][1].rev >= acked[id]

\* Until an append fails, file and memory agree.
Mirrored ==
  clean => /\ file # <<>> => Good(file)
           /\ Running => /\ ~torn
                         /\ file = <<>> => ~header /\ \A id \in Ids : revision[id] = 0
                         /\ file # <<>> => header /\ Agrees(file, revision)

StorageInv == TypeOK /\ Bounded /\ Ended /\ Remembered /\ Kept /\ Mirrored

-----------------------------------------------------------------------------
(* Numbers and sets.                                                        *)

(* A non-empty set of naturals has a least member. *)
LEMMA Least ==
  ASSUME NEW T \in SUBSET Nat, T # {}
  PROVE  \E n \in T : \A m \in T : n <= m
<1>1. IsWellFoundedOn(OpToRel(<, Nat), Nat)
  BY NatLessThanWellFounded
<1>2. PICK n \in T : \A m \in T : ~(<<m, n>> \in OpToRel(<, Nat))
  BY <1>1, WFMin
<1>3. ASSUME NEW m \in T PROVE n <= m
  <2>1. ~(<<m, n>> \in {ss \in Nat \X Nat : ss[1] < ss[2]})
    BY <1>2 DEF OpToRel
  <2> QED
    BY <2>1
<1> QED
  BY <1>3

(* A bounded, non-empty set of naturals has a greatest member. *)
LEMMA Greatest ==
  ASSUME NEW T \in SUBSET Nat, T # {}, NEW bound \in Nat, \A n \in T : n <= bound
  PROVE  \E n \in T : \A m \in T : m <= n
<1> DEFINE Above == {n \in Nat : \A m \in T : m <= n}
<1>1. bound \in Above
  OBVIOUS
<1>2. PICK n \in Above : \A m \in Above : n <= m
  BY <1>1, Least
<1>3. n \in T
  <2> SUFFICES ASSUME n \notin T PROVE FALSE
    OBVIOUS
  <2>1. \A m \in T : m < n
    BY <1>2
  <2>2. n > 0
    <3>1. PICK m \in T : m \in Nat
      OBVIOUS
    <3> QED
      BY <2>1, <3>1, n \in Nat
  <2>3. n - 1 \in Above
    BY <2>1, <2>2
  <2> QED
    BY <2>3, <1>2
<1> QED
  BY <1>2, <1>3

(* SetToSeq lists every member of a finite set once. *)
LEMMA Listing ==
  ASSUME NEW S, IsFiniteSet(S)
  PROVE  LET s == SetToSeq(S)
         IN  /\ s \in Seq(S)
             /\ \A m, n \in 1 .. Len(s) : s[m] = s[n] => m = n
             /\ \A x \in S : \E n \in 1 .. Len(s) : s[n] = x
<1> DEFINE s == SetToSeq(S)
           N == Cardinality(S)
<1>1. N \in Nat /\ ExistsBijection(1 .. N, S)
  BY FS_CardinalityType
<1>2. PICK b \in Bijection(1 .. N, S) : TRUE
  BY <1>1 DEF ExistsBijection
<1>3. b \in [1 .. N -> S] /\ IsInjective(b)
  BY <1>2 DEF Bijection, Injection, IsInjective
<1>4. s \in [1 .. N -> S] /\ IsInjective(s)
  BY <1>3 DEF SetToSeq
<1>5. s \in Seq(S) /\ Len(s) = N
  BY <1>1, <1>4
<1>6. IsFiniteSet(1 .. N) /\ Cardinality(1 .. N) = N
  BY <1>1, FS_Interval
<1>7. s \in Injection(1 .. N, S)
  BY <1>4 DEF Injection, IsInjective
<1>8. s \in Surjection(1 .. N, S)
  BY <1>6, <1>7, FS_Injection
<1> HIDE DEF s, N
<1>9. \A x \in S : \E n \in 1 .. N : s[n] = x
  BY <1>8 DEF Surjection
<1>10. \A m, n \in 1 .. N : s[m] = s[n] => m = n
  BY <1>4 DEF IsInjective
<1> QED
  BY <1>5, <1>9, <1>10 DEF s

-----------------------------------------------------------------------------
(* Texts.                                                                   *)

Pieces == [id : Ids \cup {"version", "fragment"}, rev : Nat]

\* The rows of one commit.
IsBatch(batch) ==
  /\ batch \in Seq(Ids) /\ Len(batch) > 0
  /\ \A m, n \in 1 .. Len(batch) : batch[m] = batch[n] => m = n

LEMMA BatchFacts ==
  ASSUME NEW batch \in Batches
  PROVE  IsBatch(batch)
<1>1. CASE \E id \in Ids : batch = <<id>>
  BY <1>1 DEF IsBatch
<1>2. CASE \E p \in Ids \X Ids : p[1] # p[2] /\ batch = <<p[1], p[2]>>
  BY <1>2 DEF IsBatch
<1> QED
  BY <1>1, <1>2 DEF Batches

(* Only a single receipt is a whole text. *)
LEMMA TextFacts ==
  /\ ~Whole(<<>>) /\ ~Whole(<<Version>>) /\ ~Whole(<<Frag>>)
  /\ <<>> \in Texts /\ <<Version>> \in Texts /\ <<Frag>> \in Texts
  /\ \A id \in Ids, rev \in Nat :
       /\ Piece(id, rev) \in Pieces /\ <<Piece(id, rev)>> \in Texts /\ Whole(<<Piece(id, rev)>>)
       /\ <<Piece(id, rev)>>[1].id = id /\ <<Piece(id, rev)>>[1].rev = rev
  /\ \A text \in Texts : Whole(text) => text[1].id \in Ids /\ text[1].rev \in Nat
<1>1. "version" \notin Ids /\ "fragment" \notin Ids
  BY StorageAssumption
<1>2. ~Whole(<<>>)
  BY DEF Whole
<1>3. ~Whole(<<Version>>) /\ ~Whole(<<Frag>>)
  BY <1>1 DEF Whole, Version, Frag, Piece
<1>4. Version \in Pieces /\ Frag \in Pieces
  BY DEF Version, Frag, Piece, Pieces
<1>5. Texts = Seq(Pieces)
  BY DEF Texts, Pieces
<1>6. \A p \in Pieces : <<p>> \in Seq(Pieces)
  OBVIOUS
<1>7. <<>> \in Texts /\ <<Version>> \in Texts /\ <<Frag>> \in Texts
  BY <1>4, <1>5, <1>6
<1>8. ASSUME NEW id \in Ids, NEW rev \in Nat
      PROVE  /\ Piece(id, rev) \in Pieces /\ <<Piece(id, rev)>> \in Texts /\ Whole(<<Piece(id, rev)>>)
             /\ <<Piece(id, rev)>>[1].id = id /\ <<Piece(id, rev)>>[1].rev = rev
  <2>1. Piece(id, rev) \in Pieces
    BY DEF Piece, Pieces
  <2>2. <<Piece(id, rev)>> \in Texts
    BY <2>1, <1>5, <1>6
  <2>3. Piece(id, rev).id = id /\ Piece(id, rev).rev = rev
    BY DEF Piece
  <2> QED
    BY <2>1, <2>2, <2>3 DEF Whole
<1>9. ASSUME NEW text \in Texts, Whole(text) PROVE text[1].id \in Ids /\ text[1].rev \in Nat
  <2>1. Len(text) = 1 /\ text \in Seq(Pieces)
    BY <1>5, <1>9 DEF Whole
  <2>2. text[1] \in Pieces
    BY <2>1
  <2> QED
    BY <2>2, <1>9 DEF Pieces, Whole
<1> QED
  BY <1>2, <1>3, <1>7, <1>8, <1>9

(* Every piece on a line, and an empty text after them. *)
LEMMA OnLinesShape ==
  ASSUME NEW ps \in Seq(Pieces)
  PROVE  /\ OnLines(ps) \in Seq(Texts)
         /\ Len(OnLines(ps)) = Len(ps) + 1
         /\ \A n \in 1 .. Len(ps) : OnLines(ps)[n] = <<ps[n]>>
         /\ OnLines(ps)[Len(ps) + 1] = <<>>
<1> DEFINE body == [n \in DOMAIN ps |-> <<ps[n]>>]
           tail == <<(<<>>)>>
<1>1. DOMAIN ps = 1 .. Len(ps) /\ Len(ps) \in Nat
  OBVIOUS
<1>2. \A n \in 1 .. Len(ps) : <<ps[n]>> \in Texts
  <2>1. \A p \in Pieces : <<p>> \in Seq(Pieces)
    OBVIOUS
  <2>2. \A n \in 1 .. Len(ps) : ps[n] \in Pieces
    OBVIOUS
  <2> QED
    BY <2>1, <2>2 DEF Texts, Pieces
<1>3. body \in Seq(Texts) /\ Len(body) = Len(ps)
  <2>1. body \in [1 .. Len(ps) -> Texts]
    BY <1>1, <1>2
  <2> QED
    BY <2>1, <1>1
<1>4. tail \in Seq(Texts) /\ Len(tail) = 1 /\ tail[1] = <<>>
  BY TextFacts
<1>5. \A n \in 1 .. Len(ps) : body[n] = <<ps[n]>>
  BY <1>1
<1>6. OnLines(ps) = body \o tail
  BY DEF OnLines
<1> HIDE DEF body, tail
<1>7. /\ body \o tail \in Seq(Texts)
      /\ Len(body \o tail) = Len(body) + Len(tail)
      /\ \A i \in 1 .. Len(body) + Len(tail) :
           (body \o tail)[i] = IF i <= Len(body) THEN body[i] ELSE tail[i - Len(body)]
  BY <1>3, <1>4, ConcatProperties
<1>8. \A n \in 1 .. Len(ps) : (body \o tail)[n] = <<ps[n]>>
  BY <1>1, <1>3, <1>4, <1>5, <1>7
<1>9. (body \o tail)[Len(ps) + 1] = <<>>
  BY <1>1, <1>3, <1>4, <1>7
<1> QED
  BY <1>3, <1>4, <1>6, <1>7, <1>8, <1>9

-----------------------------------------------------------------------------
(* What a commit appends.                                                   *)

NextOf(id) == Piece(id, revision[id] + 1)

\* Texts a commit of this batch may leave, written after what the journal remembers of the file.
Fresh(g, batch) ==
  /\ g \in Seq(Texts) /\ Len(g) > 0
  /\ torn => g[1] = <<>>
  /\ ~torn /\ ~header => ~Whole(g[1]) /\ (Len(g) > 1 => g[1] = <<Version>>)
  /\ \A k \in 1 .. Len(g) : Whole(g[k]) => \E i \in 1 .. Len(batch) : g[k] = <<NextOf(batch[i])>>
  /\ \A j, k \in 1 .. Len(g) : Whole(g[j]) /\ Whole(g[k]) /\ g[j] = g[k] => j = k
  /\ ~torn => \A k \in 1 .. Len(g) - 1 : (k = 1 /\ ~header) \/ Whole(g[k])

LEMMA ReceiptsShape ==
  ASSUME NEW batch, IsBatch(batch), revision \in [Ids -> Nat]
  PROVE  /\ Receipts(batch) \in Seq(Pieces)
         /\ Len(Receipts(batch)) = Len(batch)
         /\ \A n \in 1 .. Len(batch) : Receipts(batch)[n] = NextOf(batch[n])
<1>1. DOMAIN batch = 1 .. Len(batch) /\ Len(batch) \in Nat /\ \A n \in 1 .. Len(batch) : batch[n] \in Ids
  BY DEF IsBatch
<1>2. \A n \in 1 .. Len(batch) : NextOf(batch[n]) \in Pieces
  <2> SUFFICES ASSUME NEW n \in 1 .. Len(batch) PROVE NextOf(batch[n]) \in Pieces
    OBVIOUS
  <2>1. batch[n] \in Ids /\ revision[batch[n]] + 1 \in Nat
    BY <1>1
  <2> QED
    BY <2>1, TextFacts DEF NextOf
<1>3. Receipts(batch) = [n \in 1 .. Len(batch) |-> NextOf(batch[n])]
  BY <1>1 DEF Receipts, NextOf
<1> HIDE DEF NextOf
<1>4. Receipts(batch) \in [1 .. Len(batch) -> Pieces]
  BY <1>2, <1>3
<1> QED
  BY <1>1, <1>3, <1>4

(* The records of a commit: the version when the file has none, then its rows. *)
LEMMA RecordsShape ==
  ASSUME NEW batch, IsBatch(batch), revision \in [Ids -> Nat], header \in BOOLEAN
  PROVE  LET r == (IF header THEN <<>> ELSE <<Version>>) \o Receipts(batch)
             h == IF header THEN 0 ELSE 1
         IN  /\ r \in Seq(Pieces) /\ Len(r) = h + Len(batch)
             /\ ~header => r[1] = Version
             /\ \A n \in 1 .. Len(batch) : r[h + n] = NextOf(batch[n])
<1> DEFINE first == IF header THEN <<>> ELSE <<Version>>
           h == IF header THEN 0 ELSE 1
           rows == Receipts(batch)
<1>1. Version \in Pieces
  BY DEF Version, Piece, Pieces
<1>2. first \in Seq(Pieces) /\ Len(first) = h /\ (~header => first[1] = Version)
  BY <1>1
<1>3. rows \in Seq(Pieces) /\ Len(rows) = Len(batch) /\ \A n \in 1 .. Len(batch) : rows[n] = NextOf(batch[n])
  BY ReceiptsShape
<1>4. Len(batch) \in Nat /\ h \in Nat /\ (~header => h = 1)
  BY DEF IsBatch
<1> HIDE DEF first, rows, h
<1>5. /\ first \o rows \in Seq(Pieces)
      /\ Len(first \o rows) = Len(first) + Len(rows)
      /\ \A i \in 1 .. Len(first) + Len(rows) :
           (first \o rows)[i] = IF i <= Len(first) THEN first[i] ELSE rows[i - Len(first)]
  BY <1>2, <1>3, ConcatProperties
<1>6. ~header => (first \o rows)[1] = Version
  BY <1>2, <1>3, <1>4, <1>5
<1>7. ASSUME NEW n \in 1 .. Len(batch) PROVE (first \o rows)[h + n] = NextOf(batch[n])
  <2>1. h + n \in 1 .. Len(first) + Len(rows) /\ ~(h + n <= Len(first)) /\ (h + n) - Len(first) = n
    BY <1>2, <1>3, <1>4
  <2> QED
    BY <2>1, <1>3, <1>5
<1> QED
  BY <1>2, <1>3, <1>5, <1>6, <1>7 DEF first, rows, h

(* A commit appends its rows, each on a line, and starts on a line of its own. *)
LEMMA AppendedShape ==
  ASSUME NEW batch, IsBatch(batch), revision \in [Ids -> Nat], header \in BOOLEAN, torn \in BOOLEAN
  PROVE  LET A == Appended(batch)
             t == IF torn THEN 1 ELSE 0
             h == IF header THEN 0 ELSE 1
         IN  /\ A \in Seq(Texts) /\ Len(A) = t + h + Len(batch) + 1
             /\ torn => A[1] = <<>>
             /\ ~header => A[t + 1] = <<Version>>
             /\ \A n \in 1 .. Len(batch) : A[t + h + n] = <<NextOf(batch[n])>>
             /\ A[Len(A)] = <<>>
<1> DEFINE front == IF torn THEN <<(<<>>)>> ELSE <<>>
           t == IF torn THEN 1 ELSE 0
           h == IF header THEN 0 ELSE 1
           r == (IF header THEN <<>> ELSE <<Version>>) \o Receipts(batch)
           body == OnLines(r)
<1>1. front \in Seq(Texts) /\ Len(front) = t /\ (torn => front[1] = <<>>)
  BY TextFacts
<1>2. /\ r \in Seq(Pieces) /\ Len(r) = h + Len(batch)
      /\ ~header => r[1] = Version
      /\ \A n \in 1 .. Len(batch) : r[h + n] = NextOf(batch[n])
  BY RecordsShape
<1>3. /\ Len(batch) \in Nat /\ Len(batch) > 0
      /\ t \in Nat /\ (torn => t = 1)
      /\ h \in Nat /\ (~header => h = 1)
  BY DEF IsBatch
<1>4. Appended(batch) = front \o body
  BY DEF Appended
<1> HIDE DEF r, h, t, front
<1>5. /\ body \in Seq(Texts) /\ Len(body) = Len(r) + 1
      /\ \A n \in 1 .. Len(r) : body[n] = <<r[n]>>
      /\ body[Len(r) + 1] = <<>>
  BY <1>2, OnLinesShape
<1> HIDE DEF body
<1>6. /\ front \o body \in Seq(Texts)
      /\ Len(front \o body) = Len(front) + Len(body)
      /\ \A i \in 1 .. Len(front) + Len(body) :
           (front \o body)[i] = IF i <= Len(front) THEN front[i] ELSE body[i - Len(front)]
  BY <1>1, <1>5, ConcatProperties
<1> DEFINE A == front \o body
<1>7. Len(A) = t + h + Len(batch) + 1
  BY <1>1, <1>2, <1>3, <1>5, <1>6
<1>8. torn => A[1] = <<>>
  BY <1>1, <1>2, <1>3, <1>5, <1>6
<1>9. ASSUME NEW n \in 1 .. Len(body) PROVE A[t + n] = body[n]
  <2>1. t + n \in 1 .. Len(front) + Len(body) /\ ~(t + n <= Len(front)) /\ (t + n) - Len(front) = n
    BY <1>1, <1>2, <1>3, <1>5
  <2> QED
    BY <2>1, <1>6
<1>10. ASSUME ~header PROVE A[t + 1] = <<Version>>
  <2>1. 1 \in 1 .. Len(r) /\ 1 \in 1 .. Len(body)
    BY <1>2, <1>3, <1>5, <1>10
  <2>2. body[1] = <<Version>>
    BY <2>1, <1>2, <1>5, <1>10
  <2>3. A[t + 1] = body[1]
    BY <2>1, <1>9
  <2> QED
    BY <2>2, <2>3
<1>11. ASSUME NEW n \in 1 .. Len(batch) PROVE A[t + h + n] = <<NextOf(batch[n])>>
  <2>1. h + n \in 1 .. Len(r) /\ h + n \in 1 .. Len(body) /\ t + h + n = t + (h + n)
    BY <1>2, <1>3, <1>5
  <2>2. body[h + n] = <<NextOf(batch[n])>>
    BY <2>1, <1>2, <1>5
  <2> QED
    BY <2>1, <2>2, <1>9
<1>12. A[Len(A)] = <<>>
  <2>1. Len(A) = t + (Len(r) + 1) /\ Len(r) + 1 \in 1 .. Len(body)
    BY <1>1, <1>2, <1>3, <1>5, <1>6
  <2> QED
    BY <2>1, <1>5, <1>9
<1>13. /\ A \in Seq(Texts) /\ Len(A) = t + h + Len(batch) + 1
       /\ torn => A[1] = <<>>
       /\ ~header => A[t + 1] = <<Version>>
       /\ \A n \in 1 .. Len(batch) : A[t + h + n] = <<NextOf(batch[n])>>
       /\ A[Len(A)] = <<>>
  BY <1>6, <1>7, <1>8, <1>10, <1>11, <1>12
<1> HIDE DEF A
<1> QED
  BY <1>4, <1>13 DEF A, t, h

(* What lands of a write that ends early: some whole texts, then nothing, a part of the next
   one that is not empty, or all of it. *)
LEMMA LeftShape ==
  ASSUME NEW A \in Seq(Texts), NEW g \in Left(A)
  PROVE  /\ g \in Seq(Texts) /\ Len(g) \in 1 .. Len(A) - 1
         /\ \A k \in 1 .. Len(g) - 1 : g[k] = A[k]
         /\ \/ g[Len(g)] = <<>> \/ g[Len(g)] = A[Len(g)]
            \/ g[Len(g)] = <<Frag>> /\ A[Len(g)] # <<>>
<1> DEFINE Ends(n) == {<<>>, A[n]} \cup {<<Frag>> : piece \in DOMAIN A[n]}
<1>0. PICK n \in 1 .. Len(A) - 1 : g \in {SubSeq(A, 1, n - 1) \o <<cut>> : cut \in Ends(n)}
  BY DEF Left
<1>1. PICK cut \in Ends(n) : g = SubSeq(A, 1, n - 1) \o <<cut>>
  BY <1>0
<1>2. Len(A) \in Nat /\ A[n] \in Texts
  OBVIOUS
<1>3. cut \in Texts
  BY <1>2, TextFacts
<1> DEFINE pre == SubSeq(A, 1, n - 1)
           end == <<cut>>
<1>4. \A i \in 1 .. n - 1 : A[i] \in Texts
  OBVIOUS
<1>5. pre \in Seq(Texts) /\ Len(pre) = n - 1 /\ \A i \in 1 .. n - 1 : pre[i] = A[i]
  <2>1. /\ SubSeq(A, 1, n - 1) \in Seq(Texts)
        /\ Len(SubSeq(A, 1, n - 1)) = IF 1 <= n - 1 THEN (n - 1) - 1 + 1 ELSE 0
        /\ \A i \in 1 .. (n - 1) - 1 + 1 : SubSeq(A, 1, n - 1)[i] = A[1 + i - 1]
    BY <1>4, SubSeqProperties
  <2> QED
    BY <2>1
<1>6. end \in Seq(Texts) /\ Len(end) = 1 /\ end[1] = cut
  BY <1>3
<1> HIDE DEF pre, end
<1>7. /\ pre \o end \in Seq(Texts)
      /\ Len(pre \o end) = Len(pre) + Len(end)
      /\ \A i \in 1 .. Len(pre) + Len(end) :
           (pre \o end)[i] = IF i <= Len(pre) THEN pre[i] ELSE end[i - Len(pre)]
  BY <1>5, <1>6, ConcatProperties
<1>8. Len(g) = n /\ g \in Seq(Texts)
  BY <1>1, <1>5, <1>6, <1>7 DEF pre, end
<1>9. \A k \in 1 .. n - 1 : g[k] = A[k]
  BY <1>1, <1>5, <1>6, <1>7 DEF pre, end
<1>10. g[n] = cut
  BY <1>1, <1>5, <1>6, <1>7 DEF pre, end
<1>11. cut = <<>> \/ cut = A[n] \/ (cut = <<Frag>> /\ A[n] # <<>>)
  OBVIOUS
<1> QED
  BY <1>8, <1>9, <1>10, <1>11

LEMMA NextOfFacts ==
  ASSUME revision \in [Ids -> Nat], NEW id \in Ids
  PROVE  /\ <<NextOf(id)>> \in Texts /\ Whole(<<NextOf(id)>>)
         /\ <<NextOf(id)>>[1].id = id /\ <<NextOf(id)>>[1].rev = revision[id] + 1
<1>1. revision[id] + 1 \in Nat
  OBVIOUS
<1> QED
  BY <1>1, TextFacts DEF NextOf

(* The whole text of a commit: fresh lines, one per row, and the newline of the last one. *)
LEMMA FreshAppended ==
  ASSUME NEW batch, IsBatch(batch), revision \in [Ids -> Nat], header \in BOOLEAN, torn \in BOOLEAN
  PROVE  LET A == Appended(batch)
         IN  /\ Fresh(A, batch) /\ Len(A) > 1 /\ A[Len(A)] = <<>>
             /\ \A n \in 1 .. Len(batch) : \E k \in 1 .. Len(A) - 1 : A[k] = <<NextOf(batch[n])>>
<1> DEFINE A == Appended(batch)
           t == IF torn THEN 1 ELSE 0
           h == IF header THEN 0 ELSE 1
<1>1. /\ A \in Seq(Texts) /\ Len(A) = t + h + Len(batch) + 1
      /\ torn => A[1] = <<>>
      /\ ~header => A[t + 1] = <<Version>>
      /\ \A n \in 1 .. Len(batch) : A[t + h + n] = <<NextOf(batch[n])>>
      /\ A[Len(A)] = <<>>
  BY AppendedShape
<1>2. /\ torn => t = 1
      /\ ~torn => t = 0
      /\ header => h = 0
      /\ ~header => h = 1
      /\ Len(batch) \in Nat /\ Len(batch) > 0
      /\ \A n \in 1 .. Len(batch) : batch[n] \in Ids
  BY DEF IsBatch
<1> HIDE DEF A, t, h
<1>3. ASSUME NEW k \in 1 .. Len(A), Whole(A[k])
      PROVE  \E n \in 1 .. Len(batch) : k = t + h + n /\ A[k] = <<NextOf(batch[n])>>
  <2>1. k # Len(A)
    BY <1>1, <1>3, TextFacts
  <2>2. ~(torn /\ k = 1)
    BY <1>1, <1>3, TextFacts
  <2>3. ~(~header /\ k = t + 1)
    BY <1>1, <1>3, TextFacts
  <2>4. k > t + h
    BY <1>2, <2>2, <2>3
  <2>5. k - (t + h) \in 1 .. Len(batch) /\ k = t + h + (k - (t + h))
    BY <1>1, <1>2, <2>1, <2>4
  <2> QED
    BY <2>5, <1>1
<1>4. ASSUME NEW j \in 1 .. Len(A), NEW k \in 1 .. Len(A), Whole(A[j]), Whole(A[k]), A[j] = A[k]
      PROVE  j = k
  <2>1. PICK m \in 1 .. Len(batch) : j = t + h + m /\ A[j] = <<NextOf(batch[m])>>
    BY <1>3, <1>4
  <2>2. PICK n \in 1 .. Len(batch) : k = t + h + n /\ A[k] = <<NextOf(batch[n])>>
    BY <1>3, <1>4
  <2>3. batch[m] \in Ids /\ batch[n] \in Ids
    BY <1>2
  <2>4. batch[m] = batch[n]
    BY <1>4, <2>1, <2>2, <2>3, NextOfFacts
  <2> QED
    BY <2>1, <2>2, <2>4 DEF IsBatch
<1>5. ASSUME ~torn, NEW k \in 1 .. Len(A) - 1 PROVE (k = 1 /\ ~header) \/ Whole(A[k])
  <2>1. CASE k = 1 /\ ~header
    BY <2>1
  <2>2. CASE ~(k = 1 /\ ~header)
    <3>1. k - (t + h) \in 1 .. Len(batch) /\ k = t + h + (k - (t + h))
      BY <1>1, <1>2, <1>5, <2>2
    <3>2. PICK n \in 1 .. Len(batch) : A[k] = <<NextOf(batch[n])>>
      BY <1>1, <3>1
    <3>3. batch[n] \in Ids
      BY <1>2
    <3> QED
      BY <3>2, <3>3, NextOfFacts
  <2> QED
    BY <2>1, <2>2
<1>6. Len(A) > 1
  BY <1>1, <1>2
<1>7. ~torn /\ ~header => A[1] = <<Version>> /\ ~Whole(A[1])
  BY <1>1, <1>2, TextFacts
<1>8. Fresh(A, batch)
  <2>1. \A k \in 1 .. Len(A) : Whole(A[k]) => \E i \in 1 .. Len(batch) : A[k] = <<NextOf(batch[i])>>
    BY <1>3
  <2> QED
    BY <1>1, <1>4, <1>5, <1>6, <1>7, <2>1 DEF Fresh
<1>9. ASSUME NEW n \in 1 .. Len(batch) PROVE \E k \in 1 .. Len(A) - 1 : A[k] = <<NextOf(batch[n])>>
  <2>1. t + h + n \in 1 .. Len(A) - 1
    BY <1>1, <1>2
  <2> QED
    BY <1>1, <2>1
<1> QED
  BY <1>1, <1>6, <1>8, <1>9 DEF A

(* A part of the text of a commit has no line the whole has not. *)
LEMMA FreshLeft ==
  ASSUME NEW batch, NEW A, Fresh(A, batch), Len(A) > 1, NEW g \in Left(A)
  PROVE  Fresh(g, batch)
<1>1. A \in Seq(Texts)
  BY DEF Fresh
<1>2. /\ g \in Seq(Texts) /\ Len(g) \in 1 .. Len(A) - 1
      /\ \A k \in 1 .. Len(g) - 1 : g[k] = A[k]
      /\ \/ g[Len(g)] = <<>> \/ g[Len(g)] = A[Len(g)]
         \/ g[Len(g)] = <<Frag>> /\ A[Len(g)] # <<>>
  BY <1>1, LeftShape
<1>3. Len(A) \in Nat /\ Len(g) \in Nat /\ \A k \in 1 .. Len(g) : k \in 1 .. Len(A) /\ (k < Len(g) => k \in 1 .. Len(A) - 1)
  BY <1>1, <1>2
<1>4. ASSUME NEW k \in 1 .. Len(g), Whole(g[k]) PROVE g[k] = A[k]
  BY <1>2, <1>3, <1>4, TextFacts
<1>5. torn => g[1] = <<>>
  <2>1. torn => A[1] = <<>>
    BY DEF Fresh
  <2>2. CASE Len(g) = 1
    BY <1>2, <2>1, <2>2
  <2>3. CASE Len(g) > 1
    BY <1>2, <2>1, <2>3
  <2>4. Len(g) = 1 \/ Len(g) > 1
    <3>1. Len(g) \in Nat /\ Len(g) # 0
      BY <1>2, <1>3
    <3> QED
      BY <3>1
  <2> QED
    BY <2>2, <2>3, <2>4
<1>6. ~torn /\ ~header => ~Whole(g[1]) /\ (Len(g) > 1 => g[1] = <<Version>>)
  <2>1. ~torn /\ ~header => ~Whole(A[1]) /\ A[1] = <<Version>>
    BY <1>2, <1>3 DEF Fresh
  <2>2. Len(g) > 1 => g[1] = A[1]
    BY <1>2
  <2>3. Whole(g[1]) => g[1] = A[1]
    BY <1>2, <1>4
  <2> QED
    BY <2>1, <2>2, <2>3
<1>7. \A k \in 1 .. Len(g) : Whole(g[k]) => \E i \in 1 .. Len(batch) : g[k] = <<NextOf(batch[i])>>
  BY <1>3, <1>4 DEF Fresh
<1>8. \A j, k \in 1 .. Len(g) : Whole(g[j]) /\ Whole(g[k]) /\ g[j] = g[k] => j = k
  BY <1>3, <1>4 DEF Fresh
<1>9. ~torn => \A k \in 1 .. Len(g) - 1 : (k = 1 /\ ~header) \/ Whole(g[k])
  <2> SUFFICES ASSUME ~torn, NEW k \in 1 .. Len(g) - 1 PROVE (k = 1 /\ ~header) \/ Whole(g[k])
    OBVIOUS
  <2>1. g[k] = A[k] /\ k \in 1 .. Len(A) - 1
    BY <1>2, <1>3
  <2> QED
    BY <2>1 DEF Fresh
<1> QED
  BY <1>2, <1>5, <1>6, <1>7, <1>8, <1>9 DEF Fresh

(* Writing after a file: its texts but the last stay, the last is continued, the rest follows. *)
LEMMA WriteShape ==
  ASSUME NEW f \in Seq(Texts), f # <<>>, NEW g \in Seq(Texts), Len(g) > 0
  PROVE  LET W == Write(f, g)
         IN  /\ W \in Seq(Texts) /\ Len(W) = Len(f) + Len(g) - 1
             /\ \A n \in 1 .. Len(f) - 1 : W[n] = f[n]
             /\ W[Len(f)] = f[Len(f)] \o g[1]
             /\ \A k \in 2 .. Len(g) : W[Len(f) + k - 1] = g[k]
<1> DEFINE N == Len(f)
           joined == f[N] \o g[1]
           pre == SubSeq(f, 1, N - 1)
           mid == <<joined>>
           post == Tail(g)
<1>1. /\ N \in Nat /\ N > 0 /\ Len(g) \in Nat /\ g # <<>> /\ g[1] \in Texts
      /\ \A i \in 1 .. N : f[i] \in Texts
  BY EmptySeq
<1>2. joined \in Texts
  BY <1>1 DEF Texts
<1> HIDE DEF N, joined
<1>3. mid \in Seq(Texts) /\ Len(mid) = 1 /\ mid[1] = joined
  BY <1>2
<1>4. pre \in Seq(Texts) /\ Len(pre) = N - 1 /\ \A i \in 1 .. N - 1 : pre[i] = f[i]
  <2>1. N - 1 \in Int /\ \A i \in 1 .. N - 1 : f[i] \in Texts
    BY <1>1
  <2>2. /\ SubSeq(f, 1, N - 1) \in Seq(Texts)
        /\ Len(SubSeq(f, 1, N - 1)) = IF 1 <= N - 1 THEN (N - 1) - 1 + 1 ELSE 0
        /\ \A i \in 1 .. (N - 1) - 1 + 1 : SubSeq(f, 1, N - 1)[i] = f[1 + i - 1]
    BY <2>1, SubSeqProperties
  <2> QED
    BY <1>1, <2>2
<1>5. post \in Seq(Texts) /\ Len(post) = Len(g) - 1 /\ \A i \in 1 .. Len(g) - 1 : post[i] = g[i + 1]
  BY <1>1, HeadTailProperties
<1>6. Head(g) = g[1]
  BY <1>1
<1>7. Write(f, g) = pre \o mid \o post
  BY <1>6 DEF Write, Front, Last, N, joined
<1> HIDE DEF pre, mid, post
<1>8. /\ pre \o mid \in Seq(Texts)
      /\ Len(pre \o mid) = Len(pre) + Len(mid)
      /\ \A i \in 1 .. Len(pre) + Len(mid) :
           (pre \o mid)[i] = IF i <= Len(pre) THEN pre[i] ELSE mid[i - Len(pre)]
  BY <1>3, <1>4, ConcatProperties
<1> DEFINE head == pre \o mid
<1>9. head \in Seq(Texts) /\ Len(head) = N
  BY <1>1, <1>3, <1>4, <1>8
<1>10. \A n \in 1 .. N - 1 : head[n] = f[n]
  BY <1>1, <1>3, <1>4, <1>8
<1>11. head[N] = joined
  BY <1>1, <1>3, <1>4, <1>8
<1> HIDE DEF head
<1>12. /\ head \o post \in Seq(Texts)
       /\ Len(head \o post) = Len(head) + Len(post)
       /\ \A i \in 1 .. Len(head) + Len(post) :
            (head \o post)[i] = IF i <= Len(head) THEN head[i] ELSE post[i - Len(head)]
  BY <1>5, <1>9, ConcatProperties
<1> DEFINE W == head \o post
<1>13. Write(f, g) = W
  BY <1>7 DEF head
<1>14. W \in Seq(Texts) /\ Len(W) = N + Len(g) - 1
  BY <1>1, <1>5, <1>9, <1>12
<1>15. \A n \in 1 .. N : W[n] = head[n]
  BY <1>1, <1>5, <1>9, <1>12
<1>16. ASSUME NEW k \in 2 .. Len(g) PROVE W[N + k - 1] = g[k]
  <2>1. N + k - 1 \in 1 .. Len(head) + Len(post) /\ ~(N + k - 1 <= Len(head))
        /\ (N + k - 1) - Len(head) = k - 1 /\ k - 1 \in 1 .. Len(g) - 1
    BY <1>1, <1>5, <1>9
  <2>2. W[N + k - 1] = post[k - 1]
    BY <2>1, <1>12
  <2> QED
    BY <2>1, <2>2, <1>5
<1> HIDE DEF W
<1>17. ASSUME NEW n \in 1 .. N - 1 PROVE W[n] = f[n]
  <2>1. n \in 1 .. N
    BY <1>1
  <2> QED
    BY <2>1, <1>10, <1>15
<1>18. W[N] = joined
  <2>1. N \in 1 .. N
    BY <1>1
  <2> QED
    BY <2>1, <1>11, <1>15
<1> QED
  BY <1>13, <1>14, <1>16, <1>17, <1>18 DEF N, joined

\* W is the file with fresh lines for the rows of the batch, each behind every old line.
Added(W, batch) ==
  /\ W \in Seq(Texts) /\ Len(W) > 0 /\ Len(W) >= Len(file)
  /\ \A n \in 1 .. Len(file) - 1 : W[n] = file[n]
  /\ \A n \in 1 .. Len(W) : n >= Len(file) /\ Whole(W[n]) =>
       n > 1 /\ \E i \in 1 .. Len(batch) : W[n] = <<NextOf(batch[i])>>
  /\ \A m, n \in 1 .. Len(W) :
       m >= Len(file) /\ n >= Len(file) /\ Whole(W[m]) /\ Whole(W[n]) /\ W[m] = W[n] => m = n

(* Where the fresh texts land. *)
LEMMA Placed ==
  ASSUME TypeOK, Ended, Remembered, Running, NEW batch, NEW g, Fresh(g, batch)
  PROVE  LET W == Write(file, g)
             L == IF file = <<>> THEN 1 ELSE Len(file)
         IN  /\ W \in Seq(Texts) /\ Len(W) = L + Len(g) - 1
             /\ \A n \in 1 .. L - 1 : W[n] = file[n]
             /\ \A k \in 2 .. Len(g) : W[L + k - 1] = g[k]
             /\ W[L] = g[1] \/ (torn /\ g[1] = <<>> /\ ~Whole(W[L]))
<1>1. g \in Seq(Texts) /\ Len(g) \in Nat /\ Len(g) > 0 /\ file \in Seq(Texts)
  BY DEF Fresh, TypeOK
<1>2. CASE file = <<>>
  <2>1. Write(file, g) = g
    BY <1>2 DEF Write
  <2>2. \A k \in 2 .. Len(g) : 1 + k - 1 = k
    BY <1>1
  <2>3. 1 + Len(g) - 1 = Len(g)
    BY <1>1
  <2> QED
    BY <1>1, <1>2, <2>1, <2>2, <2>3
<1>3. CASE file # <<>>
  <2> DEFINE W == Write(file, g)
  <2>1. /\ W \in Seq(Texts) /\ Len(W) = Len(file) + Len(g) - 1
        /\ \A n \in 1 .. Len(file) - 1 : W[n] = file[n]
        /\ W[Len(file)] = file[Len(file)] \o g[1]
        /\ \A k \in 2 .. Len(g) : W[Len(file) + k - 1] = g[k]
    BY <1>1, <1>3, WriteShape
  <2> HIDE DEF W
  <2>2. file[Len(file)] \in Seq(Pieces) /\ g[1] \in Seq(Pieces)
    <3>1. file[Len(file)] \in Texts /\ g[1] \in Texts
      BY <1>1, <1>3
    <3> QED
      BY <3>1 DEF Texts, Pieces
  <2>3. CASE torn
    <3>1. g[1] = <<>>
      BY <2>3 DEF Fresh
    <3>2. W[Len(file)] = file[Len(file)]
      BY <2>1, <2>2, <3>1, ConcatEmptySeq
    <3>3. ~Whole(W[Len(file)])
      BY <1>3, <3>2 DEF Ended
    <3> QED
      BY <1>3, <2>1, <2>3, <3>1, <3>3 DEF W
  <2>4. CASE ~torn
    <3>1. file[Len(file)] = <<>>
      BY <1>3, <2>4 DEF Remembered
    <3>2. W[Len(file)] = g[1]
      BY <2>1, <2>2, <3>1, ConcatEmptySeq
    <3> QED
      BY <1>3, <2>1, <3>2 DEF W
  <2> QED
    BY <2>3, <2>4
<1> QED
  BY <1>2, <1>3

(* Writing fresh texts adds fresh lines, and every fresh line is there. *)
LEMMA WriteAdds ==
  ASSUME TypeOK, Ended, Remembered, Running, NEW batch, NEW g, Fresh(g, batch)
  PROVE  LET W == Write(file, g)
         IN  /\ Added(W, batch)
             /\ Len(g) > 1 => Len(W) > 1 /\ W[Len(W)] = g[Len(g)]
             /\ \A k \in 1 .. Len(g) : Whole(g[k]) => \E n \in 2 .. Len(W) : W[n] = g[k]
<1> DEFINE W == Write(file, g)
           L == IF file = <<>> THEN 1 ELSE Len(file)
<1>1. /\ W \in Seq(Texts) /\ Len(W) = L + Len(g) - 1
      /\ \A n \in 1 .. L - 1 : W[n] = file[n]
      /\ \A k \in 2 .. Len(g) : W[L + k - 1] = g[k]
      /\ W[L] = g[1] \/ (torn /\ g[1] = <<>> /\ ~Whole(W[L]))
  BY Placed
<1>2. /\ L \in Nat /\ L > 0 /\ Len(file) \in Nat /\ L >= Len(file)
      /\ \A n \in 1 .. Len(file) - 1 : n \in 1 .. L - 1
      /\ L > 1 <=> file # <<>>
      /\ \A n \in Nat : n > 0 /\ n >= Len(file) => n >= L
  <2>1. file = <<>> => Len(file) = 0
    OBVIOUS
  <2>2. Len(file) \in Nat /\ (file # <<>> => Len(file) > 1)
    BY DEF TypeOK, Ended
  <2> QED
    BY <2>1, <2>2
<1>3. g \in Seq(Texts) /\ Len(g) \in Nat /\ Len(g) > 0
  BY DEF Fresh
<1>4. file = <<>> => ~Whole(g[1])
  <2>1. file = <<>> => ~header
    BY DEF Remembered
  <2>2. torn => ~Whole(g[1])
    BY TextFacts DEF Fresh
  <2> QED
    BY <2>1, <2>2 DEF Fresh
<1> HIDE DEF W, L
<1>5. ASSUME NEW n \in 1 .. Len(W), n >= Len(file), Whole(W[n])
      PROVE  /\ n > 1
             /\ n - L + 1 \in 1 .. Len(g) /\ W[n] = g[n - L + 1]
  <2>1. n >= L
    BY <1>2, <1>5
  <2>2. CASE n = L
    <3>1. W[n] = g[1] /\ n - L + 1 = 1
      BY <1>1, <1>2, <1>5, <2>2
    <3>2. file # <<>>
      BY <1>4, <1>5, <3>1
    <3> QED
      BY <1>2, <1>3, <2>2, <3>1, <3>2
  <2>3. CASE n > L
    <3>1. n - L + 1 \in 2 .. Len(g) /\ L + (n - L + 1) - 1 = n
      BY <1>1, <1>2, <1>3, <2>3
    <3>2. W[n] = g[n - L + 1]
      BY <1>1, <3>1
    <3> QED
      BY <1>2, <1>3, <2>3, <3>1, <3>2
  <2> QED
    BY <1>2, <2>1, <2>2, <2>3
<1>6. ASSUME NEW n \in 1 .. Len(W), n >= Len(file), Whole(W[n])
      PROVE  n > 1 /\ \E i \in 1 .. Len(batch) : W[n] = <<NextOf(batch[i])>>
  BY <1>5, <1>6 DEF Fresh
<1>7. ASSUME NEW m \in 1 .. Len(W), NEW n \in 1 .. Len(W), m >= Len(file), n >= Len(file),
             Whole(W[m]), Whole(W[n]), W[m] = W[n]
      PROVE  m = n
  <2>1. m - L + 1 \in 1 .. Len(g) /\ W[m] = g[m - L + 1]
    BY <1>5, <1>7
  <2>2. n - L + 1 \in 1 .. Len(g) /\ W[n] = g[n - L + 1]
    BY <1>5, <1>7
  <2>3. m - L + 1 = n - L + 1
    BY <1>7, <2>1, <2>2 DEF Fresh
  <2> QED
    BY <1>2, <2>3
<1>8. Len(W) \in Nat /\ Len(W) > 0 /\ Len(W) >= Len(file) /\ Len(W) >= Len(g)
  BY <1>1, <1>2, <1>3
<1>9. Added(W, batch)
  <2>1. \A n \in 1 .. Len(file) - 1 : W[n] = file[n]
    BY <1>1, <1>2
  <2>2. W \in Seq(Texts)
    BY <1>1
  <2> QED
    BY <1>6, <1>7, <1>8, <2>1, <2>2 DEF Added
<1>10. ASSUME Len(g) > 1 PROVE Len(W) > 1 /\ W[Len(W)] = g[Len(g)]
  <2>1. Len(g) \in 2 .. Len(g) /\ L + Len(g) - 1 = Len(W)
    BY <1>1, <1>3, <1>10
  <2> QED
    BY <1>1, <1>8, <1>10, <2>1
<1>11. ASSUME NEW k \in 1 .. Len(g), Whole(g[k]) PROVE \E n \in 2 .. Len(W) : W[n] = g[k]
  <2>1. CASE k = 1
    <3>1. file # <<>> /\ g[1] # <<>>
      BY <1>4, <1>11, <2>1, TextFacts
    <3>2. W[L] = g[1] /\ L \in 2 .. Len(W)
      BY <1>1, <1>2, <1>3, <3>1
    <3> QED
      BY <2>1, <3>2
  <2>2. CASE k # 1
    <3>1. k \in 2 .. Len(g) /\ L + k - 1 \in 2 .. Len(W)
      BY <1>1, <1>2, <1>3, <2>2
    <3> QED
      BY <1>1, <3>1
  <2> QED
    BY <2>1, <2>2
<1> QED
  BY <1>9, <1>10, <1>11 DEF W

-----------------------------------------------------------------------------
(* What a write does to the lines of a receipt.                             *)

LEMMA HeldAdded ==
  ASSUME TypeOK, Ended, NEW batch, IsBatch(batch), NEW W, Added(W, batch), NEW id \in Ids
  PROVE  /\ \A n \in Held(file, id) : n \in Held(W, id) /\ W[n] = file[n] /\ n < Len(file)
         /\ \A n \in Held(W, id) :
              \/ n \in Held(file, id) /\ W[n] = file[n]
              \/ /\ n >= Len(file) /\ W[n] = <<NextOf(id)>> /\ W[n][1].rev = revision[id] + 1
                 /\ \E i \in 1 .. Len(batch) : batch[i] = id
<1>1. Len(file) \in Nat /\ Len(W) \in Nat /\ Len(W) >= Len(file) /\ file \in Seq(Texts)
  BY DEF TypeOK, Added
<1>2. ASSUME NEW n \in Held(file, id) PROVE n \in Held(W, id) /\ W[n] = file[n] /\ n < Len(file)
  <2>1. n \in 2 .. Len(file) /\ Whole(file[n]) /\ file[n][1].id = id
    BY DEF Held
  <2>2. n # Len(file)
    BY <1>1, <2>1 DEF Ended
  <2>3. n \in 1 .. Len(file) - 1 /\ n \in 2 .. Len(W)
    BY <1>1, <2>1, <2>2
  <2>4. W[n] = file[n]
    BY <2>3 DEF Added
  <2> QED
    BY <1>1, <2>1, <2>3, <2>4 DEF Held
<1>3. ASSUME NEW n \in Held(W, id)
      PROVE  \/ n \in Held(file, id) /\ W[n] = file[n]
             \/ /\ n >= Len(file) /\ W[n] = <<NextOf(id)>> /\ W[n][1].rev = revision[id] + 1
                /\ \E i \in 1 .. Len(batch) : batch[i] = id
  <2>1. n \in 2 .. Len(W) /\ Whole(W[n]) /\ W[n][1].id = id
    BY DEF Held
  <2>2. CASE n < Len(file)
    <3>1. n \in 1 .. Len(file) - 1 /\ n \in 2 .. Len(file)
      BY <1>1, <2>1, <2>2
    <3>2. W[n] = file[n]
      BY <3>1 DEF Added
    <3> QED
      BY <2>1, <3>1, <3>2 DEF Held
  <2>3. CASE n >= Len(file)
    <3>1. n \in 1 .. Len(W)
      BY <2>1
    <3>2. PICK i \in 1 .. Len(batch) : W[n] = <<NextOf(batch[i])>>
      BY <2>1, <2>3, <3>1 DEF Added
    <3>3. batch[i] \in Ids /\ revision \in [Ids -> Nat]
      BY DEF IsBatch, TypeOK
    <3>4. batch[i] = id /\ W[n][1].rev = revision[id] + 1
      BY <2>1, <3>2, <3>3, NextOfFacts
    <3> QED
      BY <2>3, <3>2, <3>4
  <2> QED
    BY <1>1, <2>1, <2>2, <2>3
<1> QED
  BY <1>2, <1>3

(* No line is beyond the bound of the revisions. *)
LEMMA AddedBounded ==
  ASSUME TypeOK, Bounded, Ended, NEW batch, IsBatch(batch), Committing(batch), NEW W, Added(W, batch),
         NEW n \in 1 .. Len(W), Whole(W[n])
  PROVE  W[n][1].rev <= MaxRevision
<1>1. Len(file) \in Nat /\ file \in Seq(Texts) /\ MaxRevision \in Nat /\ revision \in [Ids -> Nat]
  BY StorageAssumption DEF TypeOK
<1>2. CASE n < Len(file)
  <2>1. n \in 1 .. Len(file) - 1 /\ n \in 1 .. Len(file)
    BY <1>1, <1>2
  <2>2. W[n] = file[n]
    BY <2>1 DEF Added
  <2> QED
    BY <2>1, <2>2 DEF Bounded
<1>3. CASE n >= Len(file)
  <2>1. PICK i \in 1 .. Len(batch) : W[n] = <<NextOf(batch[i])>>
    BY <1>3 DEF Added
  <2>2. batch[i] \in Ids /\ revision[batch[i]] < MaxRevision
    BY DEF IsBatch, Committing
  <2>3. W[n][1].rev = revision[batch[i]] + 1
    BY <1>1, <2>1, <2>2, NextOfFacts
  <2> QED
    BY <1>1, <2>2, <2>3
<1> QED
  BY <1>1, <1>2, <1>3

(* What was acknowledged keeps its line. *)
LEMMA AddedKept ==
  ASSUME TypeOK, Ended, Kept, NEW batch, IsBatch(batch), NEW W, Added(W, batch)
  PROVE  \A id \in Ids : acked[id] > 0 => \E n \in Held(W, id) : W[n][1].rev >= acked[id]
BY HeldAdded DEF Kept

(* While no append failed, a file that was written to stays good, however little landed. *)
LEMMA AddedGood ==
  ASSUME TypeOK, Ended, Remembered, Mirrored, Running, clean, NEW batch, IsBatch(batch),
         NEW g, Fresh(g, batch), Len(Write(file, g)) > 1
  PROVE  Good(Write(file, g))
<1> DEFINE W == Write(file, g)
           L == IF file = <<>> THEN 1 ELSE Len(file)
<1>1. /\ W \in Seq(Texts) /\ Len(W) = L + Len(g) - 1
      /\ \A n \in 1 .. L - 1 : W[n] = file[n]
      /\ \A k \in 2 .. Len(g) : W[L + k - 1] = g[k]
      /\ W[L] = g[1] \/ (torn /\ g[1] = <<>> /\ ~Whole(W[L]))
  BY Placed
<1>2. Added(W, batch)
  BY WriteAdds
<1>3. /\ ~torn /\ (file = <<>> <=> ~header)
      /\ file # <<>> => Good(file) /\ Agrees(file, revision)
  BY DEF Mirrored
<1>4. /\ Len(g) \in Nat /\ Len(g) > 0 /\ file \in Seq(Texts) /\ Len(file) \in Nat /\ Len(W) > 1
      /\ file = <<>> => L = 1 /\ Len(file) = 0
      /\ file # <<>> => L = Len(file) /\ L > 1
  BY DEF Fresh, TypeOK, Ended
<1> HIDE DEF W, L
<1>5. W[1] = <<Version>>
  <2>1. CASE file = <<>>
    <3>1. Len(g) > 1 /\ W[1] = g[1]
      BY <1>1, <1>3, <1>4, <2>1
    <3> QED
      BY <1>3, <2>1, <3>1 DEF Fresh
  <2>2. CASE file # <<>>
    <3>1. 1 \in 1 .. L - 1
      BY <1>4, <2>2
    <3> QED
      BY <1>1, <1>3, <2>2, <3>1 DEF Good
  <2> QED
    BY <2>1, <2>2
<1>6. ASSUME NEW n \in 2 .. Len(W) - 1 PROVE W[n] = <<>> \/ Whole(W[n])
  <2>1. CASE n < L
    <3>1. n \in 1 .. L - 1 /\ n \in 2 .. Len(file) - 1 /\ file # <<>>
      BY <1>1, <1>4, <2>1
    <3> QED
      BY <1>1, <1>3, <3>1 DEF Good
  <2>2. CASE n >= L
    <3>1. n - L + 1 \in 1 .. Len(g) - 1
      <4>0. L \in Nat /\ Len(W) \in Nat
        <5>1. L \in Nat
          BY <1>4
        <5>2. Len(W) \in Nat
          BY <1>1
        <5> QED
          BY <5>1, <5>2
      <4>1. L \in Nat /\ n \in Nat /\ n <= Len(W) - 1
        BY <4>0
      <4>2. Len(W) = L + Len(g) - 1
        BY <1>1
      <4> QED
        BY <1>4, <2>2, <4>1, <4>2
    <3>2. W[n] = g[n - L + 1]
      <4>1. CASE n = L
        <5>1. n - L + 1 = 1
          BY <1>4, <4>1
        <5> QED
          BY <1>1, <1>3, <4>1, <5>1
      <4>2. CASE n # L
        <5>1. n - L + 1 \in 2 .. Len(g) /\ L + (n - L + 1) - 1 = n
          BY <1>4, <2>2, <3>1, <4>2
        <5> QED
          BY <1>1, <5>1
      <4> QED
        BY <4>1, <4>2
    <3>3. ~(n - L + 1 = 1 /\ ~header)
      BY <1>3, <1>4
    <3> QED
      BY <1>3, <3>1, <3>2, <3>3 DEF Fresh
  <2> QED
    BY <1>1, <1>4, <2>1, <2>2
<1>7. ASSUME NEW id \in Ids, NEW m \in Held(W, id), NEW n \in Held(W, id), m < n
      PROVE  W[m][1].rev < W[n][1].rev
  <2>1. revision[id] \in Nat
    BY DEF TypeOK
  <2>2. \/ m \in Held(file, id) /\ W[m] = file[m] /\ m < Len(file)
        \/ m >= Len(file) /\ W[m] = <<NextOf(id)>> /\ W[m][1].rev = revision[id] + 1
    BY <1>2, HeldAdded
  <2>3. \/ n \in Held(file, id) /\ W[n] = file[n] /\ n < Len(file)
        \/ n >= Len(file) /\ W[n] = <<NextOf(id)>> /\ W[n][1].rev = revision[id] + 1
    BY <1>2, HeldAdded
  <2>4. m \in 2 .. Len(W) /\ n \in 2 .. Len(W) /\ Whole(W[m]) /\ Whole(W[n])
    BY DEF Held
  <2>5. CASE m \in Held(file, id) /\ W[m] = file[m]
    <3>1. file # <<>>
      BY <1>4, <2>5 DEF Held
    <3>2. file[m][1].rev <= revision[id]
      BY <1>3, <2>5, <3>1 DEF Agrees
    <3>3. file[m][1].rev \in Nat
      <4>1. m \in 1 .. Len(file) /\ Whole(file[m])
        BY <2>5 DEF Held
      <4>2. file[m] \in Texts
        BY <1>4, <4>1
      <4> QED
        BY <4>1, <4>2, TextFacts
    <3>4. CASE n \in Held(file, id) /\ W[n] = file[n]
      BY <1>3, <1>7, <2>5, <3>1, <3>4 DEF Good
    <3>5. CASE W[n][1].rev = revision[id] + 1
      BY <2>1, <2>5, <3>2, <3>3, <3>5
    <3> QED
      BY <2>3, <3>4, <3>5
  <2>6. CASE m >= Len(file) /\ W[m] = <<NextOf(id)>>
    <3>1. n >= Len(file) /\ W[n] = <<NextOf(id)>>
      BY <1>4, <1>7, <2>3, <2>4, <2>6
    <3>2. m \in 1 .. Len(W) /\ n \in 1 .. Len(W)
      BY <2>4
    <3>3. m = n
      BY <2>4, <2>6, <3>1, <3>2, <1>2 DEF Added
    <3> QED
      BY <1>7, <2>4, <3>3
  <2> QED
    BY <2>2, <2>5, <2>6
<1> QED
  BY <1>5, <1>6, <1>7 DEF Good, W

LEMMA RevisedType ==
  ASSUME TypeOK, NEW batch, IsBatch(batch)
  PROVE  /\ Revised(batch) \in [Ids -> Nat]
         /\ \A id \in Ids :
              /\ (\E n \in 1 .. Len(batch) : batch[n] = id) => Revised(batch)[id] = revision[id] + 1
              /\ ~(\E n \in 1 .. Len(batch) : batch[n] = id) => Revised(batch)[id] = revision[id]
<1>1. DOMAIN batch = 1 .. Len(batch)
  BY DEF IsBatch
<1>2. \A id \in Ids : revision[id] \in Nat
  BY DEF TypeOK
<1> QED
  BY <1>1, <1>2 DEF Revised

(* Every row of a whole commit has its line. *)
LEMMA CommitHeld ==
  ASSUME TypeOK, Ended, Remembered, Running, NEW batch, IsBatch(batch), NEW i \in 1 .. Len(batch)
  PROVE  LET W == Write(file, Appended(batch))
         IN  \E n \in Held(W, batch[i]) : W[n][1].rev = revision[batch[i]] + 1
<1> DEFINE W == Write(file, Appended(batch))
           A == Appended(batch)
<1>1. revision \in [Ids -> Nat] /\ header \in BOOLEAN /\ torn \in BOOLEAN /\ batch[i] \in Ids
  BY DEF TypeOK, IsBatch
<1>2. /\ Fresh(A, batch)
      /\ \A n \in 1 .. Len(batch) : \E k \in 1 .. Len(A) - 1 : A[k] = <<NextOf(batch[n])>>
  BY <1>1, FreshAppended
<1>3. \A k \in 1 .. Len(A) : Whole(A[k]) => \E n \in 2 .. Len(W) : W[n] = A[k]
  BY <1>2, WriteAdds
<1> HIDE DEF W, A
<1>4. PICK k \in 1 .. Len(A) - 1 : A[k] = <<NextOf(batch[i])>>
  BY <1>2
<1>5. Whole(A[k]) /\ A[k][1].id = batch[i] /\ A[k][1].rev = revision[batch[i]] + 1
  BY <1>1, <1>4, NextOfFacts
<1>6. k \in 1 .. Len(A)
  BY <1>2 DEF Fresh
<1>7. PICK n \in 2 .. Len(W) : W[n] = A[k]
  BY <1>3, <1>5, <1>6
<1>8. n \in Held(W, batch[i]) /\ W[n][1].rev = revision[batch[i]] + 1
  BY <1>5, <1>7 DEF Held
<1> QED
  BY <1>8 DEF W

(* While no append failed: when fresh lines are those of the receipts in S, the file says one more
   revision of each of them, and of the others what memory says. *)
LEMMA FreshAgrees ==
  ASSUME TypeOK, Ended, Mirrored, Running, clean, NEW batch, IsBatch(batch), NEW W, Added(W, batch),
         NEW S \in SUBSET Ids, NEW revs,
         \A id \in Ids : revs[id] = IF id \in S THEN revision[id] + 1 ELSE revision[id],
         \A id \in Ids : \A n \in Held(W, id) : n >= Len(file) => id \in S,
         \A id \in S : \E n \in Held(W, id) : W[n][1].rev = revision[id] + 1
  PROVE  Agrees(W, revs)
<1>1. SUFFICES ASSUME NEW id \in Ids
               PROVE  /\ \A n \in Held(W, id) : W[n][1].rev <= revs[id]
                      /\ revs[id] > 0 => \E n \in Held(W, id) : W[n][1].rev = revs[id]
  BY DEF Agrees
<1>2. revision[id] \in Nat
  BY DEF TypeOK
<1>3. \A n \in Held(file, id) : file[n][1].rev \in Nat /\ file[n][1].rev <= revision[id]
  <2> SUFFICES ASSUME NEW n \in Held(file, id)
               PROVE  file[n][1].rev \in Nat /\ file[n][1].rev <= revision[id]
    OBVIOUS
  <2>1. n \in 2 .. Len(file) /\ Whole(file[n])
    BY DEF Held
  <2>2. file \in Seq(Texts) /\ file # <<>>
    BY <2>1 DEF TypeOK
  <2>3. file[n] \in Texts
    BY <2>1, <2>2
  <2> QED
    BY <2>1, <2>2, <2>3, TextFacts DEF Mirrored, Agrees
<1>4. CASE id \in S
  <2>1. revs[id] = revision[id] + 1
    BY <1>4
  <2>2. \A n \in Held(W, id) : W[n][1].rev <= revision[id] + 1
    BY <1>2, <1>3, HeldAdded
  <2> QED
    BY <1>4, <2>1, <2>2
<1>5. CASE id \notin S
  <2>1. revs[id] = revision[id]
    BY <1>5
  <2>2. \A n \in Held(W, id) : n \in Held(file, id) /\ W[n] = file[n]
    BY <1>5, HeldAdded
  <2>3. ASSUME revision[id] > 0 PROVE \E n \in Held(W, id) : W[n][1].rev = revision[id]
    <3>1. file # <<>>
      BY <1>2, <2>3 DEF Mirrored
    <3>2. PICK n \in Held(file, id) : file[n][1].rev = revision[id]
      BY <2>3, <3>1 DEF Mirrored, Agrees
    <3> QED
      BY <3>2, HeldAdded
  <2> QED
    BY <1>3, <2>1, <2>2, <2>3
<1> QED
  BY <1>4, <1>5

(* While no append failed, memory and file agree after a commit. *)
LEMMA CommitAgrees ==
  ASSUME TypeOK, Ended, Remembered, Mirrored, Running, clean, NEW batch, IsBatch(batch)
  PROVE  Agrees(Write(file, Appended(batch)), Revised(batch))
<1> DEFINE W == Write(file, Appended(batch))
           S == {id \in Ids : \E n \in 1 .. Len(batch) : batch[n] = id}
<1>1. revision \in [Ids -> Nat] /\ header \in BOOLEAN /\ torn \in BOOLEAN
  BY DEF TypeOK
<1>2. Added(W, batch)
  BY <1>1, FreshAppended, WriteAdds
<1>3. \A i \in 1 .. Len(batch) : \E n \in Held(W, batch[i]) : W[n][1].rev = revision[batch[i]] + 1
  BY CommitHeld
<1> HIDE DEF W
<1>4. \A id \in Ids : Revised(batch)[id] = IF id \in S THEN revision[id] + 1 ELSE revision[id]
  BY RevisedType
<1>5. \A id \in S : \E n \in Held(W, id) : W[n][1].rev = revision[id] + 1
  BY <1>3
<1>6. \A id \in Ids : \A n \in Held(W, id) : n >= Len(file) => id \in S
  <2> SUFFICES ASSUME NEW id \in Ids, NEW n \in Held(W, id), n >= Len(file) PROVE id \in S
    OBVIOUS
  <2>1. Len(file) \in Nat /\ n \in Nat
    BY DEF TypeOK, Held
  <2>2. n \notin Held(file, id)
    BY <1>2, <2>1, HeldAdded
  <2>3. \E i \in 1 .. Len(batch) : batch[i] = id
    BY <1>2, <2>2, HeldAdded
  <2> QED
    BY <2>3
<1> HIDE DEF S
<1>7. S \in SUBSET Ids
  BY DEF S
<1> QED
  BY <1>2, <1>4, <1>5, <1>6, <1>7, FreshAgrees DEF W

-----------------------------------------------------------------------------
(* Compaction and reading.                                                  *)

(* A rewrite is a good file that says of every receipt what memory says. *)
LEMMA CompactedFacts ==
  ASSUME NEW revs \in [Ids -> Nat], IsFiniteSet({id \in Ids : revs[id] > 0})
  PROVE  LET C == Compacted(revs)
         IN  /\ C \in Seq(Texts) /\ Len(C) > 1 /\ C[Len(C)] = <<>>
             /\ Good(C) /\ Agrees(C, revs)
             /\ \A n \in 1 .. Len(C) : Whole(C[n]) => \E id \in Ids : C[n] = <<Piece(id, revs[id])>>
<1> DEFINE S == {id \in Ids : revs[id] > 0}
           live == SetToSeq(S)
           rows == [n \in DOMAIN live |-> Piece(live[n], revs[live[n]])]
           first == <<Version>>
           ps == first \o rows
           C == OnLines(ps)
<1>1. /\ live \in Seq(S)
      /\ \A m, n \in 1 .. Len(live) : live[m] = live[n] => m = n
      /\ \A x \in S : \E n \in 1 .. Len(live) : live[n] = x
  BY Listing
<1> HIDE DEF live
<1>2. Len(live) \in Nat /\ DOMAIN live = 1 .. Len(live) /\ \A n \in 1 .. Len(live) : live[n] \in Ids
  <2>1. \A n \in 1 .. Len(live) : live[n] \in S
    BY <1>1
  <2> QED
    BY <1>1, <2>1
<1>3. \A n \in 1 .. Len(live) : Piece(live[n], revs[live[n]]) \in Pieces
  BY <1>2, TextFacts
<1>4. rows \in Seq(Pieces) /\ Len(rows) = Len(live)
      /\ \A n \in 1 .. Len(live) : rows[n] = Piece(live[n], revs[live[n]])
  <2>1. rows \in [1 .. Len(live) -> Pieces]
    BY <1>2, <1>3
  <2> QED
    BY <1>2, <2>1
<1> HIDE DEF rows
<1>5. first \in Seq(Pieces) /\ Len(first) = 1 /\ first[1] = Version
  <2>1. Version \in Pieces
    BY DEF Version, Piece, Pieces
  <2> QED
    BY <2>1
<1> HIDE DEF first
<1>6. /\ ps \in Seq(Pieces)
      /\ Len(ps) = Len(first) + Len(rows)
      /\ \A i \in 1 .. Len(first) + Len(rows) : ps[i] = IF i <= Len(first) THEN first[i] ELSE rows[i - Len(first)]
  BY <1>4, <1>5, ConcatProperties
<1> HIDE DEF ps
<1>7. Len(ps) = Len(live) + 1 /\ ps[1] = Version
      /\ \A n \in 1 .. Len(live) : ps[n + 1] = Piece(live[n], revs[live[n]])
  <2>1. Len(ps) = Len(live) + 1 /\ ps[1] = Version
    BY <1>2, <1>4, <1>5, <1>6
  <2>2. ASSUME NEW n \in 1 .. Len(live) PROVE ps[n + 1] = Piece(live[n], revs[live[n]])
    <3>1. n + 1 \in 1 .. Len(first) + Len(rows) /\ ~(n + 1 <= Len(first)) /\ (n + 1) - Len(first) = n
      BY <1>2, <1>4, <1>5
    <3> QED
      BY <1>4, <1>6, <3>1
  <2> QED
    BY <2>1, <2>2
<1>8. /\ C \in Seq(Texts) /\ Len(C) = Len(ps) + 1
      /\ \A n \in 1 .. Len(ps) : C[n] = <<ps[n]>>
      /\ C[Len(ps) + 1] = <<>>
  BY <1>6, OnLinesShape
<1> HIDE DEF C
<1>9. /\ Len(C) = Len(live) + 2 /\ C[1] = <<Version>> /\ C[Len(live) + 2] = <<>>
      /\ \A n \in 1 .. Len(live) : C[n + 1] = <<Piece(live[n], revs[live[n]])>>
  <2>1. Len(C) = Len(live) + 2 /\ C[Len(live) + 2] = <<>>
    BY <1>2, <1>7, <1>8
  <2>2. 1 \in 1 .. Len(ps) /\ \A n \in 1 .. Len(live) : n + 1 \in 1 .. Len(ps)
    BY <1>2, <1>7
  <2> QED
    BY <1>7, <1>8, <2>1, <2>2
<1>10. \A n \in 1 .. Len(live) :
         /\ Whole(C[n + 1]) /\ C[n + 1][1].id = live[n] /\ C[n + 1][1].rev = revs[live[n]]
  BY <1>2, <1>9, TextFacts
<1>11. ASSUME NEW n \in 1 .. Len(C), Whole(C[n]) PROVE n - 1 \in 1 .. Len(live) /\ n = (n - 1) + 1
  <2>1. n # 1 /\ n # Len(live) + 2
    BY <1>9, <1>11, TextFacts
  <2> QED
    BY <1>2, <1>9, <2>1
<1>12. ASSUME NEW n \in 1 .. Len(C), Whole(C[n])
       PROVE  \E id \in Ids : C[n] = <<Piece(id, revs[id])>>
  BY <1>2, <1>9, <1>11, <1>12
<1>13. ASSUME NEW id \in Ids, NEW n \in Held(C, id)
       PROVE  n - 1 \in 1 .. Len(live) /\ n = (n - 1) + 1 /\ live[n - 1] = id /\ C[n][1].rev = revs[id]
  <2>1. n \in 2 .. Len(C) /\ n \in 1 .. Len(C) /\ Whole(C[n]) /\ C[n][1].id = id
    BY <1>8 DEF Held
  <2>2. n - 1 \in 1 .. Len(live) /\ n = (n - 1) + 1
    BY <1>11, <2>1
  <2>3. C[(n - 1) + 1][1].id = live[n - 1] /\ C[(n - 1) + 1][1].rev = revs[live[n - 1]]
    BY <1>10, <2>2
  <2> QED
    BY <2>1, <2>2, <2>3
<1>14. Good(C)
  <2>1. ASSUME NEW n \in 2 .. Len(C) - 1 PROVE Whole(C[n])
    <3>1. n - 1 \in 1 .. Len(live) /\ n = (n - 1) + 1
      BY <1>2, <1>9
    <3>2. Whole(C[(n - 1) + 1])
      BY <1>10, <3>1
    <3> QED
      BY <3>1, <3>2
  <2>2. ASSUME NEW id \in Ids, NEW m \in Held(C, id), NEW n \in Held(C, id), m < n
        PROVE  FALSE
    <3>1. /\ m - 1 \in 1 .. Len(live) /\ m = (m - 1) + 1 /\ live[m - 1] = id
          /\ n - 1 \in 1 .. Len(live) /\ n = (n - 1) + 1 /\ live[n - 1] = id
      BY <1>13
    <3>2. m - 1 = n - 1
      BY <1>1, <3>1
    <3>3. m = n
      BY <3>1, <3>2
    <3>4. m \in Nat
      BY DEF Held
    <3> QED
      BY <2>2, <3>3, <3>4
  <2> QED
    BY <1>9, <2>1, <2>2 DEF Good
<1>15. Agrees(C, revs)
  <2> SUFFICES ASSUME NEW id \in Ids
               PROVE  /\ \A n \in Held(C, id) : C[n][1].rev <= revs[id]
                      /\ revs[id] > 0 => \E n \in Held(C, id) : C[n][1].rev = revs[id]
    BY DEF Agrees
  <2>1. \A n \in Held(C, id) : C[n][1].rev <= revs[id]
    BY <1>13
  <2>2. ASSUME revs[id] > 0 PROVE \E n \in Held(C, id) : C[n][1].rev = revs[id]
    <3>1. PICK n \in 1 .. Len(live) : live[n] = id
      BY <1>1, <2>2
    <3>2. n + 1 \in 2 .. Len(C)
      BY <1>2, <1>9
    <3>3. n + 1 \in Held(C, id) /\ C[n + 1][1].rev = revs[id]
      BY <1>10, <3>1, <3>2 DEF Held
    <3> QED
      BY <3>3
  <2> QED
    BY <2>1, <2>2
<1>16. Len(C) > 1 /\ C[Len(C)] = <<>>
  BY <1>2, <1>9
<1>17. Compacted(revs) = C
  BY DEF Compacted, C, ps, first, rows, live
<1> QED
  BY <1>8, <1>12, <1>14, <1>15, <1>16, <1>17

(* Reading back finds the greatest revision of every receipt that has a line, and 0 of the others. *)
LEMMA ReadBackFacts ==
  ASSUME NEW f \in Seq(Texts), \A n \in 1 .. Len(f) : Whole(f[n]) => f[n][1].rev <= MaxRevision
  PROVE  /\ ReadBack(f) \in [Ids -> Nat]
         /\ \A id \in Ids : /\ \A n \in Held(f, id) : f[n][1].rev <= ReadBack(f)[id]
                            /\ ReadBack(f)[id] # 0 => \E n \in Held(f, id) : f[n][1].rev = ReadBack(f)[id]
                            /\ ReadBack(f)[id] <= MaxRevision
         /\ IsFiniteSet({id \in Ids : ReadBack(f)[id] > 0})
<1> DEFINE Revs(id) == {f[n][1].rev : n \in Held(f, id)}
           R == ReadBack(f)
<1>1. R = [id \in Ids |-> IF Revs(id) = {} THEN 0 ELSE CHOOSE r \in Revs(id) : \A q \in Revs(id) : q <= r]
  BY DEF ReadBack, Held
<1>2. \A id \in Ids : \A n \in Held(f, id) : f[n][1].rev \in Nat /\ f[n][1].rev <= MaxRevision
  <2> SUFFICES ASSUME NEW id \in Ids, NEW n \in Held(f, id)
               PROVE  f[n][1].rev \in Nat /\ f[n][1].rev <= MaxRevision
    OBVIOUS
  <2>1. n \in 1 .. Len(f) /\ Whole(f[n])
    BY DEF Held
  <2>2. f[n] \in Texts
    BY <2>1
  <2> QED
    BY <2>1, <2>2, TextFacts
<1>3. MaxRevision \in Nat
  BY StorageAssumption
<1> HIDE DEF R
<1>4. ASSUME NEW id \in Ids
      PROVE  /\ R[id] \in Nat /\ R[id] <= MaxRevision
             /\ \A n \in Held(f, id) : f[n][1].rev <= R[id]
             /\ R[id] # 0 => \E n \in Held(f, id) : f[n][1].rev = R[id]
  <2>1. CASE Revs(id) = {}
    <3>1. R[id] = 0
      BY <1>1, <2>1
    <3>2. Held(f, id) = {}
      BY <2>1
    <3> QED
      BY <1>3, <3>1, <3>2
  <2>2. CASE Revs(id) # {}
    <3>1. Revs(id) \in SUBSET Nat /\ \A r \in Revs(id) : r <= MaxRevision
      BY <1>2
    <3> DEFINE T == Revs(id)
    <3>2. \E r \in T : \A q \in T : q <= r
      <4> HIDE DEF T
      <4> QED
        BY <1>3, <2>2, <3>1, Greatest DEF T
    <3>3. R[id] = CHOOSE r \in T : \A q \in T : q <= r
      BY <1>1, <2>2
    <3>4. R[id] \in T /\ \A q \in T : q <= R[id]
      <4> HIDE DEF T
      <4> QED
        BY <3>2, <3>3
    <3> QED
      BY <3>1, <3>4
  <2> QED
    BY <2>1, <2>2
<1>5. R \in [Ids -> Nat]
  <2>1. \A id \in Ids : R[id] \in Nat
    BY <1>4
  <2> QED
    BY <1>1, <2>1
<1>6. IsFiniteSet({id \in Ids : R[id] > 0})
  <2> DEFINE S == {id \in Ids : R[id] > 0}
             line == [id \in S |-> CHOOSE n \in Held(f, id) : TRUE]
  <2>1. \A id \in S : line[id] \in Held(f, id)
    <3> SUFFICES ASSUME NEW id \in S PROVE line[id] \in Held(f, id)
      OBVIOUS
    <3>1. \E n \in Held(f, id) : TRUE
      BY <1>4
    <3> QED
      BY <3>1
  <2>2. \A id \in S : line[id] \in 2 .. Len(f) /\ f[line[id]][1].id = id
    BY <2>1 DEF Held
  <2>3. line \in [S -> 2 .. Len(f)]
    BY <2>2
  <2>5. IsFiniteSet(2 .. Len(f))
    BY FS_Interval
  <2> HIDE DEF line, S
  <2>6. \A a, b \in S : line[a] = line[b] => a = b
    BY <2>2
  <2>4. line \in Injection(S, 2 .. Len(f))
    BY <2>3, <2>6 DEF Injection, IsInjective
  <2> QED
    BY <2>4, <2>5, FS_Injection DEF S
<1> QED
  BY <1>4, <1>5, <1>6 DEF R

(* Memory that agrees with a file is what reading the file back finds. *)
LEMMA AgreesReadBack ==
  ASSUME NEW f \in Seq(Texts), \A n \in 1 .. Len(f) : Whole(f[n]) => f[n][1].rev <= MaxRevision,
         NEW revs \in [Ids -> Nat], Agrees(f, revs)
  PROVE  ReadBack(f) = revs
<1>1. ReadBack(f) \in [Ids -> Nat]
  BY ReadBackFacts
<1>2. ASSUME NEW id \in Ids PROVE ReadBack(f)[id] = revs[id]
  <2>1. ReadBack(f)[id] \in Nat /\ revs[id] \in Nat
    BY <1>1
  <2>2. ReadBack(f)[id] <= revs[id]
    <3>1. CASE ReadBack(f)[id] = 0
      BY <2>1, <3>1
    <3>2. CASE ReadBack(f)[id] # 0
      BY <3>2, ReadBackFacts DEF Agrees
    <3> QED
      BY <3>1, <3>2
  <2>3. revs[id] <= ReadBack(f)[id]
    <3>1. CASE revs[id] = 0
      BY <2>1, <3>1
    <3>2. CASE revs[id] > 0
      BY <3>2, ReadBackFacts DEF Agrees
    <3> QED
      BY <2>1, <3>1, <3>2
  <2> QED
    BY <2>1, <2>2, <2>3
<1> QED
  BY <1>1, <1>2

(* load accepts a good file. *)
LEMMA GoodLoads ==
  ASSUME NEW f \in Seq(Texts), Good(f), Len(f) > 1
  PROVE  ~Refused(f)
<1>1. ASSUME NEW n \in 2 .. Len(f) PROVE ~Corrupt(f, n)
  <2>0. Len(f) \in Nat
    OBVIOUS
  <2>1. n < Len(f) => n \in 2 .. Len(f) - 1
    BY <2>0
  <2> QED
    BY <2>1 DEF Corrupt, Good
<1>2. ASSUME NEW m \in 2 .. Len(f), NEW n \in 2 .. Len(f), m < n, Whole(f[m]), Whole(f[n]),
             f[m][1].id = f[n][1].id
      PROVE  ~(f[m][1].rev >= f[n][1].rev)
  <2>1. f[m] \in Texts /\ f[n] \in Texts
    OBVIOUS
  <2>2. f[m][1].id \in Ids /\ f[m][1].rev \in Nat /\ f[n][1].rev \in Nat
    BY <1>2, <2>1, TextFacts
  <2>3. m \in Held(f, f[m][1].id) /\ n \in Held(f, f[m][1].id)
    BY <1>2 DEF Held
  <2>4. f[m][1].rev < f[n][1].rev
    BY <1>2, <2>2, <2>3 DEF Good
  <2> QED
    BY <2>2, <2>4
<1> QED
  BY <1>1, <1>2 DEF Refused, Good

-----------------------------------------------------------------------------
(* The invariant is inductive.                                              *)

\* A cut falls inside a line of a file that has its first one.
InsideCuts == Cuts \subseteq {"inside", "failed"}

LEMMA StorageInit == Init => StorageInv
<1> SUFFICES ASSUME Init PROVE StorageInv
  OBVIOUS
<1>1. MaxCrashes \in Nat /\ MaxFaults \in Nat /\ MaxRevision \in Nat
  BY StorageAssumption
<1>2. TypeOK
  <2>1. file \in Seq(Texts) /\ budget \in [crashes : Nat, faults : Nat]
    BY <1>1 DEF Init
  <2>2. revision \in [Ids -> Nat] /\ acked \in [Ids -> Nat]
    BY DEF Init
  <2> QED
    BY <2>1, <2>2 DEF Init, TypeOK
<1>3. Bounded
  <2>1. {id \in Ids : revision[id] > 0} = {}
    BY DEF Init
  <2> QED
    BY <1>1, <2>1, FS_EmptySet DEF Init, Bounded
<1>4. Ended /\ Remembered /\ Kept /\ Mirrored
  BY DEF Init, Ended, Remembered, Kept, Mirrored, Running
<1> QED
  BY <1>2, <1>3, <1>4 DEF StorageInv

LEMMA LoadKeeps ==
  ASSUME StorageInv, Load
  PROVE  StorageInv'
<1> USE DEF StorageInv
<1>1. /\ phase = "down" /\ file' = file /\ acked' = acked /\ budget' = budget /\ clean' = clean
      /\ file \in Seq(Texts) /\ Len(file) \in Nat
  BY DEF Load, TypeOK
<1>2. Ended'
  BY <1>1 DEF Ended
<1>3. CASE file = <<>>
  <2>1. /\ phase' = "up" /\ revision' = [id \in Ids |-> 0]
        /\ torn' = FALSE /\ header' = FALSE /\ lines' = 0
    BY <1>3 DEF Load
  <2>2. TypeOK'
    BY <1>1, <2>1 DEF TypeOK
  <2>3. Bounded'
    <3>1. {id \in Ids : revision'[id] > 0} = {}
      BY <2>1
    <3>2. IsFiniteSet({id \in Ids : revision'[id] > 0})
      BY <3>1, FS_EmptySet
    <3>3. \A id \in Ids : revision'[id] <= MaxRevision
      BY <2>1, StorageAssumption
    <3> QED
      BY <1>1, <3>2, <3>3 DEF Bounded
  <2>4. Remembered' /\ Mirrored'
    BY <1>1, <1>3, <2>1 DEF Remembered, Mirrored, Running
  <2>5. Kept'
    <3>1. \A id \in Ids : Held(file, id) = {}
      BY <1>3 DEF Held
    <3>2. \A id \in Ids : ~(acked[id] > 0) /\ acked[id] \in Nat
      BY <3>1 DEF Kept, TypeOK
    <3> QED
      BY <1>1, <2>1, <3>2 DEF Kept
  <2> QED
    BY <1>2, <2>2, <2>3, <2>4, <2>5
<1>4. CASE file # <<>> /\ Refused(file)
  <2>1. phase' = "dead" /\ UNCHANGED <<revision, torn, header, lines>>
    BY <1>4 DEF Load
  <2> QED
    BY <1>1, <1>2, <2>1 DEF TypeOK, Bounded, Remembered, Kept, Mirrored, Running
<1>5. CASE file # <<>> /\ ~Refused(file)
  <2>1. /\ phase' = IF TornTail(file) THEN "compact" ELSE "loaded"
        /\ revision' = ReadBack(file)
        /\ torn' = TornTail(file) /\ header' = TRUE /\ lines' = Len(file) - 1
    BY <1>5 DEF Load
  <2>2. \A n \in 1 .. Len(file) : Whole(file[n]) => file[n][1].rev <= MaxRevision
    BY DEF Bounded
  <2>3. /\ revision' \in [Ids -> Nat]
        /\ \A id \in Ids : /\ \A n \in Held(file, id) : file[n][1].rev <= revision'[id]
                           /\ revision'[id] # 0 => \E n \in Held(file, id) : file[n][1].rev = revision'[id]
                           /\ revision'[id] <= MaxRevision
        /\ IsFiniteSet({id \in Ids : revision'[id] > 0})
    BY <1>1, <2>1, <2>2, ReadBackFacts
  <2>4. TypeOK'
    <3>1. lines' \in Nat
      BY <1>1, <1>5, <2>1, EmptySeq
    <3>2. torn' \in BOOLEAN
      BY <2>1 DEF TornTail
    <3> QED
      BY <1>1, <2>1, <2>3, <3>1, <3>2 DEF TypeOK
  <2>5. Bounded'
    BY <1>1, <2>2, <2>3 DEF Bounded
  <2>6. Remembered'
    BY <1>1, <1>5, <2>1 DEF Remembered, Running, Ended, TornTail
  <2>7. Kept'
    <3>1. \A id \in Ids : acked[id] > 0 => \E n \in Held(file, id) : file[n][1].rev >= acked[id]
      BY DEF Kept
    <3>2. ASSUME NEW id \in Ids PROVE acked[id] <= revision'[id]
      <4>1. acked[id] \in Nat /\ revision'[id] \in Nat
        BY <2>3 DEF TypeOK
      <4>2. CASE acked[id] > 0
        <5>1. PICK n \in Held(file, id) : file[n][1].rev >= acked[id]
          BY <3>1, <4>2
        <5>2. file[n][1].rev \in Nat
          <6>1. n \in 1 .. Len(file) /\ Whole(file[n])
            BY DEF Held
          <6>2. file[n] \in Texts
            BY <1>1, <6>1
          <6> QED
            BY <6>1, <6>2, TextFacts
        <5>3. file[n][1].rev <= revision'[id]
          BY <2>3
        <5> QED
          BY <4>1, <5>1, <5>2, <5>3
      <4> QED
        BY <4>1, <4>2
    <3> QED
      BY <1>1, <3>1, <3>2 DEF Kept
  <2>8. Mirrored'
    <3>1. Agrees(file, revision')
      BY <2>3 DEF Agrees
    <3>2. phase' \in {"loaded", "up"} => torn' = FALSE
      BY <2>1
    <3> QED
      BY <1>1, <1>5, <2>1, <3>1, <3>2 DEF Mirrored, Running
  <2> QED
    BY <1>2, <2>4, <2>5, <2>6, <2>7, <2>8
<1> QED
  BY <1>3, <1>4, <1>5

LEMMA CompactKeeps ==
  ASSUME StorageInv, Compact
  PROVE  StorageInv'
<1> USE DEF StorageInv
<1>1. /\ phase = "compact" /\ phase' = "loaded" /\ file' = Compacted(revision)
      /\ torn' = FALSE /\ header' = TRUE /\ lines' = Live(revision)
      /\ UNCHANGED <<revision, acked, budget, clean>>
  BY DEF Compact
<1>2. revision \in [Ids -> Nat] /\ IsFiniteSet({id \in Ids : revision[id] > 0})
  BY DEF TypeOK, Bounded
<1>3. /\ file' \in Seq(Texts) /\ Len(file') > 1 /\ file'[Len(file')] = <<>>
      /\ Good(file') /\ Agrees(file', revision)
      /\ \A n \in 1 .. Len(file') : Whole(file'[n]) => \E id \in Ids : file'[n] = <<Piece(id, revision[id])>>
  BY <1>1, <1>2, CompactedFacts
<1>4. TypeOK'
  <2>1. lines' \in Nat
    BY <1>1, <1>2, FS_CardinalityType DEF Live
  <2> QED
    BY <1>1, <1>3, <2>1 DEF TypeOK
<1>5. Bounded'
  <2>1. \A id \in Ids : <<Piece(id, revision[id])>>[1].rev = revision[id]
    BY <1>2, TextFacts
  <2> QED
    BY <1>1, <1>3, <2>1 DEF Bounded
<1>6. file' # <<>>
  BY <1>3
<1>7. Ended' /\ Remembered'
  BY <1>1, <1>3, <1>6, TextFacts DEF Ended, Remembered
<1>8. Kept'
  <2>1. \A id \in Ids : acked[id] <= revision[id] /\ acked[id] \in Nat /\ revision[id] \in Nat
    BY <1>1 DEF Kept, TypeOK
  <2>2. ASSUME NEW id \in Ids, acked[id] > 0 PROVE \E n \in Held(file', id) : file'[n][1].rev >= acked[id]
    <3>1. revision[id] > 0
      BY <2>1, <2>2
    <3>2. PICK n \in Held(file', id) : file'[n][1].rev = revision[id]
      BY <1>3, <3>1 DEF Agrees
    <3> QED
      BY <2>1, <3>2
  <2> QED
    BY <1>1, <2>1, <2>2 DEF Kept
<1>9. Mirrored'
  BY <1>1, <1>3, <1>6 DEF Mirrored
<1> QED
  BY <1>4, <1>5, <1>7, <1>8, <1>9

(* A step that leaves file, memory and acknowledgements alone. *)
LEMMA IdleKeeps ==
  ASSUME StorageInv, UNCHANGED <<file, revision, torn, header, lines, clean, acked>>,
         budget' \in [crashes : Nat, faults : Nat],
         phase' \in {"down", "dead"} \/ (phase' = "up" /\ phase = "loaded")
  PROVE  StorageInv'
<1> USE DEF StorageInv
<1>1. TypeOK' /\ Bounded' /\ Ended'
  BY DEF TypeOK, Bounded, Ended
<1>2. Remembered' /\ Mirrored'
  BY DEF Remembered, Mirrored, Running
<1>3. Kept'
  BY DEF Kept, Running
<1> QED
  BY <1>1, <1>2, <1>3

LEMMA FaultType ==
  ASSUME TypeOK, StorageFault
  PROVE  budget' \in [crashes : Nat, faults : Nat]
<1>1. budget \in [crashes : Nat, faults : Nat]
  BY DEF TypeOK
<1>2. budget.faults > 0 /\ budget' = [budget EXCEPT !.faults = budget.faults - 1]
  BY DEF StorageFault
<1>3. budget.faults - 1 \in Nat
  BY <1>1, <1>2
<1> QED
  BY <1>1, <1>2, <1>3

LEMMA CrashType ==
  ASSUME TypeOK, budget.crashes > 0, budget' = [budget EXCEPT !.crashes = @ - 1]
  PROVE  budget' \in [crashes : Nat, faults : Nat]
<1>1. budget \in [crashes : Nat, faults : Nat]
  BY DEF TypeOK
<1>2. budget.crashes - 1 \in Nat
  BY <1>1
<1> QED
  BY <1>1, <1>2

LEMMA ConsideredEnds ==
  ASSUME InsideCuts, NEW W \in Seq(Texts), Considered(W)
  PROVE  Len(W) > 1 /\ ~Whole(W[Len(W)])
<1>1. ~InFirst(W) /\ ~EndsWhole(W)
  BY DEF InsideCuts, Considered
<1>2. Len(W) \in Nat
  OBVIOUS
<1> QED
  BY <1>1, <1>2 DEF InFirst, EndsWhole

(* Memory after a commit: finitely many receipts, none beyond the bound. *)
LEMMA RevisedFacts ==
  ASSUME TypeOK, Bounded, NEW batch, IsBatch(batch), Committing(batch)
  PROVE  /\ Revised(batch) \in [Ids -> Nat]
         /\ \A id \in Ids : Revised(batch)[id] <= MaxRevision /\ revision[id] <= Revised(batch)[id]
         /\ IsFiniteSet({id \in Ids : Revised(batch)[id] > 0})
<1> DEFINE R == Revised(batch)
           S == {id \in Ids : \E n \in 1 .. Len(batch) : batch[n] = id}
           old == {id \in Ids : revision[id] > 0}
           row == [id \in S |-> CHOOSE n \in 1 .. Len(batch) : batch[n] = id]
<1>1. /\ R \in [Ids -> Nat]
      /\ \A id \in Ids :
           /\ (\E n \in 1 .. Len(batch) : batch[n] = id) => R[id] = revision[id] + 1
           /\ ~(\E n \in 1 .. Len(batch) : batch[n] = id) => R[id] = revision[id]
  BY RevisedType
<1>2. \A id \in Ids : revision[id] \in Nat /\ revision[id] <= MaxRevision
  BY DEF TypeOK, Bounded
<1>3. MaxRevision \in Nat /\ Len(batch) \in Nat /\ DOMAIN batch = 1 .. Len(batch)
  BY StorageAssumption DEF IsBatch
<1> HIDE DEF R
<1>4. ASSUME NEW id \in Ids PROVE R[id] <= MaxRevision /\ revision[id] <= R[id]
  <2>1. CASE \E n \in 1 .. Len(batch) : batch[n] = id
    <3>1. revision[id] < MaxRevision
      BY <1>3, <2>1 DEF Committing
    <3> QED
      BY <1>1, <1>2, <1>3, <2>1, <3>1
  <2>2. CASE ~\E n \in 1 .. Len(batch) : batch[n] = id
    BY <1>1, <1>2, <2>2
  <2> QED
    BY <2>1, <2>2
<1>5. IsFiniteSet(S)
  <2>1. \A id \in S : row[id] \in 1 .. Len(batch) /\ batch[row[id]] = id
    OBVIOUS
  <2>2. row \in [S -> 1 .. Len(batch)]
    BY <2>1
  <2>3. IsFiniteSet(1 .. Len(batch))
    BY <1>3, FS_Interval
  <2> HIDE DEF row, S
  <2>4. \A a, b \in S : row[a] = row[b] => a = b
    BY <2>1
  <2>5. row \in Injection(S, 1 .. Len(batch))
    BY <2>2, <2>4 DEF Injection, IsInjective
  <2> QED
    BY <2>3, <2>5, FS_Injection
<1>6. IsFiniteSet(old)
  BY DEF Bounded
<1>7. {id \in Ids : R[id] > 0} \subseteq S \cup old
  BY <1>1
<1> HIDE DEF S, old, row
<1>8. IsFiniteSet(S \cup old)
  BY <1>5, <1>6, FS_Union
<1>9. IsFiniteSet({id \in Ids : R[id] > 0})
  BY <1>7, <1>8, FS_Subset
<1> QED
  BY <1>1, <1>4, <1>9 DEF R

(* The whole text of a commit behind the file. *)
LEMMA WholeWrite ==
  ASSUME StorageInv, NEW batch, IsBatch(batch), Committing(batch)
  PROVE  LET W == Write(file, Appended(batch))
         IN  /\ Added(W, batch) /\ W \in Seq(Texts) /\ Len(W) > 1 /\ W # <<>> /\ W[Len(W)] = <<>>
             /\ \A n \in 1 .. Len(W) : Whole(W[n]) => W[n][1].rev <= MaxRevision
             /\ \A id \in Ids : acked[id] > 0 => \E n \in Held(W, id) : W[n][1].rev >= acked[id]
             /\ clean => Good(W) /\ Agrees(W, Revised(batch))
<1> USE DEF StorageInv
<1> DEFINE A == Appended(batch)
           W == Write(file, A)
<1>1. Running /\ revision \in [Ids -> Nat] /\ header \in BOOLEAN /\ torn \in BOOLEAN
  BY DEF Committing, Running, TypeOK
<1>2. Fresh(A, batch) /\ Len(A) > 1 /\ A[Len(A)] = <<>>
  BY <1>1, FreshAppended
<1>3. Added(W, batch) /\ Len(W) > 1 /\ W[Len(W)] = <<>>
  BY <1>1, <1>2, WriteAdds
<1>4. W \in Seq(Texts)
  BY <1>3 DEF Added
<1>5. W # <<>>
  BY <1>3
<1>6. \A n \in 1 .. Len(W) : Whole(W[n]) => W[n][1].rev <= MaxRevision
  BY <1>3, AddedBounded
<1>7. \A id \in Ids : acked[id] > 0 => \E n \in Held(W, id) : W[n][1].rev >= acked[id]
  BY <1>3, AddedKept
<1>8. clean => Good(W) /\ Agrees(W, Revised(batch))
  BY <1>1, <1>2, <1>3, AddedGood, CommitAgrees
<1> QED
  BY <1>3, <1>4, <1>5, <1>6, <1>7, <1>8

(* A part of it. *)
LEMMA PartWrite ==
  ASSUME StorageInv, InsideCuts, NEW batch, IsBatch(batch), Committing(batch),
         NEW g \in Left(Appended(batch)), Considered(Write(file, g))
  PROVE  LET W == Write(file, g)
         IN  /\ W \in Seq(Texts) /\ Len(W) > 1 /\ W # <<>> /\ ~Whole(W[Len(W)])
             /\ \A n \in 1 .. Len(W) : Whole(W[n]) => W[n][1].rev <= MaxRevision
             /\ \A id \in Ids : acked[id] > 0 => \E n \in Held(W, id) : W[n][1].rev >= acked[id]
             /\ clean => Good(W)
<1> USE DEF StorageInv
<1> DEFINE W == Write(file, g)
<1>1. Running /\ revision \in [Ids -> Nat] /\ header \in BOOLEAN /\ torn \in BOOLEAN
  BY DEF Committing, Running, TypeOK
<1>2. Fresh(Appended(batch), batch) /\ Len(Appended(batch)) > 1
  BY <1>1, FreshAppended
<1>3. Fresh(g, batch)
  BY <1>2, FreshLeft
<1>4. Added(W, batch)
  BY <1>1, <1>3, WriteAdds
<1>5. W \in Seq(Texts)
  BY <1>4 DEF Added
<1>6. Len(W) > 1 /\ ~Whole(W[Len(W)])
  BY <1>5, ConsideredEnds
<1>7. W # <<>>
  BY <1>6
<1>8. \A n \in 1 .. Len(W) : Whole(W[n]) => W[n][1].rev <= MaxRevision
  BY <1>4, AddedBounded
<1>9. \A id \in Ids : acked[id] > 0 => \E n \in Held(W, id) : W[n][1].rev >= acked[id]
  BY <1>4, AddedKept
<1>10. clean => Good(W)
  BY <1>1, <1>3, <1>6, AddedGood
<1> QED
  BY <1>5, <1>6, <1>7, <1>8, <1>9, <1>10

LEMMA CommitKeeps ==
  ASSUME StorageInv, NEW batch, IsBatch(batch), Commit(batch)
  PROVE  StorageInv'
<1> USE DEF StorageInv
<1> DEFINE R == Revised(batch)
           N == lines + Len(batch)
<1>1. /\ Committing(batch) /\ phase' = "up" /\ revision' = R
      /\ torn' = FALSE /\ header' = TRUE /\ UNCHANGED <<clean, budget>>
      /\ acked' = [id \in Ids |-> IF revision'[id] # revision[id] THEN revision'[id] ELSE acked[id]]
      /\ \/ NeedsCompaction(N, revision') /\ file' = Compacted(revision') /\ lines' = Live(revision')
         \/ file' = Write(file, Appended(batch)) /\ lines' = N
  BY DEF Commit
<1>2. Running
  BY <1>1 DEF Committing, Running
<1>3. /\ R \in [Ids -> Nat]
      /\ \A id \in Ids : R[id] <= MaxRevision /\ revision[id] <= R[id]
      /\ IsFiniteSet({id \in Ids : R[id] > 0})
  BY <1>1, RevisedFacts
<1>4. \A id \in Ids :
        /\ (\E n \in 1 .. Len(batch) : batch[n] = id) => R[id] = revision[id] + 1
        /\ ~(\E n \in 1 .. Len(batch) : batch[n] = id) => R[id] = revision[id]
  BY RevisedType
<1> HIDE DEF R
<1>5. ASSUME NEW id \in Ids
      PROVE  /\ acked'[id] \in Nat /\ acked'[id] <= R[id]
             /\ acked'[id] = acked[id] \/ (R[id] # revision[id] /\ acked'[id] = R[id])
  <2>1. acked[id] \in Nat /\ acked[id] <= revision[id] /\ revision[id] \in Nat /\ R[id] \in Nat
    BY <1>2, <1>3 DEF TypeOK, Kept
  <2>2. acked'[id] = IF R[id] # revision[id] THEN R[id] ELSE acked[id]
    BY <1>1
  <2> QED
    BY <1>3, <2>1, <2>2
<1>6. acked' \in [Ids -> Nat]
  BY <1>1, <1>5
<1>7. /\ file' \in Seq(Texts) /\ Len(file') > 1 /\ file' # <<>> /\ file'[Len(file')] = <<>>
      /\ lines' \in Nat
      /\ \A n \in 1 .. Len(file') : Whole(file'[n]) => file'[n][1].rev <= MaxRevision
      /\ clean => Good(file') /\ Agrees(file', R)
      /\ \A id \in Ids : acked'[id] > 0 => \E n \in Held(file', id) : file'[n][1].rev >= acked'[id]
  <2>1. CASE file' = Compacted(R) /\ lines' = Live(R)
    <3>1. /\ file' \in Seq(Texts) /\ Len(file') > 1 /\ file'[Len(file')] = <<>>
          /\ Good(file') /\ Agrees(file', R)
          /\ \A n \in 1 .. Len(file') : Whole(file'[n]) => \E id \in Ids : file'[n] = <<Piece(id, R[id])>>
      BY <1>3, <2>1, CompactedFacts
    <3>2. \A id \in Ids : <<Piece(id, R[id])>>[1].rev = R[id]
      BY <1>3, TextFacts
    <3>3. lines' \in Nat
      BY <1>3, <2>1, FS_CardinalityType DEF Live
    <3>4. ASSUME NEW id \in Ids, acked'[id] > 0
          PROVE  \E n \in Held(file', id) : file'[n][1].rev >= acked'[id]
      <4>1. R[id] \in Nat /\ R[id] > 0 /\ acked'[id] \in Nat /\ acked'[id] <= R[id]
        BY <1>3, <1>5, <3>4
      <4>2. PICK n \in Held(file', id) : file'[n][1].rev = R[id]
        BY <3>1, <4>1 DEF Agrees
      <4> QED
        BY <4>1, <4>2
    <3>5. file' # <<>>
      BY <3>1
    <3>6. \A n \in 1 .. Len(file') : Whole(file'[n]) => file'[n][1].rev <= MaxRevision
      BY <1>3, <3>1, <3>2
    <3> QED
      BY <3>1, <3>3, <3>4, <3>5, <3>6
  <2>2. CASE file' = Write(file, Appended(batch)) /\ lines' = N
    <3>1. /\ file' \in Seq(Texts) /\ Len(file') > 1 /\ file' # <<>> /\ file'[Len(file')] = <<>>
          /\ \A n \in 1 .. Len(file') : Whole(file'[n]) => file'[n][1].rev <= MaxRevision
          /\ \A id \in Ids : acked[id] > 0 => \E n \in Held(file', id) : file'[n][1].rev >= acked[id]
          /\ clean => Good(file') /\ Agrees(file', R)
      BY <1>1, <2>2, WholeWrite DEF R
    <3>2. lines' \in Nat
      BY <2>2 DEF TypeOK, IsBatch
    <3>3. ASSUME NEW id \in Ids, acked'[id] > 0
          PROVE  \E n \in Held(file', id) : file'[n][1].rev >= acked'[id]
      <4>1. CASE acked'[id] = acked[id]
        BY <3>1, <3>3, <4>1
      <4>2. CASE R[id] # revision[id] /\ acked'[id] = R[id]
        <5>1. PICK i \in 1 .. Len(batch) : batch[i] = id
          BY <1>4, <4>2
        <5>2. R[id] = revision[id] + 1
          BY <1>4, <5>1
        <5>3. PICK n \in Held(file', id) : file'[n][1].rev = revision[id] + 1
          BY <1>2, <2>2, <5>1, CommitHeld
        <5>4. revision[id] \in Nat
          BY DEF TypeOK
        <5> QED
          BY <4>2, <5>2, <5>3, <5>4
      <4> QED
        BY <1>5, <4>1, <4>2
    <3> QED
      BY <3>1, <3>2, <3>3
  <2> QED
    BY <1>1, <2>1, <2>2
<1>8. TypeOK'
  BY <1>1, <1>3, <1>6, <1>7 DEF TypeOK
<1>9. Bounded'
  BY <1>1, <1>3, <1>7 DEF Bounded
<1>10. Ended' /\ Remembered'
  BY <1>1, <1>7, TextFacts DEF Ended, Remembered
<1>11. Kept'
  BY <1>1, <1>5, <1>7 DEF Kept
<1>12. Mirrored'
  BY <1>1, <1>7 DEF Mirrored
<1> QED
  BY <1>8, <1>9, <1>10, <1>11, <1>12

LEMMA CommitCompactFailsKeeps ==
  ASSUME StorageInv, NEW batch, IsBatch(batch), CommitCompactFails(batch)
  PROVE  StorageInv'
<1> USE DEF StorageInv
<1> DEFINE R == Revised(batch)
<1>1. /\ Committing(batch) /\ phase' \in {"dead", "up"} /\ revision' = R
      /\ torn' = FALSE /\ header' = TRUE /\ lines' = lines + Len(batch) /\ UNCHANGED <<clean, acked>>
      /\ file' = Write(file, Appended(batch))
  BY DEF CommitCompactFails
<1>2. budget' \in [crashes : Nat, faults : Nat]
  BY FaultType DEF CommitCompactFails
<1>3. /\ R \in [Ids -> Nat]
      /\ \A id \in Ids : R[id] <= MaxRevision /\ revision[id] <= R[id]
      /\ IsFiniteSet({id \in Ids : R[id] > 0})
  BY <1>1, RevisedFacts
<1>4. /\ file' \in Seq(Texts) /\ Len(file') > 1 /\ file' # <<>> /\ file'[Len(file')] = <<>>
      /\ \A n \in 1 .. Len(file') : Whole(file'[n]) => file'[n][1].rev <= MaxRevision
      /\ \A id \in Ids : acked[id] > 0 => \E n \in Held(file', id) : file'[n][1].rev >= acked[id]
      /\ clean => Good(file') /\ Agrees(file', R)
  BY <1>1, WholeWrite
<1> HIDE DEF R
<1>5. TypeOK'
  <2>1. lines' \in Nat /\ acked' \in [Ids -> Nat] /\ clean' \in BOOLEAN
    BY <1>1 DEF TypeOK, IsBatch
  <2>2. revision' \in [Ids -> Nat] /\ file' \in Seq(Texts)
    BY <1>1, <1>3, <1>4
  <2> QED
    BY <1>1, <1>2, <2>1, <2>2 DEF TypeOK
<1>6. Bounded'
  BY <1>1, <1>3, <1>4 DEF Bounded
<1>7. Ended' /\ Remembered'
  BY <1>1, <1>4, TextFacts DEF Ended, Remembered
<1>8. Kept'
  <2>1. ASSUME NEW id \in Ids PROVE acked[id] <= R[id]
    <3>1. acked[id] <= revision[id] /\ acked[id] \in Nat /\ revision[id] \in Nat /\ R[id] \in Nat
      BY <1>1, <1>3 DEF Kept, TypeOK, Running, Committing
    <3> QED
      BY <1>3, <3>1
  <2> QED
    BY <1>1, <1>4, <2>1 DEF Kept
<1>9. Mirrored'
  BY <1>1, <1>4 DEF Mirrored
<1> QED
  BY <1>5, <1>6, <1>7, <1>8, <1>9

LEMMA CommitFailsKeeps ==
  ASSUME StorageInv, InsideCuts, NEW batch, IsBatch(batch), CommitFails(batch)
  PROVE  StorageInv'
<1> USE DEF StorageInv
<1>1. /\ Committing(batch) /\ phase' \in {"dead", "up"} /\ torn' = TRUE /\ clean' = FALSE
      /\ UNCHANGED <<revision, header, lines, acked>>
  BY DEF CommitFails
<1>2. budget' \in [crashes : Nat, faults : Nat]
  BY FaultType DEF CommitFails
<1>3. PICK landed \in Left(Appended(batch)) :
        /\ file' = IF landed = <<(<<>>)>> THEN file ELSE Write(file, landed)
        /\ Considered(file')
  BY DEF CommitFails
<1>4. /\ file' \in Seq(Texts) /\ (file # <<>> => file' # <<>>)
      /\ file' # <<>> => Len(file') > 1 /\ ~Whole(file'[Len(file')])
      /\ \A n \in 1 .. Len(file') : Whole(file'[n]) => file'[n][1].rev <= MaxRevision
      /\ \A id \in Ids : acked[id] > 0 => \E n \in Held(file', id) : file'[n][1].rev >= acked[id]
  <2>1. CASE file' = file
    BY <2>1 DEF TypeOK, Bounded, Ended, Kept
  <2>2. CASE file' = Write(file, landed)
    BY <1>1, <1>3, <2>2, PartWrite
  <2> QED
    BY <1>3, <2>1, <2>2
<1>5. TypeOK'
  BY <1>1, <1>2, <1>4 DEF TypeOK
<1>6. Bounded'
  BY <1>1, <1>4 DEF Bounded
<1>7. Ended'
  BY <1>4 DEF Ended
<1>8. Remembered'
  BY <1>1, <1>4 DEF Remembered, Running, Committing
<1>9. Kept'
  BY <1>1, <1>4 DEF Kept, Running, Committing
<1>10. Mirrored'
  BY <1>1 DEF Mirrored
<1> QED
  BY <1>5, <1>6, <1>7, <1>8, <1>9, <1>10

LEMMA CrashCommittingKeeps ==
  ASSUME StorageInv, InsideCuts, NEW batch, IsBatch(batch), CrashCommitting(batch)
  PROVE  StorageInv'
<1> USE DEF StorageInv
<1>1. Committing(batch) /\ phase' = "down" /\ UNCHANGED <<revision, torn, header, lines, acked, clean>>
  BY DEF CrashCommitting
<1>2. budget' \in [crashes : Nat, faults : Nat]
  BY CrashType DEF CrashCommitting
<1>3. PICK landed \in {Appended(batch)} \cup Left(Appended(batch)) :
        /\ file' = Write(file, landed)
        /\ landed = Appended(batch) \/ Considered(file')
  BY DEF CrashCommitting
<1>4. /\ file' \in Seq(Texts) /\ Len(file') > 1 /\ ~Whole(file'[Len(file')])
      /\ \A n \in 1 .. Len(file') : Whole(file'[n]) => file'[n][1].rev <= MaxRevision
      /\ \A id \in Ids : acked[id] > 0 => \E n \in Held(file', id) : file'[n][1].rev >= acked[id]
      /\ clean => Good(file')
  <2>1. CASE landed = Appended(batch)
    BY <1>1, <1>3, <2>1, WholeWrite, TextFacts
  <2>2. CASE landed \in Left(Appended(batch)) /\ Considered(file')
    BY <1>1, <1>3, <2>2, PartWrite
  <2> QED
    BY <1>3, <2>1, <2>2
<1>5. TypeOK'
  BY <1>1, <1>2, <1>4 DEF TypeOK
<1>6. Bounded'
  BY <1>1, <1>4 DEF Bounded
<1>7. Ended' /\ Remembered' /\ Mirrored'
  BY <1>1, <1>4 DEF Ended, Remembered, Mirrored, Running
<1>8. Kept'
  BY <1>1, <1>4 DEF Kept, Running
<1> QED
  BY <1>5, <1>6, <1>7, <1>8

LEMMA StorageNext ==
  ASSUME InsideCuts, StorageInv, [Next]_vars
  PROVE  StorageInv'
<1>1. TypeOK
  BY DEF StorageInv
<1>2. CASE Load
  BY <1>2, LoadKeeps
<1>3. CASE Compact
  BY <1>3, CompactKeeps
<1>4. CASE CompactFails
  <2>1. budget' \in [crashes : Nat, faults : Nat]
    BY <1>1, <1>4, FaultType DEF CompactFails
  <2> QED
    BY <1>4, <2>1, IdleKeeps DEF CompactFails
<1>5. CASE Loaded
  <2>1. budget' \in [crashes : Nat, faults : Nat]
    BY <1>1, <1>5 DEF Loaded, TypeOK
  <2> QED
    BY <1>5, <2>1, IdleKeeps DEF Loaded
<1>6. CASE Crash
  <2>1. budget' \in [crashes : Nat, faults : Nat]
    BY <1>1, <1>6, CrashType DEF Crash
  <2> QED
    BY <1>6, <2>1, IdleKeeps DEF Crash
<1>7. ASSUME NEW batch \in Batches,
             Commit(batch) \/ CommitCompactFails(batch) \/ CommitFails(batch) \/ CrashCommitting(batch)
      PROVE  StorageInv'
  <2>1. IsBatch(batch)
    BY BatchFacts
  <2> QED
    BY <1>7, <2>1, CommitKeeps, CommitCompactFailsKeeps, CommitFailsKeeps, CrashCommittingKeeps
<1>8. CASE UNCHANGED vars
  <2>1. TypeOK' /\ Bounded' /\ Ended'
    BY <1>8 DEF vars, StorageInv, TypeOK, Bounded, Ended
  <2>2. Remembered' /\ Kept' /\ Mirrored'
    BY <1>8 DEF vars, StorageInv, Remembered, Kept, Mirrored, Running
  <2> QED
    BY <2>1, <2>2 DEF StorageInv
<1> QED
  BY <1>2, <1>3, <1>4, <1>5, <1>6, <1>7, <1>8 DEF Next

(* The invariant of the file and of what memory holds of it: wherever inside a line the host dies
   or an append fails, and whatever it writes afterwards. *)
THEOREM StorageInvariant ==
  ASSUME InsideCuts
  PROVE  Spec => []StorageInv
<1>1. Init => StorageInv
  BY StorageInit
<1>2. StorageInv /\ [Next]_vars => StorageInv'
  BY StorageNext
<1> QED
  BY <1>1, <1>2, PTL DEF Spec

(* A file that load accepts, for as long as no append failed. *)
LEMMA CleanFileLoads ==
  ASSUME StorageInv, clean, file # <<>>
  PROVE  ~Refused(file)
<1>1. file \in Seq(Texts) /\ Len(file) > 1 /\ Good(file)
  BY DEF StorageInv, TypeOK, Ended, Mirrored
<1> QED
  BY <1>1, GoodLoads

(* A commit that returned stays in the file, across crashes and appends that fail inside a line,
   across what is appended after them, and across compactions and their failures; until an append
   fails load accepts that file, and whoever has loaded it has what was committed in memory. *)
THEOREM AcknowledgedStays ==
  ASSUME InsideCuts
  PROVE  Spec => []Acknowledged
<1>1. ASSUME StorageInv, NEW id \in Ids
      PROVE  acked[id] <= IF file = <<>> THEN 0 ELSE ReadBack(file)[id]
  <2>1. /\ acked[id] \in Nat /\ file \in Seq(Texts)
        /\ \A n \in 1 .. Len(file) : Whole(file[n]) => file[n][1].rev <= MaxRevision
    BY <1>1 DEF StorageInv, TypeOK, Bounded
  <2>2. ReadBack(file)[id] \in Nat
    BY <2>1, ReadBackFacts
  <2>3. CASE acked[id] = 0
    BY <2>2, <2>3
  <2>4. CASE acked[id] > 0
    <3>1. PICK n \in Held(file, id) : file[n][1].rev >= acked[id]
      BY <1>1, <2>4 DEF StorageInv, Kept
    <3>2. n \in 1 .. Len(file) /\ Whole(file[n])
      BY DEF Held
    <3>3. file # <<>> /\ file[n] \in Texts
      BY <2>1, <3>2
    <3>4. file[n][1].rev \in Nat
      BY <3>2, <3>3, TextFacts
    <3>5. file[n][1].rev <= ReadBack(file)[id]
      BY <2>1, ReadBackFacts
    <3> QED
      BY <2>1, <2>2, <3>1, <3>3, <3>4, <3>5
  <2> QED
    BY <2>1, <2>3, <2>4
<1>2. ASSUME StorageInv PROVE Acknowledged
  <2>1. clean /\ file # <<>> => ~Refused(file)
    BY <1>2, CleanFileLoads
  <2>2. phase \in {"compact", "loaded", "up"} => \A id \in Ids : acked[id] <= revision[id]
    BY <1>2 DEF StorageInv, Kept, Running
  <2> QED
    BY <1>1, <1>2, <2>1, <2>2 DEF Acknowledged, StorageInv
<1> QED
  BY <1>2, StorageInvariant, PTL

(* Where no append fails, crashes inside a line never leave an acknowledged command in a file that
   load rejects: the two runs that lose commands need a failed append, or a cut before a newline. *)
THEOREM CrashesKeepCommands ==
  ASSUME Cuts \subseteq {"inside"}
  PROVE  Spec => []CommandsKept
<1>1. InsideCuts
  BY DEF InsideCuts
<1>2. Init => clean
  BY DEF Init
<1>3. clean /\ [Next]_vars => clean'
  BY DEF Next, vars, Load, Compact, CompactFails, Loaded, Crash, Commit, CommitCompactFails,
         CommitFails, CrashCommitting
<1>4. Spec => []clean
  BY <1>2, <1>3, PTL DEF Spec
<1>5. ASSUME StorageInv, clean PROVE CommandsKept
  <2>1. (\E id \in Ids : acked[id] > 0) => file # <<>>
    <3>1. \A id \in Ids : file = <<>> => Held(file, id) = {}
      BY DEF Held
    <3> QED
      BY <1>5, <3>1 DEF StorageInv, Kept
  <2> QED
    BY <1>5, <2>1, CleanFileLoads DEF CommandsKept
<1> QED
  BY <1>1, <1>4, <1>5, StorageInvariant, PTL

-----------------------------------------------------------------------------
(* The store of revisions.                                                  *)

Zero == [id \in Ids |-> 0]

\* The revisions after the first n rows of a batch.
Advanced(batch, n) == Store!Advance(revision, Store!FirstRows(batch, n))

LEMMA AdvancedFacts ==
  ASSUME TypeOK, NEW batch, IsBatch(batch), NEW n \in 0 .. Len(batch)
  PROVE  /\ Advanced(batch, n) \in [Ids -> Nat]
         /\ \A id \in Ids :
              Advanced(batch, n)[id] = IF \E i \in 1 .. n : batch[i] = id THEN revision[id] + 1 ELSE revision[id]
<1>1. \A id \in Ids : revision[id] \in Nat
  BY DEF TypeOK
<1> DEFINE rows == Store!FirstRows(batch, n)
<1>2. DOMAIN rows = 1 .. n /\ \A i \in 1 .. n : rows[i] = batch[i]
  BY DEF Store!FirstRows
<1> HIDE DEF rows
<1>3. Advanced(batch, n) = [id \in Ids |-> IF \E i \in 1 .. n : batch[i] = id THEN revision[id] + 1 ELSE revision[id]]
  BY <1>2 DEF Advanced, Store!Advance, rows
<1> QED
  BY <1>1, <1>3

LEMMA AdvancedEnds ==
  ASSUME TypeOK, NEW batch, IsBatch(batch)
  PROVE  /\ Advanced(batch, 0) = revision
         /\ Advanced(batch, Len(batch)) = Revised(batch)
         /\ Store!Advance(revision, batch) = Revised(batch)
<1>1. Len(batch) \in Nat /\ 0 \in 0 .. Len(batch) /\ Len(batch) \in 0 .. Len(batch)
  BY DEF IsBatch
<1>2. revision \in [Ids -> Nat]
  BY DEF TypeOK
<1>3. Advanced(batch, 0) = revision
  <2>1. ASSUME NEW id \in Ids PROVE Advanced(batch, 0)[id] = revision[id]
    BY <1>1, AdvancedFacts
  <2>2. Advanced(batch, 0) \in [Ids -> Nat]
    BY <1>1, AdvancedFacts
  <2> QED
    BY <1>2, <2>1, <2>2
<1>4. Advanced(batch, Len(batch)) = Revised(batch)
  <2>1. ASSUME NEW id \in Ids PROVE Advanced(batch, Len(batch))[id] = Revised(batch)[id]
    <3>1. Advanced(batch, Len(batch))[id]
            = IF \E i \in 1 .. Len(batch) : batch[i] = id THEN revision[id] + 1 ELSE revision[id]
      BY <1>1, AdvancedFacts
    <3>2. CASE \E i \in 1 .. Len(batch) : batch[i] = id
      BY <3>1, <3>2, RevisedType
    <3>3. CASE ~\E i \in 1 .. Len(batch) : batch[i] = id
      BY <3>1, <3>3, RevisedType
    <3> QED
      BY <3>2, <3>3
  <2>2. Advanced(batch, Len(batch)) \in [Ids -> Nat] /\ Revised(batch) \in [Ids -> Nat]
    BY <1>1, AdvancedFacts, RevisedType
  <2> QED
    BY <2>1, <2>2
<1>5. Store!Advance(revision, batch) = Revised(batch)
  BY DEF Store!Advance, Revised
<1> QED
  BY <1>3, <1>4, <1>5

(* The part of a commit that lands before a crash holds the lines of its first rows. *)
LEMMA PartHolds ==
  ASSUME StorageInv, InsideCuts, clean, NEW batch, IsBatch(batch), Committing(batch),
         NEW g \in Left(Appended(batch)), Considered(Write(file, g))
  PROVE  \E n \in 0 .. Len(batch) : Agrees(Write(file, g), Advanced(batch, n))
<1> USE DEF StorageInv
<1> DEFINE A == Appended(batch)
           W == Write(file, g)
           L == IF file = <<>> THEN 1 ELSE Len(file)
           h == IF header THEN 0 ELSE 1
           n == IF Len(g) - 1 > h THEN Len(g) - 1 - h ELSE 0
<1>1. Running /\ revision \in [Ids -> Nat] /\ header \in BOOLEAN /\ torn \in BOOLEAN
  BY DEF Committing, Running, TypeOK
<1>2. ~torn /\ (file = <<>> <=> ~header)
  BY <1>1 DEF Mirrored
<1>3. Fresh(A, batch) /\ Len(A) > 1
  BY <1>1, FreshAppended
<1>4. /\ A \in Seq(Texts) /\ Len(A) = h + Len(batch) + 1
      /\ ~header => A[1] = <<Version>>
      /\ \A i \in 1 .. Len(batch) : A[h + i] = <<NextOf(batch[i])>>
      /\ A[Len(A)] = <<>>
  <2>1. /\ A \in Seq(Texts) /\ Len(A) = 0 + h + Len(batch) + 1
        /\ ~header => A[0 + 1] = <<Version>>
        /\ \A i \in 1 .. Len(batch) : A[0 + h + i] = <<NextOf(batch[i])>>
        /\ A[Len(A)] = <<>>
    BY <1>1, <1>2, AppendedShape
  <2>2. h \in Nat /\ Len(batch) \in Nat
    BY DEF IsBatch
  <2> HIDE DEF h, A
  <2>3. 0 + h = h /\ 0 + 1 = 1 /\ \A i \in 1 .. Len(batch) : 0 + h + i = h + i
    BY <2>2
  <2> QED
    BY <2>1, <2>3
<1>5. /\ g \in Seq(Texts) /\ Len(g) \in 1 .. Len(A) - 1
      /\ \A k \in 1 .. Len(g) - 1 : g[k] = A[k]
  BY <1>4, LeftShape
<1>6. Fresh(g, batch)
  BY <1>3, FreshLeft
<1>7. Added(W, batch)
  BY <1>1, <1>6, WriteAdds
<1>8. W \in Seq(Texts)
  BY <1>7 DEF Added
<1>9. ~Whole(W[Len(W)])
  BY <1>8, ConsideredEnds
<1>10. /\ Len(W) = L + Len(g) - 1
       /\ \A k \in 2 .. Len(g) : W[L + k - 1] = g[k]
       /\ W[L] = g[1]
  BY <1>1, <1>2, <1>6, Placed
<1>11. /\ h \in {0, 1} /\ (header => h = 0) /\ (~header => h = 1)
       /\ L \in Nat /\ L > 0 /\ Len(g) \in Nat /\ Len(g) > 0 /\ Len(batch) \in Nat
       /\ Len(file) \in Nat /\ (L > Len(file) => ~header) /\ (L > 1 \/ ~header) /\ L >= Len(file)
  <2>1. Len(batch) \in Nat /\ Len(g) \in Nat /\ Len(g) > 0
    BY <1>5 DEF IsBatch
  <2>2. Len(file) \in Nat /\ (file = <<>> => Len(file) = 0) /\ (file # <<>> => Len(file) > 1)
    BY DEF TypeOK, Ended
  <2> QED
    BY <1>2, <2>1, <2>2
<1>12. n \in 0 .. Len(batch) /\ (n > 0 => n = Len(g) - 1 - h)
  BY <1>4, <1>5, <1>11
<1> HIDE DEF A, W, L, h, n
<1>13. ASSUME NEW id \in Ids, NEW m \in Held(W, id), m >= Len(file)
       PROVE  \E i \in 1 .. n : batch[i] = id
  <2>1. m \in 2 .. Len(W) /\ Whole(W[m]) /\ W[m][1].id = id
    BY DEF Held
  <2>2. Len(W) \in Nat /\ m < Len(W)
    BY <1>8, <1>9, <2>1
  <2>3. m >= L
    <3>1. CASE header
      BY <1>11, <1>13, <3>1
    <3>2. CASE ~header
      BY <1>2, <2>1, <3>2 DEF L
    <3> QED
      BY <1>1, <3>1, <3>2
  <2> DEFINE k == m - L + 1
  <2>4. k \in 1 .. Len(g) - 1 /\ m = L + k - 1
    BY <1>10, <1>11, <2>1, <2>2, <2>3
  <2>5. W[m] = g[k]
    <3>1. CASE k = 1
      <4>1. m = L
        BY <1>11, <2>1, <3>1
      <4> QED
        BY <1>10, <3>1, <4>1
    <3>2. CASE k # 1
      <4>1. k \in 2 .. Len(g)
        BY <1>11, <2>4, <3>2
      <4> QED
        BY <1>10, <2>4, <4>1
    <3> QED
      BY <3>1, <3>2
  <2>6. g[k] = A[k]
    BY <1>5, <2>4
  <2> HIDE DEF k
  <2>7. k > h
    <3>1. ~(k = 1 /\ ~header)
      BY <1>4, <2>1, <2>5, <2>6, TextFacts
    <3> QED
      BY <1>11, <2>4, <3>1
  <2>8. k - h \in 1 .. n /\ k - h \in 1 .. Len(batch) /\ h + (k - h) = k
    <3>1. Len(g) - 1 > h /\ Len(g) - 1 - h <= Len(batch)
      BY <1>4, <1>5, <1>11, <2>4, <2>7
    <3>2. n = Len(g) - 1 - h
      BY <3>1 DEF n
    <3> QED
      BY <1>11, <2>4, <2>7, <3>1, <3>2
  <2>9. W[m] = <<NextOf(batch[k - h])>> /\ batch[k - h] \in Ids
    BY <1>4, <2>5, <2>6, <2>8 DEF IsBatch
  <2>10. batch[k - h] = id
    BY <1>1, <2>1, <2>9, NextOfFacts
  <2> QED
    BY <2>8, <2>10
<1>14. ASSUME NEW i \in 1 .. n
       PROVE  \E m \in Held(W, batch[i]) : W[m][1].rev = revision[batch[i]] + 1
  <2>1. i \in 1 .. Len(batch) /\ h + i \in 1 .. Len(g) - 1 /\ h + i \in 1 .. Len(g)
    <3>1. n \in Nat /\ n > 0 /\ n <= Len(batch) /\ i \in Nat /\ i > 0 /\ i <= n
      BY <1>11, <1>12
    <3>2. n = Len(g) - 1 - h
      BY <1>12, <3>1
    <3>3. h \in Nat
      BY <1>11
    <3> QED
      BY <1>11, <3>1, <3>2, <3>3
  <2>2. g[h + i] = <<NextOf(batch[i])>> /\ batch[i] \in Ids
    <3>1. batch[i] \in Ids
      BY <2>1 DEF IsBatch
    <3> QED
      BY <1>4, <1>5, <2>1, <3>1
  <2>3. Whole(g[h + i]) /\ g[h + i][1].id = batch[i] /\ g[h + i][1].rev = revision[batch[i]] + 1
    BY <1>1, <2>2, NextOfFacts
  <2>4. PICK m \in 2 .. Len(W) : W[m] = g[h + i]
    BY <1>1, <1>6, <2>1, <2>3, WriteAdds DEF W
  <2>5. m \in Held(W, batch[i]) /\ W[m][1].rev = revision[batch[i]] + 1
    BY <2>3, <2>4 DEF Held
  <2> QED
    BY <2>5
<1> DEFINE S == {id \in Ids : \E i \in 1 .. n : batch[i] = id}
<1>15. \A id \in Ids : Advanced(batch, n)[id] = IF id \in S THEN revision[id] + 1 ELSE revision[id]
  BY <1>12, AdvancedFacts
<1>16. \A id \in Ids : \A m \in Held(W, id) : m >= Len(file) => id \in S
  BY <1>13
<1>17. \A id \in S : \E m \in Held(W, id) : W[m][1].rev = revision[id] + 1
  BY <1>14
<1>18. S \in SUBSET Ids
  OBVIOUS
<1> HIDE DEF S
<1>19. Agrees(W, Advanced(batch, n))
  BY <1>1, <1>7, <1>15, <1>16, <1>17, <1>18, FreshAgrees
<1> QED
  BY <1>12, <1>19 DEF W

\* What the store sees of the file and of the memory.
Found(f) == IF f = <<>> THEN Zero ELSE ReadBack(f)
Answers(p, revs) == IF p \in {"loaded", "up"} THEN revs ELSE Zero
Loads(f) == f # <<>> => ~Refused(f)

\* The variables of the store take these values.
Seen(p, revs, f) == <<p \in {"loaded", "up"}, Answers(p, revs), Found(f), Loads(f)>>

(* A good file is accepted and says what agrees with it. *)
LEMMA FileSeen ==
  ASSUME NEW f \in Seq(Texts), \A n \in 1 .. Len(f) : Whole(f[n]) => f[n][1].rev <= MaxRevision,
         Len(f) > 1, Good(f)
  PROVE  /\ Loads(f)
         /\ \A revs \in [Ids -> Nat] : Agrees(f, revs) => Found(f) = revs
<1>1. f # <<>>
  OBVIOUS
<1>2. Loads(f)
  BY GoodLoads DEF Loads
<1>3. ASSUME NEW revs \in [Ids -> Nat], Agrees(f, revs) PROVE Found(f) = revs
  BY <1>1, <1>3, AgreesReadBack DEF Found
<1> QED
  BY <1>2, <1>3

(* While no append failed, load accepts the file and finds what a running journal answers with. *)
LEMMA CleanSeen ==
  ASSUME StorageInv, clean
  PROVE  Loads(file) /\ (Running => Found(file) = revision)
<1>1. CASE file = <<>>
  <2>1. revision \in [Ids -> Nat]
    BY DEF StorageInv, TypeOK
  <2>2. Running => revision = Zero
    BY <1>1, <2>1 DEF StorageInv, Mirrored, Zero
  <2> QED
    BY <1>1, <2>2 DEF Loads, Found
<1>2. CASE file # <<>>
  <2>1. /\ file \in Seq(Texts) /\ revision \in [Ids -> Nat] /\ Len(file) > 1 /\ Good(file)
        /\ \A n \in 1 .. Len(file) : Whole(file[n]) => file[n][1].rev <= MaxRevision
        /\ Running => Agrees(file, revision)
    BY <1>2 DEF StorageInv, TypeOK, Ended, Mirrored, Bounded
  <2> QED
    BY <2>1, FileSeen
<1> QED
  BY <1>1, <1>2

(* The steps of the store, for the values it takes. *)
LEMMA StoreSteps ==
  /\ Seen(phase', revision', file') = Seen(phase, revision, file) => UNCHANGED Store!store
  /\ /\ ~Running /\ Running' /\ revision' = Found(file) /\ Found(file') = Found(file)
     /\ Loads(file') = Loads(file)
     => Store!Next
  /\ /\ Running /\ ~Running' /\ Found(file') = Found(file) /\ Loads(file') = Loads(file)
     => Store!Next
  /\ \A batch \in Batches :
       /\ Running /\ Running' /\ revision' = Store!Advance(revision, batch) /\ Found(file') = revision'
       /\ Loads(file') = Loads(file)
       => Store!Next
  /\ \A batch \in Batches : \A n \in 1 .. Len(batch) :
       /\ Running /\ ~Running' /\ Found(file') = Advanced(batch, n)
       /\ Loads(file') = Loads(file)
       => Store!Next
<1> USE DEF Running, Found, Loads, Zero
<1>1. ASSUME Seen(phase', revision', file') = Seen(phase, revision, file) PROVE UNCHANGED Store!store
  BY <1>1 DEF Seen, Answers, Store!store
<1>2. ASSUME ~Running, Running', revision' = Found(file), Found(file') = Found(file), Loads(file') = Loads(file)
      PROVE  Store!Next
  <2>1. Store!Start
    BY <1>2 DEF Store!Start
  <2> QED
    BY <1>2, <2>1 DEF Store!Next
<1>3. ASSUME Running, ~Running', Found(file') = Found(file), Loads(file') = Loads(file)
      PROVE  Store!Next
  <2>1. Store!Stop
    BY <1>3 DEF Store!Stop, Store!Nothing
  <2> QED
    BY <1>3, <2>1 DEF Store!Next
<1>4. ASSUME NEW batch \in Batches, Running, Running', revision' = Store!Advance(revision, batch),
             Found(file') = revision', Loads(file') = Loads(file)
      PROVE  Store!Next
  <2>1. Store!Commit(batch)
    BY <1>4 DEF Store!Commit
  <2> QED
    BY <1>4, <2>1 DEF Store!Next
<1>5. ASSUME NEW batch \in Batches, NEW n \in 1 .. Len(batch), Running, ~Running',
             Found(file') = Advanced(batch, n), Loads(file') = Loads(file)
      PROVE  Store!Next
  <2>1. Store!StopCommitting(batch)
    BY <1>5 DEF Store!StopCommitting, Store!Nothing, Advanced
  <2> QED
    BY <1>5, <2>1 DEF Store!Next
<1> QED
  BY <1>1, <1>2, <1>3, <1>4, <1>5

(* A load takes what is stored, or leaves the journal as it was until its compaction. *)
LEMMA LoadIsStart ==
  ASSUME StorageInv, StorageInv', clean', Load
  PROVE  Store!Next \/ UNCHANGED Store!store
<1>1. phase = "down" /\ file' = file /\ clean /\ ~Running
  BY DEF Load, Running
<1>2. Loads(file)
  BY <1>1, CleanSeen
<1>3. CASE file = <<>>
  <2>1. Running' /\ revision' = Found(file)
    BY <1>3 DEF Load, Running, Found, Zero
  <2> QED
    BY <1>1, <2>1, StoreSteps
<1>4. CASE file # <<>>
  <2>1. ~Refused(file)
    BY <1>2, <1>4 DEF Loads
  <2>2. /\ phase' = IF TornTail(file) THEN "compact" ELSE "loaded"
        /\ revision' = ReadBack(file)
    BY <1>4, <2>1 DEF Load
  <2>3. CASE TornTail(file)
    <3>1. Seen(phase', revision', file') = Seen(phase, revision, file)
      BY <1>1, <2>2, <2>3 DEF Seen, Answers
    <3> QED
      BY <3>1, StoreSteps
  <2>4. CASE ~TornTail(file)
    <3>1. Running' /\ revision' = Found(file)
      BY <1>4, <2>2, <2>4 DEF Running, Found
    <3> QED
      BY <1>1, <3>1, StoreSteps
  <2> QED
    BY <2>3, <2>4
<1> QED
  BY <1>3, <1>4

(* The compaction of a load changes the file and nothing it says. *)
LEMMA CompactIsStart ==
  ASSUME StorageInv, clean', Compact
  PROVE  Store!Next
<1>1. /\ phase = "compact" /\ phase' = "loaded" /\ file' = Compacted(revision) /\ revision' = revision
      /\ clean
  BY DEF Compact
<1>2. revision \in [Ids -> Nat] /\ IsFiniteSet({id \in Ids : revision[id] > 0})
  BY DEF StorageInv, TypeOK, Bounded
<1>3. /\ file' \in Seq(Texts) /\ Len(file') > 1
      /\ Good(file') /\ Agrees(file', revision)
      /\ \A n \in 1 .. Len(file') : Whole(file'[n]) => \E id \in Ids : file'[n] = <<Piece(id, revision[id])>>
  BY <1>1, <1>2, CompactedFacts
<1>4. \A n \in 1 .. Len(file') : Whole(file'[n]) => file'[n][1].rev <= MaxRevision
  <2>1. \A id \in Ids : <<Piece(id, revision[id])>>[1].rev = revision[id] /\ revision[id] <= MaxRevision
    BY <1>2, TextFacts DEF StorageInv, Bounded
  <2> QED
    BY <1>3, <2>1
<1>5. Loads(file') /\ Found(file') = revision
  BY <1>2, <1>3, <1>4, FileSeen
<1>6. Found(file) = revision
  BY <1>1 DEF StorageInv, Remembered, Found
<1>7. Loads(file)
  BY <1>1, CleanSeen
<1>8. Loads(file') = Loads(file)
  BY <1>5, <1>7 DEF Loads
<1> QED
  BY <1>1, <1>5, <1>6, <1>8, StoreSteps DEF Running

(* A commit advances memory and file in one step; a compaction with it, and one that fails, change
   nothing of that. *)
LEMMA CommitIsCommit ==
  ASSUME StorageInv, StorageInv', clean', NEW batch \in Batches,
         Commit(batch) \/ CommitCompactFails(batch), Running'
  PROVE  Store!Next
<1>1. IsBatch(batch)
  BY BatchFacts
<1>2. TypeOK
  BY DEF StorageInv
<1>3. Running /\ clean /\ revision' = Revised(batch)
  BY DEF Commit, CommitCompactFails, Committing, Running
<1>4. revision' = Store!Advance(revision, batch)
  BY <1>1, <1>2, <1>3, AdvancedEnds
<1>5. /\ file' \in Seq(Texts) /\ revision' \in [Ids -> Nat]
      /\ \A n \in 1 .. Len(file') : Whole(file'[n]) => file'[n][1].rev <= MaxRevision
      /\ file' # <<>> => Len(file') > 1 /\ Good(file') /\ Agrees(file', revision')
      /\ file' = <<>> => \A id \in Ids : revision'[id] = 0
  BY DEF StorageInv, TypeOK, Bounded, Ended, Mirrored
<1>6. Loads(file') /\ Found(file') = revision'
  <2>1. CASE file' = <<>>
    <3>1. revision' = Zero
      BY <1>5, <2>1 DEF Zero
    <3> QED
      BY <2>1, <3>1 DEF Loads, Found
  <2>2. CASE file' # <<>>
    BY <1>5, <2>2, FileSeen
  <2> QED
    BY <2>1, <2>2
<1>7. Loads(file)
  BY <1>3, CleanSeen
<1>8. Loads(file') = Loads(file)
  BY <1>6, <1>7 DEF Loads
<1> QED
  BY <1>3, <1>4, <1>6, <1>8, StoreSteps

(* A host that ends in a commit has stored a first part of its rows. *)
LEMMA EndIsStop ==
  ASSUME InsideCuts, StorageInv, clean', NEW batch \in Batches,
         CommitCompactFails(batch) \/ CrashCommitting(batch), ~Running'
  PROVE  Store!Next
<1>1. IsBatch(batch) /\ TypeOK
  BY BatchFacts DEF StorageInv
<1>2. Committing(batch) /\ Running /\ clean
  BY DEF CommitCompactFails, CrashCommitting, Committing, Running
<1>3. Loads(file) /\ Found(file) = revision
  BY <1>2, CleanSeen
<1>4. Len(batch) \in Nat /\ Len(batch) > 0
  BY <1>1 DEF IsBatch
<1>5. ASSUME file' = Write(file, Appended(batch))
      PROVE  Store!Next
  <2>1. /\ file' \in Seq(Texts) /\ Len(file') > 1
        /\ \A n \in 1 .. Len(file') : Whole(file'[n]) => file'[n][1].rev <= MaxRevision
        /\ Good(file') /\ Agrees(file', Revised(batch))
    BY <1>1, <1>2, <1>5, WholeWrite
  <2>2. Revised(batch) \in [Ids -> Nat] /\ Advanced(batch, Len(batch)) = Revised(batch)
    BY <1>1, RevisedType, AdvancedEnds
  <2>3. Loads(file') /\ Found(file') = Advanced(batch, Len(batch))
    BY <2>1, <2>2, FileSeen
  <2>4. Len(batch) \in 1 .. Len(batch) /\ Loads(file') = Loads(file)
    BY <1>3, <1>4, <2>3 DEF Loads
  <2> QED
    BY <1>2, <2>3, <2>4, StoreSteps
<1>6. ASSUME NEW g \in Left(Appended(batch)), file' = Write(file, g), Considered(file')
      PROVE  Store!Next
  <2>1. /\ file' \in Seq(Texts) /\ Len(file') > 1 /\ Good(file')
        /\ \A n \in 1 .. Len(file') : Whole(file'[n]) => file'[n][1].rev <= MaxRevision
    BY <1>1, <1>2, <1>6, PartWrite
  <2>2. PICK n \in 0 .. Len(batch) : Agrees(file', Advanced(batch, n))
    BY <1>1, <1>2, <1>6, PartHolds
  <2>3. Advanced(batch, n) \in [Ids -> Nat]
    BY <1>1, AdvancedFacts
  <2>4. Loads(file') /\ Found(file') = Advanced(batch, n)
    BY <2>1, <2>2, <2>3, FileSeen
  <2>5. Loads(file') = Loads(file)
    BY <1>3, <2>4 DEF Loads
  <2>6. CASE n = 0
    <3>1. Found(file') = Found(file)
      BY <1>1, <1>3, <2>4, <2>6, AdvancedEnds
    <3> QED
      BY <1>2, <2>5, <3>1, StoreSteps
  <2>7. CASE n # 0
    <3>1. n \in 1 .. Len(batch)
      BY <1>4, <2>7
    <3> QED
      BY <1>2, <2>4, <2>5, <3>1, StoreSteps
  <2> QED
    BY <2>6, <2>7
<1>7. CASE CommitCompactFails(batch)
  BY <1>5, <1>7 DEF CommitCompactFails
<1>8. CASE CrashCommitting(batch)
  BY <1>5, <1>6, <1>8 DEF CrashCommitting
<1> QED
  BY <1>7, <1>8

LEMMA StoreNext ==
  ASSUME InsideCuts, StorageInv, StorageInv', [Next]_vars, clean'
  PROVE  Store!Next \/ UNCHANGED Store!store
<1>1. CASE Load
  BY <1>1, LoadIsStart
<1>2. CASE Compact
  BY <1>2, CompactIsStart
<1>3. CASE CompactFails \/ Loaded
  <2>1. revision' = revision /\ file' = file
    BY <1>3 DEF CompactFails, Loaded
  <2>2. (phase' \in {"loaded", "up"}) = (phase \in {"loaded", "up"})
    <3>1. CASE CompactFails
      <4>1. phase = "compact" /\ phase' = "dead"
        BY <3>1 DEF CompactFails
      <4> QED
        BY <4>1
    <3>2. CASE Loaded
      <4>1. phase = "loaded" /\ phase' = "up"
        BY <3>2 DEF Loaded
      <4> QED
        BY <4>1
    <3> QED
      BY <1>3, <3>1, <3>2
  <2>3. Answers(phase', revision') = Answers(phase, revision)
    BY <2>1, <2>2 DEF Answers
  <2>4. Seen(phase', revision', file') = Seen(phase, revision, file)
    BY <2>1, <2>2, <2>3 DEF Seen
  <2> QED
    BY <2>4, StoreSteps
<1>4. CASE Crash
  <2>1. ~Running' /\ file' = file /\ revision' = revision /\ phase' = "down"
    BY <1>4 DEF Crash, Running
  <2>2. CASE Running
    BY <2>1, <2>2, StoreSteps
  <2>3. CASE ~Running
    <3>1. Seen(phase', revision', file') = Seen(phase, revision, file)
      BY <2>1, <2>3 DEF Seen, Answers, Running
    <3> QED
      BY <3>1, StoreSteps
  <2> QED
    BY <2>2, <2>3
<1>5. ASSUME NEW batch \in Batches, Commit(batch) \/ CommitCompactFails(batch)
      PROVE  Store!Next
  <2>1. CASE Running'
    BY <1>5, <2>1, CommitIsCommit
  <2>2. CASE ~Running'
    <3>1. CommitCompactFails(batch)
      BY <1>5, <2>2 DEF Commit, Running
    <3> QED
      BY <2>2, <3>1, EndIsStop
  <2> QED
    BY <2>1, <2>2
<1>6. ASSUME NEW batch \in Batches, CommitFails(batch) PROVE FALSE
  BY <1>6 DEF CommitFails
<1>7. ASSUME NEW batch \in Batches, CrashCommitting(batch) PROVE Store!Next
  <2>1. ~Running'
    BY <1>7 DEF CrashCommitting, Running
  <2> QED
    BY <1>7, <2>1, EndIsStop
<1>8. CASE UNCHANGED vars
  <2>1. Seen(phase', revision', file') = Seen(phase, revision, file)
    BY <1>8 DEF vars
  <2> QED
    BY <2>1, StoreSteps
<1> QED
  BY <1>1, <1>2, <1>3, <1>4, <1>5, <1>6, <1>7, <1>8 DEF Next

(* While no append fails, journal and file implement RevisionStore: what load finds is what the
   journal answers with, a commit advances both, and a crash keeps a first part of its rows. *)
THEOREM KeepsTheStore ==
  ASSUME InsideCuts
  PROVE  Spec => ImplementsStore
<1>1. Init => Store!Init
  <2> SUFFICES ASSUME Init PROVE Store!Init
    OBVIOUS
  <2>1. file = <<>> /\ phase = "down"
    BY DEF Init
  <2> QED
    BY <2>1 DEF Store!Init, Store!Nothing, Running
<1>2. StorageInv /\ StorageInv' /\ [Next]_vars => (clean' => [Store!Next]_(Store!store))
  BY StoreNext
<1>3. Spec => Store!Init /\ [][clean' => [Store!Next]_(Store!store)]_vars
  BY <1>1, <1>2, StorageInvariant, PTL DEF Spec
<1> QED
  BY <1>3 DEF ImplementsStore

=============================================================================

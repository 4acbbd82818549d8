---------------------------- MODULE ChunkProofs ----------------------------
(***************************************************************************)
(* Counting and numbering the chunks of a stream: what sending, receiving  *)
(* and losing messages does to the count, to numbers that run on without a *)
(* gap, and to what comes before the end.                                  *)
(***************************************************************************)
EXTENDS RPCStream, SequenceTheorems, FiniteSetTheorems, WellFoundedInduction, TLAPS

IsChunk(m) == IF m.kind = "payload" THEN 1 ELSE 0

(* The numbers of the chunks run on without a gap after the first k. *)
Numbered(s, k) == \A i \in 1..Len(s) : s[i].kind = "payload" => s[i].n = k + Chunks(s, i)

(* With the end of a stream comes the last of t chunks, k of which are gone. *)
EndsAfter(s, k, t) == \A i \in 1..Len(s) : s[i].kind = "eof" => t = k + Chunks(s, i)

LEMMA ChunksType ==
    ASSUME NEW s, NEW i \in Nat
    PROVE  /\ IsFiniteSet({j \in 1..i : s[j].kind = "payload"})
           /\ Chunks(s, i) \in Nat
<1>1. IsFiniteSet(1..i)
  BY FS_Interval
<1>2. IsFiniteSet({j \in 1..i : s[j].kind = "payload"})
  BY <1>1, FS_Subset
<1> QED BY <1>2, FS_CardinalityType DEF Chunks

LEMMA ChunksNone == ASSUME NEW s PROVE Chunks(s, 0) = 0
<1>1. {j \in 1..0 : s[j].kind = "payload"} = {}
  OBVIOUS
<1> QED BY <1>1, FS_EmptySet DEF Chunks

(* One message more. *)
LEMMA ChunksNext ==
    ASSUME NEW s, NEW i \in Nat
    PROVE  Chunks(s, i + 1) = Chunks(s, i) + IsChunk(s[i + 1])
<1> DEFINE S == {j \in 1..i : s[j].kind = "payload"}
           U == {j \in 1..(i + 1) : s[j].kind = "payload"}
<1>1. IsFiniteSet(S) /\ Cardinality(S) \in Nat
  BY ChunksType DEF Chunks
<1>2. CASE s[i + 1].kind = "payload"
  <2>1. U = S \cup {i + 1} /\ i + 1 \notin S
    BY <1>2
  <2>2. Cardinality(U) = Cardinality(S) + 1
    BY <1>1, <2>1, FS_AddElement
  <2> QED BY <1>2, <2>2 DEF Chunks, IsChunk
<1>3. CASE s[i + 1].kind # "payload"
  <2>1. U = S
    BY <1>3
  <2>2. Chunks(s, i + 1) = Cardinality(S) /\ Chunks(s, i) = Cardinality(S)
    BY <2>1 DEF Chunks
  <2>3. IsChunk(s[i + 1]) = 0
    BY <1>3 DEF IsChunk
  <2> QED BY <1>1, <2>2, <2>3
<1> QED BY <1>2, <1>3

(* Only the messages counted matter. *)
LEMMA ChunksSame ==
    ASSUME NEW s, NEW u, NEW i \in Nat, \A j \in 1..i : s[j] = u[j]
    PROVE  Chunks(s, i) = Chunks(u, i)
<1>1. {j \in 1..i : s[j].kind = "payload"} = {j \in 1..i : u[j].kind = "payload"}
  OBVIOUS
<1> QED BY <1>1 DEF Chunks

LEMMA ChunksAppend ==
    ASSUME NEW T, NEW s \in Seq(T), NEW m \in T
    PROVE  /\ \A i \in 0..Len(s) : Chunks(Append(s, m), i) = Chunks(s, i)
           /\ Chunks(Append(s, m), Len(s) + 1) = Chunks(s, Len(s)) + IsChunk(m)
<1>1. \A j \in 1..Len(s) : Append(s, m)[j] = s[j]
  OBVIOUS
<1>2. Append(s, m)[Len(s) + 1] = m /\ Len(s) \in Nat
  OBVIOUS
<1>3. ASSUME NEW i \in 0..Len(s) PROVE Chunks(Append(s, m), i) = Chunks(s, i)
  <2>1. i \in Nat /\ \A j \in 1..i : Append(s, m)[j] = s[j]
    BY <1>1, <1>2
  <2> QED BY <2>1, ChunksSame
<1>4. Chunks(Append(s, m), Len(s) + 1) = Chunks(Append(s, m), Len(s)) + IsChunk(m)
  BY <1>2, ChunksNext
<1> QED BY <1>2, <1>3, <1>4

(* What is left after the first message. *)
LEMMA ChunksTail ==
    ASSUME NEW T, NEW s \in Seq(T), s # <<>>, NEW i \in 0..(Len(s) - 1)
    PROVE  Chunks(s, i + 1) = Chunks(Tail(s), i) + IsChunk(Head(s))
<1> DEFINE S == {j \in 1..i : Tail(s)[j].kind = "payload"}
           U == {j \in 2..(i + 1) : s[j].kind = "payload"}
           V == {j \in 1..(i + 1) : s[j].kind = "payload"}
           shift == [j \in S |-> j + 1]
<1>1. i \in Nat /\ Len(s) \in Nat /\ Head(s) = s[1] /\ \A j \in 1..i : Tail(s)[j] = s[j + 1]
  OBVIOUS
<1>2. IsFiniteSet(S) /\ Cardinality(S) \in Nat
  BY <1>1, ChunksType DEF Chunks
<1>3. shift \in Bijection(S, U)
  <2>1. \A j \in S : j + 1 \in U
    BY <1>1
  <2>2. shift \in [S -> U]
    BY <2>1
  <2>3. \A a, b \in S : a # b => shift[a] # shift[b]
    BY <1>1
  <2>4. \A u \in U : u - 1 \in S /\ shift[u - 1] = u
    BY <1>1
  <2> QED BY <2>2, <2>3, <2>4 DEF Bijection, Injection, Surjection, IsInjective
<1>4. IsFiniteSet(U) /\ Cardinality(U) = Cardinality(S)
  BY <1>2, <1>3, FS_Bijection DEF ExistsBijection
<1>5. CASE s[1].kind = "payload"
  <2>1. V = U \cup {1} /\ 1 \notin U
    BY <1>1, <1>5
  <2>2. Cardinality(V) = Cardinality(U) + 1
    BY <1>4, <2>1, FS_AddElement
  <2> QED BY <1>1, <1>4, <1>5, <2>2 DEF Chunks, IsChunk
<1>6. CASE s[1].kind # "payload"
  <2>1. V = U
    BY <1>1, <1>6
  <2>2. Cardinality(V) = Cardinality(S)
    BY <1>4, <2>1
  <2>3. Chunks(s, i + 1) = Cardinality(V) /\ Chunks(Tail(s), i) = Cardinality(S)
    BY DEF Chunks
  <2>4. IsChunk(Head(s)) = 0
    BY <1>1, <1>6 DEF IsChunk
  <2>5. Chunks(s, i + 1) = Chunks(Tail(s), i) /\ Chunks(Tail(s), i) \in Nat
    BY <1>1, <2>2, <2>3, ChunksType
  <2> QED BY <2>4, <2>5
<1> QED BY <1>5, <1>6

LEMMA NumberedAppend ==
    ASSUME NEW T, NEW s \in Seq(T), NEW m \in T, NEW k \in Nat, Numbered(s, k),
           m.kind = "payload" => m.n = k + Chunks(s, Len(s)) + 1
    PROVE  Numbered(Append(s, m), k)
<1>1. Len(Append(s, m)) = Len(s) + 1 /\ Len(s) \in Nat /\ Append(s, m)[Len(s) + 1] = m
      /\ \A j \in 1..Len(s) : Append(s, m)[j] = s[j]
  OBVIOUS
<1>2. Chunks(s, Len(s)) \in Nat
  BY <1>1, ChunksType
<1>3. ASSUME NEW i \in 1..(Len(s) + 1), Append(s, m)[i].kind = "payload"
      PROVE  Append(s, m)[i].n = k + Chunks(Append(s, m), i)
  <2>1. CASE i = Len(s) + 1
    BY <1>1, <1>2, <1>3, <2>1, ChunksAppend DEF IsChunk
  <2>2. CASE i \in 1..Len(s)
    BY <1>1, <1>3, <2>2, ChunksAppend DEF Numbered
  <2> QED BY <1>1, <2>1, <2>2
<1> QED BY <1>1, <1>3 DEF Numbered

LEMMA NumberedTail ==
    ASSUME NEW T, NEW s \in Seq(T), s # <<>>, NEW k \in Nat, Numbered(s, k)
    PROVE  /\ Numbered(Tail(s), k + IsChunk(Head(s)))
           /\ Head(s).kind = "payload" => Head(s).n = k + 1
           /\ Chunks(s, Len(s)) = Chunks(Tail(s), Len(Tail(s))) + IsChunk(Head(s))
           /\ Chunks(Tail(s), Len(Tail(s))) \in Nat
<1>1. /\ Len(s) \in Nat \ {0} /\ Len(Tail(s)) = Len(s) - 1 /\ Head(s) = s[1]
      /\ \A j \in 1..(Len(s) - 1) : Tail(s)[j] = s[j + 1]
  OBVIOUS
<1>2. IsChunk(Head(s)) \in Nat
  BY DEF IsChunk
<1>3. ASSUME NEW i \in 1..(Len(s) - 1), Tail(s)[i].kind = "payload"
      PROVE  Tail(s)[i].n = k + IsChunk(Head(s)) + Chunks(Tail(s), i)
  <2>1. Tail(s)[i] = s[i + 1] /\ i + 1 \in 1..Len(s) /\ i \in Nat /\ i \in 0..(Len(s) - 1)
    BY <1>1
  <2>2. s[i + 1].n = k + Chunks(s, i + 1)
    BY <1>3, <2>1 DEF Numbered
  <2>3. Chunks(s, i + 1) = Chunks(Tail(s), i) + IsChunk(Head(s)) /\ Chunks(Tail(s), i) \in Nat
    BY <2>1, ChunksTail, ChunksType
  <2> QED BY <1>2, <2>1, <2>2, <2>3
<1>4. Head(s).kind = "payload" => Head(s).n = k + 1
  <2>1. Chunks(s, 1) = Chunks(s, 0) + IsChunk(s[1])
    BY ChunksNext
  <2>2. Chunks(s, 0) = 0
    BY ChunksNone
  <2> QED BY <1>1, <2>1, <2>2 DEF Numbered, IsChunk
<1>5. Len(s) - 1 \in 0..(Len(s) - 1) /\ (Len(s) - 1) + 1 = Len(s) /\ Len(s) - 1 \in Nat
  BY <1>1
<1>6. Chunks(s, Len(s)) = Chunks(Tail(s), Len(s) - 1) + IsChunk(Head(s))
  BY <1>5, ChunksTail
<1>7. Chunks(Tail(s), Len(s) - 1) \in Nat
  BY <1>5, ChunksType
<1> QED BY <1>1, <1>3, <1>4, <1>6, <1>7 DEF Numbered

LEMMA NumberedBeginning ==
    ASSUME NEW T, NEW s \in Seq(T), NEW b \in Beginnings(s), NEW k \in Nat, NEW t
    PROVE  (Numbered(s, k) => Numbered(b, k)) /\ (EndsAfter(s, k, t) => EndsAfter(b, k, t))
<1>1. PICK l \in 0..Len(s) : b = SubSeq(s, 1, l)
  BY DEF Beginnings
<1>2. \A j \in 1..l : s[j] \in T
  BY ElementOfSeq
<1>3. Len(b) = l /\ l \in Nat /\ l <= Len(s) /\ \A j \in 1..l : b[j] = s[j]
  BY <1>1, <1>2, SubSeqProperties
<1>4. ASSUME NEW i \in 1..l PROVE Chunks(b, i) = Chunks(s, i) /\ i \in 1..Len(s) /\ b[i] = s[i]
  <2>1. i \in Nat /\ \A j \in 1..i : b[j] = s[j]
    BY <1>3
  <2> QED BY <1>3, <2>1, ChunksSame
<1> QED BY <1>3, <1>4 DEF Numbered, EndsAfter

LEMMA EndsAppend ==
    ASSUME NEW T, NEW s \in Seq(T), NEW m \in T, NEW k \in Nat, NEW t, EndsAfter(s, k, t),
           m.kind = "eof" => t = k + Chunks(s, Len(s))
    PROVE  EndsAfter(Append(s, m), k, t)
<1>1. Len(Append(s, m)) = Len(s) + 1 /\ Len(s) \in Nat /\ Append(s, m)[Len(s) + 1] = m
      /\ \A j \in 1..Len(s) : Append(s, m)[j] = s[j]
  OBVIOUS
<1>2. Chunks(s, Len(s)) \in Nat
  BY <1>1, ChunksType
<1>3. ASSUME NEW i \in 1..(Len(s) + 1), Append(s, m)[i].kind = "eof"
      PROVE  t = k + Chunks(Append(s, m), i)
  <2>1. CASE i = Len(s) + 1
    BY <1>1, <1>2, <1>3, <2>1, ChunksAppend DEF IsChunk
  <2>2. CASE i \in 1..Len(s)
    BY <1>1, <1>3, <2>2, ChunksAppend DEF EndsAfter
  <2> QED BY <1>1, <2>1, <2>2
<1> QED BY <1>1, <1>3 DEF EndsAfter

LEMMA EndsTail ==
    ASSUME NEW T, NEW s \in Seq(T), s # <<>>, NEW k \in Nat, NEW t, EndsAfter(s, k, t)
    PROVE  /\ EndsAfter(Tail(s), k + IsChunk(Head(s)), t)
           /\ Head(s).kind = "eof" => t = k
<1>1. /\ Len(s) \in Nat \ {0} /\ Len(Tail(s)) = Len(s) - 1 /\ Head(s) = s[1]
      /\ \A j \in 1..(Len(s) - 1) : Tail(s)[j] = s[j + 1]
  OBVIOUS
<1>2. IsChunk(Head(s)) \in Nat
  BY DEF IsChunk
<1>3. ASSUME NEW i \in 1..(Len(s) - 1), Tail(s)[i].kind = "eof"
      PROVE  t = k + IsChunk(Head(s)) + Chunks(Tail(s), i)
  <2>1. Tail(s)[i] = s[i + 1] /\ i + 1 \in 1..Len(s) /\ i \in Nat /\ i \in 0..(Len(s) - 1)
    BY <1>1
  <2>2. t = k + Chunks(s, i + 1)
    BY <1>3, <2>1 DEF EndsAfter
  <2>3. Chunks(s, i + 1) = Chunks(Tail(s), i) + IsChunk(Head(s)) /\ Chunks(Tail(s), i) \in Nat
    BY <2>1, ChunksTail, ChunksType
  <2> QED BY <1>2, <2>2, <2>3
<1>4. Head(s).kind = "eof" => t = k
  <2>1. Chunks(s, 1) = Chunks(s, 0) + IsChunk(s[1])
    BY ChunksNext
  <2>2. Chunks(s, 0) = 0
    BY ChunksNone
  <2> QED BY <1>1, <2>1, <2>2 DEF EndsAfter, IsChunk
<1> QED BY <1>1, <1>3, <1>4 DEF EndsAfter

LEMMA ChunksBeginning ==
    ASSUME NEW T, NEW s \in Seq(T), NEW b \in Beginnings(s)
    PROVE  Chunks(b, Len(b)) \in 0..Chunks(s, Len(s))
<1>1. PICK l \in 0..Len(s) : b = SubSeq(s, 1, l)
  BY DEF Beginnings
<1>2. \A j \in 1..l : s[j] \in T
  BY ElementOfSeq
<1>3. Len(b) = l /\ l \in Nat /\ l <= Len(s) /\ Len(s) \in Nat /\ \A j \in 1..l : b[j] = s[j]
  BY <1>1, <1>2, SubSeqProperties
<1> DEFINE S == {j \in 1..l : s[j].kind = "payload"}
           U == {j \in 1..Len(s) : s[j].kind = "payload"}
<1>4. S \subseteq U /\ IsFiniteSet(U)
  <2>1. S \subseteq U
    BY <1>3
  <2>2. IsFiniteSet(U)
    BY <1>3, ChunksType
  <2> QED BY <2>1, <2>2
<1>5. Cardinality(S) <= Cardinality(U) /\ Cardinality(U) \in Nat /\ Cardinality(S) \in Nat
  BY <1>4, FS_Subset, FS_CardinalityType
<1>6. Chunks(b, l) = Chunks(s, l)
  BY <1>3, ChunksSame
<1>7. Chunks(s, l) = Cardinality(S) /\ Chunks(s, Len(s)) = Cardinality(U)
  BY DEF Chunks
<1> QED BY <1>3, <1>5, <1>6, <1>7

(* Every count up to the last is reached, and at a chunk. *)
LEMMA ChunkOfRank ==
    ASSUME NEW s, NEW l \in Nat, NEW i \in 1..Chunks(s, l)
    PROVE  \E j \in 1..l : s[j].kind = "payload" /\ Chunks(s, j) = i
<1> DEFINE R == OpToRel(<, Nat)
           S == {j \in 0..l : i <= Chunks(s, j)}
<1>1. Chunks(s, l) \in Nat /\ i \in Nat \ {0} /\ l \in S /\ S \subseteq Nat
  <2>1. Chunks(s, l) \in Nat
    BY ChunksType
  <2> QED BY <2>1
<1>2. IsWellFoundedOn(R, Nat)
  BY NatLessThanWellFounded, Zenon
<1>3. \A a, b \in Nat : a < b => <<a, b>> \in R
  BY DEF OpToRel
<1> HIDE DEF R
<1>4. PICK j \in S : \A k \in S : ~(<<k, j>> \in R)
  <2>1. S # {} /\ S \subseteq Nat
    BY <1>1
  <2> HIDE DEF S
  <2> QED BY <1>2, <2>1, WFMin, Zenon
<1>5. j \in 1..l
  <2>1. 0 \notin S
    BY <1>1, ChunksNone
  <2> QED BY <1>4, <2>1
<1>6. j - 1 \in Nat /\ j - 1 \in 0..l /\ j - 1 < j
  BY <1>5
<1>7. j - 1 \notin S
  BY <1>1, <1>3, <1>4, <1>6
<1>8. Chunks(s, j) = Chunks(s, j - 1) + IsChunk(s[j]) /\ Chunks(s, j - 1) \in Nat
  <2>1. Chunks(s, (j - 1) + 1) = Chunks(s, j - 1) + IsChunk(s[(j - 1) + 1])
    BY <1>6, ChunksNext
  <2>2. (j - 1) + 1 = j
    BY <1>5
  <2> QED BY <1>6, <2>1, <2>2, ChunksType
<1>9. i <= Chunks(s, j) /\ ~(i <= Chunks(s, j - 1))
  BY <1>4, <1>6, <1>7
<1>10. IsChunk(s[j]) \in {0, 1} /\ (IsChunk(s[j]) = 1 => s[j].kind = "payload")
  BY DEF IsChunk
<1>11. IsChunk(s[j]) = 1 /\ Chunks(s, j) = i
  BY <1>1, <1>8, <1>9, <1>10
<1> QED BY <1>5, <1>10, <1>11
=============================================================================

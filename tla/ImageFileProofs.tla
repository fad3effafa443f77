--------------------------- MODULE ImageFileProofs ---------------------------
(***************************************************************************)
(* Theorems about ImageFile: for every list of files, every length of a    *)
(* field and every split of the transfers, what a pack has written is the  *)
(* image it was to write, what a mount finds are the records that were     *)
(* packed, and what a read returns are the bytes of its file.              *)
(*                                                                         *)
(* The image is a concatenation, and FlattenSeq is a recursive function.   *)
(* What it computes is shown without an induction rule: the places where a *)
(* claim about it fails would have a least one (LeastPlace).               *)
(***************************************************************************)
EXTENDS ImageFile, FiniteSetTheorems, SequenceTheorems, TLAPS

\* Of the finite sets 1 .. m for m in a set of numbers one is smallest.
LEMMA LeastPlace ==
    ASSUME NEW T \in SUBSET Nat, T # {}
    PROVE  \E m \in T : \A l \in T : m <= l
  <1> DEFINE R == StrictSubsetOrdering(Nat)
             Segments == {1 .. m : m \in T}
  <1>1. IsWellFoundedOn(R, FiniteSubsetsOf(Nat))
    BY FS_StrictSubsetOrderingWellFounded
  <1>2. Segments \subseteq FiniteSubsetsOf(Nat)
    <2>1. ASSUME NEW m \in T
          PROVE  IsFiniteSet(1 .. m) /\ 1 .. m \subseteq Nat
      BY FS_Interval
    <2> QED BY <2>1 DEF FiniteSubsetsOf
  <1>3. Segments # {}
    OBVIOUS
  <1>4. \E x \in Segments : \A y \in Segments : ~(<<y, x>> \in R)
    <2> HIDE DEF R, Segments
    <2> QED BY <1>1, <1>2, <1>3, WFMin
  <1>5. PICK m \in T : \A l \in T : ~(<<1 .. l, 1 .. m>> \in R)
    BY <1>4
  <1>6. ASSUME NEW l \in T, l < m
        PROVE  FALSE
    <2>1. l \in Nat /\ m \in Nat
      OBVIOUS
    <2>2. m \in 1 .. m /\ m \notin 1 .. l
      BY <1>6, <2>1
    <2>3. 1 .. l \subseteq 1 .. m
      BY <1>6, <2>1
    <2>4. 1 .. l \in SUBSET Nat /\ 1 .. m \in SUBSET Nat /\ 1 .. l # 1 .. m
      BY <2>1, <2>2
    <2> QED BY <1>5, <2>3, <2>4 DEF StrictSubsetOrdering
  <1> QED BY <1>5, <1>6

-----------------------------------------------------------------------------
(* Concatenations. *)

Follows(parts, blocks, k) == parts[k] = parts[k - 1] \o blocks[k]

\* parts[k] is the concatenation of the first k blocks, sequences over S.
Pieces(parts, blocks, S) ==
    /\ blocks \in Seq(Seq(S))
    /\ parts \in [0 .. Len(blocks) -> Seq(S)]
    /\ parts[0] = <<>>
    /\ \A k \in 1 .. Len(blocks) : Follows(parts, blocks, k)

LEMMA PiecesExist ==
    ASSUME NEW S, NEW blocks \in Seq(Seq(S))
    PROVE  \E parts : Pieces(parts, blocks, S)
  <1> DEFINE n == Len(blocks)
             To(m) == \E parts \in [0 .. m -> Seq(S)] :
                         /\ parts[0] = <<>>
                         /\ \A k \in 1 .. m : Follows(parts, blocks, k)
             Bad == {m \in 0 .. n : ~To(m)}
  <1>0. n \in Nat
    OBVIOUS
  <1>a. To(n) => \E parts : Pieces(parts, blocks, S)
    BY DEF Pieces
  <1> SUFFICES ASSUME Bad # {}
               PROVE  FALSE
    <2>1. Bad = {} => To(n)
      <3> HIDE DEF To
      <3> QED BY <1>0
    <2> HIDE DEF To, Bad
    <2> QED BY <1>a, <2>1
  <1>1. PICK m \in Bad : \A l \in Bad : m <= l
    <2> HIDE DEF To
    <2>1. Bad \in SUBSET Nat
      OBVIOUS
    <2> HIDE DEF Bad
    <2> QED BY <2>1, LeastPlace
  <1>b. m \in 0 .. n /\ ~To(m)
    <2> HIDE DEF To
    <2> QED OBVIOUS
  <1>2. CASE m = 0
    <2> DEFINE parts == [k \in 0 .. 0 |-> <<>>]
    <2>1. parts \in [0 .. 0 -> Seq(S)] /\ parts[0] = <<>>
      OBVIOUS
    <2>2. \A k \in 1 .. 0 : FALSE
      OBVIOUS
    <2> HIDE DEF parts
    <2>3. To(0)
      BY <2>1, <2>2
    <2> HIDE DEF To
    <2> QED BY <1>b, <1>2, <2>3
  <1>3. CASE m # 0
    <2>1. m \in Nat \ {0} /\ m - 1 \in 0 .. n /\ m \in 1 .. n
      BY <1>0, <1>3
    <2>2. To(m - 1)
      <3> HIDE DEF To
      <3> QED BY <1>1, <2>1
    <2>3. PICK h \in [0 .. (m - 1) -> Seq(S)] :
             h[0] = <<>> /\ \A k \in 1 .. (m - 1) : Follows(h, blocks, k)
      BY <2>2
    <2> DEFINE parts == [k \in 0 .. m |-> IF k = m THEN h[m - 1] \o blocks[m] ELSE h[k]]
    <2>4. blocks[m] \in Seq(S) /\ h[m - 1] \in Seq(S)
      BY <2>1, <2>3
    <2>5. h[m - 1] \o blocks[m] \in Seq(S)
      BY <2>4, ConcatProperties
    <2>6. parts \in [0 .. m -> Seq(S)]
      BY <2>1, <2>3, <2>5
    <2>7. parts[0] = <<>>
      BY <2>1, <2>3
    <2>8. ASSUME NEW k \in 1 .. m
          PROVE  Follows(parts, blocks, k)
      <3>1. k \in 0 .. m /\ k - 1 \in 0 .. m /\ k - 1 # m
        BY <2>1
      <3>2. parts[k - 1] = h[k - 1]
        BY <3>1
      <3>3. CASE k = m
        BY <3>1, <3>2, <3>3 DEF Follows
      <3>4. CASE k # m
        <4>1. k \in 1 .. (m - 1) /\ parts[k] = h[k]
          BY <2>1, <3>1, <3>4
        <4>2. Follows(h, blocks, k)
          BY <2>3, <4>1
        <4> QED BY <3>2, <4>1, <4>2 DEF Follows
      <3> QED BY <3>3, <3>4
    <2> HIDE DEF parts
    <2>9. To(m)
      BY <2>6, <2>7, <2>8
    <2> HIDE DEF To
    <2> QED BY <1>b, <2>9
  <1> QED BY <1>2, <1>3

LEMMA PieceType ==
    ASSUME NEW S, NEW blocks, NEW parts, Pieces(parts, blocks, S)
    PROVE  /\ Len(blocks) \in Nat /\ DOMAIN blocks = 1 .. Len(blocks)
           /\ parts \in [0 .. Len(blocks) -> Seq(S)] /\ parts[0] = <<>>
           /\ \A k \in 0 .. Len(blocks) : parts[k] \in Seq(S) /\ Len(parts[k]) \in Nat
           /\ \A k \in 1 .. Len(blocks) : blocks[k] \in Seq(S) /\ Len(blocks[k]) \in Nat
  <1>1. blocks \in Seq(Seq(S)) /\ parts \in [0 .. Len(blocks) -> Seq(S)] /\ parts[0] = <<>>
    BY DEF Pieces
  <1>2. \A k \in 1 .. Len(blocks) : blocks[k] \in Seq(S)
    BY <1>1
  <1>3. \A k \in 0 .. Len(blocks) : parts[k] \in Seq(S)
    BY <1>1
  <1> QED BY <1>1, <1>2, <1>3

\* One piece after another: their lengths and their contents.
NextPiece(parts, blocks, k) ==
    /\ Len(parts[k]) = Len(parts[k - 1]) + Len(blocks[k])
    /\ \A j \in 1 .. Len(parts[k - 1]) : parts[k][j] = parts[k - 1][j]
    /\ \A j \in 1 .. Len(blocks[k]) : parts[k][Len(parts[k - 1]) + j] = blocks[k][j]

LEMMA PieceNext ==
    ASSUME NEW S, NEW blocks, NEW parts, Pieces(parts, blocks, S), NEW k \in 1 .. Len(blocks)
    PROVE  Follows(parts, blocks, k) /\ NextPiece(parts, blocks, k)
  <1>1. Follows(parts, blocks, k)
    BY DEF Pieces
  <1>2. k - 1 \in 0 .. Len(blocks)
    BY PieceType
  <1>3. parts[k - 1] \in Seq(S)
    BY <1>2, PieceType
  <1>4. blocks[k] \in Seq(S)
    BY PieceType
  <1>5. PICK a, b : a = parts[k - 1] /\ b = blocks[k]
    OBVIOUS
  <1>6. a \in Seq(S) /\ b \in Seq(S)
    BY <1>3, <1>4, <1>5
  <1>7. /\ Len(a \o b) = Len(a) + Len(b)
        /\ \A j \in 1 .. Len(a) : (a \o b)[j] = a[j]
        /\ \A j \in 1 .. Len(b) : (a \o b)[Len(a) + j] = b[j]
    BY <1>6
  <1>8. parts[k] = a \o b
    BY <1>1, <1>5 DEF Follows
  <1> QED BY <1>1, <1>5, <1>7, <1>8 DEF NextPiece

\* FlattenSeq's recursive function.
Flattens(g, blocks) ==
    g = [i \in 1 .. Len(blocks) |-> IF i = 1 THEN blocks[i] ELSE g[i - 1] \o blocks[i]]

LEMMA FlattenIsPieces ==
    ASSUME NEW S, NEW blocks, NEW parts, Pieces(parts, blocks, S)
    PROVE  FlattenSeq(blocks) = parts[Len(blocks)]
  <1> DEFINE n == Len(blocks)
  <1>0. n \in Nat /\ blocks \in Seq(Seq(S)) /\ parts[0] = <<>>
    BY DEF Pieces
  <1>1. CASE n = 0
    <2>1. blocks = <<>> /\ FlattenSeq(blocks) = blocks
      BY <1>0, <1>1 DEF FlattenSeq
    <2> QED BY <1>0, <1>1, <2>1
  <1>2. CASE n # 0
    <2>1. FlattenSeq(blocks) = (CHOOSE g : Flattens(g, blocks))[n]
      BY <1>2 DEF FlattenSeq, Flattens
    <2>2. parts[1] = blocks[1]
      <3>1. 1 \in 1 .. n
        BY <1>0, <1>2
      <3>2. Follows(parts, blocks, 1) /\ blocks[1] \in Seq(S)
        BY <3>1, PieceNext, PieceType
      <3>3. <<>> \o blocks[1] = blocks[1]
        BY <3>2, ConcatEmptySeq
      <3>4. 1 - 1 = 0
        OBVIOUS
      <3> QED BY <1>0, <3>2, <3>3, <3>4 DEF Follows
    <2>3. \E g : Flattens(g, blocks)
      <3> DEFINE g == [i \in 1 .. n |-> parts[i]]
      <3>1. ASSUME NEW i \in 1 .. n
            PROVE  g[i] = IF i = 1 THEN blocks[i] ELSE g[i - 1] \o blocks[i]
        <4>1. CASE i = 1
          BY <2>2, <4>1
        <4>2. CASE i # 1
          <5>1. i - 1 \in 1 .. n
            BY <1>0, <4>2
          <5>2. g[i - 1] = parts[i - 1] /\ g[i] = parts[i]
            BY <5>1
          <5>3. Follows(parts, blocks, i)
            BY PieceNext
          <5> QED BY <4>2, <5>2, <5>3 DEF Follows
        <4> QED BY <4>1, <4>2
      <3>2. PICK h : h = g
        OBVIOUS
      <3>4. h = [i \in DOMAIN h |-> h[i]] /\ DOMAIN h = 1 .. n
        BY <3>2
      <3> HIDE DEF g
      <3>3. Flattens(h, blocks)
        BY <3>1, <3>2, <3>4 DEF Flattens
      <3> QED BY <3>3
    <2>4. PICK g : g = (CHOOSE h : Flattens(h, blocks))
      OBVIOUS
    <2>5. Flattens(g, blocks)
      BY <2>3, <2>4
    <2> DEFINE Bad == {m \in 1 .. n : g[m] # parts[m]}
    <2>6. Bad = {}
      <3> SUFFICES ASSUME Bad # {}
                   PROVE  FALSE
        OBVIOUS
      <3>1. PICK m \in Bad : \A l \in Bad : m <= l
        <4>1. Bad \in SUBSET Nat
          OBVIOUS
        <4> HIDE DEF Bad
        <4> QED BY <4>1, LeastPlace
      <3>2. m \in 1 .. n
        OBVIOUS
      <3>3. g[m] = IF m = 1 THEN blocks[m] ELSE g[m - 1] \o blocks[m]
        BY <2>5, <3>2 DEF Flattens
      <3>4. CASE m = 1
        BY <2>2, <3>1, <3>3, <3>4
      <3>5. CASE m # 1
        <4>1. m - 1 \in 1 .. n /\ m - 1 \notin Bad
          BY <1>0, <3>1, <3>2, <3>5
        <4>2. g[m - 1] = parts[m - 1]
          BY <4>1
        <4>3. Follows(parts, blocks, m)
          BY <3>2, PieceNext
        <4>4. g[m] # parts[m]
          OBVIOUS
        <4> QED BY <3>3, <3>5, <4>2, <4>3, <4>4 DEF Follows
      <3> QED BY <3>4, <3>5
    <2>7. n \in 1 .. n
      BY <1>0, <1>2
    <2> QED BY <2>1, <2>4, <2>6, <2>7
  <1> QED BY <1>1, <1>2

\* The pieces of the first m blocks are the first pieces.
FirstBlocks(first, blocks, m) ==
    /\ Len(first) = m
    /\ \A k \in 1 .. m : first[k] = blocks[k]

LEMMA FlattenPrefix ==
    ASSUME NEW S, NEW blocks, NEW parts, Pieces(parts, blocks, S), NEW m \in 0 .. Len(blocks),
           NEW first \in Seq(Seq(S)), FirstBlocks(first, blocks, m)
    PROVE  FlattenSeq(first) = parts[m]
  <1>0. Len(first) = m /\ \A k \in 1 .. m : first[k] = blocks[k]
    BY DEF FirstBlocks
  <1> DEFINE some == [k \in 0 .. m |-> parts[k]]
  <1>1. Len(blocks) \in Nat /\ m \in Nat
    BY PieceType
  <1>2. 0 .. m \subseteq 0 .. Len(blocks) /\ 1 .. m \subseteq 1 .. Len(blocks)
    BY <1>1
  <1>3. some \in [0 .. m -> Seq(S)] /\ some[0] = <<>> /\ some[m] = parts[m]
    BY <1>1, <1>2, PieceType
  <1>4. ASSUME NEW k \in 1 .. m
        PROVE  Follows(some, first, k)
    <2>1. k \in 0 .. m /\ k - 1 \in 0 .. m /\ k \in 1 .. Len(blocks)
      BY <1>1, <1>2
    <2>2. Follows(parts, blocks, k)
      BY <2>1, PieceNext
    <2>3. some[k] = parts[k] /\ some[k - 1] = parts[k - 1] /\ first[k] = blocks[k]
      BY <1>0, <2>1
    <2> QED BY <2>2, <2>3 DEF Follows
  <1> HIDE DEF some
  <1>5. Pieces(some, first, S)
    BY <1>0, <1>3, <1>4 DEF Pieces
  <1>6. FlattenSeq(first) = some[Len(first)]
    BY <1>5, FlattenIsPieces
  <1> QED BY <1>0, <1>3, <1>6

\* A later piece starts with an earlier one.
Starts(parts, k, m) ==
    /\ Len(parts[k]) <= Len(parts[m])
    /\ \A j \in 1 .. Len(parts[k]) : parts[m][j] = parts[k][j]

LEMMA PieceStarts ==
    ASSUME NEW S, NEW blocks, NEW parts, Pieces(parts, blocks, S),
           NEW k \in 0 .. Len(blocks), NEW m \in k .. Len(blocks)
    PROVE  Starts(parts, k, m)
  <1> DEFINE n == Len(blocks)
             Bad == {l \in k .. n : ~Starts(parts, k, l)}
  <1>0. n \in Nat /\ k \in Nat /\ Len(parts[k]) \in Nat
    BY PieceType
  <1>1. Bad = {}
    <2> SUFFICES ASSUME Bad # {}
                 PROVE  FALSE
      OBVIOUS
    <2>1. PICK l \in Bad : \A i \in Bad : l <= i
      <3>1. Bad \in SUBSET Nat
        BY <1>0
      <3> HIDE DEF Bad
      <3> QED BY <3>1, LeastPlace
    <2>2. l \in k .. n /\ ~Starts(parts, k, l)
      OBVIOUS
    <2>3. Starts(parts, k, k)
      BY <1>0 DEF Starts
    <2>4. l - 1 \in k .. n /\ l \in 1 .. n /\ l - 1 \in 0 .. n
      BY <1>0, <2>2, <2>3
    <2>5. Starts(parts, k, l - 1)
      BY <1>0, <2>1, <2>4
    <2>6. NextPiece(parts, blocks, l)
      BY <2>4, PieceNext
    <2>7. Len(parts[l - 1]) \in Nat /\ Len(blocks[l]) \in Nat
      BY <2>4, PieceType
    <2>8. PICK p, a, b : p = parts[l - 1] /\ a = Len(parts[l - 1]) /\ b = Len(blocks[l])
      OBVIOUS
    <2>9. /\ a \in Nat /\ b \in Nat /\ Len(parts[l]) = a + b
          /\ \A j \in 1 .. a : parts[l][j] = p[j]
      BY <2>6, <2>7, <2>8 DEF NextPiece
    <2>10. Len(parts[k]) <= a /\ \A j \in 1 .. Len(parts[k]) : p[j] = parts[k][j]
      BY <2>5, <2>8 DEF Starts
    <2>11. Len(parts[k]) <= Len(parts[l])
      BY <1>0, <2>9, <2>10
    <2>12. ASSUME NEW j \in 1 .. Len(parts[k])
           PROVE  parts[l][j] = parts[k][j]
      <3>1. j \in 1 .. a
        BY <1>0, <2>9, <2>10
      <3> QED BY <2>9, <2>10, <3>1
    <2> QED BY <2>2, <2>11, <2>12 DEF Starts
  <1> QED BY <1>1

\* Where a block is.
BlockAt(parts, blocks, k, m) ==
    \A j \in 1 .. Len(blocks[k]) : parts[m][Len(parts[k - 1]) + j] = blocks[k][j]

LEMMA PieceBlock ==
    ASSUME NEW S, NEW blocks, NEW parts, Pieces(parts, blocks, S),
           NEW k \in 1 .. Len(blocks), NEW m \in k .. Len(blocks)
    PROVE  BlockAt(parts, blocks, k, m)
  <1>1. k \in 0 .. Len(blocks) /\ k - 1 \in 0 .. Len(blocks)
    BY PieceType
  <1>2. NextPiece(parts, blocks, k) /\ Starts(parts, k, m)
    BY <1>1, PieceNext, PieceStarts
  <1>3. Len(parts[k - 1]) \in Nat /\ Len(blocks[k]) \in Nat
    BY <1>1, PieceType
  <1>4. PICK a, b, q : a = Len(parts[k - 1]) /\ b = Len(blocks[k]) /\ q = blocks[k]
    OBVIOUS
  <1>5. /\ a \in Nat /\ b \in Nat /\ Len(parts[k]) = a + b
        /\ \A j \in 1 .. b : parts[k][a + j] = q[j]
    BY <1>2, <1>3, <1>4 DEF NextPiece
  <1>6. ASSUME NEW j \in 1 .. b
        PROVE  parts[m][a + j] = q[j]
    <2>1. a + j \in 1 .. Len(parts[k])
      BY <1>5
    <2>2. parts[m][a + j] = parts[k][a + j]
      BY <1>2, <2>1 DEF Starts
    <2> QED BY <1>5, <2>2
  <1> QED BY <1>4, <1>6 DEF BlockAt

\* Every place is in a block.
InBlock(parts, blocks, k, x) == \E j \in 1 .. Len(blocks[k]) : x = Len(parts[k - 1]) + j

LEMMA PieceCovers ==
    ASSUME NEW S, NEW blocks, NEW parts, Pieces(parts, blocks, S),
           NEW x \in Nat \ {0}, x <= Len(parts[Len(blocks)])
    PROVE  \E k \in 1 .. Len(blocks) : InBlock(parts, blocks, k, x)
  <1> DEFINE n == Len(blocks)
             Reached == {l \in 0 .. n : x <= Len(parts[l])}
  <1>0. n \in Nat /\ parts[0] = <<>>
    BY PieceType
  <1>1. PICK l \in Reached : \A i \in Reached : l <= i
    <2>1. Reached \in SUBSET Nat
      BY <1>0
    <2>2. n \in Reached
      BY <1>0
    <2> HIDE DEF Reached
    <2> QED BY <2>1, <2>2, LeastPlace
  <1>2. l \in 0 .. n /\ x <= Len(parts[l])
    OBVIOUS
  <1>3. l # 0
    BY <1>0, <1>2
  <1>4. l \in 1 .. n /\ l - 1 \in 0 .. n
    BY <1>0, <1>2, <1>3
  <1>5. ~(x <= Len(parts[l - 1]))
    <2>1. l - 1 \notin Reached
      <3> HIDE DEF Reached
      <3> QED BY <1>1, <1>4
    <2> QED BY <1>4, <2>1
  <1>6. NextPiece(parts, blocks, l)
    BY <1>4, PieceNext
  <1>7. Len(parts[l - 1]) \in Nat /\ Len(blocks[l]) \in Nat
    BY <1>4, PieceType
  <1>8. PICK a \in Nat, b \in Nat : a = Len(parts[l - 1]) /\ b = Len(blocks[l])
    BY <1>7
  <1>9. Len(parts[l]) = a + b
    BY <1>6, <1>8 DEF NextPiece
  <1>10. x <= a + b /\ ~(x <= a)
    BY <1>2, <1>5, <1>8, <1>9
  <1>11. x - a \in 1 .. b /\ x = a + (x - a)
    BY <1>10
  <1>12. InBlock(parts, blocks, l, x)
    BY <1>8, <1>11 DEF InBlock
  <1> QED BY <1>4, <1>12

-----------------------------------------------------------------------------
(* The image. *)

\* A byte of an image of files of a set.
CellsOf(F) == ({"header", "hole"} \X {NoFile} \X Nat) \cup (FieldNames \X F \X Nat)

LEMMA FieldType ==
    ASSUME NEW part \in FieldNames, NEW F, NEW f \in F, NEW n \in Nat
    PROVE  Field(part, f, n) \in Seq(CellsOf(F)) /\ Len(Field(part, f, n)) = n
  <1>1. ASSUME NEW k \in 1 .. n
        PROVE  <<part, f, k>> \in CellsOf(F)
    <2>1. k \in Nat
      OBVIOUS
    <2> QED BY <2>1 DEF CellsOf
  <1> QED BY <1>1 DEF Field

RecordSize(f, v) == FixedLenOf(v) + 2 * LengthLen + 2 * NameLen[f] + SuffixLen

LEMMA JoinTwo ==
    ASSUME NEW S, NEW a \in Seq(S), NEW b \in Seq(S)
    PROVE  /\ a \o b \in Seq(S)
           /\ Len(a) \in Nat /\ Len(b) \in Nat
           /\ Len(a \o b) = Len(a) + Len(b)
           /\ \A k \in 1 .. Len(a) : (a \o b)[k] = a[k]
           /\ \A k \in 1 .. Len(b) : (a \o b)[Len(a) + k] = b[k]
  OBVIOUS

\* Joining more leaves the place after the first sequence alone.
LEMMA JoinKeeps ==
    ASSUME NEW S, NEW k \in Nat, NEW x, NEW b \in Seq(S), x \in Seq(S), k + 1 <= Len(x)
    PROVE  /\ x \o b \in Seq(S)
           /\ Len(x \o b) = Len(x) + Len(b)
           /\ (x \o b)[k + 1] = x[k + 1]
           /\ k + 1 <= Len(x \o b)
  <1>1. k + 1 \in 1 .. Len(x) /\ Len(x) \in Nat /\ Len(b) \in Nat
    OBVIOUS
  <1>2. Len(x \o b) = Len(x) + Len(b)
    OBVIOUS
  <1> QED BY <1>1, <1>2, JoinTwo

LEMMA JoinFive ==
    ASSUME NEW S, NEW a \in Seq(S), NEW b \in Seq(S), NEW c \in Seq(S), NEW d \in Seq(S),
           NEW e \in Seq(S), 1 <= Len(b)
    PROVE  /\ a \o b \o c \o d \o e \in Seq(S)
           /\ Len(a \o b \o c \o d \o e) = Len(a) + Len(b) + Len(c) + Len(d) + Len(e)
           /\ (a \o b \o c \o d \o e)[Len(a) + 1] = b[1]
  <1>0. PICK k \in Nat : k = Len(a)
    OBVIOUS
  <1>1. PICK x : x = a \o b
    OBVIOUS
  <1>2. /\ x \in Seq(S) /\ Len(x) = Len(a) + Len(b)
        /\ x[k + 1] = b[1] /\ k + 1 <= Len(x)
    BY <1>0, <1>1, JoinTwo
  <1>3. PICK y : y = x \o c
    OBVIOUS
  <1>4. /\ y \in Seq(S) /\ Len(y) = Len(x) + Len(c)
        /\ y[k + 1] = x[k + 1] /\ k + 1 <= Len(y)
    <2>1. x \in Seq(S) /\ k + 1 <= Len(x)
      BY <1>2
    <2>2. /\ x \o c \in Seq(S) /\ Len(x \o c) = Len(x) + Len(c)
          /\ (x \o c)[k + 1] = x[k + 1] /\ k + 1 <= Len(x \o c)
      BY <2>1, JoinKeeps
    <2> QED BY <1>3, <2>2
  <1>5. PICK z : z = y \o d
    OBVIOUS
  <1>6. /\ z \in Seq(S) /\ Len(z) = Len(y) + Len(d)
        /\ z[k + 1] = y[k + 1] /\ k + 1 <= Len(z)
    <2>1. y \in Seq(S) /\ k + 1 <= Len(y)
      BY <1>4
    <2>2. /\ y \o d \in Seq(S) /\ Len(y \o d) = Len(y) + Len(d)
          /\ (y \o d)[k + 1] = y[k + 1] /\ k + 1 <= Len(y \o d)
      BY <2>1, JoinKeeps
    <2> QED BY <1>5, <2>2
  <1>7. PICK r : r = z \o e
    OBVIOUS
  <1>8. /\ r \in Seq(S) /\ Len(r) = Len(z) + Len(e)
        /\ r[k + 1] = z[k + 1] /\ k + 1 <= Len(r)
    <2>1. z \in Seq(S) /\ k + 1 <= Len(z)
      BY <1>6
    <2>2. /\ z \o e \in Seq(S) /\ Len(z \o e) = Len(z) + Len(e)
          /\ (z \o e)[k + 1] = z[k + 1] /\ k + 1 <= Len(z \o e)
      BY <2>1, JoinKeeps
    <2> QED BY <1>7, <2>2
  <1>9. r = a \o b \o c \o d \o e
    BY <1>1, <1>3, <1>5, <1>7
  <1> QED BY <1>0, <1>2, <1>4, <1>6, <1>8, <1>9

LEMMA RecordBytes ==
    ASSUME NEW F \in SUBSET Files, NEW f \in F, NEW v \in 1 .. CURRENT_VERSION
    PROVE  /\ FixedLenOf(v) \in Nat
           /\ SerializeFileMetadata(f, v) \in Seq(CellsOf(F))
           /\ Len(SerializeFileMetadata(f, v)) = RecordSize(f, v)
           /\ RecordSize(f, v) \in Nat
           /\ FixedLenOf(v) + LengthLen <= RecordSize(f, v)
           /\ SerializeFileMetadata(f, v)[FixedLenOf(v) + 1] = <<"length1", f, 1>>
  <1>1. FixedLenOf(v) \in Nat /\ NameLen[f] \in Nat /\ NameLen[f] + SuffixLen \in Nat
    BY LengthsAssumption DEF FixedLenOf, CURRENT_VERSION
  <1>2. PICK a, b, c, d, e :
           /\ a = Field("fixed", f, FixedLenOf(v))
           /\ b = Field("length1", f, LengthLen)
           /\ c = Field("name", f, NameLen[f])
           /\ d = Field("length2", f, LengthLen)
           /\ e = Field("compressed_name", f, NameLen[f] + SuffixLen)
    OBVIOUS
  <1>3. LengthLen \in Nat \ {0} /\ SuffixLen \in Nat
    BY LengthsAssumption
  <1>4. a \in Seq(CellsOf(F)) /\ Len(a) = FixedLenOf(v)
    BY <1>1, <1>2, FieldType DEF FieldNames
  <1>5. b \in Seq(CellsOf(F)) /\ Len(b) = LengthLen /\ b[1] = <<"length1", f, 1>>
    <2>1. b \in Seq(CellsOf(F)) /\ Len(b) = LengthLen
      BY <1>2, <1>3, FieldType DEF FieldNames
    <2> QED BY <1>2, <1>3, <2>1 DEF Field
  <1>6. c \in Seq(CellsOf(F)) /\ Len(c) = NameLen[f]
    BY <1>1, <1>2, FieldType DEF FieldNames
  <1>7. d \in Seq(CellsOf(F)) /\ Len(d) = LengthLen
    BY <1>2, <1>3, FieldType DEF FieldNames
  <1>8. e \in Seq(CellsOf(F)) /\ Len(e) = NameLen[f] + SuffixLen
    BY <1>1, <1>2, FieldType DEF FieldNames
  <1>9. PICK r : r = a \o b \o c \o d \o e
    OBVIOUS
  <1>10. r = SerializeFileMetadata(f, v)
    BY <1>2, <1>9 DEF SerializeFileMetadata
  <1>11. /\ r \in Seq(CellsOf(F)) /\ r[Len(a) + 1] = b[1]
         /\ Len(r) = Len(a) + Len(b) + Len(c) + Len(d) + Len(e)
    <2>1. 1 <= Len(b)
      BY <1>3, <1>5
    <2>2. /\ a \in Seq(CellsOf(F)) /\ b \in Seq(CellsOf(F)) /\ c \in Seq(CellsOf(F))
          /\ d \in Seq(CellsOf(F)) /\ e \in Seq(CellsOf(F))
      BY <1>4, <1>5, <1>6, <1>7, <1>8
    <2>3. /\ a \o b \o c \o d \o e \in Seq(CellsOf(F))
          /\ Len(a \o b \o c \o d \o e) = Len(a) + Len(b) + Len(c) + Len(d) + Len(e)
          /\ (a \o b \o c \o d \o e)[Len(a) + 1] = b[1]
      BY <2>1, <2>2, JoinFive
    <2> QED BY <1>9, <2>3
  <1>12. Len(r) = RecordSize(f, v) /\ RecordSize(f, v) \in Nat
         /\ FixedLenOf(v) + LengthLen <= RecordSize(f, v)
    <2>1. PICK n \in Nat : n = NameLen[f]
      BY <1>1
    <2>2. Len(r) = FixedLenOf(v) + LengthLen + n + LengthLen + (n + SuffixLen)
      BY <1>4, <1>5, <1>6, <1>7, <1>8, <1>11, <2>1
    <2>3. RecordSize(f, v) = FixedLenOf(v) + 2 * LengthLen + 2 * n + SuffixLen
      BY <2>1 DEF RecordSize
    <2> QED BY <1>1, <1>3, <2>2, <2>3
  <1>13. r[FixedLenOf(v) + 1] = <<"length1", f, 1>>
    BY <1>4, <1>5, <1>11
  <1> QED BY <1>1, <1>10, <1>11, <1>12, <1>13

LEMMA JoinThree ==
    ASSUME NEW S, NEW a \in Seq(S), NEW b \in Seq(S), NEW c \in Seq(S)
    PROVE  /\ a \o b \o c \in Seq(S)
           /\ Len(a \o b \o c) = Len(a) + Len(b) + Len(c)
           /\ \A k \in 1 .. Len(a) : (a \o b \o c)[k] = a[k]
           /\ \A k \in 1 .. Len(b) : (a \o b \o c)[Len(a) + k] = b[k]
           /\ \A k \in 1 .. Len(c) : (a \o b \o c)[Len(a) + Len(b) + k] = c[k]
  <1>1. PICK x : x = a \o b
    OBVIOUS
  <1>2. /\ x \in Seq(S) /\ Len(x) = Len(a) + Len(b)
        /\ Len(a) \in Nat /\ Len(b) \in Nat /\ Len(c) \in Nat
        /\ \A k \in 1 .. Len(a) : x[k] = a[k]
        /\ \A k \in 1 .. Len(b) : x[Len(a) + k] = b[k]
    <2>1. /\ a \o b \in Seq(S) /\ Len(a \o b) = Len(a) + Len(b)
          /\ Len(a) \in Nat /\ Len(b) \in Nat /\ Len(c) \in Nat
          /\ \A k \in 1 .. Len(a) : (a \o b)[k] = a[k]
          /\ \A k \in 1 .. Len(b) : (a \o b)[Len(a) + k] = b[k]
      BY JoinTwo
    <2> QED BY <1>1, <2>1
  <1>3. PICK y : y = x \o c
    OBVIOUS
  <1>4. /\ y \in Seq(S) /\ Len(y) = Len(x) + Len(c)
        /\ \A k \in 1 .. Len(x) : y[k] = x[k]
        /\ \A k \in 1 .. Len(c) : y[Len(x) + k] = c[k]
    <2>1. x \in Seq(S)
      BY <1>2
    <2>2. /\ x \o c \in Seq(S) /\ Len(x \o c) = Len(x) + Len(c)
          /\ \A k \in 1 .. Len(x) : (x \o c)[k] = x[k]
          /\ \A k \in 1 .. Len(c) : (x \o c)[Len(x) + k] = c[k]
      BY <2>1, JoinTwo
    <2> QED BY <1>3, <2>2
  <1>5. ASSUME NEW k \in 1 .. Len(a)
        PROVE  y[k] = a[k]
    <2>1. k \in 1 .. Len(x)
      BY <1>2
    <2> QED BY <1>2, <1>4, <2>1
  <1>6. ASSUME NEW k \in 1 .. Len(b)
        PROVE  y[Len(a) + k] = b[k]
    <2>1. Len(a) + k \in 1 .. Len(x)
      BY <1>2
    <2> QED BY <1>2, <1>4, <2>1
  <1>7. y = a \o b \o c
    BY <1>1, <1>3
  <1> QED BY <1>2, <1>4, <1>5, <1>6, <1>7

RecordBlocks(l, v) == [k \in DOMAIN l |-> SerializeFileMetadata(l[k], v)]
DataBlocks(l) == [k \in DOMAIN l |-> EncodeData(l[k])]

LEMMA BlocksType ==
    ASSUME NEW F \in SUBSET Files, NEW l \in Seq(F), NEW v \in 1 .. CURRENT_VERSION
    PROVE  /\ RecordBlocks(l, v) \in Seq(Seq(CellsOf(F))) /\ Len(RecordBlocks(l, v)) = Len(l)
           /\ DataBlocks(l) \in Seq(Seq(CellsOf(F))) /\ Len(DataBlocks(l)) = Len(l)
           /\ \A k \in 1 .. Len(l) : /\ l[k] \in F
                                     /\ RecordBlocks(l, v)[k] = SerializeFileMetadata(l[k], v)
                                     /\ DataBlocks(l)[k] = EncodeData(l[k])
                                     /\ Len(EncodeData(l[k])) = DataLen[l[k]]
                                     /\ DataLen[l[k]] \in Nat
  <1>1. DOMAIN l = 1 .. Len(l) /\ Len(l) \in Nat
    OBVIOUS
  <1>2. ASSUME NEW k \in 1 .. Len(l)
        PROVE  /\ l[k] \in F
               /\ SerializeFileMetadata(l[k], v) \in Seq(CellsOf(F))
               /\ EncodeData(l[k]) \in Seq(CellsOf(F))
               /\ Len(EncodeData(l[k])) = DataLen[l[k]]
               /\ DataLen[l[k]] \in Nat
    <2>1. l[k] \in F
      OBVIOUS
    <2>2. DataLen[l[k]] \in Nat
      BY <2>1, LengthsAssumption
    <2>3. SerializeFileMetadata(l[k], v) \in Seq(CellsOf(F))
      BY <2>1, RecordBytes
    <2>4. "data" \in FieldNames
      BY DEF FieldNames
    <2>5. /\ Field("data", l[k], DataLen[l[k]]) \in Seq(CellsOf(F))
          /\ Len(Field("data", l[k], DataLen[l[k]])) = DataLen[l[k]]
      BY <2>1, <2>2, <2>4, FieldType
    <2> QED BY <2>1, <2>2, <2>3, <2>5 DEF EncodeData
  <1>3. RecordBlocks(l, v) \in Seq(Seq(CellsOf(F))) /\ Len(RecordBlocks(l, v)) = Len(l)
    <2> DEFINE C == Seq(CellsOf(F))
    <2>1. \A k \in 1 .. Len(l) : SerializeFileMetadata(l[k], v) \in C
      BY <1>2
    <2> HIDE DEF C
    <2>2. [k \in 1 .. Len(l) |-> SerializeFileMetadata(l[k], v)] \in Seq(C)
      BY <1>1, <2>1
    <2>3. RecordBlocks(l, v) = [k \in 1 .. Len(l) |-> SerializeFileMetadata(l[k], v)]
      BY <1>1 DEF RecordBlocks
    <2> QED BY <1>1, <2>2, <2>3 DEF C
  <1>4. DataBlocks(l) \in Seq(Seq(CellsOf(F))) /\ Len(DataBlocks(l)) = Len(l)
    <2> DEFINE C == Seq(CellsOf(F))
    <2>1. \A k \in 1 .. Len(l) : EncodeData(l[k]) \in C
      BY <1>2
    <2> HIDE DEF C
    <2>2. [k \in 1 .. Len(l) |-> EncodeData(l[k])] \in Seq(C)
      BY <1>1, <2>1
    <2>3. DataBlocks(l) = [k \in 1 .. Len(l) |-> EncodeData(l[k])]
      BY <1>1 DEF DataBlocks
    <2> QED BY <1>1, <2>2, <2>3 DEF C
  <1> QED BY <1>1, <1>2, <1>3, <1>4 DEF RecordBlocks, DataBlocks

\* The records and the data of the first files are the first pieces.
LEMMA FirstPieces ==
    ASSUME NEW F \in SUBSET Files, NEW l \in Seq(F), NEW v \in 1 .. CURRENT_VERSION,
           NEW recs, Pieces(recs, RecordBlocks(l, v), CellsOf(F)),
           NEW data, Pieces(data, DataBlocks(l), CellsOf(F)),
           NEW k \in 0 .. Len(l)
    PROVE  /\ SubSeq(l, 1, k) \in Seq(F) /\ Len(SubSeq(l, 1, k)) = k
           /\ Records(SubSeq(l, 1, k), v) = recs[k]
           /\ UserData(SubSeq(l, 1, k)) = data[k]
  <1>1. PICK s : s = SubSeq(l, 1, k)
    OBVIOUS
  <1>2. /\ s \in Seq(F) /\ Len(s) = k /\ DOMAIN s = 1 .. k
        /\ \A j \in 1 .. k : s[j] = l[j] /\ j \in 1 .. Len(l)
    <2>1. /\ SubSeq(l, 1, k) \in Seq(F) /\ Len(SubSeq(l, 1, k)) = k
      OBVIOUS
    <2>2. \A j \in 1 .. k : SubSeq(l, 1, k)[j] = l[j] /\ j \in 1 .. Len(l)
      OBVIOUS
    <2> QED BY <1>1, <2>1, <2>2
  <1>3. /\ RecordBlocks(s, v) \in Seq(Seq(CellsOf(F))) /\ Len(RecordBlocks(s, v)) = k
        /\ DataBlocks(s) \in Seq(Seq(CellsOf(F))) /\ Len(DataBlocks(s)) = k
    BY <1>2, BlocksType
  <1>4. /\ RecordBlocks(l, v) \in Seq(Seq(CellsOf(F))) /\ Len(RecordBlocks(l, v)) = Len(l)
        /\ DataBlocks(l) \in Seq(Seq(CellsOf(F))) /\ Len(DataBlocks(l)) = Len(l)
    BY BlocksType
  <1>5. \A j \in 1 .. k : /\ RecordBlocks(s, v)[j] = RecordBlocks(l, v)[j]
                          /\ DataBlocks(s)[j] = DataBlocks(l)[j]
    BY <1>2 DEF RecordBlocks, DataBlocks
  <1>6. FlattenSeq(RecordBlocks(s, v)) = recs[k]
    <2>1. PICK S, blocks, first :
             S = CellsOf(F) /\ blocks = RecordBlocks(l, v) /\ first = RecordBlocks(s, v)
      OBVIOUS
    <2>2. blocks \in Seq(Seq(S)) /\ Pieces(recs, blocks, S) /\ k \in 0 .. Len(blocks)
      BY <1>4, <2>1
    <2>3. first \in Seq(Seq(S)) /\ FirstBlocks(first, blocks, k)
      BY <1>3, <1>5, <2>1 DEF FirstBlocks
    <2>4. FlattenSeq(first) = recs[k]
      BY <2>2, <2>3, FlattenPrefix
    <2> QED BY <2>1, <2>4
  <1>7. FlattenSeq(DataBlocks(s)) = data[k]
    <2>1. PICK S, blocks, first :
             S = CellsOf(F) /\ blocks = DataBlocks(l) /\ first = DataBlocks(s)
      OBVIOUS
    <2>2. blocks \in Seq(Seq(S)) /\ Pieces(data, blocks, S) /\ k \in 0 .. Len(blocks)
      BY <1>4, <2>1
    <2>3. first \in Seq(Seq(S)) /\ FirstBlocks(first, blocks, k)
      BY <1>3, <1>5, <2>1 DEF FirstBlocks
    <2>4. FlattenSeq(first) = data[k]
      BY <2>2, <2>3, FlattenPrefix
    <2> QED BY <2>1, <2>4
  <1> QED BY <1>1, <1>2, <1>6, <1>7 DEF Records, UserData, RecordBlocks, DataBlocks

RecordEnd(l, v, k) == HeaderLen + Len(Records(SubSeq(l, 1, k), v))
DataEnd(l, v, k) == HeaderLen + Len(Records(l, v)) + Len(UserData(SubSeq(l, 1, k)))

\* Where the record and the data of file k are in an image r of the files l.
RecordLaid(r, l, v, k) ==
    /\ RecordEnd(l, v, k) = RecordEnd(l, v, k - 1) + RecordSize(l[k], v)
    /\ \A j \in 1 .. RecordSize(l[k], v) :
          r[RecordEnd(l, v, k - 1) + j] = SerializeFileMetadata(l[k], v)[j]

DataLaid(r, l, v, k) ==
    /\ DataEnd(l, v, k) = DataEnd(l, v, k - 1) + DataLen[l[k]]
    /\ \A j \in 1 .. DataLen[l[k]] : r[DataEnd(l, v, k - 1) + j] = EncodeData(l[k])[j]

InData(l, v, k, x) == \E j \in 1 .. DataLen[l[k]] : x = DataEnd(l, v, k - 1) + j

Laid(r, l, v, F) ==
    /\ r \in Seq(CellsOf(F))
    /\ RecordEnd(l, v, 0) = HeaderLen
    /\ RecordEnd(l, v, Len(l)) = DataEnd(l, v, 0)
    /\ DataEnd(l, v, Len(l)) = Len(r)
    /\ DataEnd(l, v, 0) \in HeaderLen .. Len(r)
    /\ \A j \in 1 .. HeaderLen : r[j] = EncodeHeader[j]
    /\ \A k \in 0 .. Len(l) :
          /\ RecordEnd(l, v, k) \in HeaderLen .. DataEnd(l, v, 0)
          /\ DataEnd(l, v, k) \in DataEnd(l, v, 0) .. Len(r)
    /\ \A k \in 1 .. Len(l) : RecordLaid(r, l, v, k) /\ DataLaid(r, l, v, k)
    /\ \A x \in DataEnd(l, v, 0) + 1 .. Len(r) : \E k \in 1 .. Len(l) : InData(l, v, k, x)

LEMMA HeaderType ==
    ASSUME NEW F
    PROVE  EncodeHeader \in Seq(CellsOf(F)) /\ Len(EncodeHeader) = HeaderLen /\ HeaderLen \in Nat
  <1>1. HeaderLen \in Nat
    BY LengthsAssumption
  <1>2. \A k \in 1 .. HeaderLen : <<"header", NoFile, k>> \in CellsOf(F)
    <2> SUFFICES ASSUME NEW k \in 1 .. HeaderLen
                 PROVE  <<"header", NoFile, k>> \in CellsOf(F)
      OBVIOUS
    <2>1. k \in Nat
      BY <1>1
    <2> QED BY <2>1 DEF CellsOf
  <1> QED BY <1>1, <1>2 DEF EncodeHeader, Field

LEMMA ImageLaid ==
    ASSUME NEW F \in SUBSET Files, NEW l \in Seq(F), NEW v \in 1 .. CURRENT_VERSION
    PROVE  Laid(ReferenceImage(l, v), l, v, F)
  <1>0. PICK S, n, rb, db :
           /\ S = CellsOf(F) /\ n = Len(l)
           /\ rb = RecordBlocks(l, v) /\ db = DataBlocks(l)
    OBVIOUS
  <1>1. /\ rb \in Seq(Seq(S)) /\ Len(rb) = n
        /\ db \in Seq(Seq(S)) /\ Len(db) = n
    BY <1>0, BlocksType
  <1>2. n \in Nat /\ HeaderLen \in Nat
    BY <1>0, LengthsAssumption
  <1>3. \A k \in 1 .. n : /\ l[k] \in F
                          /\ rb[k] = SerializeFileMetadata(l[k], v)
                          /\ db[k] = EncodeData(l[k])
                          /\ Len(rb[k]) = RecordSize(l[k], v)
                          /\ Len(db[k]) = DataLen[l[k]]
    <2>1. \A k \in 1 .. n : /\ l[k] \in F
                            /\ rb[k] = SerializeFileMetadata(l[k], v)
                            /\ db[k] = EncodeData(l[k])
                            /\ Len(EncodeData(l[k])) = DataLen[l[k]]
      BY <1>0, BlocksType
    <2>2. \A f \in F : Len(SerializeFileMetadata(f, v)) = RecordSize(f, v)
      BY RecordBytes
    <2> QED BY <2>1, <2>2
  <1>4. PICK recs : Pieces(recs, rb, S)
    BY <1>1, PiecesExist
  <1>5. PICK data : Pieces(data, db, S)
    BY <1>1, PiecesExist
  <1>6. \A k \in 0 .. n : /\ Records(SubSeq(l, 1, k), v) = recs[k]
                          /\ UserData(SubSeq(l, 1, k)) = data[k]
    BY <1>0, <1>4, <1>5, FirstPieces
  <1>7. /\ \A k \in 0 .. n : recs[k] \in Seq(S) /\ Len(recs[k]) \in Nat
        /\ recs[0] = <<>>
    BY <1>1, <1>4, PieceType
  <1>8. /\ \A k \in 0 .. n : data[k] \in Seq(S) /\ Len(data[k]) \in Nat
        /\ data[0] = <<>>
    BY <1>1, <1>5, PieceType
  <1>9. Records(l, v) = recs[n] /\ UserData(l) = data[n]
    <2>1. SubSeq(l, 1, n) = l /\ n \in 0 .. n
      BY <1>0, <1>2
    <2> QED BY <1>6, <2>1
  <1>10. PICK a, b, m, q : a = recs[n] /\ b = data[n] /\ m = Len(a) /\ q = Len(b)
    OBVIOUS
  <1>11. a \in Seq(S) /\ b \in Seq(S) /\ m \in Nat /\ q \in Nat
    <2>1. n \in 0 .. n
      BY <1>2
    <2> QED BY <1>7, <1>8, <1>10, <2>1
  <1>12. ASSUME NEW k \in 0 .. n
         PROVE  Len(recs[k]) \in 0 .. m /\ Len(data[k]) \in 0 .. q
    <2>1. n \in k .. n
      BY <1>2
    <2>2. Starts(recs, k, n)
      BY <1>1, <1>4, <2>1, PieceStarts
    <2>3. Starts(data, k, n)
      BY <1>1, <1>5, <2>1, PieceStarts
    <2>4. Len(recs[k]) <= m /\ Len(data[k]) <= q
      BY <1>10, <2>2, <2>3 DEF Starts
    <2> QED BY <1>7, <1>8, <1>11, <2>4
  <1>13. PICK r : r = ReferenceImage(l, v)
    OBVIOUS
  <1>14. /\ r \in Seq(S) /\ Len(r) = HeaderLen + m + q
         /\ \A j \in 1 .. HeaderLen : r[j] = EncodeHeader[j]
         /\ \A j \in 1 .. m : r[HeaderLen + j] = a[j]
         /\ \A j \in 1 .. q : r[HeaderLen + m + j] = b[j]
    <2>1. EncodeHeader \in Seq(S) /\ Len(EncodeHeader) = HeaderLen
      BY <1>0, HeaderType
    <2>2. PICK h : h = EncodeHeader
      OBVIOUS
    <2>3. h \in Seq(S) /\ a \in Seq(S) /\ b \in Seq(S)
      BY <1>11, <2>1, <2>2
    <2>4. /\ h \o a \o b \in Seq(S)
          /\ Len(h \o a \o b) = Len(h) + Len(a) + Len(b)
          /\ \A k \in 1 .. Len(h) : (h \o a \o b)[k] = h[k]
          /\ \A k \in 1 .. Len(a) : (h \o a \o b)[Len(h) + k] = a[k]
          /\ \A k \in 1 .. Len(b) : (h \o a \o b)[Len(h) + Len(a) + k] = b[k]
      BY <2>3, JoinThree
    <2>5. r = h \o a \o b
      BY <1>9, <1>10, <1>13, <2>2 DEF ReferenceImage
    <2>6. Len(h) = HeaderLen
      BY <2>1, <2>2
    <2> QED BY <1>10, <2>2, <2>4, <2>5, <2>6
  <1>15. \A k \in 0 .. n : /\ RecordEnd(l, v, k) = HeaderLen + Len(recs[k])
                           /\ DataEnd(l, v, k) = HeaderLen + m + Len(data[k])
    BY <1>6, <1>9, <1>10 DEF RecordEnd, DataEnd
  <1>16. /\ RecordEnd(l, v, 0) = HeaderLen
         /\ DataEnd(l, v, 0) = HeaderLen + m
         /\ RecordEnd(l, v, n) = HeaderLen + m
         /\ DataEnd(l, v, n) = Len(r)
    <2>1. 0 \in 0 .. n /\ n \in 0 .. n /\ Len(recs[0]) = 0 /\ Len(data[0]) = 0
      BY <1>2, <1>7, <1>8
    <2>2. RecordEnd(l, v, 0) = HeaderLen + 0 /\ DataEnd(l, v, 0) = HeaderLen + m + 0
      BY <1>15, <2>1
    <2>3. RecordEnd(l, v, n) = HeaderLen + m /\ DataEnd(l, v, n) = HeaderLen + m + q
      BY <1>10, <1>15, <2>1
    <2>4. HeaderLen + 0 = HeaderLen /\ HeaderLen + m + 0 = HeaderLen + m
      BY <1>2, <1>11
    <2> QED BY <1>14, <2>2, <2>3, <2>4
  <1>17. ASSUME NEW k \in 0 .. n
         PROVE  /\ RecordEnd(l, v, k) \in HeaderLen .. DataEnd(l, v, 0)
                /\ DataEnd(l, v, k) \in DataEnd(l, v, 0) .. Len(r)
    <2>1. PICK x \in 0 .. m, y \in 0 .. q : x = Len(recs[k]) /\ y = Len(data[k])
      BY <1>12
    <2>2. RecordEnd(l, v, k) = HeaderLen + x /\ DataEnd(l, v, k) = HeaderLen + m + y
      BY <1>15, <2>1
    <2>3. DataEnd(l, v, 0) = HeaderLen + m /\ Len(r) = HeaderLen + m + q
      BY <1>14, <1>16
    <2> QED BY <1>2, <1>11, <2>2, <2>3
  <1>18. ASSUME NEW k \in 1 .. n
         PROVE  RecordLaid(r, l, v, k)
    <2>1. k \in 0 .. n /\ k - 1 \in 0 .. n /\ n \in k .. n /\ k \in 1 .. Len(rb)
      BY <1>1, <1>2
    <2>2. NextPiece(recs, rb, k) /\ BlockAt(recs, rb, k, n)
      BY <1>1, <1>4, <2>1, PieceNext, PieceBlock
    <2>3. PICK p, c, w : p = Len(recs[k - 1]) /\ c = rb[k] /\ w = Len(rb[k])
      OBVIOUS
    <2>4. p \in Nat /\ w \in Nat
      BY <1>4, <1>7, <2>1, <2>3, PieceType
    <2>5. /\ Len(recs[k]) = p + w
          /\ \A j \in 1 .. w : a[p + j] = c[j]
      BY <1>10, <2>2, <2>3 DEF NextPiece, BlockAt
    <2>6. p + w <= m
      BY <1>11, <1>12, <2>1, <2>4, <2>5
    <2>7. RecordEnd(l, v, k - 1) = HeaderLen + p /\ RecordEnd(l, v, k) = HeaderLen + (p + w)
      BY <1>15, <2>1, <2>3, <2>5
    <2>8. ASSUME NEW j \in 1 .. w
          PROVE  r[HeaderLen + p + j] = c[j]
      <3>1. p + j \in 1 .. m /\ HeaderLen + (p + j) = HeaderLen + p + j
        BY <1>2, <1>11, <2>4, <2>6
      <3>2. r[HeaderLen + (p + j)] = a[p + j]
        BY <1>14, <3>1
      <3> QED BY <2>5, <3>1, <3>2
    <2>9. c = SerializeFileMetadata(l[k], v) /\ w = RecordSize(l[k], v)
      BY <1>3, <2>3
    <2>10. HeaderLen + (p + w) = HeaderLen + p + w
      BY <1>2, <2>4
    <2> QED BY <2>7, <2>8, <2>9, <2>10 DEF RecordLaid
  <1>19. ASSUME NEW k \in 1 .. n
         PROVE  DataLaid(r, l, v, k)
    <2>1. k \in 0 .. n /\ k - 1 \in 0 .. n /\ n \in k .. n /\ k \in 1 .. Len(db)
      BY <1>1, <1>2
    <2>2. NextPiece(data, db, k) /\ BlockAt(data, db, k, n)
      BY <1>1, <1>5, <2>1, PieceNext, PieceBlock
    <2>3. PICK p, c, w : p = Len(data[k - 1]) /\ c = db[k] /\ w = Len(db[k])
      OBVIOUS
    <2>4. p \in Nat /\ w \in Nat
      BY <1>5, <1>8, <2>1, <2>3, PieceType
    <2>5. /\ Len(data[k]) = p + w
          /\ \A j \in 1 .. w : b[p + j] = c[j]
      BY <1>10, <2>2, <2>3 DEF NextPiece, BlockAt
    <2>6. p + w <= q
      BY <1>11, <1>12, <2>1, <2>4, <2>5
    <2>7. /\ DataEnd(l, v, k - 1) = HeaderLen + m + p
          /\ DataEnd(l, v, k) = HeaderLen + m + (p + w)
      BY <1>15, <2>1, <2>3, <2>5
    <2>8. ASSUME NEW j \in 1 .. w
          PROVE  r[HeaderLen + m + p + j] = c[j]
      <3>1. p + j \in 1 .. q /\ HeaderLen + m + (p + j) = HeaderLen + m + p + j
        BY <1>2, <1>11, <2>4, <2>6
      <3>2. r[HeaderLen + m + (p + j)] = b[p + j]
        BY <1>14, <3>1
      <3> QED BY <2>5, <3>1, <3>2
    <2>9. c = EncodeData(l[k]) /\ w = DataLen[l[k]]
      BY <1>3, <2>3
    <2>10. HeaderLen + m + (p + w) = HeaderLen + m + p + w
      BY <1>2, <1>11, <2>4
    <2> QED BY <2>7, <2>8, <2>9, <2>10 DEF DataLaid
  <1>20. ASSUME NEW x \in DataEnd(l, v, 0) + 1 .. Len(r)
         PROVE  \E k \in 1 .. n : InData(l, v, k, x)
    <2>1. PICK y : y = x - (HeaderLen + m)
      OBVIOUS
    <2>2. y \in Nat \ {0} /\ y <= q /\ x = HeaderLen + m + y
      BY <1>2, <1>11, <1>14, <1>16, <2>1
    <2>3. y <= Len(data[Len(db)])
      BY <1>1, <1>10, <2>2
    <2>4. PICK k \in 1 .. Len(db) : InBlock(data, db, k, y)
      BY <1>5, <2>2, <2>3, PieceCovers
    <2>5. k \in 1 .. n /\ k - 1 \in 0 .. n
      BY <1>1, <1>2
    <2>6. PICK j \in 1 .. Len(db[k]) : y = Len(data[k - 1]) + j
      BY <2>4 DEF InBlock
    <2>7. Len(db[k]) = DataLen[l[k]]
      BY <1>3, <2>5
    <2>8. Len(db[k]) \in Nat /\ j \in Nat
      BY <1>5, <2>4, PieceType
    <2>9. PICK p \in Nat : p = Len(data[k - 1])
      BY <1>8, <2>5
    <2>10. DataEnd(l, v, k - 1) = HeaderLen + m + p
      BY <1>15, <2>5, <2>9
    <2>11. x = DataEnd(l, v, k - 1) + j
      <3>1. y = p + j
        BY <2>6, <2>9
      <3>2. HeaderLen + m + (p + j) = HeaderLen + m + p + j
        BY <1>2, <1>11, <2>8
      <3> QED BY <2>2, <2>10, <3>1, <3>2
    <2>12. InData(l, v, k, x)
      BY <2>6, <2>7, <2>11 DEF InData
    <2> QED BY <2>5, <2>12
  <1>21. DataEnd(l, v, 0) \in HeaderLen .. Len(r)
    BY <1>2, <1>11, <1>14, <1>16
  <1>22. Laid(r, l, v, F)
    BY <1>0, <1>14, <1>16, <1>17, <1>18, <1>19, <1>20, <1>21 DEF Laid
  <1> QED BY <1>13, <1>22
-----------------------------------------------------------------------------
(* The calls of each thread. *)

Listed == {files[k] : k \in DOMAIN files}

\* A thread is in, or has come out of, a write of bytes to the file n.
WriteCall(c, n, truncate, offset, bytes) ==
    /\ c.name = n /\ c.truncate = truncate /\ c.offset = offset
    /\ c.buffer = bytes /\ c.size = Len(bytes)

WritePhase(c, failed, present) ==
    \/ c.at \in {"exists", "mkdir", "open_write"} /\ c.code = "none" /\ c.total = 0
    \/ c.at = "pwrite" /\ c.code = "none" /\ c.total < c.size /\ present
    \/ c.at = "none" /\ c.code = "SUCCESS" /\ c.total = c.size /\ present
    \/ c.at = "none" /\ c.code # "SUCCESS" /\ failed

WriteJob(p, n, truncate, offset, bytes) ==
    /\ WriteCall(io[p], n, truncate, offset, bytes)
    /\ WritePhase(io[p], errors > 0, disk[n] # Absent)

\* A task of the first round writes the temp file of f from its start.
CompressJob(f) ==
    /\ WriteJob(f, f, TRUE, 0, EncodeData(f))
    /\ io[f].at = "pwrite" \/ io[f].code = "SUCCESS" =>
          disk[f] = SubSeq(EncodeData(f), 1, io[f].total)

\* A task of the second round reads all of the temp file of f.
ReadPhase(c, bytes, failed) ==
    \/ c.at \in {"open_all", "fstat"} /\ c.code = "none" /\ c.total = 0 /\ c.buffer = <<>>
    \/ /\ c.at = "pread" /\ c.code = "none" /\ c.total < c.size /\ c.size = Len(bytes)
       /\ c.buffer = SubSeq(bytes, 1, c.total)
    \/ c.at = "none" /\ c.code = "SUCCESS" /\ c.buffer = bytes
    \/ c.at = "none" /\ c.code # "SUCCESS" /\ failed

ReadJob(f) ==
    /\ io[f].name = f /\ io[f].offset = 0
    /\ ReadPhase(io[f], EncodeData(f), errors > 0)
    /\ disk[f] = EncodeData(f)

\* A task of the third round writes the data of f to its place in the image.
PlaceJob(f) ==
    /\ WriteJob(f, Image, FALSE, Place(f), EncodeData(f))
    /\ disk[Image] # Absent

\* The packing thread writes the header, or the last record it came to.
HeaderJob == WriteJob(Packer, Image, TRUE, 0, EncodeHeader)
RecordJob(k) ==
    /\ WriteJob(Packer, Image, FALSE,
                HeaderLen + Len(Records(SubSeq(files, 1, k - 1), version)),
                SerializeFileMetadata(files[k], version))
    /\ disk[Image] # Absent

\* A read of a file from its place in the image.
ReadAtPhase(c) ==
    /\ Len(c.buffer) = c.total
    /\ \/ c.at = "open_at" /\ c.code = "none" /\ c.total = 0
       \/ c.at = "pread" /\ c.code = "none" /\ c.total < c.size
       \/ c.at = "none" /\ (c.code = "SUCCESS" => c.total = c.size)

ReadAtJob(f) ==
    /\ io[Reader].name = Image /\ io[Reader].offset = Place(f)
    /\ io[Reader].size = DataLen[f]
    /\ ReadAtPhase(io[Reader])

Ended(p) == io[p].at = "none" /\ io[p].code = "SUCCESS"

\* The round of pool tasks that the pack has come to.
RoundAt(f) ==
    /\ pack \in {"start", "none"} => io[f].at = "none"
    /\ pack \in {"compress", "metas"} => CompressJob(f)
    /\ pack \in {"metas", "SUCCESS"} => Ended(f)
    /\ pack = "read_temps" => ReadJob(f)
    /\ pack \in {"write_data", "SUCCESS"} => PlaceJob(f)
    /\ pack = "ERROR" => CompressJob(f) \/ ReadJob(f) \/ PlaceJob(f)

Rounds == \A f \in Files : IF f \in Listed THEN RoundAt(f) ELSE io[f].at = "none"

PackerAt ==
    /\ pack # "metas" => io[Packer].at = "none"
    /\ pack \in {"start", "compress"} => written = 0
    /\ pack = "metas" => IF written = 0 THEN HeaderJob ELSE RecordJob(written)

ReaderAt == IF reading = NoFile THEN io[Reader].at = "none" /\ io[Reader].code = "none"
            ELSE reading \in Listed /\ ReadAtJob(reading)

\* What an image holds and when there is one.
ImageAt ==
    /\ pack = "none" <=> version = 1
    /\ disk[Image] # Absent => disk[Image] \in Seq(CellsOf(Listed))
    /\ pack \in {"start", "compress"} => disk[Image] = Absent
    /\ pack \in {"read_temps", "write_data", "SUCCESS", "none"} => disk[Image] # Absent
    /\ mount # "idle" \/ reading # NoFile => disk[Image] # Absent
    /\ cached \in Seq(Listed)

Inv == TypeOK /\ NoSpuriousFailure /\ Rounds /\ PackerAt /\ ReaderAt /\ ImageAt

\* Fields are wide enough for every image that can be packed.
FieldsFit ==
    \A l \in PendingLists : /\ Len(l) < Word
                            /\ \A v \in 1 .. CURRENT_VERSION : Len(ReferenceImage(l, v)) < Word

Reference == ReferenceImage(files, version)
DataBegin == HeaderLen + Len(Records(files, version))

\* The bytes have at x what r has there.
SameAt(bytes, r, x) == x <= Len(bytes) /\ bytes[x] = r[x]

\* They are a part of r, but for gaps after its first m bytes.
RightBytes(bytes, r, m) ==
    /\ Len(bytes) <= Len(r)
    /\ \A x \in 1 .. Len(bytes) : bytes[x] = r[x] \/ (x > m /\ bytes[x] = Hole)

InPlace(x) == SameAt(disk[Image], Reference, x)

\* An image has the bytes it should have, but for gaps in the user data.
ImageRight == disk[Image] # Absent => RightBytes(disk[Image], Reference, DataBegin)

\* Where the pack is, the image ends.
HeadWritten ==
    /\ (/\ pack = "metas"
        /\ \/ io[Packer].at = "pwrite" \/ io[Packer].code = "SUCCESS"
           \/ written > 0 /\ io[Packer].at # "none") =>
          Len(disk[Image]) = io[Packer].offset + io[Packer].total
    /\ pack \in {"read_temps", "write_data", "SUCCESS"} => DataBegin <= Len(disk[Image])

DataWritten ==
    \A f \in Listed :
       io[f].name = Image /\ pack \in {"write_data", "SUCCESS", "ERROR"} =>
          /\ DataBegin <= Len(disk[Image])
          /\ \A j \in 1 .. io[f].total : InPlace(Place(f) + j)

Finished == pack \in {"SUCCESS", "none"} => disk[Image] = Reference

MountAt ==
    /\ mount # "garbled"
    /\ IsPrefix(cached, files)
    /\ mount \in {"idle", "header"} => cached = <<>>
    /\ mount = "records" => pos = HeaderLen + Len(Records(SubSeq(files, 1, Len(cached)), version))
    /\ mount = "SUCCESS" => cached = files

\* What can be missing from a read: nothing, if the image was finished.
Gaps == IF settled THEN {} ELSE {Hole}

ReadRight(buffer, f, gaps) ==
    \A j \in 1 .. Len(buffer) : buffer[j] = EncodeData(f)[j] \/ buffer[j] \in gaps

ReadBytes ==
    /\ settled => pack \in {"SUCCESS", "none"}
    /\ reading # NoFile => ReadRight(io[Reader].buffer, reading, Gaps)

ImageInv == ImageRight /\ HeadWritten /\ DataWritten /\ Finished /\ MountAt /\ ReadBytes

-----------------------------------------------------------------------------
(* What a system call of a thread changes. *)

CallSet == Calls(Cells)
Ats == WriteAts \cup ReadAts \cup {"none"}
Codes == {"none", "SUCCESS", "IO_ERROR", "FILE_NOT_FOUND"}

\* Only the thread's own call changes, and where it transfers is as before.
OthersKept(p) == \A q \in Procs \ {p} : io'[q] = io[q]
TargetKept(p) == /\ io'[p].name = io[p].name
                 /\ io'[p].truncate = io[p].truncate
                 /\ io'[p].offset = io[p].offset

LEMMA GotoEffect ==
    ASSUME io \in [Procs -> CallSet], NEW p \in Procs, NEW at \in Ats, NEW level \in 0 .. Depth,
           Goto(p, at, level)
    PROVE  /\ io' \in [Procs -> CallSet]
           /\ OthersKept(p) /\ TargetKept(p)
           /\ io'[p].at = at /\ io'[p].code = io[p].code /\ io'[p].size = io[p].size
           /\ io'[p].total = io[p].total /\ io'[p].buffer = io[p].buffer
  <1>1. io' = [io EXCEPT ![p] = [io[p] EXCEPT !.at = at, !.level = level]]
    BY DEF Goto
  <1>2. io[p] \in CallSet
    OBVIOUS
  <1>3. /\ [io[p] EXCEPT !.at = at, !.level = level] \in CallSet
        /\ io'[p] = [io[p] EXCEPT !.at = at, !.level = level]
    BY <1>1, <1>2 DEF CallSet, Calls, Ats
  <1> QED BY <1>1, <1>2, <1>3 DEF OthersKept, TargetKept, CallSet, Calls

LEMMA EndsEffect ==
    ASSUME io \in [Procs -> CallSet], NEW p \in Procs, NEW code \in Codes, Ends(p, code)
    PROVE  /\ io' \in [Procs -> CallSet]
           /\ OthersKept(p) /\ TargetKept(p)
           /\ io'[p].at = "none" /\ io'[p].code = code /\ io'[p].size = io[p].size
           /\ io'[p].total = io[p].total /\ io'[p].buffer = io[p].buffer
  <1>1. io' = [io EXCEPT ![p] = [io[p] EXCEPT !.at = "none", !.code = code]]
    BY DEF Ends
  <1>2. io[p] \in CallSet
    OBVIOUS
  <1>3. /\ [io[p] EXCEPT !.at = "none", !.code = code] \in CallSet
        /\ io'[p] = [io[p] EXCEPT !.at = "none", !.code = code]
    BY <1>1, <1>2 DEF CallSet, Calls, Codes
  <1> QED BY <1>1, <1>2, <1>3 DEF OthersKept, TargetKept, CallSet, Calls

LEMMA ProgressEffect ==
    ASSUME io \in [Procs -> CallSet], NEW p \in Procs, NEW n \in Nat, NEW buffer \in Seq(Cells),
           Progress(p, n, buffer)
    PROVE  /\ io' \in [Procs -> CallSet]
           /\ OthersKept(p) /\ TargetKept(p)
           /\ io'[p].size = io[p].size
           /\ io'[p].total = io[p].total + n /\ io'[p].buffer = buffer
           /\ io'[p].at = IF io[p].total + n = io[p].size THEN "none" ELSE io[p].at
           /\ io'[p].code = IF io[p].total + n = io[p].size THEN "SUCCESS" ELSE io[p].code
  <1>1. PICK total : total = io[p].total + n
    OBVIOUS
  <1>2. io[p] \in CallSet
    OBVIOUS
  <1>3. PICK c : c = [io[p] EXCEPT !.total = total, !.buffer = buffer,
                          !.at = IF total = io[p].size THEN "none" ELSE @,
                          !.code = IF total = io[p].size THEN "SUCCESS" ELSE @]
    OBVIOUS
  <1>4. io' = [io EXCEPT ![p] = c]
    BY <1>1, <1>3 DEF Progress, Advanced, Done
  <1>5. total \in Nat
    BY <1>1, <1>2 DEF CallSet, Calls
  <1>6. c \in CallSet /\ io'[p] = c
    BY <1>2, <1>3, <1>4, <1>5 DEF CallSet, Calls
  <1>7. /\ c.name = io[p].name /\ c.truncate = io[p].truncate /\ c.offset = io[p].offset
        /\ c.size = io[p].size /\ c.total = total /\ c.buffer = buffer
        /\ c.at = IF total = io[p].size THEN "none" ELSE io[p].at
        /\ c.code = IF total = io[p].size THEN "SUCCESS" ELSE io[p].code
    BY <1>2, <1>3 DEF CallSet, Calls
  <1> QED BY <1>1, <1>4, <1>6, <1>7 DEF OthersKept, TargetKept

LEMMA MaxOfTwo ==
    ASSUME NEW a \in Nat, NEW b \in Nat
    PROVE  Max({a, b}) = IF a >= b THEN a ELSE b
  <1>1. PICK m : m = IF a >= b THEN a ELSE b
    OBVIOUS
  <1>2. m \in {a, b} /\ \A y \in {a, b} : m >= y
    BY <1>1
  <1>3. ASSUME NEW x \in {a, b}, \A y \in {a, b} : x >= y
        PROVE  x = m
    BY <1>1, <1>3
  <1> QED BY <1>1, <1>2, <1>3 DEF Max

LEMMA MinOfTwo ==
    ASSUME NEW a \in Int, NEW b \in Int
    PROVE  Min({a, b}) = IF a <= b THEN a ELSE b
  <1>1. PICK m : m = IF a <= b THEN a ELSE b
    OBVIOUS
  <1>2. m \in {a, b} /\ \A y \in {a, b} : m <= y
    BY <1>1
  <1>3. ASSUME NEW x \in {a, b}, \A y \in {a, b} : x <= y
        PROVE  x = m
    BY <1>1, <1>3
  <1> QED BY <1>1, <1>2, <1>3 DEF Min

\* What a write leaves in a file.
LEMMA OverwrittenBytes ==
    ASSUME NEW S, Hole \in S, NEW old \in Seq(S), NEW start \in Nat, NEW bytes \in Seq(S)
    PROVE  /\ Overwritten(old, start, bytes) \in Seq(S)
           /\ Len(Overwritten(old, start, bytes)) =
                 IF Len(old) >= start + Len(bytes) THEN Len(old) ELSE start + Len(bytes)
           /\ \A k \in 1 .. Len(Overwritten(old, start, bytes)) :
                 Overwritten(old, start, bytes)[k] =
                    IF k > start /\ k <= start + Len(bytes) THEN bytes[k - start]
                    ELSE IF k <= Len(old) THEN old[k] ELSE Hole
  <1>1. Len(old) \in Nat /\ Len(bytes) \in Nat /\ start + Len(bytes) \in Nat
    OBVIOUS
  <1>2. PICK m \in Nat :
           m = IF Len(old) >= start + Len(bytes) THEN Len(old) ELSE start + Len(bytes)
    BY <1>1
  <1>3. Max({Len(old), start + Len(bytes)}) = m
    BY <1>1, <1>2, MaxOfTwo
  <1>4. \A k \in 1 .. m : (IF k > start /\ k <= start + Len(bytes) THEN bytes[k - start]
                           ELSE IF k <= Len(old) THEN old[k] ELSE Hole) \in S
    <2> SUFFICES ASSUME NEW k \in 1 .. m
                 PROVE  (IF k > start /\ k <= start + Len(bytes) THEN bytes[k - start]
                         ELSE IF k <= Len(old) THEN old[k] ELSE Hole) \in S
      OBVIOUS
    <2>1. CASE k > start /\ k <= start + Len(bytes)
      <3>1. k - start \in 1 .. Len(bytes)
        BY <1>1, <2>1
      <3> QED BY <2>1, <3>1
    <2>2. CASE ~(k > start /\ k <= start + Len(bytes)) /\ k <= Len(old)
      <3>1. k \in 1 .. Len(old)
        BY <1>1, <2>2
      <3> QED BY <2>2, <3>1
    <2> QED BY <2>1, <2>2
  <1>5. PICK w : w = Overwritten(old, start, bytes)
    OBVIOUS
  <1>6. w = [k \in 1 .. m |-> IF k > start /\ k <= start + Len(bytes) THEN bytes[k - start]
                              ELSE IF k <= Len(old) THEN old[k] ELSE Hole]
    BY <1>3, <1>5 DEF Overwritten
  <1>7. w \in Seq(S) /\ Len(w) = m
    BY <1>4, <1>6
  <1> QED BY <1>2, <1>5, <1>6, <1>7

\* What a thread in a call can count on.
Sane(p) ==
    /\ io[p].at \in WriteAts => Len(io[p].buffer) = io[p].size
    /\ io[p].at \in ReadAts => Len(io[p].buffer) = io[p].total
    /\ io[p].at \in {"fstat", "pread", "pwrite"} => disk[io[p].name] # Absent
    /\ io[p].at = "fstat" => io[p].total = 0

IoTypes ==
    /\ directories \in 0 .. Depth
    /\ disk \in [Names -> Seq(Cells) \cup {Absent}]
    /\ io \in [Procs -> CallSet]
    /\ \A q \in Procs : io[q].total <= io[q].size
    /\ errors \in 0 .. MaxErrors /\ shorts \in 0 .. MaxShorts /\ stalls \in 0 .. MaxStalls

\* Only the thread's own file changes, only at an open or a write, and it stays.
DiskKept(p) ==
    /\ \A n \in Names \ {io[p].name} : disk'[n] = disk[n]
    /\ io[p].at \notin {"open_write", "pwrite"} => disk' = disk
    /\ \A n \in Names : disk[n] # Absent => disk'[n] # Absent

StepEffect(p) ==
    /\ IoTypes'
    /\ OthersKept(p) /\ TargetKept(p) /\ DiskKept(p)
    /\ errors' >= errors

LEMMA HoleCell == Hole \in Cells
  BY BytesAssumption DEF Cells

LEMMA WriteEffect ==
    ASSUME disk \in [Names -> Seq(Cells) \cup {Absent}], io \in [Procs -> CallSet],
           NEW p \in Procs, NEW bytes \in Seq(Cells), Write(p, bytes)
    PROVE  /\ disk' \in [Names -> Seq(Cells) \cup {Absent}]
           /\ disk'[io[p].name] = bytes
           /\ \A n \in Names \ {io[p].name} : disk'[n] = disk[n]
           /\ \A n \in Names : disk[n] # Absent => disk'[n] # Absent
  <1>1. io[p].name \in Names
    BY DEF CallSet, Calls
  <1>2. bytes # Absent
    BY BytesAssumption
  <1>3. disk' = [disk EXCEPT ![io[p].name] = bytes]
    BY DEF Write
  <1> QED BY <1>1, <1>2, <1>3

\* What a step of a call does to it and to its file, by what the system call does.
DataUntouched(p) == /\ io'[p].size = io[p].size
                    /\ io'[p].total = io[p].total
                    /\ io'[p].buffer = io[p].buffer
Ending(p, code) == io'[p].at = "none" /\ io'[p].code = code
Passing(p, at) == io'[p].at = at /\ io'[p].code = io[p].code

Climbs(p) ==
    /\ io[p].at \in {"exists", "mkdir"}
    /\ \E at \in {"exists", "mkdir", "open_write"} : Passing(p, at)
    /\ DataUntouched(p) /\ disk' = disk
Opens(p) ==
    /\ io[p].at = "open_write"
    /\ disk'[io[p].name] = IF io[p].truncate \/ File(p) = Absent THEN <<>> ELSE File(p)
    /\ IF io[p].size = 0 THEN Ending(p, "SUCCESS") ELSE Passing(p, "pwrite")
    /\ DataUntouched(p)
Advances(p, n) ==
    /\ io'[p].size = io[p].size
    /\ io'[p].total = io[p].total + n
    /\ IF io[p].total + n = io[p].size THEN Ending(p, "SUCCESS") ELSE Passing(p, io[p].at)
Puts(p, n) ==
    /\ io[p].at = "pwrite"
    /\ n <= io[p].size - io[p].total
    /\ disk'[io[p].name] =
          Overwritten(File(p), io[p].offset + io[p].total,
                      SubSeq(io[p].buffer, io[p].total + 1, io[p].total + n))
    /\ Advances(p, n)
    /\ io'[p].buffer = io[p].buffer
Finds(p) ==
    /\ io[p].at \in {"open_at", "open_all"}
    /\ File(p) # Absent
    /\ IF io[p].at = "open_all" THEN Passing(p, "fstat")
       ELSE IF io[p].size = 0 THEN Ending(p, "SUCCESS") ELSE Passing(p, "pread")
    /\ DataUntouched(p) /\ disk' = disk
Misses(p) ==
    /\ io[p].at \in {"open_at", "open_all"}
    /\ File(p) = Absent
    /\ Ending(p, "FILE_NOT_FOUND")
    /\ DataUntouched(p) /\ disk' = disk
Sizes(p) ==
    /\ io[p].at = "fstat"
    /\ IF File(p) = <<>> THEN Ending(p, "SUCCESS") /\ io'[p].size = io[p].size
                         ELSE Passing(p, "pread") /\ io'[p].size = Len(File(p))
    /\ io'[p].total = io[p].total /\ io'[p].buffer = io[p].buffer /\ disk' = disk
Gets(p, n) ==
    /\ io[p].at = "pread"
    /\ n <= io[p].size - io[p].total
    /\ n <= Len(File(p)) - (io[p].offset + io[p].total)
    /\ Advances(p, n)
    /\ io'[p].buffer = SubSeq(io[p].buffer, 1, io[p].total)
                          \o SubSeq(File(p), io[p].offset + io[p].total + 1,
                                    io[p].offset + io[p].total + n)
    /\ disk' = disk
Starves(p) ==
    /\ io[p].at = "pread"
    /\ io[p].offset + io[p].total >= Len(File(p))
    /\ Ending(p, "IO_ERROR")
    /\ DataUntouched(p) /\ disk' = disk
Breaks(p) ==
    /\ errors' > 0
    /\ io'[p].at = "none" /\ io'[p].code \in {"IO_ERROR", "FILE_NOT_FOUND"}
    /\ DataUntouched(p) /\ disk' = disk
Waits(p) == io[p].at \in {"pread", "pwrite"} /\ io' = io /\ disk' = disk

WriteCase(p) == Climbs(p) \/ Opens(p) \/ (\E n \in Nat \ {0} : Puts(p, n))
ReadCase(p) == \/ Finds(p) \/ Misses(p) \/ Sizes(p) \/ Starves(p)
               \/ \E n \in Nat \ {0} : Gets(p, n)
StepCase(p) == WriteCase(p) \/ ReadCase(p) \/ Breaks(p) \/ Waits(p)

LEMMA DirectoryEffect ==
    ASSUME IoTypes, NEW p \in Procs, Exists(p) \/ CreateDirectory(p)
    PROVE  StepEffect(p) /\ Climbs(p)
  <1>1. /\ io[p] \in CallSet /\ io[p].level \in 0 .. Depth /\ io[p].total <= io[p].size
        /\ Depth \in Nat \ {0} /\ directories \in 0 .. Depth
        /\ io \in [Procs -> CallSet]
    BY BoundsAssumption DEF IoTypes, CallSet, Calls
  <1>2. PICK at \in {"exists", "mkdir", "open_write"}, level \in 0 .. Depth :
           Goto(p, at, level)
    <2>1. CASE Exists(p)
      <3>1. \/ Goto(p, "open_write", 0)
            \/ io[p].level # Depth /\ Goto(p, "mkdir", io[p].level + 1)
            \/ io[p].level > 1 /\ Goto(p, "exists", io[p].level - 1)
            \/ Goto(p, "mkdir", 1)
        BY <2>1 DEF Exists
      <3>2. 0 \in 0 .. Depth /\ 1 \in 0 .. Depth
        BY <1>1
      <3>3. io[p].level # Depth => io[p].level + 1 \in 0 .. Depth
        BY <1>1
      <3>4. io[p].level > 1 => io[p].level - 1 \in 0 .. Depth
        BY <1>1
      <3> QED BY <3>1, <3>2, <3>3, <3>4
    <2>2. CASE CreateDirectory(p)
      <3>1. \/ Goto(p, "open_write", 0)
            \/ io[p].level # Depth /\ Goto(p, "mkdir", io[p].level + 1)
        BY <2>2 DEF CreateDirectory, Mkdir, Made
      <3>2. 0 \in 0 .. Depth
        BY <1>1
      <3>3. io[p].level # Depth => io[p].level + 1 \in 0 .. Depth
        BY <1>1
      <3> QED BY <3>1, <3>2, <3>3
    <2> QED BY <2>1, <2>2
  <1>3. /\ io' \in [Procs -> CallSet] /\ OthersKept(p) /\ TargetKept(p)
        /\ Passing(p, at) /\ DataUntouched(p)
    BY <1>1, <1>2, GotoEffect DEF Ats, WriteAts, Passing, DataUntouched
  <1>4. io[p].at \in {"exists", "mkdir"} /\ disk' = disk /\ UNCHANGED budgets
    BY DEF Exists, CreateDirectory
  <1>5. directories' \in 0 .. Depth
    BY <1>1 DEF Exists, CreateDirectory, Mkdir
  <1>6. \A q \in Procs : io'[q].total <= io'[q].size
    BY <1>3 DEF IoTypes, OthersKept, DataUntouched
  <1>7. IoTypes' /\ errors' >= errors
    BY <1>3, <1>4, <1>5, <1>6, BoundsAssumption DEF IoTypes, budgets
  <1> QED BY <1>3, <1>4, <1>7 DEF StepEffect, DiskKept, Climbs

LEMMA OpenWriteEffect ==
    ASSUME IoTypes, NEW p \in Procs, OpenWrite(p)
    PROVE  StepEffect(p) /\ Opens(p)
  <1>1. io \in [Procs -> CallSet] /\ disk \in [Names -> Seq(Cells) \cup {Absent}]
    BY DEF IoTypes
  <1>2. io[p].name \in Names
    BY <1>1 DEF CallSet, Calls
  <1>3. PICK bytes : bytes = IF io[p].truncate \/ File(p) = Absent THEN <<>> ELSE File(p)
    OBVIOUS
  <1>4. bytes \in Seq(Cells) /\ Write(p, bytes)
    BY <1>1, <1>2, <1>3 DEF OpenWrite, File
  <1>5. /\ disk' \in [Names -> Seq(Cells) \cup {Absent}]
        /\ disk'[io[p].name] = bytes
        /\ \A n \in Names \ {io[p].name} : disk'[n] = disk[n]
        /\ \A n \in Names : disk[n] # Absent => disk'[n] # Absent
    BY <1>1, <1>4, WriteEffect
  <1>6. 0 \in 0 .. Depth /\ "pwrite" \in Ats /\ "SUCCESS" \in Codes
    BY BoundsAssumption DEF Ats, WriteAts, Codes
  <1>7. /\ io' \in [Procs -> CallSet] /\ OthersKept(p) /\ TargetKept(p) /\ DataUntouched(p)
        /\ IF io[p].size = 0 THEN Ending(p, "SUCCESS") ELSE Passing(p, "pwrite")
    <2>1. CASE io[p].size = 0
      <3>1. Ends(p, "SUCCESS")
        BY <2>1 DEF OpenWrite
      <3> QED BY <1>1, <1>6, <2>1, <3>1, EndsEffect DEF Ending, DataUntouched
    <2>2. CASE io[p].size # 0
      <3>1. Goto(p, "pwrite", 0)
        BY <2>2 DEF OpenWrite
      <3> QED BY <1>1, <1>6, <2>2, <3>1, GotoEffect DEF Passing, DataUntouched
    <2> QED BY <2>1, <2>2
  <1>8. io[p].at = "open_write" /\ UNCHANGED directories /\ UNCHANGED budgets
    BY DEF OpenWrite
  <1>9. \A q \in Procs : io'[q].total <= io'[q].size
    BY <1>7 DEF IoTypes, OthersKept, DataUntouched
  <1>10. IoTypes' /\ errors' >= errors
    BY <1>5, <1>7, <1>8, <1>9, BoundsAssumption DEF IoTypes, budgets
  <1> QED BY <1>3, <1>5, <1>7, <1>8, <1>10 DEF StepEffect, DiskKept, Opens

LEMMA OpenReadEffect ==
    ASSUME IoTypes, NEW p \in Procs, OpenRead(p)
    PROVE  StepEffect(p) /\ (Finds(p) \/ Misses(p))
  <1>1. io \in [Procs -> CallSet]
    BY DEF IoTypes
  <1>2. 0 \in 0 .. Depth /\ {"fstat", "pread"} \subseteq Ats
        /\ {"SUCCESS", "FILE_NOT_FOUND"} \subseteq Codes
    BY BoundsAssumption DEF Ats, ReadAts, Codes
  <1>3. \/ File(p) = Absent /\ Ends(p, "FILE_NOT_FOUND")
        \/ File(p) # Absent /\ io[p].at = "open_all" /\ Goto(p, "fstat", 0)
        \/ File(p) # Absent /\ io[p].at # "open_all" /\ io[p].size = 0 /\ Ends(p, "SUCCESS")
        \/ File(p) # Absent /\ io[p].at # "open_all" /\ io[p].size # 0 /\ Goto(p, "pread", 0)
    BY DEF OpenRead
  <1>4. /\ io' \in [Procs -> CallSet] /\ OthersKept(p) /\ TargetKept(p) /\ DataUntouched(p)
        /\ \/ File(p) = Absent /\ Ending(p, "FILE_NOT_FOUND")
           \/ File(p) # Absent /\ io[p].at = "open_all" /\ Passing(p, "fstat")
           \/ File(p) # Absent /\ io[p].at # "open_all" /\ io[p].size = 0 /\ Ending(p, "SUCCESS")
           \/ File(p) # Absent /\ io[p].at # "open_all" /\ io[p].size # 0 /\ Passing(p, "pread")
    BY <1>1, <1>2, <1>3, GotoEffect, EndsEffect DEF Ending, Passing, DataUntouched
  <1>5. /\ io[p].at \in {"open_at", "open_all"} /\ disk' = disk
        /\ UNCHANGED directories /\ UNCHANGED budgets
    BY DEF OpenRead
  <1>6. \A q \in Procs : io'[q].total <= io'[q].size
    BY <1>4 DEF IoTypes, OthersKept, DataUntouched
  <1>7. IoTypes' /\ errors' >= errors
    BY <1>4, <1>5, <1>6, BoundsAssumption DEF IoTypes, budgets
  <1> QED BY <1>4, <1>5, <1>7 DEF StepEffect, DiskKept, Finds, Misses

LEMMA FstatEffect ==
    ASSUME IoTypes, NEW p \in Procs, Sane(p), Fstat(p)
    PROVE  StepEffect(p) /\ Sizes(p)
  <1>1. /\ io \in [Procs -> CallSet] /\ io[p] \in CallSet
        /\ disk \in [Names -> Seq(Cells) \cup {Absent}]
    BY DEF IoTypes
  <1>2. io[p].name \in Names /\ io[p].at = "fstat" /\ io[p].total = 0 /\ File(p) # Absent
    BY <1>1 DEF Fstat, Sane, CallSet, Calls, File
  <1>3. File(p) \in Seq(Cells) /\ Len(File(p)) \in Nat
    BY <1>1, <1>2 DEF File
  <1>4. /\ io' \in [Procs -> CallSet] /\ OthersKept(p) /\ TargetKept(p)
        /\ io'[p].total = io[p].total /\ io'[p].buffer = io[p].buffer
        /\ IF File(p) = <<>> THEN Ending(p, "SUCCESS") /\ io'[p].size = io[p].size
                             ELSE Passing(p, "pread") /\ io'[p].size = Len(File(p))
    <2>1. CASE File(p) = <<>>
      <3>1. Ends(p, "SUCCESS") /\ "SUCCESS" \in Codes
        BY <2>1 DEF Fstat, Codes
      <3> QED BY <1>1, <2>1, <3>1, EndsEffect DEF Ending
    <2>2. CASE File(p) # <<>>
      <3>1. PICK c : c = [io[p] EXCEPT !.at = "pread", !.size = Len(File(p))]
        OBVIOUS
      <3>2. io' = [io EXCEPT ![p] = c]
        BY <2>2, <3>1 DEF Fstat
      <3>3. c \in CallSet /\ io'[p] = c
        BY <1>1, <1>3, <3>1, <3>2 DEF CallSet, Calls, ReadAts
      <3>4. /\ c.name = io[p].name /\ c.truncate = io[p].truncate /\ c.offset = io[p].offset
            /\ c.size = Len(File(p)) /\ c.total = io[p].total /\ c.buffer = io[p].buffer
            /\ c.at = "pread" /\ c.code = io[p].code
        BY <1>1, <3>1 DEF CallSet, Calls
      <3> QED BY <1>1, <2>2, <3>2, <3>3, <3>4 DEF OthersKept, TargetKept, Passing
    <2> QED BY <2>1, <2>2
  <1>5. disk' = disk /\ UNCHANGED directories /\ UNCHANGED budgets
    BY DEF Fstat
  <1>6. io'[p].total <= io'[p].size
    BY <1>2, <1>3, <1>4 DEF IoTypes
  <1>7. \A q \in Procs : io'[q].total <= io'[q].size
    BY <1>4, <1>6 DEF IoTypes, OthersKept
  <1>8. IoTypes' /\ errors' >= errors
    BY <1>4, <1>5, <1>7, BoundsAssumption DEF IoTypes, budgets
  <1> QED BY <1>2, <1>4, <1>5, <1>8 DEF StepEffect, DiskKept, Sizes

LEMMA EndEffect ==
    ASSUME IoTypes, NEW p \in Procs, EndOfFile(p) \/ CallFails(p)
    PROVE  StepEffect(p) /\ (Starves(p) \/ Breaks(p))
  <1>1. io \in [Procs -> CallSet] /\ errors \in 0 .. MaxErrors /\ MaxErrors \in Nat
    BY BoundsAssumption DEF IoTypes
  <1>2. PICK code \in {"IO_ERROR", "FILE_NOT_FOUND"} :
           /\ Ends(p, code)
           /\ \/ code = "IO_ERROR" /\ EndOfFile(p)
              \/ Error
    BY DEF EndOfFile, CallFails
  <1>3. /\ io' \in [Procs -> CallSet] /\ OthersKept(p) /\ TargetKept(p) /\ DataUntouched(p)
        /\ Ending(p, code)
    BY <1>1, <1>2, EndsEffect DEF Codes, Ending, DataUntouched
  <1>4. disk' = disk /\ UNCHANGED directories
    BY DEF EndOfFile, CallFails
  <1>5. \/ EndOfFile(p) /\ code = "IO_ERROR" /\ UNCHANGED budgets
        \/ errors' = errors + 1 /\ errors' <= MaxErrors /\ UNCHANGED <<shorts, stalls>>
    BY <1>1, <1>2 DEF EndOfFile, Error
  <1>6. \A q \in Procs : io'[q].total <= io'[q].size
    BY <1>3 DEF IoTypes, OthersKept, DataUntouched
  <1>7. errors' \in 0 .. MaxErrors /\ errors' >= errors
    BY <1>1, <1>5 DEF budgets
  <1>8. IoTypes'
    BY <1>3, <1>4, <1>5, <1>6, <1>7 DEF IoTypes, budgets
  <1>9. Starves(p) \/ Breaks(p)
    <2>1. CASE EndOfFile(p) /\ code = "IO_ERROR"
      BY <1>3, <1>4, <2>1 DEF EndOfFile, ReadPos, Starves
    <2>2. CASE errors' = errors + 1
      <3>1. errors' > 0
        BY <1>1, <2>2
      <3> QED BY <1>3, <1>4, <3>1 DEF Breaks, Ending
    <2> QED BY <1>5, <2>1, <2>2
  <1> QED BY <1>3, <1>4, <1>7, <1>8, <1>9 DEF StepEffect, DiskKept

LEMMA StallEffect ==
    ASSUME IoTypes, NEW p \in Procs, Stall(p)
    PROVE  StepEffect(p) /\ Waits(p)
  <1>1. /\ io' = io /\ disk' = disk /\ UNCHANGED <<directories, errors, shorts>>
        /\ stalls < MaxStalls /\ stalls' = stalls + 1
        /\ io[p].at \in {"pread", "pwrite"}
    BY DEF Stall
  <1>2. stalls' \in 0 .. MaxStalls /\ errors' >= errors
    BY <1>1, BoundsAssumption DEF IoTypes
  <1> QED BY <1>1, <1>2 DEF IoTypes, StepEffect, DiskKept, OthersKept, TargetKept, Waits

LEMMA TransferEffect ==
    ASSUME IoTypes, NEW n \in Nat, NEW available \in Int, Transfers(n, available)
    PROVE  /\ n \in Nat \ {0} /\ n <= available
           /\ errors' = errors /\ stalls' = stalls /\ shorts' \in 0 .. MaxShorts
  BY BoundsAssumption DEF IoTypes, Transfers, budgets

LEMMA PwriteEffect ==
    ASSUME IoTypes, NEW p \in Procs, Sane(p), Pwrite(p)
    PROVE  StepEffect(p) /\ \E n \in Nat \ {0} : Puts(p, n)
  <1>1. /\ io \in [Procs -> CallSet] /\ io[p] \in CallSet /\ io[p].total <= io[p].size
        /\ disk \in [Names -> Seq(Cells) \cup {Absent}]
    BY DEF IoTypes
  <1>2. PICK buffer, size, total, offset, old :
           /\ buffer = io[p].buffer /\ size = io[p].size /\ total = io[p].total
           /\ offset = io[p].offset /\ old = File(p)
    OBVIOUS
  <1>3. /\ io[p].at = "pwrite" /\ io[p].name \in Names
        /\ buffer \in Seq(Cells) /\ Len(buffer) = size
        /\ size \in Nat /\ total \in Nat /\ offset \in Nat /\ total <= size
    BY <1>1, <1>2 DEF Pwrite, Sane, WriteAts, CallSet, Calls
  <1>4. old \in Seq(Cells)
    BY <1>1, <1>2, <1>3 DEF Sane, File
  <1>5. PICK n \in 1 .. size :
           /\ Transfers(n, size - total)
           /\ Write(p, Overwritten(old, offset + total, SubSeq(buffer, total + 1, total + n)))
           /\ Progress(p, n, buffer)
    BY <1>2 DEF Pwrite
  <1>6. n \in Nat \ {0} /\ n <= size - total /\ UNCHANGED <<errors, stalls>>
        /\ shorts' \in 0 .. MaxShorts
    <2>1. n \in Nat /\ size - total \in Int
      BY <1>3
    <2> QED BY <1>5, <2>1, TransferEffect
  <1>7. PICK bytes : bytes = SubSeq(buffer, total + 1, total + n)
    OBVIOUS
  <1>8. bytes \in Seq(Cells)
    BY <1>3, <1>6, <1>7
  <1>9. PICK new : new = Overwritten(old, offset + total, bytes)
    OBVIOUS
  <1>10. new \in Seq(Cells)
    <2>1. offset + total \in Nat
      BY <1>3
    <2> QED BY <1>4, <1>8, <1>9, <2>1, HoleCell, OverwrittenBytes
  <1>11. /\ disk' \in [Names -> Seq(Cells) \cup {Absent}]
         /\ disk'[io[p].name] = new
         /\ \A m \in Names \ {io[p].name} : disk'[m] = disk[m]
         /\ \A m \in Names : disk[m] # Absent => disk'[m] # Absent
    <2>1. Write(p, new)
      BY <1>5, <1>7, <1>9
    <2> QED BY <1>1, <1>10, <2>1, WriteEffect
  <1>12. /\ io' \in [Procs -> CallSet] /\ OthersKept(p) /\ TargetKept(p)
         /\ io'[p].size = size /\ io'[p].total = total + n /\ io'[p].buffer = buffer
         /\ io'[p].at = IF total + n = size THEN "none" ELSE io[p].at
         /\ io'[p].code = IF total + n = size THEN "SUCCESS" ELSE io[p].code
    BY <1>1, <1>2, <1>3, <1>5, <1>6, ProgressEffect
  <1>13. io'[p].total <= io'[p].size
    BY <1>3, <1>6, <1>12
  <1>14. \A q \in Procs : io'[q].total <= io'[q].size
    BY <1>12, <1>13 DEF IoTypes, OthersKept
  <1>15. UNCHANGED directories
    BY DEF Pwrite
  <1>16. IoTypes' /\ errors' >= errors
    BY <1>6, <1>11, <1>12, <1>14, <1>15, BoundsAssumption DEF IoTypes
  <1>17. Advances(p, n)
    BY <1>2, <1>12 DEF Advances, Ending, Passing
  <1>18. Puts(p, n)
    BY <1>2, <1>3, <1>6, <1>7, <1>9, <1>11, <1>12, <1>17 DEF Puts
  <1> QED BY <1>3, <1>6, <1>11, <1>12, <1>16, <1>18 DEF StepEffect, DiskKept

LEMMA PreadEffect ==
    ASSUME IoTypes, NEW p \in Procs, Sane(p), Pread(p)
    PROVE  StepEffect(p) /\ \E n \in Nat \ {0} : Gets(p, n)
  <1>1. /\ io \in [Procs -> CallSet] /\ io[p] \in CallSet /\ io[p].total <= io[p].size
        /\ disk \in [Names -> Seq(Cells) \cup {Absent}]
    BY DEF IoTypes
  <1>2. PICK buffer, size, total, start, old :
           /\ buffer = io[p].buffer /\ size = io[p].size /\ total = io[p].total
           /\ start = io[p].offset + io[p].total /\ old = File(p)
    OBVIOUS
  <1>3. /\ io[p].at = "pread" /\ io[p].name \in Names
        /\ buffer \in Seq(Cells) /\ Len(buffer) = total
        /\ size \in Nat /\ total \in Nat /\ start \in Nat /\ total <= size
    BY <1>1, <1>2 DEF Pread, Sane, ReadAts, CallSet, Calls
  <1>4. old \in Seq(Cells) /\ Len(old) \in Nat
    BY <1>1, <1>2, <1>3 DEF Sane, File
  <1>5. PICK n \in 1 .. size :
           /\ Transfers(n, Min({size - total, Len(old) - start}))
           /\ Progress(p, n, SubSeq(buffer, 1, total) \o SubSeq(old, start + 1, start + n))
    BY <1>2 DEF Pread, ReadPos
  <1>6. PICK left \in Int : left = Min({size - total, Len(old) - start})
                            /\ left <= size - total /\ left <= Len(old) - start
    <2>1. size - total \in Int /\ Len(old) - start \in Int
      BY <1>3, <1>4
    <2>2. Min({size - total, Len(old) - start}) =
             IF size - total <= Len(old) - start THEN size - total ELSE Len(old) - start
      BY <2>1, MinOfTwo
    <2> QED BY <2>1, <2>2
  <1>7. n \in Nat \ {0} /\ n <= left /\ UNCHANGED <<errors, stalls>> /\ shorts' \in 0 .. MaxShorts
    <2>1. n \in Nat
      BY <1>3
    <2> QED BY <1>5, <1>6, <2>1, TransferEffect
  <1>8. n <= size - total /\ n <= Len(old) - start
    BY <1>3, <1>4, <1>6, <1>7
  <1>9. PICK new : new = SubSeq(buffer, 1, total) \o SubSeq(old, start + 1, start + n)
    OBVIOUS
  <1>10. new \in Seq(Cells)
    <2>1. SubSeq(buffer, 1, total) \in Seq(Cells)
      BY <1>3
    <2>2. SubSeq(old, start + 1, start + n) \in Seq(Cells)
      BY <1>3, <1>4, <1>7, <1>8
    <2> QED BY <1>9, <2>1, <2>2
  <1>11. /\ io' \in [Procs -> CallSet] /\ OthersKept(p) /\ TargetKept(p)
         /\ io'[p].size = size /\ io'[p].total = total + n /\ io'[p].buffer = new
         /\ io'[p].at = IF total + n = size THEN "none" ELSE io[p].at
         /\ io'[p].code = IF total + n = size THEN "SUCCESS" ELSE io[p].code
    <2>1. Progress(p, n, new)
      BY <1>5, <1>9
    <2> QED BY <1>1, <1>2, <1>7, <1>10, <2>1, ProgressEffect
  <1>12. io'[p].total <= io'[p].size
    BY <1>3, <1>8, <1>11
  <1>13. \A q \in Procs : io'[q].total <= io'[q].size
    BY <1>11, <1>12 DEF IoTypes, OthersKept
  <1>14. UNCHANGED directories /\ disk' = disk
    BY DEF Pread
  <1>15. IoTypes' /\ errors' >= errors
    BY <1>7, <1>11, <1>13, <1>14, BoundsAssumption DEF IoTypes
  <1>16. Advances(p, n)
    BY <1>2, <1>11 DEF Advances, Ending, Passing
  <1>17. Gets(p, n)
    BY <1>2, <1>3, <1>8, <1>9, <1>11, <1>14, <1>16 DEF Gets
  <1> QED BY <1>7, <1>11, <1>14, <1>15, <1>17 DEF StepEffect, DiskKept

LEMMA IoStepEffect ==
    ASSUME IoTypes, NEW p \in Procs, Sane(p), FileIOStep(p)
    PROVE  StepEffect(p) /\ StepCase(p) /\ io[p].at # "none"
  <1>1. CASE Exists(p) \/ CreateDirectory(p)
    BY <1>1, DirectoryEffect DEF StepCase, WriteCase, Climbs
  <1>2. CASE OpenWrite(p)
    BY <1>2, OpenWriteEffect DEF StepCase, WriteCase, Opens
  <1>3. CASE OpenRead(p)
    BY <1>3, OpenReadEffect DEF StepCase, ReadCase, Finds, Misses
  <1>4. CASE Fstat(p)
    BY <1>4, FstatEffect DEF StepCase, ReadCase, Sizes
  <1>5. CASE Pwrite(p)
    BY <1>5, PwriteEffect DEF StepCase, WriteCase, Pwrite
  <1>6. CASE Pread(p)
    BY <1>6, PreadEffect DEF StepCase, ReadCase, Pread
  <1>7. CASE EndOfFile(p) \/ CallFails(p)
    <2>1. io[p].at # "none"
      BY <1>7 DEF EndOfFile, CallFails
    <2> QED BY <1>7, <2>1, EndEffect DEF StepCase, ReadCase
  <1>8. CASE Stall(p)
    BY <1>8, StallEffect DEF StepCase, Waits
  <1> QED BY <1>1, <1>2, <1>3, <1>4, <1>5, <1>6, <1>7, <1>8 DEF FileIOStep

-----------------------------------------------------------------------------
(* Lists of files and places in their images. *)

LEMMA ModType ==
    ASSUME NEW x \in Nat
    PROVE  x % Word \in Nat
  BY LengthsAssumption

LEMMA DataType ==
    ASSUME NEW f \in Files
    PROVE  /\ EncodeData(f) \in Seq(CellsOf({f})) /\ EncodeData(f) \in Seq(Cells)
           /\ Len(EncodeData(f)) = DataLen[f] /\ DataLen[f] \in Nat
  <1>1. DataLen[f] \in Nat
    BY LengthsAssumption
  <1>2. "data" \in FieldNames
    BY DEF FieldNames
  <1>3. /\ EncodeData(f) \in Seq(CellsOf({f}))
        /\ Len(EncodeData(f)) = DataLen[f]
    BY <1>1, <1>2, FieldType DEF EncodeData
  <1>4. CellsOf(Files) = Cells
    BY DEF CellsOf, Cells
  <1>5. Field("data", f, DataLen[f]) \in Seq(CellsOf(Files))
    BY <1>1, <1>2, FieldType
  <1> QED BY <1>1, <1>3, <1>4, <1>5 DEF EncodeData

LEMMA LengthsType ==
    ASSUME NEW l \in Seq(Files), NEW v \in 1 .. CURRENT_VERSION
    PROVE  /\ \A k \in 0 .. Len(l) : /\ Len(Records(SubSeq(l, 1, k), v)) \in Nat
                                     /\ Len(UserData(SubSeq(l, 1, k))) \in Nat
           /\ Len(Records(l, v)) \in Nat
  <1>1. PICK S, rb, db : S = CellsOf(Files) /\ rb = RecordBlocks(l, v) /\ db = DataBlocks(l)
    OBVIOUS
  <1>2. /\ rb \in Seq(Seq(S)) /\ Len(rb) = Len(l)
        /\ db \in Seq(Seq(S)) /\ Len(db) = Len(l)
    BY <1>1, BlocksType
  <1>3. PICK recs : Pieces(recs, rb, S)
    BY <1>2, PiecesExist
  <1>4. PICK data : Pieces(data, db, S)
    BY <1>2, PiecesExist
  <1>5. \A k \in 0 .. Len(l) : Len(recs[k]) \in Nat /\ Len(data[k]) \in Nat
    BY <1>2, <1>3, <1>4, PieceType
  <1>6. \A k \in 0 .. Len(l) : /\ Records(SubSeq(l, 1, k), v) = recs[k]
                               /\ UserData(SubSeq(l, 1, k)) = data[k]
    BY <1>1, <1>3, <1>4, FirstPieces
  <1>7. \A k \in 0 .. Len(l) : /\ Len(Records(SubSeq(l, 1, k), v)) \in Nat
                               /\ Len(UserData(SubSeq(l, 1, k))) \in Nat
    BY <1>5, <1>6
  <1>8. SubSeq(l, 1, Len(l)) = l /\ Len(l) \in 0 .. Len(l)
    OBVIOUS
  <1> QED BY <1>7, <1>8

LEMMA ListType ==
    ASSUME files \in PendingLists
    PROVE  /\ files \in Seq(Files) /\ files \in Seq(Listed) /\ Listed \subseteq Files
           /\ DOMAIN files = 1 .. Len(files) /\ Len(files) \in Nat
           /\ \A j, k \in 1 .. Len(files) : files[j] = files[k] => j = k
           /\ \A p : InFiles(p) <=> p \in Listed
           /\ CellsOf(Listed) \subseteq Cells
  <1>1. files \in Seq(Files) /\ IsInjective(files)
    BY ListsAssumption
  <1>2. DOMAIN files = 1 .. Len(files) /\ Len(files) \in Nat
    BY <1>1
  <1>3. Listed \subseteq Files
    BY <1>1 DEF Listed
  <1>4. files \in Seq(Listed)
    <2>1. \A k \in 1 .. Len(files) : files[k] \in Listed
      BY <1>2 DEF Listed
    <2> QED BY <1>1, <2>1
  <1>5. CellsOf(Listed) \subseteq Cells
    BY <1>3 DEF CellsOf, Cells
  <1> QED BY <1>1, <1>2, <1>3, <1>4, <1>5 DEF IsInjective, InFiles, Listed

LEMMA PlaceOf ==
    ASSUME files \in PendingLists, version \in 1 .. CURRENT_VERSION, NEW k \in 1 .. Len(files)
    PROVE  Place(files[k]) = OffsetInVolume(files, version, k)
  <1>1. \A j \in DOMAIN files : files[j] = files[k] => j = k
    BY ListType
  <1>2. k \in DOMAIN files
    BY ListType
  <1>3. (CHOOSE j \in DOMAIN files : files[j] = files[k]) = k
    BY <1>1, <1>2
  <1> QED BY <1>3 DEF Place

LEMMA PlaceType ==
    ASSUME files \in PendingLists, version \in 1 .. CURRENT_VERSION, NEW f \in Listed
    PROVE  Place(f) \in Nat
  <1>1. PICK k \in 1 .. Len(files) : f = files[k]
    BY ListType DEF Listed
  <1>2. k - 1 \in 0 .. Len(files) /\ HeaderLen \in Nat
    BY ListType, LengthsAssumption
  <1>3. PICK a, b : a = Len(Records(files, version)) /\ b = Len(UserData(SubSeq(files, 1, k - 1)))
    OBVIOUS
  <1>4. a \in Nat /\ b \in Nat
    BY <1>2, <1>3, ListType, LengthsType
  <1>5. UserDataOffset(files, version) \in Nat
    <2>1. HeaderLen + a \in Nat
      BY <1>2, <1>4
    <2> QED BY <1>3, <2>1, ModType DEF UserDataOffset
  <1>6. OffsetInVolume(files, version, k) \in Nat
    <2>1. UserDataOffset(files, version) + b \in Nat
      BY <1>4, <1>5
    <2> QED BY <1>3, <2>1, ModType DEF OffsetInVolume
  <1> QED BY <1>1, <1>6, PlaceOf

-----------------------------------------------------------------------------
(* A call stays the call it is. *)

LEMMA WriteJobFrame ==
    ASSUME NEW p, NEW n, NEW truncate, NEW offset, NEW bytes, IoTypes, errors' \in Nat,
           WriteJob(p, n, truncate, offset, bytes), io'[p] = io[p], errors' >= errors,
           disk[n] # Absent => disk'[n] # Absent
    PROVE  WriteJob(p, n, truncate, offset, bytes)'
  <1>1. errors \in Nat
    BY BoundsAssumption DEF IoTypes
  <1>2. errors > 0 => errors' > 0
    BY <1>1
  <1> QED BY <1>2 DEF WriteJob, WriteCall, WritePhase

LEMMA WriteJobStep ==
    ASSUME NEW p \in Procs, NEW n, NEW truncate, NEW offset, NEW bytes \in Seq(Cells), IoTypes,
           WriteJob(p, n, truncate, offset, bytes), FileIOStep(p)
    PROVE  /\ Sane(p)
           /\ StepEffect(p)
           /\ WriteCase(p) \/ Breaks(p) \/ Waits(p)
           /\ WriteJob(p, n, truncate, offset, bytes)'
  <1>1. Sane(p)
    BY DEF WriteJob, WriteCall, WritePhase, Sane, WriteAts, ReadAts
  <1>2. StepEffect(p) /\ StepCase(p) /\ io[p].at # "none"
    BY <1>1, IoStepEffect
  <1>3. WriteCase(p) \/ Breaks(p) \/ Waits(p)
    <2>1. io[p].at \in WriteAts
      BY <1>2 DEF WriteJob, WritePhase, WriteAts
    <2>2. ~ReadCase(p)
      BY <2>1 DEF ReadCase, Finds, Misses, Sizes, Gets, Starves, WriteAts
    <2> QED BY <1>2, <2>2 DEF StepCase
  <1>4. /\ WriteCall(io[p], n, truncate, offset, bytes) /\ io[p].code = "none"
        /\ io[p].at = "pwrite" => disk[n] # Absent
        /\ io[p].at # "pwrite" => io[p].total = 0
    BY <1>2 DEF WriteJob, WritePhase
  <1>5. io[p].name = n /\ n \in Names
    BY <1>4 DEF WriteCall, IoTypes, CallSet, Calls
  <1>6. /\ io[p].total \in Nat /\ io[p].size \in Nat
        /\ io'[p].total \in Nat /\ io'[p].size \in Nat /\ io'[p].total <= io'[p].size
        /\ errors' \in Nat
    BY <1>2, BoundsAssumption DEF StepEffect, IoTypes, CallSet, Calls
  <1>7. disk[n] # Absent => disk'[n] # Absent
    BY <1>2, <1>5 DEF StepEffect, DiskKept
  <1>8. PICK c : c = io'[p]
    OBVIOUS
  <1>9. io'[p].size = io[p].size /\ io'[p].buffer = io[p].buffer
    <2>1. CASE WriteCase(p) \/ Breaks(p)
      BY <2>1 DEF WriteCase, Climbs, Opens, Puts, Advances, Breaks, DataUntouched
    <2>2. CASE Waits(p)
      BY <2>2 DEF Waits
    <2> QED BY <1>3, <2>1, <2>2
  <1>10. WriteCall(c, n, truncate, offset, bytes)
    BY <1>2, <1>4, <1>8, <1>9 DEF WriteCall, StepEffect, TargetKept
  <1>11. WritePhase(c, errors' > 0, disk'[n] # Absent)
    <2>1. CASE Climbs(p)
      <3>1. c.at \in {"exists", "mkdir", "open_write"} /\ c.code = "none" /\ c.total = 0
        BY <1>4, <1>8, <2>1 DEF Climbs, Passing, DataUntouched
      <3> QED BY <3>1 DEF WritePhase
    <2>2. CASE Opens(p)
      <3>1. disk'[n] # Absent
        <4>1. <<>> \in Seq(Cells)
          OBVIOUS
        <4>2. <<>> # Absent
          BY <4>1, BytesAssumption
        <4> QED BY <1>5, <2>2, <4>2 DEF Opens, File
      <3>2. c.total = 0 /\ c.size = io[p].size
        BY <1>4, <1>8, <2>2 DEF Opens, DataUntouched
      <3>3. CASE io[p].size = 0
        <4>1. c.at = "none" /\ c.code = "SUCCESS"
          BY <1>8, <2>2, <3>3 DEF Opens, Ending
        <4> QED BY <3>1, <3>2, <3>3, <4>1 DEF WritePhase
      <3>4. CASE io[p].size # 0
        <4>1. c.at = "pwrite" /\ c.code = "none"
          BY <1>4, <1>8, <2>2, <3>4 DEF Opens, Passing
        <4>2. c.total < c.size
          BY <1>6, <3>2, <3>4
        <4> QED BY <3>1, <4>1, <4>2 DEF WritePhase
      <3> QED BY <3>3, <3>4
    <2>3. CASE \E m \in Nat \ {0} : Puts(p, m)
      <3>1. PICK m \in Nat \ {0} : Puts(p, m)
        BY <2>3
      <3>2. disk'[n] # Absent
        BY <1>4, <1>7, <3>1 DEF Puts
      <3>3. c.total = io[p].total + m /\ c.size = io[p].size
        BY <1>8, <3>1 DEF Puts, Advances
      <3>4. CASE io[p].total + m = io[p].size
        <4>1. c.at = "none" /\ c.code = "SUCCESS"
          BY <1>8, <3>1, <3>4 DEF Puts, Advances, Ending
        <4> QED BY <3>2, <3>3, <3>4, <4>1 DEF WritePhase
      <3>5. CASE io[p].total + m # io[p].size
        <4>1. c.at = "pwrite" /\ c.code = "none"
          BY <1>4, <1>8, <3>1, <3>5 DEF Puts, Advances, Passing
        <4>2. c.total < c.size
          BY <1>6, <1>8, <3>3, <3>5
        <4> QED BY <3>2, <4>1, <4>2 DEF WritePhase
      <3> QED BY <3>4, <3>5
    <2>4. CASE Breaks(p)
      BY <1>8, <2>4 DEF Breaks, WritePhase
    <2>5. CASE Waits(p)
      <3>1. c = io[p] /\ io[p].at = "pwrite" /\ disk' = disk
        BY <1>2, <1>8, <2>5 DEF Waits, WriteJob, WritePhase
      <3> QED BY <3>1 DEF WriteJob, WritePhase
    <2> QED BY <1>3, <2>1, <2>2, <2>3, <2>4, <2>5 DEF WriteCase
  <1>12. WriteJob(p, n, truncate, offset, bytes)'
    BY <1>8, <1>10, <1>11 DEF WriteJob
  <1> QED BY <1>1, <1>2, <1>3, <1>12

LEMMA SomeBytes ==
    ASSUME NEW S, NEW bytes \in Seq(S), bytes # <<>>
    PROVE  Len(bytes) \in Nat \ {0}
  OBVIOUS

LEMMA PartBytes ==
    ASSUME NEW S, NEW bytes \in Seq(S), NEW total \in Nat, NEW n \in Nat,
           total + n <= Len(bytes)
    PROVE  /\ SubSeq(bytes, total + 1, total + n) \in Seq(S)
           /\ Len(SubSeq(bytes, total + 1, total + n)) = n
           /\ \A k \in 1 .. n : SubSeq(bytes, total + 1, total + n)[k] = bytes[total + k]
  OBVIOUS

\* Writing on where the bytes so far end.
LEMMA WrittenOn ==
    ASSUME NEW bytes \in Seq(Cells), NEW total \in Nat, NEW n \in Nat \ {0},
           total + n <= Len(bytes)
    PROVE  Overwritten(SubSeq(bytes, 1, total), total, SubSeq(bytes, total + 1, total + n))
             = SubSeq(bytes, 1, total + n)
  <1>1. PICK old, more, all :
           /\ old = SubSeq(bytes, 1, total) /\ more = SubSeq(bytes, total + 1, total + n)
           /\ all = SubSeq(bytes, 1, total + n)
    OBVIOUS
  <1>2. /\ old \in Seq(Cells) /\ Len(old) = total
        /\ \A k \in 1 .. total : old[k] = bytes[k]
    BY <1>1
  <1>3. /\ more \in Seq(Cells) /\ Len(more) = n
        /\ \A k \in 1 .. n : more[k] = bytes[total + k]
    BY <1>1
  <1>4. /\ all \in Seq(Cells) /\ Len(all) = total + n
        /\ \A k \in 1 .. (total + n) : all[k] = bytes[k]
    BY <1>1
  <1>5. PICK w : w = Overwritten(old, total, more)
    OBVIOUS
  <1>6. /\ w \in Seq(Cells)
        /\ Len(w) = IF Len(old) >= total + Len(more) THEN Len(old) ELSE total + Len(more)
        /\ \A k \in 1 .. Len(w) :
              w[k] = IF k > total /\ k <= total + Len(more) THEN more[k - total]
                     ELSE IF k <= Len(old) THEN old[k] ELSE Hole
    BY <1>2, <1>3, <1>5, HoleCell, OverwrittenBytes
  <1>7. Len(w) = total + n
    BY <1>2, <1>3, <1>6
  <1>8. ASSUME NEW k \in 1 .. (total + n)
        PROVE  w[k] = all[k]
    <2>1. CASE k <= total
      <3>1. w[k] = old[k] /\ k \in 1 .. total
        BY <1>2, <1>6, <1>7, <2>1
      <3> QED BY <1>2, <1>4, <3>1
    <2>2. CASE k > total
      <3>1. w[k] = more[k - total] /\ k - total \in 1 .. n /\ total + (k - total) = k
        BY <1>3, <1>6, <1>7, <2>2
      <3>2. more[k - total] = bytes[total + (k - total)]
        BY <1>3, <3>1
      <3> QED BY <1>4, <3>1, <3>2
    <2> QED BY <2>1, <2>2
  <1>9. w = all
    BY <1>4, <1>6, <1>7, <1>8
  <1> QED BY <1>1, <1>5, <1>9

LEMMA CompressJobStep ==
    ASSUME IoTypes, NEW f \in Files, f \in Procs, CompressJob(f), FileIOStep(f)
    PROVE  StepEffect(f) /\ CompressJob(f)'
  <1>1. PICK e : e = EncodeData(f)
    OBVIOUS
  <1>2. e \in Seq(Cells)
    BY <1>1, DataType
  <1>3. WriteJob(f, f, TRUE, 0, e)
    BY <1>1 DEF CompressJob
  <1>4. /\ StepEffect(f)
        /\ WriteCase(f) \/ Breaks(f) \/ Waits(f)
        /\ WriteJob(f, f, TRUE, 0, e)'
    BY <1>2, <1>3, WriteJobStep
  <1>5. /\ io[f].name = f /\ io[f].truncate = TRUE /\ io[f].offset = 0
        /\ io[f].buffer = e /\ io[f].size = Len(e)
    BY <1>3 DEF WriteJob, WriteCall
  <1>6. /\ io[f].at \in {"exists", "mkdir", "open_write"} => io[f].code = "none" /\ io[f].total = 0
        /\ io[f].at = "pwrite" => io[f].code = "none" /\ disk[f] = SubSeq(e, 1, io[f].total)
    BY <1>1, <1>3 DEF WriteJob, WritePhase, CompressJob
  <1>7. io[f].total \in Nat /\ Len(e) \in Nat
    BY <1>2 DEF IoTypes, CallSet, Calls
  <1>8. (io'[f].at = "pwrite" \/ io'[f].code = "SUCCESS") => disk'[f] = SubSeq(e, 1, io'[f].total)
    <2>1. CASE Climbs(f)
      BY <1>6, <2>1 DEF Climbs, Passing
    <2>2. CASE Opens(f)
      <3>1. disk'[f] = <<>> /\ io'[f].total = 0
        BY <1>5, <1>6, <2>2 DEF Opens, DataUntouched
      <3>2. SubSeq(e, 1, 0) = <<>>
        BY <1>2
      <3> QED BY <3>1, <3>2
    <2>3. CASE \E n \in Nat \ {0} : Puts(f, n)
      <3>1. PICK n \in Nat \ {0} : Puts(f, n)
        BY <2>3
      <3>2. PICK total \in Nat : total = io[f].total
        BY <1>7
      <3>3. n <= Len(e) - total /\ io'[f].total = total + n /\ io[f].at = "pwrite"
        BY <1>5, <3>1, <3>2 DEF Puts, Advances
      <3>4. total + n <= Len(e) /\ 0 + total = total
        BY <1>7, <3>3
      <3>5. disk'[f] = Overwritten(SubSeq(e, 1, total), 0 + total, SubSeq(e, total + 1, total + n))
        BY <1>5, <1>6, <3>1, <3>2, <3>3 DEF Puts, File
      <3>6. disk'[f] = SubSeq(e, 1, total + n)
        BY <1>2, <3>4, <3>5, WrittenOn
      <3> QED BY <3>3, <3>6
    <2>4. CASE Breaks(f)
      BY <2>4 DEF Breaks
    <2>5. CASE Waits(f)
      <3>1. io'[f] = io[f] /\ disk' = disk /\ io[f].at \in {"pread", "pwrite"}
        BY <2>5 DEF Waits
      <3>2. io[f].at = "pwrite"
        BY <1>3, <3>1 DEF WriteJob, WritePhase
      <3> QED BY <1>6, <3>1, <3>2
    <2> QED BY <1>4, <2>1, <2>2, <2>3, <2>4, <2>5 DEF WriteCase
  <1> QED BY <1>1, <1>4, <1>8 DEF CompressJob

LEMMA CompressJobFrame ==
    ASSUME IoTypes, NEW f \in Files, CompressJob(f), io'[f] = io[f], disk'[f] = disk[f],
           errors' \in Nat, errors' >= errors
    PROVE  CompressJob(f)'
  <1>1. PICK e : e = EncodeData(f)
    OBVIOUS
  <1>2. WriteJob(f, f, TRUE, 0, e)
    BY <1>1 DEF CompressJob
  <1>3. WriteJob(f, f, TRUE, 0, e)'
    BY <1>2, WriteJobFrame
  <1> QED BY <1>1, <1>3 DEF CompressJob

LEMMA ReadJobStep ==
    ASSUME IoTypes, NEW f \in Files, f \in Procs, ReadJob(f), FileIOStep(f)
    PROVE  Sane(f) /\ StepEffect(f) /\ disk' = disk /\ ReadJob(f)'
  <1>1. PICK e : e = EncodeData(f)
    OBVIOUS
  <1>2. e \in Seq(Cells) /\ Len(e) \in Nat /\ e # Absent
    BY <1>1, DataType, BytesAssumption
  <1>3. io[f].name = f /\ io[f].offset = 0 /\ disk[f] = e /\ ReadPhase(io[f], e, errors > 0)
    BY <1>1 DEF ReadJob
  <1>4. io[f].total \in Nat /\ io[f].size \in Nat
    BY DEF IoTypes, CallSet, Calls
  <1>5. io[f].at = "pread" => Len(io[f].buffer) = io[f].total
    <2> SUFFICES ASSUME io[f].at = "pread"
                 PROVE  Len(io[f].buffer) = io[f].total
      OBVIOUS
    <2>1. io[f].buffer = SubSeq(e, 1, io[f].total) /\ io[f].total < Len(e)
      BY <1>3 DEF ReadPhase
    <2>2. PICK total \in Nat : total = io[f].total
      BY <1>4
    <2>3. Len(SubSeq(e, 1, total)) = total
      BY <1>2, <2>1, <2>2
    <2> QED BY <2>1, <2>2, <2>3
  <1>6. Sane(f)
    BY <1>2, <1>3, <1>5 DEF ReadPhase, Sane, WriteAts, ReadAts
  <1>7. StepEffect(f) /\ StepCase(f) /\ io[f].at # "none"
    BY <1>6, IoStepEffect
  <1>8. io[f].at \in {"open_all", "fstat", "pread"} /\ io[f].code = "none"
    BY <1>3, <1>7 DEF ReadPhase
  <1>9. \/ Finds(f) \/ Sizes(f) \/ Breaks(f) \/ Waits(f)
        \/ \E n \in Nat \ {0} : Gets(f, n)
    <2>1. ~Climbs(f) /\ ~Opens(f) /\ ~(\E n \in Nat \ {0} : Puts(f, n))
      BY <1>8 DEF Climbs, Opens, Puts
    <2>2. ~Misses(f)
      BY <1>2, <1>3 DEF Misses, File
    <2>3. ~Starves(f)
      <3> SUFFICES ASSUME Starves(f)
                   PROVE  FALSE
        OBVIOUS
      <3>1. io[f].total < Len(e) /\ 0 + io[f].total >= Len(e)
        BY <1>3 DEF Starves, ReadPhase, File
      <3> QED BY <1>2, <1>4, <3>1
    <2> QED BY <1>7, <2>1, <2>2, <2>3 DEF StepCase, WriteCase, ReadCase
  <1>10. disk' = disk
    BY <1>9 DEF Finds, Sizes, Breaks, Waits, Gets
  <1>11. io'[f].name = f /\ io'[f].offset = 0
    BY <1>3, <1>7 DEF StepEffect, TargetKept
  <1>12. PICK c : c = io'[f]
    OBVIOUS
  <1>13. c.total \in Nat /\ c.size \in Nat /\ c.total <= c.size
    BY <1>7, <1>12 DEF StepEffect, IoTypes, CallSet, Calls
  <1>14. ReadPhase(c, e, errors' > 0)
    <2>1. CASE Finds(f)
      <3>1. io[f].at = "open_all"
        BY <1>8, <2>1 DEF Finds
      <3>2. c.at = "fstat" /\ c.code = "none" /\ c.total = 0 /\ c.buffer = <<>>
        BY <1>3, <1>8, <1>12, <2>1, <3>1 DEF Finds, Passing, DataUntouched, ReadPhase
      <3> QED BY <3>2 DEF ReadPhase
    <2>2. CASE Sizes(f)
      <3>1. io[f].total = 0 /\ io[f].buffer = <<>>
        BY <1>3, <2>2 DEF Sizes, ReadPhase
      <3>2. c.total = 0 /\ c.buffer = <<>>
        BY <1>12, <2>2, <3>1 DEF Sizes
      <3>3. CASE e = <<>>
        <4>1. c.at = "none" /\ c.code = "SUCCESS"
          BY <1>3, <1>12, <2>2, <3>3 DEF Sizes, Ending, File
        <4> QED BY <3>2, <3>3, <4>1 DEF ReadPhase
      <3>4. CASE e # <<>>
        <4>1. c.at = "pread" /\ c.code = "none" /\ c.size = Len(e)
          BY <1>3, <1>8, <1>12, <2>2, <3>4 DEF Sizes, Passing, File
        <4>2. 0 < Len(e) /\ SubSeq(e, 1, 0) = <<>>
          BY <1>2, <3>4, SomeBytes
        <4> QED BY <3>2, <4>1, <4>2 DEF ReadPhase
      <3> QED BY <3>3, <3>4
    <2>3. CASE Breaks(f)
      BY <1>12, <2>3 DEF Breaks, ReadPhase
    <2>4. CASE Waits(f)
      <3>1. c = io[f] /\ io[f].at # "none"
        BY <1>7, <1>12, <2>4 DEF Waits
      <3> QED BY <1>3, <3>1 DEF ReadPhase
    <2>5. CASE \E n \in Nat \ {0} : Gets(f, n)
      <3>1. PICK n \in Nat \ {0} : Gets(f, n)
        BY <2>5
      <3>2. PICK total \in Nat : total = io[f].total
        BY <1>4
      <3>3. /\ total < Len(e) /\ io[f].size = Len(e)
            /\ io[f].buffer = SubSeq(e, 1, total) /\ io[f].at = "pread"
        BY <1>3, <3>1, <3>2 DEF Gets, ReadPhase
      <3>4. /\ n <= Len(e) - total /\ c.total = total + n /\ c.size = Len(e)
            /\ c.buffer = SubSeq(SubSeq(e, 1, total), 1, total)
                             \o SubSeq(e, 0 + total + 1, 0 + total + n)
        BY <1>3, <1>12, <3>1, <3>2, <3>3 DEF Gets, Advances, File
      <3>5. total + n <= Len(e) /\ 0 + total = total
        BY <1>2, <3>4
      <3>6. SubSeq(SubSeq(e, 1, total), 1, total) = SubSeq(e, 1, total)
        BY <1>2, <3>3
      <3>7. SubSeq(e, 1, total) \o SubSeq(e, total + 1, total + n) = SubSeq(e, 1, total + n)
        BY <1>2, <3>5
      <3>8. c.buffer = SubSeq(e, 1, c.total)
        BY <3>4, <3>5, <3>6, <3>7
      <3>9. CASE total + n = Len(e)
        <4>1. c.at = "none" /\ c.code = "SUCCESS"
          BY <1>12, <3>1, <3>2, <3>3, <3>9 DEF Gets, Advances, Ending
        <4>2. SubSeq(e, 1, Len(e)) = e
          BY <1>2
        <4> QED BY <3>4, <3>8, <3>9, <4>1, <4>2 DEF ReadPhase
      <3>10. CASE total + n # Len(e)
        <4>1. c.at = "pread" /\ c.code = "none"
          BY <1>8, <1>12, <3>1, <3>2, <3>3, <3>10 DEF Gets, Advances, Passing
        <4>2. c.total < c.size
          BY <1>2, <3>4, <3>5, <3>10
        <4> QED BY <3>4, <3>8, <4>1, <4>2 DEF ReadPhase
      <3> QED BY <3>9, <3>10
    <2> QED BY <1>9, <2>1, <2>2, <2>3, <2>4, <2>5
  <1> QED BY <1>1, <1>3, <1>6, <1>7, <1>10, <1>11, <1>12, <1>14 DEF ReadJob

LEMMA ReadJobFrame ==
    ASSUME IoTypes, NEW f \in Files, ReadJob(f), io'[f] = io[f], disk'[f] = disk[f],
           errors' \in Nat, errors' >= errors
    PROVE  ReadJob(f)'
  <1>1. errors \in Nat
    BY BoundsAssumption DEF IoTypes
  <1>2. errors > 0 => errors' > 0
    BY <1>1
  <1>3. ReadPhase(io'[f], EncodeData(f), errors' > 0)
    BY <1>2 DEF ReadJob, ReadPhase
  <1> QED BY <1>3 DEF ReadJob

LEMMA ReadAtStep ==
    ASSUME IoTypes, NEW f, ReadAtJob(f), disk[Image] # Absent, Reader \in Procs,
           FileIOStep(Reader)
    PROVE  /\ StepEffect(Reader) /\ disk' = disk
           /\ io'[Reader].name = Image /\ io'[Reader].offset = io[Reader].offset
           /\ io'[Reader].size = io[Reader].size /\ ReadAtPhase(io'[Reader])
  <1>1. io[Reader].name = Image /\ ReadAtPhase(io[Reader]) /\ Image \in Names
    BY NamesAssumption DEF ReadAtJob
  <1>2. Sane(Reader)
    BY <1>1 DEF ReadAtPhase, Sane, WriteAts, ReadAts
  <1>3. StepEffect(Reader) /\ StepCase(Reader) /\ io[Reader].at # "none"
    BY <1>2, IoStepEffect
  <1>4. io[Reader].at \in {"open_at", "pread"} /\ io[Reader].code = "none"
    BY <1>1, <1>3 DEF ReadAtPhase
  <1>5. /\ io[Reader].total \in Nat /\ io[Reader].size \in Nat /\ io[Reader].offset \in Nat
        /\ io[Reader].buffer \in Seq(Cells) /\ Len(io[Reader].buffer) = io[Reader].total
    BY <1>1 DEF IoTypes, CallSet, Calls, ReadAtPhase
  <1>6. PICK c : c = io'[Reader]
    OBVIOUS
  <1>7. /\ c.name = Image /\ c.offset = io[Reader].offset
        /\ c.total \in Nat /\ c.size \in Nat /\ c.total <= c.size
    BY <1>1, <1>3, <1>6 DEF StepEffect, TargetKept, IoTypes, CallSet, Calls
  <1>8. \/ Finds(Reader) \/ Misses(Reader) \/ Starves(Reader)
        \/ Breaks(Reader) \/ Waits(Reader) \/ \E n \in Nat \ {0} : Gets(Reader, n)
    BY <1>3, <1>4 DEF StepCase, WriteCase, ReadCase, Climbs, Opens, Puts, Sizes
  <1>9. disk' = disk
    BY <1>8 DEF Finds, Misses, Starves, Breaks, Waits, Gets
  <1>10. c.size = io[Reader].size /\ ReadAtPhase(c)
    <2>1. CASE Finds(Reader)
      <3>1. /\ c.size = io[Reader].size /\ c.total = io[Reader].total
            /\ c.buffer = io[Reader].buffer /\ io[Reader].at = "open_at"
        BY <1>4, <1>6, <2>1 DEF Finds, DataUntouched
      <3>2. io[Reader].total = 0
        BY <1>1, <3>1 DEF ReadAtPhase
      <3>3. CASE io[Reader].size = 0
        <4>1. c.at = "none" /\ c.code = "SUCCESS"
          BY <1>6, <2>1, <3>1, <3>3 DEF Finds, Ending
        <4> QED BY <1>5, <3>1, <3>2, <3>3, <4>1 DEF ReadAtPhase
      <3>4. CASE io[Reader].size # 0
        <4>1. c.at = "pread" /\ c.code = "none"
          BY <1>4, <1>6, <2>1, <3>1, <3>4 DEF Finds, Passing
        <4>2. c.total < c.size
          BY <1>5, <3>1, <3>2, <3>4
        <4> QED BY <1>5, <3>1, <4>1, <4>2 DEF ReadAtPhase
      <3> QED BY <3>3, <3>4
    <2>2. CASE Misses(Reader) \/ Starves(Reader) \/ Breaks(Reader)
      <3>1. /\ c.size = io[Reader].size /\ c.total = io[Reader].total
            /\ c.buffer = io[Reader].buffer /\ c.at = "none" /\ c.code # "SUCCESS"
        BY <1>6, <2>2 DEF Misses, Starves, Breaks, Ending, DataUntouched
      <3> QED BY <1>5, <3>1 DEF ReadAtPhase
    <2>3. CASE Waits(Reader)
      BY <1>1, <1>6, <2>3 DEF Waits
    <2>4. CASE \E n \in Nat \ {0} : Gets(Reader, n)
      <3>1. PICK n \in Nat \ {0} : Gets(Reader, n)
        BY <2>4
      <3>2. PICK buffer, total, start, old :
               /\ buffer = io[Reader].buffer /\ total = io[Reader].total
               /\ start = io[Reader].offset + io[Reader].total /\ old = File(Reader)
        OBVIOUS
      <3>3. /\ buffer \in Seq(Cells) /\ Len(buffer) = total /\ total \in Nat /\ start \in Nat
            /\ old \in Seq(Cells) /\ Len(old) \in Nat
        BY <1>1, <1>5, <3>2 DEF IoTypes, File
      <3>4. /\ n <= Len(old) - start /\ c.total = total + n /\ c.size = io[Reader].size
            /\ c.buffer = SubSeq(buffer, 1, total) \o SubSeq(old, start + 1, start + n)
        BY <1>6, <3>1, <3>2 DEF Gets, Advances
      <3>5. Len(c.buffer) = c.total
        <4>1. SubSeq(buffer, 1, total) \in Seq(Cells) /\ Len(SubSeq(buffer, 1, total)) = total
          BY <3>3
        <4>2. /\ SubSeq(old, start + 1, start + n) \in Seq(Cells)
              /\ Len(SubSeq(old, start + 1, start + n)) = n
          BY <3>3, <3>4
        <4>3. PICK a, b : a = SubSeq(buffer, 1, total) /\ b = SubSeq(old, start + 1, start + n)
          OBVIOUS
        <4>4. a \in Seq(Cells) /\ b \in Seq(Cells) /\ Len(a) = total /\ Len(b) = n
          BY <4>1, <4>2, <4>3
        <4>5. Len(a \o b) = total + n
          BY <4>4
        <4> QED BY <3>4, <4>3, <4>5
      <3>6. CASE total + n = io[Reader].size
        <4>1. c.at = "none"
          BY <1>6, <3>1, <3>2, <3>6 DEF Gets, Advances, Ending
        <4> QED BY <3>4, <3>5, <3>6, <4>1 DEF ReadAtPhase
      <3>7. CASE total + n # io[Reader].size
        <4>1. c.at = "pread" /\ c.code = "none"
          BY <1>4, <1>6, <3>1, <3>2, <3>7 DEF Gets, Advances, Passing
        <4>2. c.total < c.size
          BY <1>7, <3>4, <3>7
        <4> QED BY <3>4, <3>5, <4>1, <4>2 DEF ReadAtPhase
      <3> QED BY <3>6, <3>7
    <2> QED BY <1>8, <2>1, <2>2, <2>3, <2>4
  <1> QED BY <1>3, <1>6, <1>7, <1>9, <1>10

LEMMA IdleNoStep ==
    ASSUME NEW p, io[p].at = "none"
    PROVE  ~FileIOStep(p)
  BY DEF FileIOStep, Exists, CreateDirectory, OpenWrite, OpenRead, Fstat, Pwrite, Pread,
         EndOfFile, Stall, CallFails

\* What a write leaves holds what was there, what it writes and holes.
LEMMA WriteTyped ==
    ASSUME NEW p \in Procs, NEW n, NEW truncate, NEW offset \in Nat, NEW S, Hole \in S,
           NEW bytes \in Seq(S), IoTypes, WriteJob(p, n, truncate, offset, bytes),
           WriteCase(p) \/ Breaks(p) \/ Waits(p),
           disk[n] # Absent => disk[n] \in Seq(S)
    PROVE  disk'[n] # Absent => disk'[n] \in Seq(S)
  <1>1. /\ io[p].name = n /\ io[p].offset = offset /\ io[p].buffer = bytes
        /\ io[p].size = Len(bytes) /\ io[p].total \in Nat
    BY DEF WriteJob, WriteCall, IoTypes, CallSet, Calls
  <1>2. CASE Climbs(p) \/ Breaks(p) \/ Waits(p)
    BY <1>2 DEF Climbs, Breaks, Waits
  <1>3. CASE Opens(p)
    <2>1. disk'[n] = <<>> \/ (disk[n] # Absent /\ disk'[n] = disk[n])
      BY <1>1, <1>3 DEF Opens, File
    <2>2. <<>> \in Seq(S)
      OBVIOUS
    <2> QED BY <2>1, <2>2
  <1>4. CASE \E m \in Nat \ {0} : Puts(p, m)
    <2>1. PICK m \in Nat \ {0} : Puts(p, m)
      BY <1>4
    <2>2. disk[n] # Absent
      BY <1>1, <2>1 DEF Puts, WriteJob, WritePhase
    <2>3. PICK total, start, old, more :
             /\ total = io[p].total /\ start = offset + total /\ old = disk[n]
             /\ more = SubSeq(bytes, total + 1, total + m)
      OBVIOUS
    <2>4. total \in Nat /\ start \in Nat /\ old \in Seq(S) /\ m <= Len(bytes) - total
      BY <1>1, <2>1, <2>2, <2>3 DEF Puts
    <2>5. more \in Seq(S)
      <3>1. total + m <= Len(bytes) /\ m \in Nat
        BY <2>4
      <3> QED BY <2>3, <2>4, <3>1, PartBytes
    <2>6. disk'[n] = Overwritten(old, start, more)
      BY <1>1, <2>1, <2>3 DEF Puts, File
    <2>7. Overwritten(old, start, more) \in Seq(S)
      BY <2>4, <2>5, OverwrittenBytes
    <2> QED BY <2>6, <2>7
  <1> QED BY <1>2, <1>3, <1>4 DEF WriteCase

LEMMA DataCells ==
    ASSUME NEW F, F \subseteq Files, NEW f \in F
    PROVE  EncodeData(f) \in Seq(CellsOf(F))
  <1>1. DataLen[f] \in Nat
    BY LengthsAssumption
  <1>2. "data" \in FieldNames
    BY DEF FieldNames
  <1> QED BY <1>1, <1>2, FieldType DEF EncodeData

LEMMA HoleOf ==
    ASSUME NEW F
    PROVE  Hole \in CellsOf(F)
  BY BytesAssumption DEF CellsOf

-----------------------------------------------------------------------------
(* Every call of every thread belongs to the round the pack has come to. *)

LEMMA TypesFollow ==
    ASSUME TypeOK
    PROVE  /\ IoTypes
           /\ files \in PendingLists /\ version \in 1 .. CURRENT_VERSION
           /\ errors \in Nat
  BY BoundsAssumption DEF TypeOK, IoTypes, CallSet

LEMMA ProcFacts ==
    /\ Files \subseteq Procs /\ Packer \in Procs /\ Reader \in Procs
    /\ Packer \notin Files /\ Reader \notin Files /\ Packer # Reader
    /\ Files \subseteq Names /\ Image \in Names /\ Image \notin Files
    /\ \A p \in Procs : p \in Files \/ p = Packer \/ p = Reader
    /\ \A n \in Names : n \in Files \/ n = Image
  BY ProcsAssumption, NamesAssumption

LEMMA PlaceStays ==
    ASSUME NEW f, UNCHANGED <<files, version>>
    PROVE  Place(f)' = Place(f)
  <1>1. files' = files /\ version' = version
    OBVIOUS
  <1> QED BY <1>1 DEF Place

LEMMA PlaceJobStep ==
    ASSUME IoTypes, NEW f \in Files, PlaceJob(f), FileIOStep(f), UNCHANGED <<files, version>>
    PROVE  /\ StepEffect(f)
           /\ WriteCase(f) \/ Breaks(f) \/ Waits(f)
           /\ PlaceJob(f)'
  <1>1. PICK offset, bytes : offset = Place(f) /\ bytes = EncodeData(f)
    OBVIOUS
  <1>2. bytes \in Seq(Cells) /\ f \in Procs /\ Image \in Names
    BY <1>1, DataType, ProcFacts
  <1>3. WriteJob(f, Image, FALSE, offset, bytes) /\ disk[Image] # Absent
    BY <1>1 DEF PlaceJob
  <1>4. /\ StepEffect(f)
        /\ WriteCase(f) \/ Breaks(f) \/ Waits(f)
        /\ WriteJob(f, Image, FALSE, offset, bytes)'
    BY <1>2, <1>3, WriteJobStep
  <1>5. disk'[Image] # Absent
    BY <1>2, <1>3, <1>4 DEF StepEffect, DiskKept
  <1>6. Place(f)' = offset
    BY <1>1, PlaceStays
  <1> QED BY <1>1, <1>4, <1>5, <1>6 DEF PlaceJob

LEMMA PlaceJobFrame ==
    ASSUME IoTypes, NEW f \in Files, PlaceJob(f), io'[f] = io[f], disk'[Image] # Absent,
           errors' \in Nat, errors' >= errors, UNCHANGED <<files, version>>
    PROVE  PlaceJob(f)'
  <1>1. PICK offset, bytes : offset = Place(f) /\ bytes = EncodeData(f)
    OBVIOUS
  <1>2. WriteJob(f, Image, FALSE, offset, bytes)
    BY <1>1 DEF PlaceJob
  <1>3. WriteJob(f, Image, FALSE, offset, bytes)'
    BY <1>2, WriteJobFrame
  <1>4. Place(f)' = offset
    BY <1>1, PlaceStays
  <1> QED BY <1>1, <1>3, <1>4 DEF PlaceJob

LEMMA TaskStep ==
    ASSUME Inv, NEW f \in Listed, FileIOStep(f), UNCHANGED <<files, version, pack>>
    PROVE  /\ StepEffect(f)
           /\ RoundAt(f)'
           /\ io[f].name \in {f, Image}
           /\ io[f].name = Image => /\ PlaceJob(f) /\ pack \in {"write_data", "ERROR"}
                                    /\ WriteCase(f) \/ Breaks(f) \/ Waits(f)
  <1>1. IoTypes /\ f \in Files /\ f \in Procs /\ f # Image
    BY TypesFollow, ListType, ProcFacts DEF Inv
  <1>2. RoundAt(f)
    BY <1>1 DEF Inv, Rounds
  <1>3. io[f].at # "none"
    BY IdleNoStep
  <1>4. ~Ended(f)
    BY <1>3 DEF Ended
  <1>5. pack \in {"compress", "read_temps", "write_data", "ERROR"}
    BY <1>2, <1>3, <1>4 DEF RoundAt, Inv, TypeOK
  <1>6. CASE CompressJob(f) /\ pack \in {"compress", "ERROR"}
    <2>1. StepEffect(f) /\ CompressJob(f)'
      BY <1>1, <1>6, CompressJobStep
    <2>2. io[f].name = f
      BY <1>6 DEF CompressJob, WriteJob, WriteCall
    <2> QED BY <1>1, <1>6, <2>1, <2>2 DEF RoundAt
  <1>7. CASE ReadJob(f) /\ pack \in {"read_temps", "ERROR"}
    <2>1. StepEffect(f) /\ ReadJob(f)'
      BY <1>1, <1>7, ReadJobStep
    <2>2. io[f].name = f
      BY <1>7 DEF ReadJob
    <2> QED BY <1>1, <1>7, <2>1, <2>2 DEF RoundAt
  <1>8. CASE PlaceJob(f) /\ pack \in {"write_data", "ERROR"}
    <2>1. StepEffect(f) /\ PlaceJob(f)' /\ (WriteCase(f) \/ Breaks(f) \/ Waits(f))
      BY <1>1, <1>8, PlaceJobStep
    <2>2. io[f].name = Image
      BY <1>8 DEF PlaceJob, WriteJob, WriteCall
    <2> QED BY <1>8, <2>1, <2>2 DEF RoundAt
  <1> QED BY <1>2, <1>5, <1>6, <1>7, <1>8 DEF RoundAt

LEMMA RoundFrame ==
    ASSUME IoTypes, NEW f \in Files, RoundAt(f), io'[f] = io[f], disk'[f] = disk[f],
           disk[Image] # Absent => disk'[Image] # Absent,
           errors' \in Nat, errors' >= errors, UNCHANGED <<files, version, pack>>
    PROVE  RoundAt(f)'
  <1>1. CompressJob(f) => CompressJob(f)'
    BY CompressJobFrame
  <1>2. ReadJob(f) => ReadJob(f)'
    BY ReadJobFrame
  <1>3. PlaceJob(f) => PlaceJob(f)'
    BY PlaceJobFrame DEF PlaceJob
  <1>4. pack' = pack
    OBVIOUS
  <1>5. io[f].at = "none" => io'[f].at = "none"
    OBVIOUS
  <1>6. Ended(f) => Ended(f)'
    BY DEF Ended
  <1> QED BY <1>1, <1>2, <1>3, <1>4, <1>5, <1>6 DEF RoundAt

LEMMA RecordOffset ==
    ASSUME files \in PendingLists, version \in 1 .. CURRENT_VERSION, NEW k \in 1 .. Len(files)
    PROVE  /\ HeaderLen + Len(Records(SubSeq(files, 1, k - 1), version)) \in Nat
           /\ files[k] \in Listed /\ files[k] \in Files
           /\ SerializeFileMetadata(files[k], version) \in Seq(CellsOf(Listed))
           /\ SerializeFileMetadata(files[k], version) \in Seq(Cells)
  <1>1. files \in Seq(Files) /\ files \in Seq(Listed) /\ Listed \subseteq Files
    BY ListType
  <1>2. k - 1 \in 0 .. Len(files) /\ files[k] \in Listed /\ files[k] \in Files
    BY <1>1
  <1>3. PICK a : a = Len(Records(SubSeq(files, 1, k - 1), version))
    OBVIOUS
  <1>4. a \in Nat
    BY <1>1, <1>2, <1>3, LengthsType
  <1>5. HeaderLen + a \in Nat
    BY <1>4, LengthsAssumption
  <1>6. SerializeFileMetadata(files[k], version) \in Seq(CellsOf(Listed))
    BY <1>1, <1>2, RecordBytes
  <1>7. SerializeFileMetadata(files[k], version) \in Seq(CellsOf(Files))
    BY <1>2, RecordBytes
  <1>8. CellsOf(Files) = Cells
    BY DEF CellsOf, Cells
  <1> QED BY <1>2, <1>3, <1>5, <1>6, <1>7, <1>8

LEMMA HeaderCells == EncodeHeader \in Seq(Cells)
  <1>1. CellsOf(Files) = Cells
    BY DEF CellsOf, Cells
  <1>2. EncodeHeader \in Seq(CellsOf(Files))
    BY HeaderType
  <1> QED BY <1>1, <1>2

\* The write of the packing thread.
PackerWrites(truncate, offset, bytes) ==
    /\ offset \in Nat
    /\ bytes \in Seq(Cells) /\ bytes \in Seq(CellsOf(Listed))
    /\ WriteJob(Packer, Image, truncate, offset, bytes)

LEMMA PackerJob ==
    ASSUME TypeOK, PackerAt, pack = "metas"
    PROVE  \E truncate, offset, bytes :
              /\ PackerWrites(truncate, offset, bytes)
              /\ written = 0 => truncate = TRUE /\ offset = 0 /\ bytes = EncodeHeader
              /\ written # 0 =>
                    /\ truncate = FALSE
                    /\ offset = HeaderLen + Len(Records(SubSeq(files, 1, written - 1), version))
                    /\ bytes = SerializeFileMetadata(files[written], version)
                    /\ disk[Image] # Absent
  <1>1. files \in PendingLists /\ version \in 1 .. CURRENT_VERSION /\ written \in 0 .. Len(files)
        /\ Len(files) \in Nat
    BY ListType DEF TypeOK
  <1>2. CASE written = 0
    <2>1. EncodeHeader \in Seq(Cells) /\ EncodeHeader \in Seq(CellsOf(Listed)) /\ 0 \in Nat
      BY HeaderCells, HeaderType
    <2>2. WriteJob(Packer, Image, TRUE, 0, EncodeHeader)
      BY <1>2 DEF PackerAt, HeaderJob
    <2> QED BY <1>2, <2>1, <2>2 DEF PackerWrites
  <1>3. CASE written # 0
    <2>1. written \in 1 .. Len(files)
      BY <1>1, <1>3
    <2>2. PICK offset, bytes :
             /\ offset = HeaderLen + Len(Records(SubSeq(files, 1, written - 1), version))
             /\ bytes = SerializeFileMetadata(files[written], version)
      OBVIOUS
    <2>3. offset \in Nat /\ bytes \in Seq(Cells) /\ bytes \in Seq(CellsOf(Listed))
      BY <1>1, <2>1, <2>2, RecordOffset
    <2>4. WriteJob(Packer, Image, FALSE, offset, bytes) /\ disk[Image] # Absent
      BY <1>3, <2>2 DEF PackerAt, RecordJob
    <2> QED BY <1>3, <2>2, <2>3, <2>4 DEF PackerWrites
  <1> QED BY <1>2, <1>3

LEMMA PackerStep ==
    ASSUME Inv, FileIOStep(Packer), UNCHANGED <<files, version, pack, written>>
    PROVE  /\ StepEffect(Packer)
           /\ PackerAt'
           /\ io[Packer].name = Image /\ pack = "metas"
           /\ WriteCase(Packer) \/ Breaks(Packer) \/ Waits(Packer)
  <1>1. IoTypes /\ Packer \in Procs /\ Image \in Names /\ TypeOK /\ PackerAt
    BY TypesFollow, ProcFacts DEF Inv
  <1>2. io[Packer].at # "none"
    BY IdleNoStep
  <1>3. pack = "metas"
    BY <1>1, <1>2 DEF PackerAt
  <1>4. PICK truncate, offset, bytes :
              /\ PackerWrites(truncate, offset, bytes)
              /\ written = 0 => truncate = TRUE /\ offset = 0 /\ bytes = EncodeHeader
              /\ written # 0 =>
                    /\ truncate = FALSE
                    /\ offset = HeaderLen + Len(Records(SubSeq(files, 1, written - 1), version))
                    /\ bytes = SerializeFileMetadata(files[written], version)
                    /\ disk[Image] # Absent
    BY <1>1, <1>3, PackerJob
  <1>5. WriteJob(Packer, Image, truncate, offset, bytes) /\ bytes \in Seq(Cells)
    BY <1>4 DEF PackerWrites
  <1>6. /\ StepEffect(Packer)
        /\ WriteCase(Packer) \/ Breaks(Packer) \/ Waits(Packer)
        /\ WriteJob(Packer, Image, truncate, offset, bytes)'
    BY <1>1, <1>5, WriteJobStep
  <1>7. disk[Image] # Absent => disk'[Image] # Absent
    BY <1>1, <1>6 DEF StepEffect, DiskKept
  <1>8. PackerAt'
    <2>1. CASE written = 0
      BY <1>3, <1>4, <1>6, <2>1 DEF PackerAt, HeaderJob
    <2>2. CASE written # 0
      BY <1>3, <1>4, <1>6, <1>7, <2>2 DEF PackerAt, RecordJob
    <2> QED BY <2>1, <2>2
  <1>9. io[Packer].name = Image
    BY <1>5 DEF WriteJob, WriteCall
  <1> QED BY <1>3, <1>6, <1>8, <1>9

LEMMA PackerFrame ==
    ASSUME Inv, io'[Packer] = io[Packer], disk[Image] # Absent => disk'[Image] # Absent,
           errors' \in Nat, errors' >= errors, UNCHANGED <<files, version, pack, written>>
    PROVE  PackerAt'
  <1>1. IoTypes /\ TypeOK /\ PackerAt
    BY TypesFollow DEF Inv
  <1>2. CASE pack # "metas"
    BY <1>1, <1>2 DEF PackerAt
  <1>3. CASE pack = "metas"
    <2>1. PICK truncate, offset, bytes :
              /\ PackerWrites(truncate, offset, bytes)
              /\ written = 0 => truncate = TRUE /\ offset = 0 /\ bytes = EncodeHeader
              /\ written # 0 =>
                    /\ truncate = FALSE
                    /\ offset = HeaderLen + Len(Records(SubSeq(files, 1, written - 1), version))
                    /\ bytes = SerializeFileMetadata(files[written], version)
                    /\ disk[Image] # Absent
      BY <1>1, <1>3, PackerJob
    <2>2. WriteJob(Packer, Image, truncate, offset, bytes)
      BY <2>1 DEF PackerWrites
    <2>3. WriteJob(Packer, Image, truncate, offset, bytes)'
      BY <1>1, <2>2, WriteJobFrame
    <2>4. CASE written = 0
      BY <1>3, <2>1, <2>3, <2>4 DEF PackerAt, HeaderJob
    <2>5. CASE written # 0
      BY <1>3, <2>1, <2>3, <2>5 DEF PackerAt, RecordJob
    <2> QED BY <2>4, <2>5
  <1> QED BY <1>2, <1>3

LEMMA ReaderStep ==
    ASSUME Inv, FileIOStep(Reader), UNCHANGED <<files, version, reading>>
    PROVE  StepEffect(Reader) /\ disk' = disk /\ ReaderAt' /\ io[Reader].name = Image
  <1>1. IoTypes /\ Reader \in Procs /\ ReaderAt /\ ImageAt
    BY TypesFollow, ProcFacts DEF Inv
  <1>2. io[Reader].at # "none"
    BY IdleNoStep
  <1>3. reading # NoFile /\ reading \in Listed /\ ReadAtJob(reading) /\ disk[Image] # Absent
    BY <1>1, <1>2 DEF ReaderAt, ImageAt
  <1>4. /\ StepEffect(Reader) /\ disk' = disk
        /\ io'[Reader].name = Image /\ io'[Reader].offset = io[Reader].offset
        /\ io'[Reader].size = io[Reader].size /\ ReadAtPhase(io'[Reader])
    BY <1>1, <1>3, ReadAtStep
  <1>5. Place(reading)' = Place(reading) /\ Listed' = Listed /\ reading' = reading
    <2>1. PICK f : f = reading
      OBVIOUS
    <2>2. Place(f)' = Place(f)
      BY PlaceStays
    <2>3. files' = files /\ version' = version /\ reading' = reading
      OBVIOUS
    <2> QED BY <2>1, <2>2, <2>3 DEF Listed
  <1> QED BY <1>3, <1>4, <1>5 DEF ReaderAt, ReadAtJob

LEMMA ReaderFrame ==
    ASSUME ReaderAt, io'[Reader] = io[Reader], UNCHANGED <<files, version, reading>>
    PROVE  ReaderAt'
  <1>1. PICK f : f = reading
    OBVIOUS
  <1>2. Place(f)' = Place(f)
    BY PlaceStays
  <1>3. files' = files /\ version' = version /\ reading' = reading /\ Listed' = Listed
    BY DEF Listed
  <1> QED BY <1>1, <1>2, <1>3 DEF ReaderAt, ReadAtJob

-----------------------------------------------------------------------------
(* Every step of the program keeps the invariant. *)

LEMMA ListedStays ==
    ASSUME files' = files
    PROVE  Listed' = Listed
  BY DEF Listed

\* A step of a thread leaves the calls of the others in their rounds.
LEMMA OtherRounds ==
    ASSUME Inv, NEW p \in Procs, StepEffect(p), io[p].name \in {p, Image},
           UNCHANGED <<files, version, pack>>, NEW f \in Files, f # p
    PROVE  IF f \in Listed THEN RoundAt(f)' ELSE io'[f].at = "none"
  <1>1. IoTypes /\ f \in Procs /\ f # Image /\ f \in Names /\ Image \in Names
    BY TypesFollow, ProcFacts DEF Inv
  <1>2. io'[f] = io[f]
    BY <1>1 DEF StepEffect, OthersKept
  <1>3. disk'[f] = disk[f] /\ (disk[Image] # Absent => disk'[Image] # Absent)
    BY <1>1 DEF StepEffect, DiskKept
  <1>4. errors' \in Nat /\ errors' >= errors
    BY BoundsAssumption DEF StepEffect, IoTypes
  <1>5. IF f \in Listed THEN RoundAt(f) ELSE io[f].at = "none"
    BY DEF Inv, Rounds
  <1>6. CASE f \in Listed
    <2>1. RoundAt(f)'
      BY <1>1, <1>2, <1>3, <1>4, <1>5, <1>6, RoundFrame
    <2> QED BY <1>6, <2>1
  <1>7. CASE f \notin Listed
    BY <1>2, <1>5, <1>7
  <1> QED BY <1>6, <1>7

LEMMA AfterIo ==
    ASSUME Inv, NEW p \in Procs, StepEffect(p), UNCHANGED <<packVars, mountVars, readVars>>,
           \/ disk'[Image] = disk[Image]
           \/ /\ pack \notin {"start", "compress"}
              /\ disk'[Image] # Absent => disk'[Image] \in Seq(CellsOf(Listed))
    PROVE  TypeOK' /\ NoSpuriousFailure' /\ ImageAt'
  <1>1. TypeOK /\ NoSpuriousFailure /\ ImageAt /\ Image \in Names
    BY ProcFacts DEF Inv
  <1>2. /\ files' = files /\ version' = version /\ pack' = pack /\ written' = written
        /\ mount' = mount /\ pos' = pos /\ cached' = cached
        /\ reading' = reading /\ settled' = settled
    BY DEF packVars, mountVars, readVars
  <1>3. Listed' = Listed
    BY <1>2, ListedStays
  <1>4. TypeOK'
    <2>1. IoTypes'
      BY DEF StepEffect
    <2> QED BY <1>1, <1>2, <2>1 DEF TypeOK, IoTypes, CallSet
  <1>5. NoSpuriousFailure'
    <2>1. errors \in Nat /\ errors' \in Nat /\ errors' >= errors
      BY <1>1, BoundsAssumption DEF StepEffect, IoTypes, TypeOK
    <2> QED BY <1>1, <1>2, <2>1 DEF NoSpuriousFailure
  <1>6. ImageAt'
    <2>1. disk[Image] # Absent => disk'[Image] # Absent
      BY <1>1 DEF StepEffect, DiskKept
    <2> QED BY <1>1, <1>2, <1>3, <2>1 DEF ImageAt
  <1> QED BY <1>4, <1>5, <1>6

LEMMA IoNext ==
    ASSUME Inv, NEW p \in Procs, IoStep(p)
    PROVE  Inv'
  <1>1. FileIOStep(p) /\ UNCHANGED <<packVars, mountVars, readVars>>
    BY DEF IoStep
  <1>2. /\ files' = files /\ version' = version /\ pack' = pack /\ written' = written
        /\ mount' = mount /\ pos' = pos /\ cached' = cached
        /\ reading' = reading /\ settled' = settled
    BY <1>1 DEF packVars, mountVars, readVars
  <1>3. UNCHANGED <<files, version, pack>> /\ Listed' = Listed
    BY <1>2, ListedStays
  <1>4. /\ IoTypes /\ ImageAt /\ files \in PendingLists /\ Listed \subseteq Files
        /\ version \in 1 .. CURRENT_VERSION
    BY TypesFollow, ListType DEF Inv
  <1>5. ASSUME StepEffect(p), p # Packer PROVE PackerAt'
    <2>1. io'[Packer] = io[Packer] /\ (disk[Image] # Absent => disk'[Image] # Absent)
      BY <1>5, ProcFacts DEF StepEffect, OthersKept, DiskKept
    <2>2. errors' \in Nat /\ errors' >= errors
      BY <1>5, BoundsAssumption DEF StepEffect, IoTypes
    <2> QED BY <1>2, <2>1, <2>2, PackerFrame
  <1>6. ASSUME StepEffect(p), p # Reader PROVE ReaderAt'
    <2>1. io'[Reader] = io[Reader]
      BY <1>6, ProcFacts DEF StepEffect, OthersKept
    <2> QED BY <1>2, <2>1, ReaderFrame DEF Inv
  <1>7. CASE p \in Listed
    <2>1. /\ StepEffect(p)
          /\ RoundAt(p)'
          /\ io[p].name \in {p, Image}
          /\ io[p].name = Image => /\ PlaceJob(p) /\ pack \in {"write_data", "ERROR"}
                                   /\ WriteCase(p) \/ Breaks(p) \/ Waits(p)
      BY <1>1, <1>3, <1>7, TaskStep
    <2>2. \A f \in Files \ {p} : IF f \in Listed THEN RoundAt(f)' ELSE io'[f].at = "none"
      BY <1>3, <2>1, OtherRounds
    <2>3. Rounds'
      BY <1>3, <1>7, <2>1, <2>2 DEF Rounds
    <2>4. p # Packer /\ p # Reader
      BY <1>4, <1>7, ProcFacts
    <2>5. CASE io[p].name # Image
      <3>1. disk'[Image] = disk[Image]
        BY <2>1, <2>5, ProcFacts DEF StepEffect, DiskKept
      <3>2. TypeOK' /\ NoSpuriousFailure' /\ ImageAt'
        BY <1>1, <2>1, <3>1, AfterIo
      <3> QED BY <1>5, <1>6, <2>1, <2>3, <2>4, <3>2 DEF Inv
    <2>6. CASE io[p].name = Image
      <3>1. PICK offset, bytes, S :
               offset = Place(p) /\ bytes = EncodeData(p) /\ S = CellsOf(Listed)
        OBVIOUS
      <3>2. offset \in Nat /\ bytes \in Seq(S) /\ Hole \in S
        BY <1>4, <1>7, <3>1, PlaceType, DataCells, HoleOf
      <3>3. WriteJob(p, Image, FALSE, offset, bytes)
        BY <2>1, <2>6, <3>1 DEF PlaceJob
      <3>4. disk[Image] # Absent => disk[Image] \in Seq(S)
        BY <1>4, <3>1 DEF ImageAt
      <3>5. disk'[Image] # Absent => disk'[Image] \in Seq(S)
        BY <1>4, <2>1, <2>6, <3>2, <3>3, <3>4, WriteTyped
      <3>6. TypeOK' /\ NoSpuriousFailure' /\ ImageAt'
        BY <1>1, <2>1, <2>6, <3>1, <3>5, AfterIo
      <3> QED BY <1>5, <1>6, <2>1, <2>3, <2>4, <3>6 DEF Inv
    <2> QED BY <2>5, <2>6
  <1>8. CASE p = Packer
    <2>1. /\ StepEffect(p)
          /\ PackerAt'
          /\ io[p].name = Image /\ pack = "metas"
          /\ WriteCase(p) \/ Breaks(p) \/ Waits(p)
      BY <1>1, <1>2, <1>8, PackerStep
    <2>2. p \notin Files /\ p # Reader
      BY <1>8, ProcFacts
    <2>3. \A f \in Files : IF f \in Listed THEN RoundAt(f)' ELSE io'[f].at = "none"
      BY <1>3, <2>1, <2>2, OtherRounds
    <2>4. Rounds'
      BY <1>3, <2>3 DEF Rounds
    <2>5. PICK truncate, offset, bytes : PackerWrites(truncate, offset, bytes)
      BY <2>1, PackerJob DEF Inv
    <2>6. PICK S : S = CellsOf(Listed)
      OBVIOUS
    <2>7. offset \in Nat /\ bytes \in Seq(S) /\ WriteJob(p, Image, truncate, offset, bytes)
      BY <1>8, <2>5, <2>6 DEF PackerWrites
    <2>8. (disk[Image] # Absent => disk[Image] \in Seq(S)) /\ Hole \in S
      BY <1>4, <2>6, HoleOf DEF ImageAt
    <2>9. disk'[Image] # Absent => disk'[Image] \in Seq(S)
      BY <1>4, <2>1, <2>7, <2>8, WriteTyped
    <2>10. TypeOK' /\ NoSpuriousFailure' /\ ImageAt'
      BY <1>1, <2>1, <2>6, <2>9, AfterIo
    <2> QED BY <1>6, <2>1, <2>2, <2>4, <2>10 DEF Inv
  <1>9. CASE p = Reader
    <2>1. StepEffect(p) /\ disk' = disk /\ ReaderAt' /\ io[p].name = Image
      BY <1>1, <1>2, <1>9, ReaderStep
    <2>2. p \notin Files /\ p # Packer
      BY <1>9, ProcFacts
    <2>3. \A f \in Files : IF f \in Listed THEN RoundAt(f)' ELSE io'[f].at = "none"
      BY <1>3, <2>1, <2>2, OtherRounds
    <2>4. Rounds'
      BY <1>3, <2>3 DEF Rounds
    <2>5. TypeOK' /\ NoSpuriousFailure' /\ ImageAt'
      BY <1>1, <2>1, AfterIo
    <2> QED BY <1>5, <2>1, <2>2, <2>4, <2>5 DEF Inv
  <1>10. CASE p \in Files /\ p \notin Listed
    <2>1. io[p].at = "none"
      BY <1>10 DEF Inv, Rounds
    <2> QED BY <1>1, <2>1, IdleNoStep
  <1> QED BY <1>7, <1>8, <1>9, <1>10, ProcFacts

-----------------------------------------------------------------------------
(* The initial states. *)

LEMMA IdleType ==
    ASSUME NEW code \in Codes
    PROVE  /\ Idle(code) \in CallSet
           /\ Idle(code).at = "none" /\ Idle(code).code = code
           /\ Idle(code).total = 0 /\ Idle(code).size = 0
  <1>1. (CHOOSE n \in Names : TRUE) \in Names
    BY ProcFacts
  <1>2. 0 \in 0 .. Depth /\ <<>> \in Seq(Cells)
    BY BoundsAssumption
  <1> QED BY <1>1, <1>2 DEF Idle, CallSet, Calls, Codes

LEMMA ReferenceCells ==
    ASSUME files \in PendingLists, NEW v \in 1 .. CURRENT_VERSION
    PROVE  /\ ReferenceImage(files, v) \in Seq(CellsOf(Listed))
           /\ ReferenceImage(files, v) \in Seq(Cells)
           /\ ReferenceImage(files, v) # Absent
  <1>1. files \in Seq(Listed) /\ Listed \subseteq Files /\ CellsOf(Listed) \subseteq Cells
    BY ListType
  <1>2. PICK r : r = ReferenceImage(files, v)
    OBVIOUS
  <1>3. r \in Seq(CellsOf(Listed))
    BY <1>1, <1>2, ImageLaid DEF Laid
  <1>4. r \in Seq(Cells)
    BY <1>1, <1>3
  <1> QED BY <1>2, <1>3, <1>4, BytesAssumption

LEMMA InvInit == Init => Inv
  <1> SUFFICES ASSUME Init PROVE Inv
    OBVIOUS
  <1>1. /\ FileIOInit /\ files \in PendingLists /\ written = 0
        /\ mount = "idle" /\ pos = 0 /\ cached = <<>>
        /\ reading = NoFile /\ settled = FALSE
    BY DEF Init
  <1>2. /\ io \in [Procs -> CallSet]
        /\ \A p \in Procs : /\ io[p].at = "none" /\ io[p].code = "none"
                            /\ io[p].total <= io[p].size
    BY <1>1, IdleType DEF FileIOInit, Codes
  <1>3. errors = 0 /\ shorts = 0 /\ stalls = 0 /\ directories \in 0 .. Depth
    BY <1>1 DEF FileIOInit
  <1>4. \/ version = 2 /\ pack = "start" /\ disk = [n \in Names |-> Absent]
        \/ /\ version = 1 /\ pack = "none"
           /\ disk = [n \in Names |-> IF n = Image THEN ReferenceImage(files, 1) ELSE Absent]
    BY DEF Init, CURRENT_VERSION
  <1>5. version \in 1 .. CURRENT_VERSION /\ 1 \in 1 .. CURRENT_VERSION
    BY <1>4 DEF CURRENT_VERSION
  <1>6. PICK r : r = ReferenceImage(files, 1)
    OBVIOUS
  <1>7. r \in Seq(CellsOf(Listed)) /\ r \in Seq(Cells) /\ r # Absent
    BY <1>1, <1>5, <1>6, ReferenceCells
  <1>8. disk \in [Names -> Seq(Cells) \cup {Absent}]
    BY <1>4, <1>6, <1>7
  <1>9. /\ pack = "start" => version = 2 /\ disk[Image] = Absent
        /\ pack = "none" => version = 1 /\ disk[Image] = r
        /\ pack \in {"start", "none"}
    BY <1>4, <1>6, ProcFacts
  <1>10. TypeOK
    <2>1. 0 \in 0 .. Len(files) /\ <<>> \in Seq(Files)
      BY <1>1, ListType
    <2>2. 0 \in 0 .. MaxErrors /\ 0 \in 0 .. MaxShorts /\ 0 \in 0 .. MaxStalls
      BY BoundsAssumption
    <2> QED BY <1>1, <1>2, <1>3, <1>5, <1>8, <1>9, <2>1, <2>2 DEF TypeOK, CallSet
  <1>11. Rounds
    BY <1>2, <1>9, ProcFacts DEF Rounds, RoundAt
  <1>12. PackerAt /\ ReaderAt
    BY <1>1, <1>2, <1>9, ProcFacts DEF PackerAt, ReaderAt
  <1>13. ImageAt
    <2>1. <<>> \in Seq(Listed)
      OBVIOUS
    <2> QED BY <1>1, <1>7, <1>9, <2>1 DEF ImageAt
  <1>14. NoSpuriousFailure
    BY <1>9 DEF NoSpuriousFailure
  <1> QED BY <1>10, <1>11, <1>12, <1>13, <1>14 DEF Inv

-----------------------------------------------------------------------------
(* The steps of a pack. *)

LEMMA WriteAllCall ==
    ASSUME NEW n \in Names, NEW bytes \in Seq(Cells), NEW c, c = AsyncWriteAll(n, bytes)
    PROVE  /\ c \in CallSet /\ WriteCall(c, n, TRUE, 0, bytes)
           /\ c.at = "exists" /\ c.code = "none" /\ c.total = 0 /\ c.total <= c.size
  <1>1. Idle("none") \in CallSet /\ Idle("none").code = "none" /\ Idle("none").total = 0
    BY IdleType DEF Codes
  <1>2. Depth \in 0 .. Depth /\ Len(bytes) \in Nat /\ 0 <= Len(bytes)
    BY BoundsAssumption
  <1>3. Idle("none").offset = 0
    BY DEF Idle
  <1> QED BY <1>1, <1>2, <1>3 DEF AsyncWriteAll, CallSet, Calls, WriteCall, WriteAts

LEMMA WriteAtCall ==
    ASSUME NEW n \in Names, NEW offset \in Nat, NEW bytes \in Seq(Cells), NEW c,
           c = AsyncWriteAt(n, offset, bytes)
    PROVE  /\ c \in CallSet /\ WriteCall(c, n, FALSE, offset, bytes)
           /\ c.at = "exists" /\ c.code = "none" /\ c.total = 0 /\ c.total <= c.size
  <1>1. PICK d : d = AsyncWriteAll(n, bytes)
    OBVIOUS
  <1>2. /\ d \in CallSet /\ WriteCall(d, n, TRUE, 0, bytes)
        /\ d.at = "exists" /\ d.code = "none" /\ d.total = 0 /\ d.total <= d.size
    BY <1>1, WriteAllCall
  <1>3. c = [d EXCEPT !.truncate = FALSE, !.offset = offset]
    BY <1>1 DEF AsyncWriteAt
  <1> QED BY <1>2, <1>3 DEF CallSet, Calls, WriteCall

LEMMA ReadAllCall ==
    ASSUME NEW n \in Names, NEW c, c = AsyncReadAll(n)
    PROVE  /\ c \in CallSet /\ c.name = n /\ c.offset = 0 /\ c.buffer = <<>>
           /\ c.at = "open_all" /\ c.code = "none" /\ c.total = 0 /\ c.total <= c.size
  <1>1. /\ Idle("none") \in CallSet /\ Idle("none").code = "none" /\ Idle("none").total = 0
        /\ Idle("none").size = 0
    BY IdleType DEF Codes
  <1>2. Idle("none").offset = 0 /\ Idle("none").buffer = <<>>
    BY DEF Idle
  <1>3. PICK d : d = Idle("none")
    OBVIOUS
  <1>4. c = [d EXCEPT !.at = "open_all", !.name = n]
    BY <1>3 DEF AsyncReadAll
  <1>5. d \in CallSet
    BY <1>1, <1>3
  <1>6. c \in CallSet
    BY <1>4, <1>5 DEF CallSet, Calls, ReadAts
  <1>7. /\ c.name = n /\ c.at = "open_all" /\ c.offset = d.offset /\ c.buffer = d.buffer
        /\ c.code = d.code /\ c.total = d.total /\ c.size = d.size
    BY <1>4, <1>5 DEF CallSet, Calls
  <1> QED BY <1>1, <1>2, <1>3, <1>6, <1>7

LEMMA ReadAtCall ==
    ASSUME NEW n \in Names, NEW offset \in Nat, NEW size \in Nat, NEW c,
           c = AsyncReadAt(n, offset, size)
    PROVE  /\ c \in CallSet /\ c.name = n /\ c.offset = offset /\ c.size = size
           /\ c.buffer = <<>> /\ c.at = "open_at" /\ c.code = "none"
           /\ c.total = 0 /\ c.total <= c.size
  <1>1. /\ Idle("none") \in CallSet /\ Idle("none").code = "none" /\ Idle("none").total = 0
    BY IdleType DEF Codes
  <1>2. Idle("none").buffer = <<>>
    BY DEF Idle
  <1>3. PICK d : d = Idle("none")
    OBVIOUS
  <1>4. c = [d EXCEPT !.at = "open_at", !.name = n, !.offset = offset, !.size = size]
    BY <1>3 DEF AsyncReadAt
  <1>5. d \in CallSet
    BY <1>1, <1>3
  <1>6. c \in CallSet
    BY <1>4, <1>5 DEF CallSet, Calls, ReadAts
  <1>7. /\ c.name = n /\ c.at = "open_at" /\ c.offset = offset /\ c.size = size
        /\ c.buffer = d.buffer /\ c.code = d.code /\ c.total = d.total
    BY <1>4, <1>5 DEF CallSet, Calls
  <1> QED BY <1>1, <1>2, <1>3, <1>6, <1>7

Labels == {"start", "compress", "metas", "read_temps", "write_data", "SUCCESS", "ERROR", "none"}

\* What holds of the image and of errors where the pack comes to next.
LEMMA AfterPack ==
    ASSUME Inv, UNCHANGED <<files, version, directories, budgets, mountVars, readVars>>,
           disk' \in [Names -> Seq(Cells) \cup {Absent}], disk'[Image] = disk[Image],
           io' \in [Procs -> CallSet], \A q \in Procs : io'[q].total <= io'[q].size,
           pack # "none", pack' \in Labels \ {"none", "start"}, written' \in 0 .. Len(files),
           pack' = "compress" => disk[Image] = Absent,
           pack' \in {"read_temps", "write_data", "SUCCESS"} => disk[Image] # Absent,
           pack' = "ERROR" => errors > 0
    PROVE  TypeOK' /\ NoSpuriousFailure' /\ ImageAt'
  <1>1. /\ files' = files /\ version' = version /\ directories' = directories
        /\ errors' = errors /\ shorts' = shorts /\ stalls' = stalls
        /\ mount' = mount /\ pos' = pos /\ cached' = cached
        /\ reading' = reading /\ settled' = settled
    BY DEF budgets, mountVars, readVars
  <1>2. Listed' = Listed
    BY <1>1, ListedStays
  <1>3. TypeOK'
    BY <1>1 DEF Inv, TypeOK, CallSet, Labels
  <1>4. NoSpuriousFailure'
    BY <1>1 DEF NoSpuriousFailure
  <1>5. ImageAt'
    BY <1>1, <1>2 DEF Inv, ImageAt, Labels
  <1> QED BY <1>3, <1>4, <1>5

\* The tasks of a round do what they are told to; nobody else does anything.
Spawned(W) ==
    /\ \A p \in Listed : io'[p] = W[p]
    /\ \A p \in Procs \ Listed : io'[p] = io[p]

LEMMA SpawnEffect ==
    ASSUME Inv, NEW W, io' = [p \in Procs |-> IF InFiles(p) THEN W[p] ELSE io[p]],
           \A p \in Listed : W[p] \in CallSet /\ W[p].total <= W[p].size
    PROVE  /\ io' \in [Procs -> CallSet]
           /\ \A q \in Procs : io'[q].total <= io'[q].size
           /\ Spawned(W)
           /\ io'[Packer] = io[Packer] /\ io'[Reader] = io[Reader]
  <1>1. /\ \A p : InFiles(p) <=> p \in Listed
        /\ Listed \subseteq Files /\ Listed \subseteq Procs
    BY ListType, ProcFacts DEF Inv, TypeOK
  <1>2. Spawned(W)
    BY <1>1 DEF Spawned
  <1>3. io \in [Procs -> CallSet] /\ \A q \in Procs : io[q].total <= io[q].size
    BY DEF Inv, TypeOK, CallSet
  <1>4. io' \in [Procs -> CallSet] /\ \A q \in Procs : io'[q].total <= io'[q].size
    BY <1>1, <1>3
  <1> QED BY <1>1, <1>2, <1>4, ProcFacts DEF Spawned

\* What a round leaves when every future of it has the value SUCCESS.
LEMMA RoundEnds ==
    ASSUME Inv, AllSucceeded, NEW f \in Listed
    PROVE  Ended(f)
  BY DEF AllSucceeded, Ended, Busy, Listed

LEMMA CompressFilesNext ==
    ASSUME Inv, CompressFiles, UNCHANGED <<mountVars, readVars>>
    PROVE  Inv'
  <1>1. /\ pack = "start" /\ pack' = "compress" /\ files' = files /\ version' = version
        /\ directories' = directories /\ disk' = disk /\ UNCHANGED budgets
        /\ written' = written
    BY DEF CompressFiles, Stage
  <1>2. PICK W : W = [f \in Files |-> AsyncWriteAll(f, EncodeData(f))]
    OBVIOUS
  <1>3. /\ Listed \subseteq Files /\ \A p : InFiles(p) <=> p \in Listed
        /\ files \in PendingLists
    BY ListType DEF Inv, TypeOK
  <1>4. io' = [p \in Procs |-> IF InFiles(p) THEN W[p] ELSE io[p]]
    <2>1. io' = [p \in Procs |-> IF InFiles(p) THEN AsyncWriteAll(p, EncodeData(p)) ELSE io[p]]
      BY DEF CompressFiles, Spawn
    <2>2. \A p \in Procs : InFiles(p) => W[p] = AsyncWriteAll(p, EncodeData(p))
      BY <1>2, <1>3
    <2> QED BY <2>1, <2>2
  <1>5. ASSUME NEW f \in Listed
        PROVE  /\ W[f] \in CallSet /\ WriteCall(W[f], f, TRUE, 0, EncodeData(f))
               /\ W[f].at = "exists" /\ W[f].code = "none" /\ W[f].total = 0
               /\ W[f].total <= W[f].size
    <2>1. f \in Files /\ f \in Names /\ EncodeData(f) \in Seq(Cells)
      BY <1>3, ProcFacts, DataType
    <2>2. W[f] = AsyncWriteAll(f, EncodeData(f))
      BY <1>2, <2>1
    <2> QED BY <2>1, <2>2, WriteAllCall
  <1>6. /\ io' \in [Procs -> CallSet]
        /\ \A q \in Procs : io'[q].total <= io'[q].size
        /\ Spawned(W)
        /\ io'[Packer] = io[Packer] /\ io'[Reader] = io[Reader]
    BY <1>4, <1>5, SpawnEffect
  <1>7. TypeOK' /\ NoSpuriousFailure' /\ ImageAt'
    <2>1. disk[Image] = Absent
      BY <1>1 DEF Inv, ImageAt
    <2>2. written \in 0 .. Len(files) /\ disk \in [Names -> Seq(Cells) \cup {Absent}]
      BY DEF Inv, TypeOK
    <2> QED BY <1>1, <1>6, <2>1, <2>2, AfterPack DEF Labels
  <1>8. Rounds'
    <2>1. ASSUME NEW f \in Listed PROVE RoundAt(f)'
      <3>1. io'[f] = W[f]
        BY <1>6 DEF Spawned
      <3>2. CompressJob(f)'
        BY <1>5, <3>1 DEF CompressJob, WriteJob, WritePhase
      <3> QED BY <1>1, <3>2 DEF RoundAt
    <2>2. ASSUME NEW f \in Files, f \notin Listed PROVE io'[f].at = "none"
      BY <1>6, <2>2, ProcFacts DEF Spawned, Inv, Rounds
    <2> QED BY <1>1, <2>1, <2>2, ListedStays DEF Rounds
  <1>9. PackerAt' /\ ReaderAt'
    <2>1. io'[Packer].at = "none" /\ written' = 0
      BY <1>1, <1>6 DEF Inv, PackerAt
    <2>2. UNCHANGED <<files, version, reading>>
      BY <1>1 DEF readVars
    <2> QED BY <1>1, <1>6, <2>1, <2>2, ReaderFrame DEF PackerAt, Inv
  <1> QED BY <1>7, <1>8, <1>9 DEF Inv

\* Calls that nobody touches.
LEMMA TasksStay ==
    ASSUME Inv, NEW f \in Listed, io'[f] = io[f], disk' = disk,
           UNCHANGED <<files, version, budgets>>
    PROVE  /\ CompressJob(f) => CompressJob(f)'
           /\ ReadJob(f) => ReadJob(f)'
           /\ PlaceJob(f) => PlaceJob(f)'
           /\ Ended(f) => Ended(f)'
           /\ io'[f].at = io[f].at
  <1>1. IoTypes /\ f \in Files /\ errors \in Nat
    BY TypesFollow, ListType DEF Inv
  <1>2. errors' \in Nat /\ errors' >= errors
    BY <1>1 DEF budgets
  <1>3. CompressJob(f) => CompressJob(f)'
    BY <1>1, <1>2, CompressJobFrame
  <1>4. ReadJob(f) => ReadJob(f)'
    BY <1>1, <1>2, ReadJobFrame
  <1>5. PlaceJob(f) => PlaceJob(f)'
    BY <1>1, <1>2, PlaceJobFrame DEF PlaceJob
  <1> QED BY <1>3, <1>4, <1>5 DEF Ended

\* The packing thread enters a write to the image.
LEMMA PackerCalls ==
    ASSUME Inv, NEW c, io' = [io EXCEPT ![Packer] = c], c \in CallSet, c.total <= c.size,
           disk' = disk, UNCHANGED <<files, version, budgets, mountVars, readVars>>,
           pack \in {"compress", "metas"}, pack' = "metas",
           \A f \in Listed : Ended(f)
    PROVE  /\ io' \in [Procs -> CallSet]
           /\ \A q \in Procs : io'[q].total <= io'[q].size
           /\ io'[Packer] = c
           /\ Rounds' /\ ReaderAt'
  <1>1. /\ io \in [Procs -> CallSet] /\ \A q \in Procs : io[q].total <= io[q].size
        /\ Listed \subseteq Files
    BY ListType DEF Inv, TypeOK, CallSet
  <1>2. /\ io'[Packer] = c /\ io'[Reader] = io[Reader]
        /\ \A f \in Files : io'[f] = io[f]
    BY <1>1, ProcFacts
  <1>3. io' \in [Procs -> CallSet] /\ \A q \in Procs : io'[q].total <= io'[q].size
    BY <1>1
  <1>4. Rounds'
    <2>1. ASSUME NEW f \in Listed PROVE RoundAt(f)'
      <3>1. CompressJob(f) /\ Ended(f) /\ io'[f] = io[f]
        BY <1>1, <1>2 DEF Inv, Rounds, RoundAt
      <3>2. CompressJob(f)' /\ Ended(f)'
        BY <3>1, TasksStay
      <3> QED BY <3>2 DEF RoundAt
    <2>2. ASSUME NEW f \in Files, f \notin Listed PROVE io'[f].at = "none"
      BY <1>2, <2>2 DEF Inv, Rounds
    <2> QED BY <2>1, <2>2, ListedStays DEF Rounds
  <1>5. ReaderAt'
    <2>1. UNCHANGED <<files, version, reading>>
      BY DEF readVars
    <2> QED BY <1>2, <2>1, ReaderFrame DEF Inv
  <1> QED BY <1>2, <1>3, <1>4, <1>5

LEMMA WriteHeaderNext ==
    ASSUME Inv, WriteHeader, UNCHANGED <<mountVars, readVars>>
    PROVE  Inv'
  <1>1. /\ pack = "compress" /\ AllSucceeded /\ pack' = "metas"
        /\ files' = files /\ version' = version
        /\ directories' = directories /\ disk' = disk /\ UNCHANGED budgets
        /\ written' = written
        /\ io' = [io EXCEPT ![Packer] = AsyncWriteAll(Image, EncodeHeader)]
    BY DEF WriteHeader, Stage
  <1>2. PICK c, bytes : bytes = EncodeHeader /\ c = AsyncWriteAll(Image, bytes)
    OBVIOUS
  <1>3. bytes \in Seq(Cells) /\ Image \in Names
    BY <1>2, HeaderCells, ProcFacts
  <1>4. /\ c \in CallSet /\ WriteCall(c, Image, TRUE, 0, bytes)
        /\ c.at = "exists" /\ c.code = "none" /\ c.total = 0 /\ c.total <= c.size
    BY <1>2, <1>3, WriteAllCall
  <1>5. io' = [io EXCEPT ![Packer] = c]
    BY <1>1, <1>2
  <1>6. \A f \in Listed : Ended(f)
    BY <1>1, RoundEnds
  <1>7. /\ io' \in [Procs -> CallSet]
        /\ \A q \in Procs : io'[q].total <= io'[q].size
        /\ io'[Packer] = c
        /\ Rounds' /\ ReaderAt'
    BY <1>1, <1>4, <1>5, <1>6, PackerCalls
  <1>8. TypeOK' /\ NoSpuriousFailure' /\ ImageAt'
    <2>1. written \in 0 .. Len(files) /\ disk \in [Names -> Seq(Cells) \cup {Absent}]
      BY DEF Inv, TypeOK
    <2> QED BY <1>1, <1>7, <2>1, AfterPack DEF Labels
  <1>9. PackerAt'
    <2>1. written' = 0
      BY <1>1 DEF Inv, PackerAt
    <2>2. WriteJob(Packer, Image, TRUE, 0, bytes)'
      BY <1>4, <1>7 DEF WriteJob, WritePhase
    <2> QED BY <1>1, <1>2, <2>1, <2>2 DEF PackerAt, HeaderJob
  <1> QED BY <1>7, <1>8, <1>9 DEF Inv

\* When the packing thread has written something there is an image.
LEMMA ImageBegun ==
    ASSUME Inv, pack = "metas", PackerReady
    PROVE  disk[Image] # Absent /\ io[Packer].at = "none"
  <1>1. PICK truncate, offset, bytes : PackerWrites(truncate, offset, bytes)
    BY PackerJob DEF Inv
  <1>2. WritePhase(io[Packer], errors > 0, disk[Image] # Absent)
    BY <1>1 DEF PackerWrites, WriteJob
  <1> QED BY <1>2 DEF PackerReady, Busy, WritePhase

LEMMA WriteMetaNext ==
    ASSUME Inv, WriteMeta, UNCHANGED <<mountVars, readVars>>
    PROVE  Inv'
  <1>1. /\ pack = "metas" /\ PackerReady /\ pack' = "metas"
        /\ written < Len(files) /\ written' = written + 1
        /\ files' = files /\ version' = version
        /\ directories' = directories /\ disk' = disk /\ UNCHANGED budgets
        /\ io' = [io EXCEPT ![Packer] =
                     AsyncWriteAt(Image,
                                  HeaderLen + Len(Records(SubSeq(files, 1, written), version)),
                                  SerializeFileMetadata(files[written + 1], version))]
    BY DEF WriteMeta, Stage
  <1>2. /\ files \in PendingLists /\ version \in 1 .. CURRENT_VERSION
        /\ written \in 0 .. Len(files) /\ Len(files) \in Nat /\ Listed \subseteq Files
    BY ListType DEF Inv, TypeOK
  <1>3. PICK k : k = written + 1
    OBVIOUS
  <1>4. k \in 1 .. Len(files) /\ k - 1 = written /\ written' = k /\ k # 0
    BY <1>1, <1>2, <1>3
  <1>5. PICK c, offset, bytes :
           /\ offset = HeaderLen + Len(Records(SubSeq(files, 1, k - 1), version))
           /\ bytes = SerializeFileMetadata(files[k], version)
           /\ c = AsyncWriteAt(Image, offset, bytes)
    OBVIOUS
  <1>6. offset \in Nat /\ bytes \in Seq(Cells) /\ Image \in Names
    BY <1>2, <1>4, <1>5, RecordOffset, ProcFacts
  <1>7. /\ c \in CallSet /\ WriteCall(c, Image, FALSE, offset, bytes)
        /\ c.at = "exists" /\ c.code = "none" /\ c.total = 0 /\ c.total <= c.size
    BY <1>5, <1>6, WriteAtCall
  <1>8. io' = [io EXCEPT ![Packer] = c]
    BY <1>1, <1>3, <1>4, <1>5
  <1>9. \A f \in Listed : Ended(f)
    BY <1>1, <1>2 DEF Inv, Rounds, RoundAt
  <1>10. /\ io' \in [Procs -> CallSet]
         /\ \A q \in Procs : io'[q].total <= io'[q].size
         /\ io'[Packer] = c
         /\ Rounds' /\ ReaderAt'
    BY <1>1, <1>7, <1>8, <1>9, PackerCalls
  <1>11. TypeOK' /\ NoSpuriousFailure' /\ ImageAt'
    <2>1. written' \in 0 .. Len(files) /\ disk \in [Names -> Seq(Cells) \cup {Absent}]
      BY <1>2, <1>4 DEF Inv, TypeOK
    <2> QED BY <1>1, <1>10, <2>1, AfterPack DEF Labels
  <1>12. PackerAt'
    <2>1. WriteJob(Packer, Image, FALSE, offset, bytes)'
      BY <1>7, <1>10 DEF WriteJob, WritePhase
    <2>2. disk'[Image] # Absent
      BY <1>1, ImageBegun
    <2>3. RecordJob(written)'
      BY <1>1, <1>4, <1>5, <2>1, <2>2 DEF RecordJob
    <2> QED BY <1>1, <1>4, <2>3 DEF PackerAt
  <1> QED BY <1>10, <1>11, <1>12 DEF Inv

\* A temp file written whole.
LEMMA TempWhole ==
    ASSUME Inv, NEW f \in Files, CompressJob(f), Ended(f)
    PROVE  disk[f] = EncodeData(f)
  <1>1. PICK e : e = EncodeData(f)
    OBVIOUS
  <1>2. e \in Seq(Cells)
    BY <1>1, DataType
  <1>3. /\ WriteJob(f, f, TRUE, 0, e)
        /\ disk[f] = SubSeq(e, 1, io[f].total)
    BY <1>1 DEF CompressJob, Ended
  <1>4. io[f].total = Len(e)
    BY <1>3 DEF WriteJob, WriteCall, WritePhase, Ended
  <1>5. SubSeq(e, 1, Len(e)) = e
    BY <1>2
  <1> QED BY <1>1, <1>3, <1>4, <1>5

LEMMA ReadTempsNext ==
    ASSUME Inv, ReadTemps, UNCHANGED <<mountVars, readVars>>
    PROVE  Inv'
  <1>1. /\ pack = "metas" /\ PackerReady /\ pack' = "read_temps"
        /\ files' = files /\ version' = version
        /\ directories' = directories /\ disk' = disk /\ UNCHANGED budgets
        /\ written' = written
    BY DEF ReadTemps, Stage
  <1>2. PICK W : W = [f \in Files |-> AsyncReadAll(f)]
    OBVIOUS
  <1>3. /\ Listed \subseteq Files /\ \A p : InFiles(p) <=> p \in Listed
        /\ files \in PendingLists
    BY ListType DEF Inv, TypeOK
  <1>4. io' = [p \in Procs |-> IF InFiles(p) THEN W[p] ELSE io[p]]
    <2>1. io' = [p \in Procs |-> IF InFiles(p) THEN AsyncReadAll(p) ELSE io[p]]
      BY DEF ReadTemps, Spawn
    <2>2. \A p \in Procs : InFiles(p) => W[p] = AsyncReadAll(p)
      BY <1>2, <1>3
    <2> QED BY <2>1, <2>2
  <1>5. ASSUME NEW f \in Listed
        PROVE  /\ W[f] \in CallSet /\ W[f].name = f /\ W[f].offset = 0 /\ W[f].buffer = <<>>
               /\ W[f].at = "open_all" /\ W[f].code = "none" /\ W[f].total = 0
               /\ W[f].total <= W[f].size
    <2>1. f \in Files /\ f \in Names
      BY <1>3, ProcFacts
    <2>2. W[f] = AsyncReadAll(f)
      BY <1>2, <2>1
    <2> QED BY <2>1, <2>2, ReadAllCall
  <1>6. /\ io' \in [Procs -> CallSet]
        /\ \A q \in Procs : io'[q].total <= io'[q].size
        /\ Spawned(W)
        /\ io'[Packer] = io[Packer] /\ io'[Reader] = io[Reader]
    BY <1>4, <1>5, SpawnEffect
  <1>7. TypeOK' /\ NoSpuriousFailure' /\ ImageAt'
    <2>1. disk[Image] # Absent
      BY <1>1, ImageBegun
    <2>2. written \in 0 .. Len(files) /\ disk \in [Names -> Seq(Cells) \cup {Absent}]
      BY DEF Inv, TypeOK
    <2> QED BY <1>1, <1>6, <2>1, <2>2, AfterPack DEF Labels
  <1>8. Rounds'
    <2>1. ASSUME NEW f \in Listed PROVE RoundAt(f)'
      <3>1. io'[f] = W[f] /\ f \in Files
        BY <1>3, <1>6 DEF Spawned
      <3>2. CompressJob(f) /\ Ended(f)
        BY <1>1, <3>1 DEF Inv, Rounds, RoundAt
      <3>3. disk'[f] = EncodeData(f)
        BY <1>1, <3>1, <3>2, TempWhole
      <3>4. ReadJob(f)'
        BY <1>5, <3>1, <3>3 DEF ReadJob, ReadPhase
      <3> QED BY <1>1, <3>4 DEF RoundAt
    <2>2. ASSUME NEW f \in Files, f \notin Listed PROVE io'[f].at = "none"
      BY <1>6, <2>2, ProcFacts DEF Spawned, Inv, Rounds
    <2> QED BY <1>1, <2>1, <2>2, ListedStays DEF Rounds
  <1>9. PackerAt' /\ ReaderAt'
    <2>1. io'[Packer].at = "none"
      BY <1>1, <1>6, ImageBegun
    <2>2. UNCHANGED <<files, version, reading>>
      BY <1>1 DEF readVars
    <2> QED BY <1>1, <1>6, <2>1, <2>2, ReaderFrame DEF PackerAt, Inv
  <1> QED BY <1>7, <1>8, <1>9 DEF Inv

LEMMA WriteDataNext ==
    ASSUME Inv, WriteData, UNCHANGED <<mountVars, readVars>>
    PROVE  Inv'
  <1>1. /\ pack = "read_temps" /\ AllSucceeded /\ pack' = "write_data"
        /\ files' = files /\ version' = version
        /\ directories' = directories /\ disk' = disk /\ UNCHANGED budgets
        /\ written' = written
    BY DEF WriteData, Stage
  <1>2. PICK W : W = [f \in Files |-> AsyncWriteAt(Image, Place(f), io[f].buffer)]
    OBVIOUS
  <1>3. /\ Listed \subseteq Files /\ \A p : InFiles(p) <=> p \in Listed
        /\ files \in PendingLists /\ version \in 1 .. CURRENT_VERSION
    BY ListType DEF Inv, TypeOK
  <1>4. io' = [p \in Procs |-> IF InFiles(p) THEN W[p] ELSE io[p]]
    <2>1. io' = [p \in Procs |-> IF InFiles(p) THEN AsyncWriteAt(Image, Place(p), io[p].buffer)
                                               ELSE io[p]]
      BY DEF WriteData, Spawn
    <2>2. \A p \in Procs : InFiles(p) => W[p] = AsyncWriteAt(Image, Place(p), io[p].buffer)
      BY <1>2, <1>3
    <2> QED BY <2>1, <2>2
  <1>5. ASSUME NEW f \in Listed
        PROVE  /\ W[f] \in CallSet /\ WriteCall(W[f], Image, FALSE, Place(f), EncodeData(f))
               /\ W[f].at = "exists" /\ W[f].code = "none" /\ W[f].total = 0
               /\ W[f].total <= W[f].size
    <2>1. f \in Files /\ Image \in Names /\ EncodeData(f) \in Seq(Cells) /\ Place(f) \in Nat
      BY <1>3, ProcFacts, DataType, PlaceType
    <2>2. ReadJob(f) /\ Ended(f)
      BY <1>1, <2>1, RoundEnds DEF Inv, Rounds, RoundAt
    <2>3. io[f].buffer = EncodeData(f)
      BY <2>2 DEF ReadJob, ReadPhase, Ended
    <2>4. W[f] = AsyncWriteAt(Image, Place(f), EncodeData(f))
      BY <1>2, <2>1, <2>3
    <2> QED BY <2>1, <2>4, WriteAtCall
  <1>6. /\ io' \in [Procs -> CallSet]
        /\ \A q \in Procs : io'[q].total <= io'[q].size
        /\ Spawned(W)
        /\ io'[Packer] = io[Packer] /\ io'[Reader] = io[Reader]
    BY <1>4, <1>5, SpawnEffect
  <1>7. TypeOK' /\ NoSpuriousFailure' /\ ImageAt' /\ disk[Image] # Absent
    <2>1. disk[Image] # Absent
      BY <1>1 DEF Inv, ImageAt
    <2>2. written \in 0 .. Len(files) /\ disk \in [Names -> Seq(Cells) \cup {Absent}]
      BY DEF Inv, TypeOK
    <2> QED BY <1>1, <1>6, <2>1, <2>2, AfterPack DEF Labels
  <1>8. Rounds'
    <2>1. ASSUME NEW f \in Listed PROVE RoundAt(f)'
      <3>1. io'[f] = W[f]
        BY <1>6 DEF Spawned
      <3>2. Place(f)' = Place(f)
        BY <1>1, PlaceStays
      <3>3. PlaceJob(f)'
        BY <1>1, <1>5, <1>7, <3>1, <3>2 DEF PlaceJob, WriteJob, WritePhase
      <3> QED BY <1>1, <3>3 DEF RoundAt
    <2>2. ASSUME NEW f \in Files, f \notin Listed PROVE io'[f].at = "none"
      BY <1>6, <2>2, ProcFacts DEF Spawned, Inv, Rounds
    <2> QED BY <1>1, <2>1, <2>2, ListedStays DEF Rounds
  <1>9. PackerAt' /\ ReaderAt'
    <2>1. io'[Packer].at = "none"
      BY <1>1, <1>6 DEF Inv, PackerAt
    <2>2. UNCHANGED <<files, version, reading>>
      BY <1>1 DEF readVars
    <2> QED BY <1>1, <1>6, <2>1, <2>2, ReaderFrame DEF PackerAt, Inv
  <1> QED BY <1>7, <1>8, <1>9 DEF Inv

LEMMA FinishPackNext ==
    ASSUME Inv, FinishPack, UNCHANGED <<mountVars, readVars>>
    PROVE  Inv'
  <1>1. /\ pack = "write_data" /\ AllSucceeded /\ pack' = "SUCCESS"
        /\ files' = files /\ version' = version
        /\ directories' = directories /\ io' = io /\ UNCHANGED budgets
        /\ written' = written
        /\ disk' = [n \in Names |-> IF InFiles(n) THEN Absent ELSE disk[n]]
    BY DEF FinishPack, Stage
  <1>2. /\ Listed \subseteq Files /\ \A p : InFiles(p) <=> p \in Listed
        /\ IoTypes /\ Image \in Names /\ Image \notin Listed
    BY ListType, TypesFollow, ProcFacts DEF Inv, TypeOK
  <1>3. disk' \in [Names -> Seq(Cells) \cup {Absent}] /\ disk'[Image] = disk[Image]
    BY <1>1, <1>2 DEF IoTypes
  <1>4. disk[Image] # Absent
    BY <1>1 DEF Inv, ImageAt
  <1>5. TypeOK' /\ NoSpuriousFailure' /\ ImageAt'
    <2>1. written \in 0 .. Len(files)
      BY DEF Inv, TypeOK
    <2>2. io' \in [Procs -> CallSet] /\ \A q \in Procs : io'[q].total <= io'[q].size
      BY <1>1, <1>2 DEF IoTypes
    <2> QED BY <1>1, <1>3, <1>4, <2>1, <2>2, AfterPack DEF Labels
  <1>6. Rounds'
    <2>1. ASSUME NEW f \in Listed PROVE RoundAt(f)'
      <3>1. f \in Files /\ PlaceJob(f) /\ Ended(f)
        BY <1>1, <1>2, RoundEnds DEF Inv, Rounds, RoundAt
      <3>2. errors' \in Nat /\ errors' >= errors
        BY <1>1, <1>2, BoundsAssumption DEF IoTypes, budgets
      <3>3. PlaceJob(f)' /\ Ended(f)'
        BY <1>1, <1>2, <1>3, <1>4, <3>1, <3>2, PlaceJobFrame DEF Ended
      <3> QED BY <1>1, <3>3 DEF RoundAt
    <2>2. ASSUME NEW f \in Files, f \notin Listed PROVE io'[f].at = "none"
      BY <1>1, <2>2 DEF Inv, Rounds
    <2> QED BY <1>1, <2>1, <2>2, ListedStays DEF Rounds
  <1>7. PackerAt' /\ ReaderAt'
    <2>1. io'[Packer].at = "none"
      BY <1>1 DEF Inv, PackerAt
    <2>2. UNCHANGED <<files, version, reading>>
      BY <1>1 DEF readVars
    <2> QED BY <1>1, <2>1, <2>2, ReaderFrame DEF PackerAt, Inv
  <1> QED BY <1>5, <1>6, <1>7 DEF Inv

LEMMA PackFailsNext ==
    ASSUME Inv, PackFails, UNCHANGED <<mountVars, readVars>>
    PROVE  Inv'
  <1>1. /\ pack' = "ERROR" /\ files' = files /\ version' = version
        /\ directories' = directories /\ disk' = disk /\ io' = io /\ UNCHANGED budgets
        /\ written' = written
        /\ pack \in {"compress", "metas", "read_temps", "write_data"}
    BY DEF PackFails, Stage, ioVars
  <1>2. IoTypes /\ TypeOK /\ Listed \subseteq Files
    BY TypesFollow, ListType DEF Inv
  <1>3. errors > 0
    <2>1. CASE pack # "metas"
      <3>1. PICK k \in DOMAIN files : io[files[k]].at = "none" /\ io[files[k]].code # "SUCCESS"
        BY <2>1 DEF PackFails, FirstFails, Busy
      <3>2. PICK f : f = files[k]
        OBVIOUS
      <3>3. f \in Listed /\ f \in Files
        BY <1>2, <3>2 DEF Listed
      <3>4. CompressJob(f) \/ ReadJob(f) \/ PlaceJob(f)
        BY <1>1, <2>1, <3>3 DEF Inv, Rounds, RoundAt
      <3> QED BY <3>1, <3>2, <3>4
            DEF CompressJob, PlaceJob, WriteJob, WritePhase, ReadJob, ReadPhase
    <2>2. CASE pack = "metas"
      <3>1. io[Packer].at = "none" /\ io[Packer].code # "SUCCESS"
        BY <2>2 DEF PackFails, Busy
      <3>2. PICK truncate, offset, bytes : PackerWrites(truncate, offset, bytes)
        BY <2>2, PackerJob DEF Inv
      <3>3. WritePhase(io[Packer], errors > 0, disk[Image] # Absent)
        BY <3>2 DEF PackerWrites, WriteJob
      <3> QED BY <3>1, <3>3 DEF WritePhase
    <2> QED BY <2>1, <2>2
  <1>4. TypeOK' /\ NoSpuriousFailure' /\ ImageAt'
    <2>1. written \in 0 .. Len(files)
      BY <1>2 DEF TypeOK
    <2>2. io' \in [Procs -> CallSet] /\ \A q \in Procs : io'[q].total <= io'[q].size
      BY <1>1, <1>2 DEF IoTypes
    <2>3. disk' \in [Names -> Seq(Cells) \cup {Absent}]
      BY <1>1, <1>2 DEF IoTypes
    <2> QED BY <1>1, <1>3, <2>1, <2>2, <2>3, AfterPack DEF Labels
  <1>5. Rounds'
    <2>1. ASSUME NEW f \in Listed PROVE RoundAt(f)'
      <3>1. CompressJob(f) \/ ReadJob(f) \/ PlaceJob(f)
        BY <1>1, <1>2 DEF Inv, Rounds, RoundAt
      <3>2. CompressJob(f)' \/ ReadJob(f)' \/ PlaceJob(f)'
        BY <1>1, <3>1, TasksStay
      <3> QED BY <1>1, <3>2 DEF RoundAt
    <2>2. ASSUME NEW f \in Files, f \notin Listed PROVE io'[f].at = "none"
      BY <1>1, <2>2 DEF Inv, Rounds
    <2> QED BY <1>1, <2>1, <2>2, ListedStays DEF Rounds
  <1>6. PackerAt' /\ ReaderAt'
    <2>1. io'[Packer].at = "none"
      BY <1>1 DEF Inv, PackerAt, PackFails, Busy
    <2>2. UNCHANGED <<files, version, reading>>
      BY <1>1 DEF readVars
    <2> QED BY <1>1, <2>1, <2>2, ReaderFrame DEF PackerAt, Inv
  <1> QED BY <1>4, <1>5, <1>6 DEF Inv

-----------------------------------------------------------------------------
(* The steps of a mount and of a read, and all steps together. *)

LEMMA PackStays ==
    ASSUME Inv, disk' = disk, UNCHANGED <<packVars, budgets>>,
           \A f \in Files : io'[f] = io[f], io'[Packer] = io[Packer]
    PROVE  Rounds' /\ PackerAt'
  <1>1. /\ files' = files /\ version' = version /\ pack' = pack /\ written' = written
        /\ errors' = errors
    BY DEF packVars, budgets
  <1>2. IoTypes /\ Listed \subseteq Files /\ errors \in Nat
    BY TypesFollow, ListType DEF Inv
  <1>3. Rounds'
    <2>1. ASSUME NEW f \in Listed PROVE RoundAt(f)'
      <3>1. RoundAt(f) /\ io'[f] = io[f] /\ f \in Files
        BY <1>2 DEF Inv, Rounds
      <3>2. errors' \in Nat /\ errors' >= errors /\ UNCHANGED <<files, version, pack>>
        BY <1>1, <1>2
      <3> QED BY <1>2, <3>1, <3>2, RoundFrame
    <2>2. ASSUME NEW f \in Files, f \notin Listed PROVE io'[f].at = "none"
      BY <2>2 DEF Inv, Rounds
    <2> QED BY <1>1, <2>1, <2>2, ListedStays DEF Rounds
  <1>4. PackerAt'
    BY <1>1, <1>2, PackerFrame
  <1> QED BY <1>3, <1>4

MountLabels == {"idle", "header", "records", "SUCCESS", "ERROR", "garbled"}

LEMMA AfterMount ==
    ASSUME Inv, UNCHANGED <<ioVars, packVars, readVars>>,
           mount' \in MountLabels, pos' \in Nat, cached' \in Seq(Listed),
           mount' # "idle" => disk[Image] # Absent
    PROVE  Inv'
  <1>1. /\ files' = files /\ version' = version /\ pack' = pack /\ written' = written
        /\ directories' = directories /\ disk' = disk /\ io' = io
        /\ errors' = errors /\ shorts' = shorts /\ stalls' = stalls
        /\ reading' = reading /\ settled' = settled
    BY DEF packVars, ioVars, budgets, readVars
  <1>2. Listed' = Listed /\ Listed \subseteq Files
    BY <1>1, ListedStays, ListType DEF Inv, TypeOK
  <1>3. TypeOK'
    <2>1. cached' \in Seq(Files)
      BY <1>2
    <2> QED BY <1>1, <2>1 DEF Inv, TypeOK, MountLabels
  <1>4. NoSpuriousFailure' /\ ImageAt'
    BY <1>1, <1>2 DEF Inv, NoSpuriousFailure, ImageAt
  <1>5. Rounds' /\ PackerAt'
    BY <1>1, PackStays DEF ioVars
  <1>6. ReaderAt'
    BY <1>1, ReaderFrame DEF Inv
  <1> QED BY <1>3, <1>4, <1>5, <1>6 DEF Inv

\* A record that parses is one of a file in the image.
LEMMA RecordParsed ==
    ASSUME NEW F \in SUBSET Files, NEW bytes \in Seq(CellsOf(F)), NEW at \in Nat,
           NEW v \in 1 .. CURRENT_VERSION, NEW record, record = ParseRecord(bytes, at, v),
           record.code = "record"
    PROVE  record.file \in F /\ record.end \in Nat
  <1>1. PICK strings, f, size :
           /\ strings = at + FileMetaFixedSize(v)
           /\ f = bytes[strings + 1][2]
           /\ size = FileMetaFixedSize(v) + 2 * LengthLen + 2 * NameLen[f] + SuffixLen
    OBVIOUS
  <1>2. record = IF ~Good(bytes, strings, LengthLen) THEN [code |-> "short"]
                 ELSE IF bytes[strings + 1] # <<"length1", f, 1>> THEN [code |-> "garbled"]
                 ELSE IF ~Good(bytes, at, size) THEN [code |-> "short"]
                 ELSE IF Bytes(bytes, at, size) # SerializeFileMetadata(f, v)
                      THEN [code |-> "garbled"]
                 ELSE [code |-> "record", file |-> f, end |-> at + size]
    BY <1>1 DEF ParseRecord
  <1>3. /\ Good(bytes, strings, LengthLen)
        /\ bytes[strings + 1] = <<"length1", f, 1>>
        /\ record = [code |-> "record", file |-> f, end |-> at + size]
    BY <1>2
  <1>4. FileMetaFixedSize(v) \in Nat /\ LengthLen \in Nat \ {0} /\ SuffixLen \in Nat
    BY LengthsAssumption DEF FileMetaFixedSize
  <1>5. strings \in Nat
    BY <1>1, <1>4
  <1>6. strings + 1 \in 1 .. Len(bytes)
    BY <1>3, <1>4, <1>5 DEF Good
  <1>7. <<"length1", f, 1>> \in CellsOf(F)
    BY <1>3, <1>6
  <1>8. f \in F
    BY <1>7 DEF CellsOf
  <1>9. NameLen[f] \in Nat
    BY <1>8, LengthsAssumption
  <1>10. size \in Nat
    <2>1. PICK a, b, c, d : /\ a = FileMetaFixedSize(v) /\ b = LengthLen
                            /\ c = NameLen[f] /\ d = SuffixLen
      OBVIOUS
    <2>2. a \in Nat /\ b \in Nat /\ c \in Nat /\ d \in Nat
      BY <1>4, <1>9, <2>1
    <2>3. a + 2 * b + 2 * c + d \in Nat
      BY <2>2
    <2> QED BY <1>1, <2>1, <2>3
  <1> QED BY <1>3, <1>8, <1>10

LEMMA MountNext ==
    ASSUME Inv, MountStep
    PROVE  Inv'
  <1>1. UNCHANGED <<ioVars, packVars, readVars>>
    BY DEF MountStep
  <1>2. /\ mount \in MountLabels /\ pos \in Nat /\ cached \in Seq(Listed)
        /\ mount # "idle" => disk[Image] # Absent
        /\ disk[Image] # Absent => disk[Image] \in Seq(CellsOf(Listed))
        /\ version \in 1 .. CURRENT_VERSION /\ Listed \subseteq Files
    BY ListType DEF Inv, TypeOK, ImageAt, MountLabels
  <1>3. CASE CallMount
    BY <1>1, <1>2, <1>3, AfterMount DEF CallMount, MountLabels
  <1>4. CASE MountHeader
    <2>1. mount = "header" /\ cached' = cached
      BY <1>4 DEF MountHeader
    <2>2. VolumeMetadata(files, version).metadata_offset = HeaderLen /\ HeaderLen \in Nat
      BY LengthsAssumption DEF VolumeMetadata
    <2>3. mount' \in {"records", "ERROR", "garbled"} /\ pos' \in Nat
      BY <1>2, <1>4, <2>2 DEF MountHeader
    <2> QED BY <1>1, <1>2, <2>1, <2>3, AfterMount DEF MountLabels
  <1>5. CASE MountRecord
    <2>1. PICK record : record = ParseRecord(disk[Image], pos, version)
      OBVIOUS
    <2>2. /\ mount = "records"
          /\ \/ /\ record.code = "record"
                /\ cached' = Append(cached, record.file)
                /\ pos' = record.end
                /\ mount' = mount
             \/ /\ mount' \in {"ERROR", "garbled"}
                /\ pos' = pos /\ cached' = cached
      BY <1>5, <2>1 DEF MountRecord
    <2>3. record.code = "record" => record.file \in Listed /\ record.end \in Nat
      BY <1>2, <2>1, <2>2, RecordParsed
    <2>4. record.code = "record" => Append(cached, record.file) \in Seq(Listed)
      BY <1>2, <2>3
    <2> QED BY <1>1, <1>2, <2>2, <2>3, <2>4, AfterMount DEF MountLabels
  <1>6. CASE FinishMount
    BY <1>1, <1>2, <1>6, AfterMount DEF FinishMount, MountLabels
  <1> QED BY <1>3, <1>4, <1>5, <1>6 DEF MountStep

LEMMA CallReadNext ==
    ASSUME Inv, CallRead
    PROVE  Inv'
  <1>1. PICK f \in Files :
           /\ Readable(f) /\ reading' = f
           /\ io' = [io EXCEPT ![Reader] = AsyncReadAt(Image, Place(f), DataLen[f])]
    BY DEF CallRead
  <1>2. /\ reading = NoFile /\ settled' = (pack \in {"SUCCESS", "none"})
        /\ UNCHANGED <<directories, disk, budgets, packVars, mountVars>>
    BY DEF CallRead
  <1>3. /\ files' = files /\ version' = version /\ pack' = pack /\ written' = written
        /\ directories' = directories /\ disk' = disk
        /\ errors' = errors /\ shorts' = shorts /\ stalls' = stalls
        /\ mount' = mount /\ pos' = pos /\ cached' = cached
    BY <1>2 DEF packVars, budgets, mountVars
  <1>4. TypeOK /\ ImageAt /\ files \in PendingLists /\ version \in 1 .. CURRENT_VERSION
    BY DEF Inv, TypeOK
  <1>5. f \in Listed /\ disk[Image] # Absent
    <2>1. CASE pack = "SUCCESS" /\ InFiles(f)
      BY <1>4, <2>1, ListType DEF ImageAt
    <2>2. CASE mount = "SUCCESS" /\ \E k \in DOMAIN cached : cached[k] = f
      BY <1>4, <2>2 DEF ImageAt
    <2> QED BY <1>1, <2>1, <2>2 DEF Readable
  <1>6. PICK c, offset, size :
           /\ offset = Place(f) /\ size = DataLen[f]
           /\ c = AsyncReadAt(Image, offset, size)
    OBVIOUS
  <1>7. offset \in Nat /\ size \in Nat /\ Image \in Names
    BY <1>4, <1>5, <1>6, PlaceType, LengthsAssumption, ProcFacts
  <1>8. /\ c \in CallSet /\ c.name = Image /\ c.offset = offset /\ c.size = size
        /\ c.buffer = <<>> /\ c.at = "open_at" /\ c.code = "none"
        /\ c.total = 0 /\ c.total <= c.size
    BY <1>6, <1>7, ReadAtCall
  <1>9. io' = [io EXCEPT ![Reader] = c]
    BY <1>1, <1>6
  <1>10. io \in [Procs -> CallSet] /\ \A q \in Procs : io[q].total <= io[q].size
    BY <1>4 DEF TypeOK, CallSet
  <1>11. /\ io' \in [Procs -> CallSet] /\ \A q \in Procs : io'[q].total <= io'[q].size
         /\ io'[Reader] = c /\ io'[Packer] = io[Packer]
         /\ \A g \in Files : io'[g] = io[g]
    BY <1>8, <1>9, <1>10, ProcFacts
  <1>12. TypeOK'
    BY <1>1, <1>2, <1>3, <1>4, <1>11 DEF TypeOK, CallSet
  <1>13. NoSpuriousFailure' /\ ImageAt'
    BY <1>3, <1>5, ListedStays DEF Inv, NoSpuriousFailure, ImageAt
  <1>14. Rounds' /\ PackerAt'
    BY <1>2, <1>3, <1>11, PackStays
  <1>15. ReaderAt'
    <2>1. Place(f)' = offset
      BY <1>3, <1>6, PlaceStays
    <2>2. ReadAtPhase(c)
      <3>1. Len(<<>>) = 0
        OBVIOUS
      <3> QED BY <1>8, <3>1 DEF ReadAtPhase
    <2>3. ReadAtJob(f)'
      BY <1>6, <1>8, <1>11, <2>1, <2>2 DEF ReadAtJob
    <2>4. reading' # NoFile /\ f \in Listed'
      BY <1>1, <1>3, <1>5, ListedStays, LengthsAssumption
    <2> QED BY <1>1, <2>3, <2>4 DEF ReaderAt
  <1> QED BY <1>12, <1>13, <1>14, <1>15 DEF Inv

LEMMA StutterNext ==
    ASSUME Inv, UNCHANGED vars
    PROVE  Inv'
  <1>1. /\ UNCHANGED <<ioVars, packVars, readVars>>
        /\ mount' = mount /\ pos' = pos /\ cached' = cached
    BY DEF vars, mountVars
  <1>2. /\ mount \in MountLabels /\ pos \in Nat /\ cached \in Seq(Listed)
        /\ mount # "idle" => disk[Image] # Absent
    BY DEF Inv, TypeOK, ImageAt, MountLabels
  <1> QED BY <1>1, <1>2, AfterMount

LEMMA InvNext ==
    ASSUME Inv, [Next]_vars
    PROVE  Inv'
  <1>1. CASE PackStep
    <2>1. UNCHANGED <<mountVars, readVars>>
      BY <1>1 DEF PackStep
    <2> QED BY <1>1, <2>1, CompressFilesNext, WriteHeaderNext, WriteMetaNext, ReadTempsNext,
               WriteDataNext, FinishPackNext, PackFailsNext DEF PackStep
  <1>2. CASE MountStep
    BY <1>2, MountNext
  <1>3. CASE CallRead
    BY <1>3, CallReadNext
  <1>4. CASE \E p \in Procs : IoStep(p)
    BY <1>4, IoNext
  <1>5. CASE Rest \/ UNCHANGED vars
    BY <1>5, StutterNext DEF Rest
  <1> QED BY <1>1, <1>2, <1>3, <1>4, <1>5 DEF Next

LEMMA InvHolds == Spec => []Inv
  <1>1. Init => Inv
    BY InvInit
  <1>2. Inv /\ [Next]_vars => Inv'
    BY InvNext
  <1> QED BY <1>1, <1>2, PTL DEF Spec

\* Whatever the files, the lengths of fields and the splits of transfers, every variable
\* has its type, and no function transfers more than it was asked to.
THEOREM ImageTypes == Spec => []TypeOK
  <1>1. Inv => TypeOK
    BY DEF Inv
  <1> QED BY <1>1, InvHolds, PTL

\* A batch or a pack fails only if a system call did: PackVolumeInternal returns an error
\* only for a future whose function met one.
THEOREM OnlyErrorsFail == Spec => []NoSpuriousFailure
  <1>1. Inv => NoSpuriousFailure
    BY DEF Inv
  <1> QED BY <1>1, InvHolds, PTL

-----------------------------------------------------------------------------
(* What is in the image, if its fields are wide enough for it. *)

LEMMA LaidHere ==
    ASSUME files \in PendingLists, version \in 1 .. CURRENT_VERSION
    PROVE  /\ Laid(Reference, files, version, Listed)
           /\ RecordEnd(files, version, Len(files)) = DataBegin
           /\ DataEnd(files, version, 0) = DataBegin
           /\ Reference \in Seq(CellsOf(Listed)) /\ Len(Reference) \in Nat
           /\ DataBegin \in HeaderLen .. Len(Reference) /\ HeaderLen \in Nat
  <1>1. files \in Seq(Listed) /\ Listed \in SUBSET Files
    BY ListType
  <1>2. Laid(Reference, files, version, Listed)
    BY <1>1, ImageLaid DEF Reference
  <1>3. RecordEnd(files, version, Len(files)) = DataBegin
    <2>1. SubSeq(files, 1, Len(files)) = files
      BY <1>1
    <2> QED BY <2>1 DEF RecordEnd, DataBegin
  <1>4. PICK a, b : a = DataEnd(files, version, 0) /\ b = Reference
    OBVIOUS
  <1>5. a = DataBegin /\ b \in Seq(CellsOf(Listed)) /\ a \in HeaderLen .. Len(b)
    BY <1>2, <1>3, <1>4 DEF Laid
  <1>6. HeaderLen \in Nat
    BY LengthsAssumption
  <1> QED BY <1>2, <1>3, <1>4, <1>5, <1>6

\* The place that 32-bit arithmetic gives to a file is where its data belongs.
LEMMA PlaceExact ==
    ASSUME FieldsFit, files \in PendingLists, version \in 1 .. CURRENT_VERSION,
           NEW k \in 1 .. Len(files)
    PROVE  /\ Place(files[k]) = DataEnd(files, version, k - 1)
           /\ DataEnd(files, version, k - 1) \in DataBegin .. Len(Reference)
  <1>1. /\ Laid(Reference, files, version, Listed)
        /\ DataEnd(files, version, 0) = DataBegin
        /\ DataBegin \in HeaderLen .. Len(Reference) /\ HeaderLen \in Nat
        /\ Len(Reference) \in Nat
    BY LaidHere
  <1>2. Len(Reference) < Word /\ Word \in Nat \ {0}
    BY LengthsAssumption DEF FieldsFit, Reference
  <1>3. k - 1 \in 0 .. Len(files)
    BY ListType
  <1>4. DataEnd(files, version, k - 1) \in DataBegin .. Len(Reference)
    BY <1>1, <1>3 DEF Laid
  <1>5. PICK begin, part, end :
           /\ begin = DataBegin /\ part = Len(UserData(SubSeq(files, 1, k - 1)))
           /\ end = DataEnd(files, version, k - 1)
    OBVIOUS
  <1>6. end = begin + part
    BY <1>5 DEF DataEnd, DataBegin
  <1>7. begin \in Nat /\ end \in Nat /\ begin < Word /\ end < Word
    BY <1>1, <1>2, <1>4, <1>5
  <1>8. begin % Word = begin /\ end % Word = end
    BY <1>2, <1>7
  <1>9. UserDataOffset(files, version) = begin
    BY <1>5, <1>8 DEF UserDataOffset, DataBegin
  <1>10. OffsetInVolume(files, version, k) = end
    BY <1>5, <1>6, <1>8, <1>9 DEF OffsetInVolume
  <1> QED BY <1>4, <1>5, <1>10, PlaceOf

\* Bytes that belong at an offset of r.
Belongs(bytes, offset, r) ==
    /\ offset + Len(bytes) <= Len(r)
    /\ \A j \in 1 .. Len(bytes) : r[offset + j] = bytes[j]

LEMMA DataBelongs ==
    ASSUME FieldsFit, files \in PendingLists, version \in 1 .. CURRENT_VERSION, NEW f \in Listed
    PROVE  Belongs(EncodeData(f), Place(f), Reference) /\ DataBegin <= Place(f)
  <1>1. PICK k \in 1 .. Len(files) : f = files[k]
    BY ListType DEF Listed
  <1>2. /\ Place(f) = DataEnd(files, version, k - 1)
        /\ DataEnd(files, version, k - 1) \in DataBegin .. Len(Reference)
    BY <1>1, PlaceExact
  <1>3. Laid(Reference, files, version, Listed) /\ DataBegin \in Nat /\ Len(Reference) \in Nat
        /\ DataEnd(files, version, 0) = DataBegin
    BY LaidHere
  <1>4. DataLaid(Reference, files, version, k)
    BY <1>3 DEF Laid
  <1>5. k \in 0 .. Len(files)
    BY ListType
  <1>6. DataEnd(files, version, k) <= Len(Reference)
    <2>1. DataEnd(files, version, k) \in DataBegin .. Len(Reference)
      BY <1>3, <1>5 DEF Laid
    <2> QED BY <1>3, <2>1
  <1>7. Len(EncodeData(f)) = DataLen[f]
    BY ListType, DataType
  <1>8. DataEnd(files, version, k - 1) + Len(EncodeData(f)) <= Len(Reference)
    BY <1>1, <1>4, <1>6, <1>7 DEF DataLaid
  <1>9. \A j \in 1 .. Len(EncodeData(f)) :
           Reference[DataEnd(files, version, k - 1) + j] = EncodeData(f)[j]
    BY <1>1, <1>4, <1>7 DEF DataLaid
  <1>10. DataBegin <= Place(f)
    BY <1>2, <1>3
  <1> QED BY <1>2, <1>8, <1>9, <1>10 DEF Belongs

LEMMA HeaderBelongs ==
    ASSUME files \in PendingLists, version \in 1 .. CURRENT_VERSION
    PROVE  Belongs(EncodeHeader, 0, Reference)
  <1>1. /\ Laid(Reference, files, version, Listed)
        /\ DataBegin \in HeaderLen .. Len(Reference) /\ HeaderLen \in Nat
    BY LaidHere
  <1>2. Len(EncodeHeader) = HeaderLen
    BY HeaderType
  <1>3. \A j \in 1 .. HeaderLen : Reference[j] = EncodeHeader[j]
    BY <1>1 DEF Laid
  <1>4. \A j \in 1 .. HeaderLen : 0 + j = j
    BY <1>1
  <1> QED BY <1>1, <1>2, <1>3, <1>4 DEF Belongs

\* The record of file k goes from where the last one ends to where the next one begins.
LEMMA RecordBelongs ==
    ASSUME files \in PendingLists, version \in 1 .. CURRENT_VERSION, NEW k \in 1 .. Len(files)
    PROVE  /\ Belongs(SerializeFileMetadata(files[k], version),
                      RecordEnd(files, version, k - 1), Reference)
           /\ RecordEnd(files, version, k) =
                 RecordEnd(files, version, k - 1) + Len(SerializeFileMetadata(files[k], version))
           /\ Len(SerializeFileMetadata(files[k], version)) = RecordSize(files[k], version)
           /\ RecordEnd(files, version, k) <= DataBegin
           /\ RecordEnd(files, version, k) \in Nat /\ RecordEnd(files, version, k - 1) \in Nat
  <1>1. /\ Laid(Reference, files, version, Listed)
        /\ DataEnd(files, version, 0) = DataBegin
        /\ DataBegin \in HeaderLen .. Len(Reference) /\ HeaderLen \in Nat
        /\ Len(Reference) \in Nat
    BY LaidHere
  <1>2. files[k] \in Listed /\ files[k] \in Files /\ k \in 0 .. Len(files) /\ k - 1 \in 0 .. Len(files)
    BY ListType, RecordOffset
  <1>3. Len(SerializeFileMetadata(files[k], version)) = RecordSize(files[k], version)
    BY <1>2, RecordBytes
  <1>4. RecordLaid(Reference, files, version, k)
    BY <1>1 DEF Laid
  <1>5. /\ RecordEnd(files, version, k) \in HeaderLen .. DataBegin
        /\ RecordEnd(files, version, k - 1) \in HeaderLen .. DataBegin
    BY <1>1, <1>2 DEF Laid
  <1>6. PICK a, b, n, m : /\ a = RecordEnd(files, version, k - 1)
                          /\ b = RecordEnd(files, version, k)
                          /\ n = Len(SerializeFileMetadata(files[k], version))
                          /\ m = DataBegin
    OBVIOUS
  <1>7. b = a + n
    BY <1>3, <1>4, <1>6 DEF RecordLaid
  <1>8. a \in Nat /\ b \in Nat /\ b <= m /\ m <= Len(Reference) /\ m \in Nat
    BY <1>1, <1>5, <1>6
  <1>9. a + n <= Len(Reference)
    BY <1>1, <1>7, <1>8
  <1>10. \A j \in 1 .. n : Reference[a + j] = SerializeFileMetadata(files[k], version)[j]
    BY <1>3, <1>4, <1>6 DEF RecordLaid
  <1>11. Belongs(SerializeFileMetadata(files[k], version), a, Reference)
    BY <1>6, <1>9, <1>10 DEF Belongs
  <1> QED BY <1>3, <1>6, <1>7, <1>8, <1>11

\* What OverwrittenBytes says of a write of more at start.
WrittenOver(new, old, start, more) ==
    /\ Len(new) = IF Len(old) >= start + Len(more) THEN Len(old) ELSE start + Len(more)
    /\ \A k \in 1 .. Len(new) :
          new[k] = IF k > start /\ k <= start + Len(more) THEN more[k - start]
                   ELSE IF k <= Len(old) THEN old[k] ELSE Hole

PartOf(more, bytes, total, n) ==
    Len(more) = n /\ \A k \in 1 .. n : more[k] = bytes[total + k]

\* A write of bytes where they belong: nothing that was in place is lost, the bytes are
\* in place, and there is no gap before the user data.
LEMMA RightWrite ==
    ASSUME NEW S, Hole \in S, NEW r \in Seq(S), NEW m \in Nat,
           NEW old \in Seq(S), RightBytes(old, r, m),
           NEW bytes \in Seq(S), NEW offset \in Nat, Belongs(bytes, offset, r),
           NEW total \in Nat, NEW n \in Nat \ {0}, total + n <= Len(bytes),
           NEW more \in Seq(S), PartOf(more, bytes, total, n),
           NEW start, start = offset + total, NEW new \in Seq(S), WrittenOver(new, old, start, more),
           start = Len(old) \/ m <= Len(old)
    PROVE  /\ RightBytes(new, r, m)
           /\ Len(new) \in Nat /\ Len(old) <= Len(new)
           /\ start = Len(old) => Len(new) = start + n
           /\ \A x \in Nat \ {0} : SameAt(old, r, x) => SameAt(new, r, x)
           /\ \A j \in 1 .. (total + n) : j > total => SameAt(new, r, offset + j)
  <1>1. /\ more \in Seq(S) /\ Len(more) = n
        /\ \A k \in 1 .. n : more[k] = bytes[total + k]
    BY DEF PartOf
  <1>2. start \in Nat
    OBVIOUS
  <1>3. /\ Len(new) = IF Len(old) >= start + Len(more) THEN Len(old) ELSE start + Len(more)
        /\ \A k \in 1 .. Len(new) :
              new[k] = IF k > start /\ k <= start + Len(more) THEN more[k - start]
                       ELSE IF k <= Len(old) THEN old[k] ELSE Hole
    BY DEF WrittenOver
  <1>4. /\ Len(old) \in Nat /\ Len(new) \in Nat /\ Len(r) \in Nat /\ Len(bytes) \in Nat
        /\ Len(old) <= Len(new) /\ start + n <= Len(new)
        /\ start = Len(old) => Len(new) = start + n
    BY <1>1, <1>2, <1>3
  <1>5. Len(old) <= Len(r) /\ offset + Len(bytes) <= Len(r)
    BY DEF RightBytes, Belongs
  <1>6. Len(new) <= Len(r)
    <2>1. start + n <= Len(r)
      BY <1>4, <1>5
    <2> QED BY <1>1, <1>3, <1>4, <1>5, <2>1
  <1>7. ASSUME NEW x \in Nat, x > start, x <= start + n
        PROVE  x \in 1 .. Len(new) /\ new[x] = r[x]
    <2>1. x \in 1 .. Len(new) /\ x - start \in 1 .. n
      BY <1>2, <1>4, <1>7
    <2>2. new[x] = more[x - start]
      BY <1>1, <1>3, <1>7, <2>1
    <2>3. PICK j : j = total + (x - start)
      OBVIOUS
    <2>4. j \in 1 .. Len(bytes) /\ offset + j = x
      BY <1>2, <1>4, <2>1, <2>3
    <2>5. new[x] = bytes[j]
      BY <1>1, <2>1, <2>2, <2>3
    <2>6. r[offset + j] = bytes[j]
      BY <2>4 DEF Belongs
    <2> QED BY <2>1, <2>4, <2>5, <2>6
  <1>8. ASSUME NEW x \in 1 .. Len(old), ~(x > start /\ x <= start + n)
        PROVE  x \in 1 .. Len(new) /\ new[x] = old[x]
    <2>1. x \in 1 .. Len(new) /\ x <= Len(old)
      BY <1>4
    <2> QED BY <1>1, <1>3, <1>8, <2>1
  <1>9. ASSUME NEW x \in 1 .. Len(new)
        PROVE  new[x] = r[x] \/ (x > m /\ new[x] = Hole)
    <2>1. CASE x > start /\ x <= start + n
      BY <1>7, <2>1
    <2>2. CASE ~(x > start /\ x <= start + n) /\ x <= Len(old)
      <3>1. x \in 1 .. Len(old)
        BY <1>4, <2>2
      <3> QED BY <1>8, <2>2, <3>1 DEF RightBytes
    <2>3. CASE ~(x > start /\ x <= start + n) /\ ~(x <= Len(old))
      <3>1. new[x] = Hole
        BY <1>1, <1>3, <2>3
      <3>2. x > m
        BY <1>1, <1>2, <1>3, <1>4, <2>3
      <3> QED BY <3>1, <3>2
    <2> QED BY <2>1, <2>2, <2>3
  <1>10. RightBytes(new, r, m)
    BY <1>6, <1>9 DEF RightBytes
  <1>11. ASSUME NEW x \in Nat \ {0}, SameAt(old, r, x)
         PROVE  SameAt(new, r, x)
    <2>1. x \in 1 .. Len(old) /\ old[x] = r[x]
      BY <1>4, <1>11 DEF SameAt
    <2>2. x \in 1 .. Len(new) /\ new[x] = r[x]
      BY <1>7, <1>8, <2>1
    <2> QED BY <1>4, <2>2 DEF SameAt
  <1>12. ASSUME NEW j \in 1 .. (total + n), j > total
         PROVE  SameAt(new, r, offset + j)
    <2>1. PICK x : x = offset + j
      OBVIOUS
    <2>2. x \in Nat /\ x > start /\ x <= start + n
      BY <1>2, <1>12, <2>1
    <2>3. x \in 1 .. Len(new) /\ new[x] = r[x]
      BY <1>7, <2>2
    <2> QED BY <1>4, <2>1, <2>3 DEF SameAt
  <1> QED BY <1>4, <1>10, <1>11, <1>12

RightAfter(new, old, r, m, offset, total, n) ==
    /\ RightBytes(new, r, m)
    /\ Len(new) \in Nat /\ Len(old) <= Len(new)
    /\ offset + total = Len(old) => Len(new) = offset + (total + n)
    /\ \A x \in Nat \ {0} : SameAt(old, r, x) => SameAt(new, r, x)
    /\ \A j \in 1 .. (total + n) : j > total => SameAt(new, r, offset + j)

LEMMA RightPut ==
    ASSUME NEW S, Hole \in S, NEW r \in Seq(S), NEW m \in Nat,
           NEW old \in Seq(S), RightBytes(old, r, m),
           NEW bytes \in Seq(S), NEW offset \in Nat, Belongs(bytes, offset, r),
           NEW total \in Nat, NEW n \in Nat \ {0}, n <= Len(bytes) - total,
           offset + total = Len(old) \/ m <= Len(old)
    PROVE  RightAfter(Overwritten(old, offset + total, SubSeq(bytes, total + 1, total + n)),
                      old, r, m, offset, total, n)
  <1>1. total + n <= Len(bytes) /\ n \in Nat /\ offset + total \in Nat
    OBVIOUS
  <1>2. PICK start, more : start = offset + total /\ more = SubSeq(bytes, total + 1, total + n)
    OBVIOUS
  <1>3. more \in Seq(S) /\ Len(more) = n /\ \A k \in 1 .. n : more[k] = bytes[total + k]
    <2>1. /\ SubSeq(bytes, total + 1, total + n) \in Seq(S)
          /\ Len(SubSeq(bytes, total + 1, total + n)) = n
          /\ \A k \in 1 .. n : SubSeq(bytes, total + 1, total + n)[k] = bytes[total + k]
      BY <1>1, PartBytes
    <2> QED BY <1>2, <2>1
  <1>4. PICK new : new = Overwritten(old, start, more)
    OBVIOUS
  <1>5. new \in Seq(S) /\ WrittenOver(new, old, start, more)
    <2>1. start \in Nat
      BY <1>1, <1>2
    <2>2. /\ Overwritten(old, start, more) \in Seq(S)
          /\ Len(Overwritten(old, start, more)) =
                IF Len(old) >= start + Len(more) THEN Len(old) ELSE start + Len(more)
          /\ \A k \in 1 .. Len(Overwritten(old, start, more)) :
                Overwritten(old, start, more)[k] =
                   IF k > start /\ k <= start + Len(more) THEN more[k - start]
                   ELSE IF k <= Len(old) THEN old[k] ELSE Hole
      BY <1>3, <2>1, OverwrittenBytes
    <2> QED BY <1>4, <2>2 DEF WrittenOver
  <1>6. start = offset + total /\ (start = Len(old) \/ m <= Len(old))
    BY <1>2
  <1>7. /\ RightBytes(new, r, m)
        /\ Len(new) \in Nat /\ Len(old) <= Len(new)
        /\ start = Len(old) => Len(new) = start + n
        /\ \A x \in Nat \ {0} : SameAt(old, r, x) => SameAt(new, r, x)
        /\ \A j \in 1 .. (total + n) : j > total => SameAt(new, r, offset + j)
    <2>1. more \in Seq(S) /\ PartOf(more, bytes, total, n)
      BY <1>3 DEF PartOf
    <2>2. start = offset + total
      BY <1>6
    <2> QED BY <1>1, <1>5, <1>6, <2>1, <2>2, RightWrite
  <1>8. start + n = offset + (total + n)
    BY <1>2
  <1> QED BY <1>2, <1>4, <1>7, <1>8 DEF RightAfter

-----------------------------------------------------------------------------
(* What a system call does to the image. *)

LEMMA ReferenceStays ==
    ASSUME files' = files, version' = version
    PROVE  Reference' = Reference /\ DataBegin' = DataBegin /\ Listed' = Listed
  BY DEF Reference, DataBegin, Listed

\* What was in place stays in place.
Grows ==
    /\ RightBytes(disk'[Image], Reference, DataBegin)
    /\ Len(disk'[Image]) \in Nat /\ Len(disk[Image]) <= Len(disk'[Image])
    /\ \A x \in Nat \ {0} : InPlace(x) => SameAt(disk'[Image], Reference, x)

PartInPlace(offset, first, last) ==
    \A j \in 1 .. last : j > first => SameAt(disk'[Image], Reference, offset + j)

LEMMA ImagePut ==
    ASSUME files \in PendingLists, version \in 1 .. CURRENT_VERSION,
           NEW p \in Procs, IoTypes, NEW truncate, NEW offset \in Nat,
           NEW bytes \in Seq(CellsOf(Listed)),
           WriteJob(p, Image, truncate, offset, bytes), NEW n \in Nat \ {0}, Puts(p, n),
           disk[Image] \in Seq(CellsOf(Listed)), RightBytes(disk[Image], Reference, DataBegin),
           Belongs(bytes, offset, Reference),
           offset + io[p].total = Len(disk[Image]) \/ DataBegin <= Len(disk[Image])
    PROVE  /\ Grows
           /\ io'[p].total = io[p].total + n
           /\ offset + io[p].total = Len(disk[Image]) => Len(disk'[Image]) = offset + io'[p].total
           /\ PartInPlace(offset, io[p].total, io'[p].total)
  <1>1. /\ io[p].name = Image /\ io[p].offset = offset /\ io[p].buffer = bytes
        /\ io[p].size = Len(bytes) /\ io[p].total \in Nat
    BY DEF WriteJob, WriteCall, IoTypes, CallSet, Calls
  <1>2. PICK S, r, m, old, total :
           /\ S = CellsOf(Listed) /\ r = Reference /\ m = DataBegin /\ old = disk[Image]
           /\ total = io[p].total
    OBVIOUS
  <1>3. PICK new : new = disk'[Image]
    OBVIOUS
  <1>4. /\ new = Overwritten(old, offset + total, SubSeq(bytes, total + 1, total + n))
        /\ io'[p].total = total + n /\ n <= Len(bytes) - total
    BY <1>1, <1>2, <1>3 DEF Puts, Advances, File
  <1>5. /\ r \in Seq(S) /\ m \in Nat /\ Hole \in S /\ total \in Nat
        /\ old \in Seq(S) /\ RightBytes(old, r, m)
        /\ bytes \in Seq(S) /\ Belongs(bytes, offset, r)
        /\ offset + total = Len(old) \/ m <= Len(old)
    <2>1. Reference \in Seq(CellsOf(Listed)) /\ DataBegin \in Nat
      BY LaidHere
    <2> QED BY <1>1, <1>2, <2>1, HoleOf
  <1>6. RightAfter(new, old, r, m, offset, total, n)
    BY <1>4, <1>5, RightPut
  <1>7. Grows
    BY <1>2, <1>3, <1>6 DEF Grows, InPlace, RightAfter
  <1>8. PartInPlace(offset, io[p].total, io'[p].total)
    BY <1>2, <1>3, <1>4, <1>6 DEF PartInPlace, RightAfter
  <1>9. offset + total = Len(old) => Len(new) = offset + (total + n)
    BY <1>6 DEF RightAfter
  <1> QED BY <1>2, <1>3, <1>4, <1>7, <1>8, <1>9

LEMMA ImageKept ==
    ASSUME disk'[Image] = disk[Image], disk[Image] \in Seq(CellsOf(Listed)),
           RightBytes(disk[Image], Reference, DataBegin)
    PROVE  Grows
  BY DEF Grows, InPlace

\* The data of a file comes to its place.
LEMMA PlaceGrows ==
    ASSUME FieldsFit, Inv, ImageInv, NEW f \in Listed, FileIOStep(f),
           UNCHANGED <<files, version, pack>>, io[f].name = Image
    PROVE  /\ Grows
           /\ \A j \in 1 .. io'[f].total : SameAt(disk'[Image], Reference, Place(f) + j)
  <1>1. PlaceJob(f) /\ pack \in {"write_data", "ERROR"}
        /\ (WriteCase(f) \/ Breaks(f) \/ Waits(f))
    BY TaskStep
  <1>2. /\ files \in PendingLists /\ version \in 1 .. CURRENT_VERSION /\ IoTypes
        /\ f \in Procs /\ Listed \subseteq Files
    BY TypesFollow, ListType, ProcFacts DEF Inv
  <1>3. disk[Image] \in Seq(CellsOf(Listed)) /\ RightBytes(disk[Image], Reference, DataBegin)
    BY <1>1 DEF PlaceJob, Inv, ImageAt, ImageInv, ImageRight
  <1>4. PICK offset, bytes, total : /\ offset = Place(f) /\ bytes = EncodeData(f)
                                    /\ total = io[f].total
    OBVIOUS
  <1>5. /\ DataBegin <= Len(disk[Image])
        /\ \A j \in 1 .. total : InPlace(offset + j)
    BY <1>1, <1>4 DEF ImageInv, DataWritten
  <1>6. offset \in Nat /\ bytes \in Seq(CellsOf(Listed)) /\ total \in Nat
    BY <1>2, <1>4, PlaceType, DataCells DEF IoTypes, CallSet, Calls
  <1>7. WriteJob(f, Image, FALSE, offset, bytes) /\ disk[Image] # Absent
    BY <1>1, <1>4 DEF PlaceJob
  <1>8. CASE \E n \in Nat \ {0} : Puts(f, n)
    <2>1. PICK n \in Nat \ {0} : Puts(f, n)
      BY <1>8
    <2>2. Belongs(bytes, offset, Reference)
      BY <1>2, <1>4, DataBelongs
    <2>3. /\ Grows
          /\ io'[f].total = io[f].total + n
          /\ PartInPlace(offset, io[f].total, io'[f].total)
      BY <1>2, <1>3, <1>5, <1>6, <1>7, <2>1, <2>2, ImagePut
    <2>4. ASSUME NEW j \in 1 .. io'[f].total
          PROVE  SameAt(disk'[Image], Reference, offset + j)
      <3>1. j \in Nat \ {0} /\ offset + j \in Nat \ {0}
        BY <1>4, <1>6, <2>3
      <3>2. CASE j > total
        BY <1>4, <2>3, <3>2 DEF PartInPlace
      <3>3. CASE j <= total
        <4>1. InPlace(offset + j)
          BY <1>5, <1>6, <3>1, <3>3
        <4> QED BY <2>3, <3>1, <4>1 DEF Grows
      <3> QED BY <1>6, <3>1, <3>2, <3>3
    <2> QED BY <1>4, <2>3, <2>4
  <1>9. CASE Climbs(f) \/ Opens(f) \/ Breaks(f) \/ Waits(f)
    <2>1. disk'[Image] = disk[Image]
      BY <1>7, <1>9 DEF Climbs, Opens, Breaks, Waits, WriteJob, WriteCall, File
    <2>2. io'[f].total = io[f].total
      BY <1>9 DEF Climbs, Opens, Breaks, Waits, DataUntouched
    <2>3. Grows
      BY <1>3, <2>1, ImageKept
    <2> QED BY <1>4, <1>5, <2>1, <2>2, <2>3 DEF InPlace
  <1> QED BY <1>1, <1>8, <1>9 DEF WriteCase

\* The header and the records come one after the other.
LEMMA PackerGrows ==
    ASSUME Inv, ImageInv, FileIOStep(Packer), UNCHANGED <<files, version, pack, written>>
    PROVE  ImageRight' /\ HeadWritten'
  <1>1. /\ StepEffect(Packer) /\ pack = "metas" /\ pack' = "metas" /\ written' = written
        /\ WriteCase(Packer) \/ Breaks(Packer) \/ Waits(Packer)
        /\ Reference' = Reference /\ DataBegin' = DataBegin
    BY PackerStep, ReferenceStays
  <1>2. /\ files \in PendingLists /\ version \in 1 .. CURRENT_VERSION /\ IoTypes
        /\ Packer \in Procs /\ written \in 0 .. Len(files) /\ Len(files) \in Nat
        /\ io[Packer].at # "none"
    BY TypesFollow, ListType, ProcFacts, IdleNoStep DEF Inv, TypeOK
  <1>3. PICK truncate, offset, bytes :
              /\ PackerWrites(truncate, offset, bytes)
              /\ written = 0 => truncate = TRUE /\ offset = 0 /\ bytes = EncodeHeader
              /\ written # 0 =>
                    /\ truncate = FALSE
                    /\ offset = HeaderLen + Len(Records(SubSeq(files, 1, written - 1), version))
                    /\ bytes = SerializeFileMetadata(files[written], version)
                    /\ disk[Image] # Absent
    BY <1>1, PackerJob DEF Inv
  <1>4. /\ WriteJob(Packer, Image, truncate, offset, bytes)
        /\ offset \in Nat /\ bytes \in Seq(CellsOf(Listed))
    BY <1>3 DEF PackerWrites
  <1>5. /\ io[Packer].name = Image /\ io[Packer].truncate = truncate
        /\ io[Packer].offset = offset /\ io[Packer].size = Len(bytes)
        /\ io'[Packer].offset = offset /\ io[Packer].total \in Nat
        /\ WritePhase(io[Packer], errors > 0, disk[Image] # Absent)
    BY <1>1, <1>2, <1>4 DEF WriteJob, WriteCall, StepEffect, TargetKept, IoTypes, CallSet, Calls
  <1>6. Belongs(bytes, offset, Reference)
    <2>1. CASE written = 0
      BY <1>2, <1>3, <2>1, HeaderBelongs
    <2>2. CASE written # 0
      <3>1. written \in 1 .. Len(files)
        BY <1>2, <2>2
      <3> QED BY <1>2, <1>3, <2>2, <3>1, RecordBelongs DEF RecordEnd
    <2> QED BY <2>1, <2>2
  <1>7. io[Packer].at = "pwrite" \/ written > 0 =>
           Len(disk[Image]) = offset + io[Packer].total
    BY <1>1, <1>2, <1>5 DEF ImageInv, HeadWritten
  <1>8. disk[Image] # Absent =>
           disk[Image] \in Seq(CellsOf(Listed)) /\ RightBytes(disk[Image], Reference, DataBegin)
    BY DEF Inv, ImageAt, ImageInv, ImageRight
  <1>9. CASE Climbs(Packer) \/ Breaks(Packer) \/ Waits(Packer)
    <2>1. disk' = disk /\ io'[Packer].total = io[Packer].total
      BY <1>9 DEF Climbs, Breaks, Waits, DataUntouched
    <2>2. ImageRight'
      BY <1>1, <1>8, <2>1 DEF ImageRight
    <2>3. CASE Climbs(Packer)
      <3>1. io[Packer].code = "none"
        BY <1>5, <2>3 DEF Climbs, WritePhase
      <3>2. io'[Packer].at # "pwrite" /\ io'[Packer].code # "SUCCESS"
        BY <2>3, <3>1 DEF Climbs, Passing
      <3> QED BY <1>1, <1>5, <1>7, <2>1, <2>2, <3>2 DEF HeadWritten
    <2>4. CASE Breaks(Packer)
      <3>1. io'[Packer].at = "none" /\ io'[Packer].code # "SUCCESS"
        BY <2>4 DEF Breaks
      <3> QED BY <1>1, <2>2, <3>1 DEF HeadWritten
    <2>5. CASE Waits(Packer)
      <3>1. io' = io
        BY <2>5 DEF Waits
      <3> QED BY <1>1, <2>1, <2>2, <3>1 DEF HeadWritten, ImageInv
    <2> QED BY <1>9, <2>3, <2>4, <2>5
  <1>10. CASE Opens(Packer)
    <2>1. /\ disk'[Image] = IF truncate \/ disk[Image] = Absent THEN <<>> ELSE disk[Image]
          /\ io'[Packer].total = io[Packer].total /\ io[Packer].total = 0
      BY <1>5, <1>10 DEF Opens, File, DataUntouched, WritePhase
    <2>2. CASE written = 0
      <3>1. disk'[Image] = <<>> /\ offset = 0
        BY <1>3, <2>1, <2>2
      <3>2. Len(<<>>) = 0 /\ 1 .. 0 = {}
        OBVIOUS
      <3>3. Len(Reference) \in Nat
        BY <1>2, LaidHere
      <3>4. RightBytes(<<>>, Reference, DataBegin)
        BY <3>2, <3>3 DEF RightBytes
      <3> QED BY <1>1, <1>5, <2>1, <3>1, <3>2, <3>4 DEF ImageRight, HeadWritten
    <2>3. CASE written # 0
      <3>1. disk'[Image] = disk[Image] /\ written > 0
        BY <1>2, <1>3, <2>1, <2>3
      <3> QED BY <1>1, <1>3, <1>5, <1>7, <1>8, <2>1, <3>1 DEF ImageRight, HeadWritten
    <2> QED BY <2>2, <2>3
  <1>11. CASE \E n \in Nat \ {0} : Puts(Packer, n)
    <2>1. PICK n \in Nat \ {0} : Puts(Packer, n)
      BY <1>11
    <2>2. io[Packer].at = "pwrite" /\ disk[Image] # Absent
      BY <1>5, <2>1 DEF Puts, WritePhase
    <2>3. offset + io[Packer].total = Len(disk[Image])
      BY <1>7, <2>2
    <2>4. /\ Grows
          /\ Len(disk'[Image]) = offset + io'[Packer].total
      BY <1>2, <1>4, <1>6, <1>8, <2>1, <2>2, <2>3, ImagePut
    <2> QED BY <1>1, <1>5, <2>4 DEF ImageRight, HeadWritten, Grows
  <1> QED BY <1>1, <1>9, <1>10, <1>11 DEF WriteCase

\* The bytes of b, and n bytes of file after them.
ReadAfter(w, b, file, at, n) ==
    /\ Len(w) = Len(b) + n
    /\ \A j \in 1 .. Len(b) : w[j] = b[j]
    /\ \A j \in 1 .. n : w[Len(b) + j] = file[at + j]

LEMMA ReadOn ==
    ASSUME NEW S, NEW b \in Seq(S), NEW file \in Seq(S),
           NEW at \in Nat, NEW n \in Nat \ {0}, n <= Len(file) - at
    PROVE  ReadAfter(SubSeq(b, 1, Len(b)) \o SubSeq(file, at + 1, at + n), b, file, at, n)
  <1>1. at + n <= Len(file) /\ n \in Nat
    OBVIOUS
  <1>2. SubSeq(b, 1, Len(b)) = b
    OBVIOUS
  <1>3. PICK more : more = SubSeq(file, at + 1, at + n)
    OBVIOUS
  <1>4. more \in Seq(S) /\ Len(more) = n /\ \A k \in 1 .. n : more[k] = file[at + k]
    <2>1. /\ SubSeq(file, at + 1, at + n) \in Seq(S)
          /\ Len(SubSeq(file, at + 1, at + n)) = n
          /\ \A k \in 1 .. n : SubSeq(file, at + 1, at + n)[k] = file[at + k]
      BY <1>1, PartBytes
    <2> QED BY <1>3, <2>1
  <1>5. /\ Len(b \o more) = Len(b) + Len(more)
        /\ \A k \in 1 .. Len(b) : (b \o more)[k] = b[k]
        /\ \A k \in 1 .. Len(more) : (b \o more)[Len(b) + k] = more[k]
    <2>1. more \in Seq(S)
      BY <1>4
    <2> QED BY <2>1, JoinTwo
  <1>6. ReadAfter(b \o more, b, file, at, n)
    BY <1>4, <1>5 DEF ReadAfter
  <1> QED BY <1>2, <1>3, <1>6

RightOrGap(file, r, gaps) == \A x \in 1 .. Len(file) : file[x] = r[x] \/ file[x] \in gaps

\* What a read adds to what it has read is right too.
LEMMA ReadRightOn ==
    ASSUME NEW S, NEW file \in Seq(S), NEW r \in Seq(S), NEW gaps, RightOrGap(file, r, gaps),
           NEW f \in Files, NEW at \in Nat, Belongs(EncodeData(f), at, r),
           NEW b \in Seq(S), ReadRight(b, f, gaps),
           NEW total \in Nat, total = Len(b), NEW start, start = at + total,
           NEW n \in Nat \ {0}, n <= Len(file) - start, n <= DataLen[f] - total,
           NEW w, ReadAfter(w, b, file, start, n)
    PROVE  ReadRight(w, f, gaps)
  <1>1. total \in Nat /\ start \in Nat /\ n \in Nat
    OBVIOUS
  <1>2. start = at + total
    OBVIOUS
  <1>3. /\ Len(w) = total + n
        /\ \A j \in 1 .. total : w[j] = b[j]
        /\ \A j \in 1 .. n : w[total + j] = file[start + j]
    BY DEF ReadAfter
  <1>4. Len(EncodeData(f)) = DataLen[f] /\ DataLen[f] \in Nat /\ Len(file) \in Nat
    <2>1. Len(file) \in Nat
      OBVIOUS
    <2>2. Len(EncodeData(f)) = DataLen[f] /\ DataLen[f] \in Nat
      BY DataType
    <2> QED BY <2>1, <2>2
  <1>5. ASSUME NEW j \in 1 .. n
        PROVE  w[total + j] = EncodeData(f)[total + j] \/ w[total + j] \in gaps
    <2>1. PICK x : x = start + j
      OBVIOUS
    <2>2. x \in 1 .. Len(file)
      BY <1>1, <1>2, <1>4, <2>1
    <2>3. total + j \in 1 .. Len(EncodeData(f)) /\ at + (total + j) = x
      BY <1>1, <1>2, <1>4, <2>1
    <2>4. r[x] = EncodeData(f)[total + j]
      BY <2>3 DEF Belongs
    <2>5. w[total + j] = file[x]
      BY <1>3, <2>1
    <2>6. file[x] = r[x] \/ file[x] \in gaps
      BY <2>2 DEF RightOrGap
    <2> QED BY <2>4, <2>5, <2>6
  <1>6. ASSUME NEW j \in 1 .. Len(w)
        PROVE  w[j] = EncodeData(f)[j] \/ w[j] \in gaps
    <2>1. CASE j <= total
      <3>1. j \in 1 .. total
        BY <1>1, <1>3, <2>1
      <3>2. w[j] = b[j]
        BY <1>3, <3>1
      <3> QED BY <3>1, <3>2 DEF ReadRight
    <2>2. CASE j > total
      <3>1. PICK i : i = j - total
        OBVIOUS
      <3>2. i \in 1 .. n /\ total + i = j
        BY <1>1, <1>3, <2>2, <3>1
      <3> QED BY <1>5, <3>2
    <2> QED BY <1>1, <1>3, <2>1, <2>2
  <1> QED BY <1>6 DEF ReadRight

LEMMA ReaderGets ==
    ASSUME FieldsFit, Inv, ImageInv, FileIOStep(Reader),
           UNCHANGED <<files, version, pack, reading, settled>>
    PROVE  ReadBytes'
  <1>1. /\ IoTypes /\ Reader \in Procs /\ files \in PendingLists
        /\ version \in 1 .. CURRENT_VERSION /\ Listed \subseteq Files
        /\ CellsOf(Listed) \subseteq Cells
    BY TypesFollow, ProcFacts, ListType DEF Inv
  <1>2. io[Reader].at # "none"
    BY IdleNoStep
  <1>3. /\ reading # NoFile /\ reading \in Listed /\ ReadAtJob(reading)
        /\ disk[Image] # Absent /\ disk[Image] \in Seq(CellsOf(Listed))
    BY <1>2 DEF Inv, ReaderAt, ImageAt
  <1>4. PICK f : f = reading
    OBVIOUS
  <1>5. /\ io[Reader].name = Image /\ io[Reader].offset = Place(f)
        /\ io[Reader].size = DataLen[f] /\ ReadAtPhase(io[Reader])
    BY <1>3, <1>4 DEF ReadAtJob
  <1>6. Sane(Reader)
    BY <1>3, <1>5 DEF ReadAtPhase, Sane, WriteAts, ReadAts
  <1>7. StepEffect(Reader) /\ StepCase(Reader)
    BY <1>1, <1>6, IoStepEffect
  <1>8. /\ settled' = settled /\ pack' = pack /\ reading' = f
        /\ settled => pack \in {"SUCCESS", "none"}
        /\ ReadRight(io[Reader].buffer, f, Gaps) /\ Gaps' = Gaps
    BY <1>3, <1>4 DEF ImageInv, ReadBytes, Gaps
  <1>9. ReadRight(io'[Reader].buffer, f, Gaps)
    <2>1. CASE \E n \in Nat \ {0} : Gets(Reader, n)
      <3>1. PICK n \in Nat \ {0} : Gets(Reader, n)
        BY <2>1
      <3>2. PICK S, file, r, b, total, at, w :
               /\ S = Cells /\ file = disk[Image] /\ r = Reference /\ b = io[Reader].buffer
               /\ total = io[Reader].total /\ at = Place(f) /\ w = io'[Reader].buffer
        OBVIOUS
      <3>3. /\ w = SubSeq(b, 1, total) \o SubSeq(file, at + total + 1, at + total + n)
            /\ n <= Len(file) - (at + total) /\ n <= DataLen[f] - total
        BY <1>5, <3>1, <3>2 DEF Gets, File
      <3>4. b \in Seq(S) /\ total = Len(b) /\ at \in Nat
        <4>1. io[Reader] \in CallSet
          BY <1>1 DEF IoTypes
        <4>2. io[Reader].buffer \in Seq(Cells)
          BY <4>1 DEF CallSet, Calls
        <4> QED BY <1>1, <1>3, <1>4, <1>5, <3>2, <4>2, PlaceType DEF ReadAtPhase
      <3>5. file \in Seq(S) /\ r \in Seq(S)
        <4>1. r \in Seq(CellsOf(Listed)) /\ file \in Seq(CellsOf(Listed))
          BY <1>1, <1>3, <3>2, LaidHere
        <4> QED BY <1>1, <3>2, <4>1
      <3>6. PICK gaps : gaps = Gaps
        OBVIOUS
      <3>7. RightOrGap(file, r, gaps)
        <4>1. CASE settled
          BY <1>8, <3>2, <4>1 DEF ImageInv, Finished, RightOrGap
        <4>2. CASE ~settled
          BY <1>3, <3>2, <3>6, <4>2 DEF ImageInv, ImageRight, RightBytes, RightOrGap, Gaps
        <4> QED BY <4>1, <4>2
      <3>8. Belongs(EncodeData(f), at, r) /\ f \in Files
        BY <1>1, <1>3, <1>4, <3>2, DataBelongs
      <3>9. ReadRight(b, f, gaps)
        BY <1>8, <3>2, <3>6
      <3>10. PICK start : start = at + total
        OBVIOUS
      <3>11. start \in Nat /\ total \in Nat /\ n <= Len(file) - start /\ n <= DataLen[f] - total
        BY <3>3, <3>4, <3>10
      <3>12. ReadAfter(w, b, file, start, n)
        <4>1. w = SubSeq(b, 1, Len(b)) \o SubSeq(file, start + 1, start + n)
          BY <3>3, <3>4, <3>10
        <4> QED BY <3>4, <3>5, <3>11, <4>1, ReadOn
      <3>13. total = Len(b) /\ at \in Nat /\ b \in Seq(S)
        BY <3>4
      <3>14. ReadRight(w, f, gaps)
        BY <3>5, <3>7, <3>8, <3>9, <3>10, <3>11, <3>12, <3>13, ReadRightOn
      <3> QED BY <3>2, <3>6, <3>14
    <2>2. CASE ~ \E n \in Nat \ {0} : Gets(Reader, n)
      <3>1. io[Reader].at \in {"open_at", "pread"}
        BY <1>2, <1>5 DEF ReadAtPhase
      <3>2. ~WriteCase(Reader)
        BY <3>1 DEF WriteCase, Climbs, Opens, Puts
      <3>3. io'[Reader].buffer = io[Reader].buffer
        BY <1>7, <2>2, <3>2
           DEF StepCase, ReadCase, Finds, Misses, Sizes, Starves, Breaks, Waits, DataUntouched
      <3> QED BY <1>8, <3>3
    <2> QED BY <2>1, <2>2
  <1> QED BY <1>8, <1>9 DEF ReadBytes

-----------------------------------------------------------------------------
(* Every system call keeps what is known of the image. *)

\* Of a step that is none of the reader's.
LEMMA ReaderKeeps ==
    ASSUME ImageInv, io'[Reader] = io[Reader], UNCHANGED <<pack, reading, settled>>
    PROVE  ReadBytes'
  BY DEF ImageInv, ReadBytes, Gaps

LEMMA MountKeeps ==
    ASSUME ImageInv, UNCHANGED <<files, version, mountVars>>
    PROVE  MountAt'
  BY DEF ImageInv, MountAt, mountVars

\* Of a step that leaves the tasks and the packing thread in their places and loses
\* nothing of the image.
LEMMA ImageKeeps ==
    ASSUME Inv, ImageInv, Grows, UNCHANGED <<files, version, pack, written>>,
           \A f \in Listed : io'[f].name = io[f].name,
           \A f \in Listed : io[f].name = Image =>
              \A j \in 1 .. io'[f].total : SameAt(disk'[Image], Reference, Place(f) + j),
           pack = "metas" => disk'[Image] = disk[Image] /\ io'[Packer] = io[Packer],
           pack \in {"SUCCESS", "none"} => disk'[Image] = disk[Image]
    PROVE  ImageRight' /\ HeadWritten' /\ DataWritten' /\ Finished'
  <1>1. /\ Reference' = Reference /\ DataBegin' = DataBegin /\ Listed' = Listed
        /\ pack' = pack /\ written' = written
    BY ReferenceStays
  <1>2. ImageRight'
    BY <1>1 DEF ImageRight, Grows
  <1>3. /\ Len(disk[Image]) <= Len(disk'[Image]) /\ Len(disk'[Image]) \in Nat
        /\ files \in PendingLists /\ version \in 1 .. CURRENT_VERSION
    BY DEF Grows, Inv, TypeOK
  <1>4. DataBegin \in Nat
    BY <1>3, LaidHere
  <1>5. ASSUME disk[Image] # Absent, DataBegin <= Len(disk[Image])
        PROVE  DataBegin <= Len(disk'[Image])
    <2>1. Len(disk[Image]) \in Nat
      BY <1>5 DEF Inv, ImageAt
    <2> QED BY <1>3, <1>4, <1>5, <2>1
  <1>6. HeadWritten'
    <2>1. CASE pack = "metas"
      BY <1>1, <2>1 DEF ImageInv, HeadWritten
    <2>2. CASE pack # "metas"
      <3>1. pack \in {"read_temps", "write_data", "SUCCESS"} =>
               disk[Image] # Absent /\ DataBegin <= Len(disk[Image])
        BY DEF Inv, ImageAt, ImageInv, HeadWritten
      <3> QED BY <1>1, <1>5, <2>2, <3>1 DEF HeadWritten
    <2> QED BY <2>1, <2>2
  <1>7. DataWritten'
    <2> SUFFICES ASSUME NEW f \in Listed, io[f].name = Image,
                        pack \in {"write_data", "SUCCESS", "ERROR"}
                 PROVE  /\ DataBegin <= Len(disk'[Image])
                        /\ \A j \in 1 .. io'[f].total :
                              SameAt(disk'[Image], Reference, Place(f)' + j)
      BY <1>1 DEF DataWritten, InPlace
    <2>1. f \in Files /\ f # Image
      BY <1>3, ListType, ProcFacts
    <2>2. PlaceJob(f)
      BY <2>1 DEF Inv, Rounds, RoundAt, CompressJob, ReadJob, WriteJob, WriteCall
    <2>3. DataBegin <= Len(disk'[Image])
      BY <1>5, <2>2 DEF PlaceJob, ImageInv, DataWritten
    <2>4. Place(f)' = Place(f)
      BY PlaceStays
    <2> QED BY <2>3, <2>4
  <1>8. Finished'
    BY <1>1 DEF ImageInv, Finished
  <1> QED BY <1>2, <1>6, <1>7, <1>8

\* Of a step that writes nothing to the image.
LEMMA SameKeeps ==
    ASSUME ImageInv, disk'[Image] = disk[Image], UNCHANGED <<files, version, pack, written>>,
           \A f \in Listed : io'[f].name = io[f].name,
           \A f \in Listed : io[f].name = Image => io'[f].total = io[f].total,
           pack = "metas" => io'[Packer] = io[Packer]
    PROVE  ImageRight' /\ HeadWritten' /\ DataWritten' /\ Finished'
  <1>1. /\ Reference' = Reference /\ DataBegin' = DataBegin /\ Listed' = Listed
        /\ pack' = pack /\ written' = written
    BY ReferenceStays
  <1>2. ImageRight' /\ Finished'
    BY <1>1 DEF ImageInv, ImageRight, Finished
  <1>3. HeadWritten'
    BY <1>1 DEF ImageInv, HeadWritten
  <1>4. DataWritten'
    <2> SUFFICES ASSUME NEW f \in Listed, io[f].name = Image,
                        pack \in {"write_data", "SUCCESS", "ERROR"}
                 PROVE  /\ DataBegin <= Len(disk'[Image])
                        /\ \A j \in 1 .. io'[f].total :
                              SameAt(disk'[Image], Reference, Place(f)' + j)
      BY <1>1 DEF DataWritten, InPlace
    <2>1. Place(f)' = Place(f)
      BY PlaceStays
    <2> QED BY <2>1 DEF ImageInv, DataWritten, InPlace
  <1> QED BY <1>2, <1>3, <1>4

LEMMA ImageIoNext ==
    ASSUME FieldsFit, Inv, ImageInv, NEW p \in Procs, IoStep(p)
    PROVE  ImageInv'
  <1>1. FileIOStep(p) /\ UNCHANGED <<packVars, mountVars, readVars>>
    BY DEF IoStep
  <1>2. /\ files' = files /\ version' = version /\ pack' = pack /\ written' = written
        /\ reading' = reading /\ settled' = settled /\ UNCHANGED mountVars
    BY <1>1 DEF packVars, readVars
  <1>3. /\ files \in PendingLists /\ version \in 1 .. CURRENT_VERSION
        /\ Listed \subseteq Files /\ Listed \subseteq Procs /\ IoTypes
    BY ListType, TypesFollow, ProcFacts DEF Inv, TypeOK
  <1>4. MountAt'
    BY <1>2, MountKeeps
  <1>5. CASE p \in Listed
    <2>1. p # Reader /\ p # Packer /\ p # Image /\ Reader \in Procs /\ Packer \in Procs
      BY <1>3, <1>5, ProcFacts
    <2>2. /\ StepEffect(p) /\ io[p].name \in {p, Image}
          /\ io[p].name = Image => PlaceJob(p) /\ pack \in {"write_data", "ERROR"}
      BY <1>1, <1>2, <1>5, TaskStep
    <2>3. /\ io'[Reader] = io[Reader] /\ io'[Packer] = io[Packer]
          /\ \A f \in Listed \ {p} : io'[f] = io[f]
          /\ \A f \in Listed : io'[f].name = io[f].name
      BY <1>3, <2>1, <2>2 DEF StepEffect, OthersKept, TargetKept
    <2>4. ReadBytes'
      BY <1>2, <2>3, ReaderKeeps
    <2>5. CASE io[p].name # Image
      <3>1. disk'[Image] = disk[Image]
        BY <2>2, <2>5, ProcFacts DEF StepEffect, DiskKept
      <3>2. \A f \in Listed : io[f].name = Image => io'[f].total = io[f].total
        BY <2>3, <2>5
      <3>3. ImageRight' /\ HeadWritten' /\ DataWritten' /\ Finished'
        BY <1>2, <2>3, <3>1, <3>2, SameKeeps
      <3> QED BY <1>4, <2>4, <3>3 DEF ImageInv
    <2>6. CASE io[p].name = Image
      <3>1. pack \in {"write_data", "ERROR"}
        BY <2>2, <2>6
      <3>2. /\ Grows
            /\ \A j \in 1 .. io'[p].total : SameAt(disk'[Image], Reference, Place(p) + j)
        BY <1>1, <1>2, <1>5, <2>6, PlaceGrows
      <3>3. ASSUME NEW f \in Listed, io[f].name = Image, NEW j \in 1 .. io'[f].total
            PROVE  SameAt(disk'[Image], Reference, Place(f) + j)
        <4>1. CASE f = p
          BY <3>2, <4>1
        <4>2. CASE f # p
          <5>1. io'[f] = io[f] /\ f \in Procs
            BY <1>3, <2>3, <4>2
          <5>2. InPlace(Place(f) + j)
            BY <3>1, <3>3, <5>1 DEF ImageInv, DataWritten
          <5>3. Place(f) + j \in Nat \ {0}
            <6>1. io[f].total \in Nat
              BY <1>3, <5>1 DEF IoTypes, CallSet, Calls
            <6>2. j \in Nat \ {0}
              BY <5>1, <6>1
            <6> QED BY <1>3, <6>2, PlaceType
          <5> QED BY <3>2, <5>2, <5>3 DEF Grows
        <4> QED BY <4>1, <4>2
      <3>4. ImageRight' /\ HeadWritten' /\ DataWritten' /\ Finished'
        BY <1>2, <2>3, <3>1, <3>2, <3>3, ImageKeeps
      <3> QED BY <1>4, <2>4, <3>4 DEF ImageInv
    <2> QED BY <2>5, <2>6
  <1>6. CASE p = Packer
    <2>1. StepEffect(Packer) /\ pack = "metas"
      BY <1>1, <1>2, <1>6, PackerStep
    <2>2. io'[Reader] = io[Reader]
      BY <2>1, ProcFacts DEF StepEffect, OthersKept
    <2>3. ReadBytes'
      BY <1>2, <2>2, ReaderKeeps
    <2>4. ImageRight' /\ HeadWritten'
      BY <1>1, <1>2, <1>6, PackerGrows
    <2>5. DataWritten' /\ Finished'
      BY <1>2, <2>1 DEF DataWritten, Finished
    <2> QED BY <1>4, <2>3, <2>4, <2>5 DEF ImageInv
  <1>7. CASE p = Reader
    <2>1. StepEffect(Reader) /\ disk' = disk
      BY <1>1, <1>2, <1>7, ReaderStep
    <2>2. io'[Packer] = io[Packer] /\ \A f \in Listed : io'[f] = io[f]
      BY <1>3, <2>1, ProcFacts DEF StepEffect, OthersKept
    <2>3. ReadBytes'
      BY <1>1, <1>2, <1>7, ReaderGets
    <2>4. ImageRight' /\ HeadWritten' /\ DataWritten' /\ Finished'
      BY <1>2, <2>1, <2>2, SameKeeps
    <2> QED BY <1>4, <2>3, <2>4 DEF ImageInv
  <1>8. CASE p \in Files /\ p \notin Listed
    <2>1. io[p].at = "none"
      BY <1>8 DEF Inv, Rounds
    <2> QED BY <1>1, <2>1, IdleNoStep
  <1> QED BY <1>5, <1>6, <1>7, <1>8, ProcFacts

-----------------------------------------------------------------------------
(* The steps of a pack. *)

LEMMA ReaderOfPack ==
    ASSUME Inv, PackStep
    PROVE  io'[Reader] = io[Reader]
  <1>1. Reader \in Procs /\ ~InFiles(Reader) /\ Reader # Packer /\ io \in [Procs -> CallSet]
    BY ProcFacts, ListType DEF Inv, TypeOK, CallSet
  <1>2. CASE CompressFiles \/ ReadTemps \/ WriteData
    BY <1>1, <1>2 DEF CompressFiles, ReadTemps, WriteData, Spawn
  <1>3. CASE WriteHeader \/ WriteMeta
    BY <1>1, <1>3 DEF WriteHeader, WriteMeta
  <1>4. CASE FinishPack \/ PackFails
    BY <1>4 DEF FinishPack, PackFails, ioVars
  <1> QED BY <1>2, <1>3, <1>4 DEF PackStep

LEMMA PackKeeps ==
    ASSUME Inv, ImageInv, PackStep
    PROVE  /\ files' = files /\ version' = version
           /\ disk'[Image] = disk[Image]
           /\ ImageRight' /\ MountAt' /\ ReadBytes'
  <1>1. /\ files' = files /\ version' = version /\ UNCHANGED <<mountVars, readVars>>
        /\ pack \notin {"SUCCESS", "none"}
    BY DEF PackStep, CompressFiles, WriteHeader, WriteMeta, ReadTemps, WriteData, FinishPack,
           PackFails, Stage
  <1>2. disk'[Image] = disk[Image]
    <2>1. CASE FinishPack
      BY <2>1, ProcFacts, ListType DEF FinishPack, Inv, TypeOK
    <2>2. CASE ~FinishPack
      BY <2>2 DEF PackStep, CompressFiles, WriteHeader, WriteMeta, ReadTemps, WriteData,
                  PackFails, ioVars
    <2> QED BY <2>1, <2>2
  <1>3. ImageRight'
    BY <1>1, <1>2, ReferenceStays DEF ImageInv, ImageRight
  <1>4. MountAt'
    BY <1>1, MountKeeps
  <1>5. ReadBytes'
    BY <1>1, ReaderOfPack DEF ImageInv, ReadBytes, Gaps, readVars
  <1> QED BY <1>1, <1>2, <1>3, <1>4, <1>5

\* A write of the packing thread ends where the next record begins.
LEMMA PackerEnd ==
    ASSUME Inv, ImageInv, pack = "metas", PackerReady
    PROVE  Len(disk[Image]) = RecordEnd(files, version, written)
  <1>1. io[Packer].at = "none" /\ io[Packer].code = "SUCCESS"
    BY DEF PackerReady, Busy
  <1>2. Len(disk[Image]) = io[Packer].offset + io[Packer].total
    BY <1>1 DEF ImageInv, HeadWritten
  <1>3. PICK truncate, offset, bytes :
              /\ PackerWrites(truncate, offset, bytes)
              /\ written = 0 => truncate = TRUE /\ offset = 0 /\ bytes = EncodeHeader
              /\ written # 0 =>
                    /\ truncate = FALSE
                    /\ offset = HeaderLen + Len(Records(SubSeq(files, 1, written - 1), version))
                    /\ bytes = SerializeFileMetadata(files[written], version)
                    /\ disk[Image] # Absent
    BY PackerJob DEF Inv
  <1>4. Len(disk[Image]) = offset + Len(bytes)
    BY <1>1, <1>2, <1>3 DEF PackerWrites, WriteJob, WriteCall, WritePhase
  <1>5. /\ files \in PendingLists /\ version \in 1 .. CURRENT_VERSION
        /\ written \in 0 .. Len(files) /\ Len(files) \in Nat
    BY ListType DEF Inv, TypeOK
  <1>6. CASE written = 0
    <2>1. RecordEnd(files, version, 0) = HeaderLen /\ HeaderLen \in Nat
      BY <1>5, LaidHere DEF Laid
    <2> QED BY <1>3, <1>4, <1>6, <2>1, HeaderType
  <1>7. CASE written # 0
    <2>1. written \in 1 .. Len(files)
      BY <1>5, <1>7
    <2>2. offset = RecordEnd(files, version, written - 1)
      BY <1>3, <1>7 DEF RecordEnd
    <2> QED BY <1>3, <1>4, <1>5, <1>7, <2>1, <2>2, RecordBelongs
  <1> QED BY <1>6, <1>7

LEMMA WriteMetaImage ==
    ASSUME Inv, ImageInv, WriteMeta, disk'[Image] = disk[Image]
    PROVE  HeadWritten' /\ DataWritten' /\ Finished'
  <1>1. /\ pack = "metas" /\ PackerReady /\ pack' = "metas"
        /\ io' = [io EXCEPT ![Packer] =
                     AsyncWriteAt(Image,
                                  HeaderLen + Len(Records(SubSeq(files, 1, written), version)),
                                  SerializeFileMetadata(files[written + 1], version))]
        /\ written < Len(files)
    BY DEF WriteMeta, Stage
  <1>2. /\ files \in PendingLists /\ version \in 1 .. CURRENT_VERSION
        /\ written \in 0 .. Len(files) /\ Len(files) \in Nat
        /\ Packer \in Procs /\ io \in [Procs -> CallSet]
    BY ListType, ProcFacts DEF Inv, TypeOK, CallSet
  <1>3. Len(disk[Image]) = RecordEnd(files, version, written)
    BY <1>1, PackerEnd
  <1>4. PICK k, offset, bytes, c :
           /\ k = written + 1 /\ offset = RecordEnd(files, version, written)
           /\ bytes = SerializeFileMetadata(files[k], version)
           /\ c = AsyncWriteAt(Image, offset, bytes)
    OBVIOUS
  <1>5. k \in 1 .. Len(files) /\ k - 1 = written
    BY <1>1, <1>2, <1>4
  <1>6. offset \in Nat /\ bytes \in Seq(Cells) /\ Image \in Names
    BY <1>2, <1>4, <1>5, RecordBelongs, RecordOffset, ProcFacts
  <1>7. WriteCall(c, Image, FALSE, offset, bytes) /\ c.total = 0
    BY <1>4, <1>6, WriteAtCall
  <1>8. io'[Packer] = c
    BY <1>1, <1>2, <1>4 DEF RecordEnd
  <1>9. Len(disk'[Image]) = io'[Packer].offset + io'[Packer].total
    BY <1>3, <1>4, <1>6, <1>7, <1>8 DEF WriteCall
  <1> QED BY <1>1, <1>9 DEF HeadWritten, DataWritten, Finished

\* When the data of all files is in its place there is nothing else to write.
LEMMA AllInPlace ==
    ASSUME FieldsFit, Inv, ImageInv, pack = "write_data", AllSucceeded
    PROVE  disk[Image] = Reference
  <1>1. /\ files \in PendingLists /\ version \in 1 .. CURRENT_VERSION /\ Listed \subseteq Files
        /\ DOMAIN files = 1 .. Len(files)
    BY ListType DEF Inv, TypeOK
  <1>2. PICK b, r, m : b = disk[Image] /\ r = Reference /\ m = DataBegin
    OBVIOUS
  <1>3. /\ b \in Seq(CellsOf(Listed)) /\ r \in Seq(CellsOf(Listed))
        /\ Len(b) \in Nat /\ Len(r) \in Nat /\ m \in Nat /\ m <= Len(r)
    <2>1. b \in Seq(CellsOf(Listed))
      BY <1>2 DEF Inv, ImageAt
    <2>2. /\ Reference \in Seq(CellsOf(Listed)) /\ Len(Reference) \in Nat
          /\ DataBegin \in HeaderLen .. Len(Reference) /\ HeaderLen \in Nat
      BY <1>1, LaidHere
    <2>3. m \in Nat /\ m <= Len(r)
      BY <1>2, <2>2
    <2> QED BY <1>2, <2>1, <2>2, <2>3
  <1>4. RightBytes(b, r, m) /\ m <= Len(b)
    BY <1>2, <1>3 DEF Inv, ImageAt, ImageInv, ImageRight, HeadWritten
  <1>5. ASSUME NEW x \in m + 1 .. Len(r)
        PROVE  x <= Len(b) /\ b[x] = r[x]
    <2>1. PICK k \in 1 .. Len(files) : InData(files, version, k, x)
      <3>1. Laid(r, files, version, Listed) /\ DataEnd(files, version, 0) = m
        BY <1>1, <1>2, LaidHere
      <3> QED BY <3>1 DEF Laid
    <2>2. PICK f : f = files[k]
      OBVIOUS
    <2>3. f \in Listed /\ f \in Files
      BY <1>1, <2>2 DEF Listed
    <2>4. PICK j \in 1 .. DataLen[f] : x = DataEnd(files, version, k - 1) + j
      BY <2>1, <2>2 DEF InData
    <2>5. Place(f) = DataEnd(files, version, k - 1)
      BY <1>1, <2>2, PlaceExact
    <2>6. PlaceJob(f) /\ Ended(f)
      BY <2>3, RoundEnds DEF Inv, Rounds, RoundAt
    <2>7. io[f].total = DataLen[f] /\ io[f].name = Image
      BY <2>3, <2>6, DataType DEF PlaceJob, WriteJob, WriteCall, WritePhase, Ended
    <2>8. InPlace(Place(f) + j)
      BY <2>3, <2>4, <2>7 DEF ImageInv, DataWritten
    <2> QED BY <1>2, <2>4, <2>5, <2>8 DEF InPlace, SameAt
  <1>6. Len(b) = Len(r)
    <2>1. Len(b) <= Len(r)
      BY <1>4 DEF RightBytes
    <2>2. CASE m = Len(r)
      BY <1>3, <1>4, <2>1, <2>2
    <2>3. CASE m # Len(r)
      <3>1. Len(r) \in m + 1 .. Len(r)
        BY <1>3, <2>3
      <3> QED BY <1>3, <1>5, <2>1, <3>1
    <2> QED BY <2>2, <2>3
  <1>7. ASSUME NEW x \in 1 .. Len(b)
        PROVE  b[x] = r[x]
    <2>1. CASE x > m
      <3>1. x \in m + 1 .. Len(r)
        BY <1>3, <1>6, <2>1
      <3> QED BY <1>5, <3>1
    <2>2. CASE ~(x > m)
      BY <1>4, <2>2 DEF RightBytes
    <2> QED BY <2>1, <2>2
  <1>8. b = r
    BY <1>3, <1>6, <1>7
  <1> QED BY <1>2, <1>8

LEMMA ImagePackNext ==
    ASSUME FieldsFit, Inv, ImageInv, PackStep
    PROVE  ImageInv'
  <1>1. /\ files' = files /\ version' = version
        /\ disk'[Image] = disk[Image]
        /\ ImageRight' /\ MountAt' /\ ReadBytes'
    BY PackKeeps
  <1>2. /\ files \in PendingLists /\ version \in 1 .. CURRENT_VERSION /\ Listed \subseteq Files
        /\ io \in [Procs -> CallSet] /\ Listed \subseteq Procs /\ Packer \in Procs
    BY ListType, ProcFacts DEF Inv, TypeOK, CallSet
  <1>3. Reference' = Reference /\ DataBegin' = DataBegin /\ Listed' = Listed
    BY <1>1, ReferenceStays
  <1>4. SUFFICES HeadWritten' /\ DataWritten' /\ Finished'
    BY <1>1 DEF ImageInv
  <1>5. CASE CompressFiles
    BY <1>5 DEF CompressFiles, Stage, HeadWritten, DataWritten, Finished
  <1>6. CASE WriteHeader
    <2>1. pack' = "metas" /\ written' = 0
      BY <1>6 DEF WriteHeader, Stage, Inv, PackerAt
    <2>2. PICK c : c = AsyncWriteAll(Image, EncodeHeader)
      OBVIOUS
    <2>3. c.at = "exists" /\ c.code = "none"
      BY <2>2, HeaderCells, ProcFacts, WriteAllCall
    <2>4. io'[Packer] = c
      BY <1>2, <1>6, <2>2 DEF WriteHeader
    <2> QED BY <2>1, <2>3, <2>4 DEF HeadWritten, DataWritten, Finished
  <1>7. CASE WriteMeta
    BY <1>1, <1>7, WriteMetaImage
  <1>8. CASE ReadTemps
    <2>1. /\ pack = "metas" /\ PackerReady /\ written = Len(files) /\ pack' = "read_temps"
      BY <1>8 DEF ReadTemps, Stage
    <2>2. Len(disk[Image]) = DataBegin
      BY <1>2, <2>1, PackerEnd, LaidHere
    <2>3. DataBegin \in Nat
      BY <1>2, LaidHere
    <2> QED BY <1>1, <1>3, <2>1, <2>2, <2>3 DEF HeadWritten, DataWritten, Finished
  <1>9. CASE WriteData
    <2>1. pack = "read_temps" /\ pack' = "write_data"
      BY <1>9 DEF WriteData, Stage
    <2>2. DataBegin <= Len(disk[Image])
      BY <2>1 DEF ImageInv, HeadWritten
    <2>3. ASSUME NEW f \in Listed PROVE io'[f].total = 0
      <3>1. PICK bytes, offset, c : /\ offset = Place(f) /\ bytes = io[f].buffer
                                    /\ c = AsyncWriteAt(Image, offset, bytes)
        OBVIOUS
      <3>2. offset \in Nat /\ bytes \in Seq(Cells) /\ Image \in Names
        BY <1>2, <3>1, PlaceType, ProcFacts DEF CallSet, Calls
      <3>3. c.total = 0
        <4>1. c = AsyncWriteAt(Image, offset, bytes)
          BY <3>1
        <4> QED BY <3>2, <4>1, WriteAtCall
      <3>4. InFiles(f) /\ f \in Procs
        BY <1>2, ListType
      <3>5. io'[f] = c
        BY <1>9, <3>1, <3>4 DEF WriteData, Spawn
      <3> QED BY <3>3, <3>5
    <2>4. \A f \in Listed : 1 .. io'[f].total = {}
      BY <2>3
    <2> QED BY <1>1, <1>3, <2>1, <2>2, <2>4 DEF HeadWritten, DataWritten, Finished
  <1>10. CASE FinishPack
    <2>1. pack = "write_data" /\ AllSucceeded /\ pack' = "SUCCESS" /\ io' = io
      BY <1>10 DEF FinishPack, Stage
    <2>2. disk[Image] = Reference
      BY <2>1, AllInPlace
    <2>3. HeadWritten' /\ Finished'
      BY <1>1, <1>3, <2>1, <2>2 DEF HeadWritten, Finished, ImageInv
    <2>4. DataWritten'
      <3>1. ASSUME NEW f \in Listed PROVE Place(f)' = Place(f)
        BY <1>1, PlaceStays
      <3> QED BY <1>1, <1>3, <2>1, <3>1 DEF DataWritten, InPlace, ImageInv
    <2> QED BY <2>3, <2>4
  <1>11. CASE PackFails
    <2>1. /\ pack \in {"compress", "read_temps", "write_data", "metas"} /\ pack' = "ERROR"
          /\ io' = io
      BY <1>11 DEF PackFails, Stage, ioVars
    <2>2. HeadWritten' /\ Finished'
      BY <2>1 DEF HeadWritten, Finished
    <2>3. ASSUME NEW f \in Listed, io[f].name = Image PROVE pack = "write_data"
      <3>1. f \in Files /\ f # Image
        BY <1>2, ProcFacts
      <3> QED BY <2>1, <2>3, <3>1
            DEF Inv, Rounds, RoundAt, CompressJob, ReadJob, WriteJob, WriteCall
    <2>4. ASSUME NEW f \in Listed PROVE Place(f)' = Place(f)
      BY <1>1, PlaceStays
    <2>5. DataWritten'
      BY <1>1, <1>3, <2>1, <2>3, <2>4 DEF DataWritten, InPlace, ImageInv
    <2> QED BY <2>2, <2>5
  <1> QED BY <1>5, <1>6, <1>7, <1>8, <1>9, <1>10, <1>11 DEF PackStep

-----------------------------------------------------------------------------
(* The steps of a mount and of a read, and all steps together. *)

LEMMA PrefixNone ==
    ASSUME NEW S, NEW l \in Seq(S)
    PROVE  IsPrefix(<<>>, l)
  <1>1. Len(<<>>) = 0 /\ 0 <= Len(l)
    OBVIOUS
  <1>2. SubSeq(<<>>, 1, 0) = <<>> /\ SubSeq(l, 1, 0) = <<>>
    OBVIOUS
  <1> QED BY <1>1, <1>2 DEF IsPrefix

LEMMA PrefixParts ==
    ASSUME NEW S, NEW c \in Seq(S), NEW l \in Seq(S)
    PROVE  IsPrefix(c, l) <=> /\ Len(c) <= Len(l)
                              /\ \A j \in 1 .. Len(c) : c[j] = l[j]
  <1>1. Len(c) \in Nat /\ Len(l) \in Nat /\ SubSeq(c, 1, Len(c)) = c
    OBVIOUS
  <1>2. CASE Len(c) <= Len(l)
    <2>1. PICK s : s = SubSeq(l, 1, Len(c))
      OBVIOUS
    <2>2. s \in Seq(S) /\ Len(s) = Len(c) /\ \A j \in 1 .. Len(c) : s[j] = l[j]
      <3>1. /\ SubSeq(l, 1, Len(c)) \in Seq(S) /\ Len(SubSeq(l, 1, Len(c))) = Len(c)
            /\ \A j \in 1 .. Len(c) : SubSeq(l, 1, Len(c))[j] = l[j]
        BY <1>1, <1>2
      <3> QED BY <2>1, <3>1
    <2>3. c = s <=> \A j \in 1 .. Len(c) : c[j] = l[j]
      <3>1. ASSUME \A j \in 1 .. Len(c) : c[j] = l[j] PROVE c = s
        BY <2>2, <3>1
      <3>2. ASSUME c = s PROVE \A j \in 1 .. Len(c) : c[j] = l[j]
        BY <2>2, <3>2
      <3> QED BY <3>1, <3>2
    <2> QED BY <1>1, <1>2, <2>1, <2>3 DEF IsPrefix
  <1>3. CASE ~(Len(c) <= Len(l))
    BY <1>3 DEF IsPrefix
  <1> QED BY <1>2, <1>3

LEMMA PrefixNext ==
    ASSUME NEW S, NEW c \in Seq(S), NEW l \in Seq(S), IsPrefix(c, l), Len(c) < Len(l)
    PROVE  /\ Append(c, l[Len(c) + 1]) \in Seq(S)
           /\ Len(Append(c, l[Len(c) + 1])) = Len(c) + 1
           /\ IsPrefix(Append(c, l[Len(c) + 1]), l)
  <1>1. Len(c) \in Nat /\ Len(l) \in Nat /\ Len(c) + 1 \in 1 .. Len(l)
    OBVIOUS
  <1>2. PICK e, d : e = l[Len(c) + 1] /\ d = Append(c, e)
    OBVIOUS
  <1>3. e \in S
    BY <1>1, <1>2
  <1>4. /\ d \in Seq(S) /\ Len(d) = Len(c) + 1
        /\ \A j \in 1 .. Len(c) : d[j] = c[j]
        /\ d[Len(c) + 1] = e
    <2>1. /\ Append(c, e) \in Seq(S) /\ Len(Append(c, e)) = Len(c) + 1
          /\ \A j \in 1 .. Len(c) : Append(c, e)[j] = c[j]
          /\ Append(c, e)[Len(c) + 1] = e
      BY <1>3
    <2> QED BY <1>2, <2>1
  <1>5. \A j \in 1 .. Len(c) : c[j] = l[j]
    BY PrefixParts
  <1>6. ASSUME NEW j \in 1 .. Len(d)
        PROVE  d[j] = l[j]
    <2>1. CASE j = Len(c) + 1
      BY <1>2, <1>4, <2>1
    <2>2. CASE j # Len(c) + 1
      <3>1. j \in 1 .. Len(c)
        BY <1>1, <1>4, <2>2
      <3> QED BY <1>4, <1>5, <3>1
    <2> QED BY <2>1, <2>2
  <1>7. IsPrefix(d, l)
    <2>1. Len(d) <= Len(l)
      BY <1>1, <1>4
    <2> QED BY <1>4, <1>6, <2>1, PrefixParts
  <1> QED BY <1>2, <1>4, <1>7

LEMMA PrefixAll ==
    ASSUME NEW S, NEW c \in Seq(S), NEW l \in Seq(S), IsPrefix(c, l), Len(c) = Len(l)
    PROVE  c = l
  <1>1. \A j \in 1 .. Len(c) : c[j] = l[j]
    BY PrefixParts
  <1> QED BY <1>1

\* Where the first string's length is in a record.
LEMMA RecordStrings ==
    ASSUME NEW f \in Files, NEW v \in 1 .. CURRENT_VERSION
    PROVE  /\ FileMetaFixedSize(v) = FixedLenOf(v) /\ FixedLenOf(v) \in Nat
           /\ FixedLenOf(v) + LengthLen <= RecordSize(f, v) /\ RecordSize(f, v) \in Nat
           /\ SerializeFileMetadata(f, v)[FixedLenOf(v) + 1] = <<"length1", f, 1>>
  <1>1. FileMetaFixedSize(v) = FixedLenOf(v)
    BY DEF FileMetaFixedSize, FixedLenOf
  <1> QED BY <1>1, RecordBytes

\* A part of the image that lies before the user data is found where it belongs.
LEMMA FoundHere ==
    ASSUME NEW S, NEW d \in Seq(S), NEW r, NEW m \in Nat, RightBytes(d, r, m),
           NEW part \in Seq(S), NEW at \in Nat, Belongs(part, at, r),
           at + Len(part) <= m, at + Len(part) <= Len(d)
    PROVE  Bytes(d, at, Len(part)) = part
  <1>1. PICK n, w : n = Len(part) /\ w = SubSeq(d, at + 1, at + n)
    OBVIOUS
  <1>2. n \in Nat /\ at \in Nat /\ at + n <= m /\ at + n <= Len(d) /\ Len(d) \in Nat
    BY <1>1
  <1>3. w \in Seq(S) /\ Len(w) = n /\ \A j \in 1 .. n : w[j] = d[at + j]
    <2>1. /\ SubSeq(d, at + 1, at + n) \in Seq(S)
          /\ Len(SubSeq(d, at + 1, at + n)) = n
          /\ \A j \in 1 .. n : SubSeq(d, at + 1, at + n)[j] = d[at + j]
      BY <1>2, PartBytes
    <2> QED BY <1>1, <2>1
  <1>4. ASSUME NEW j \in 1 .. n
        PROVE  w[j] = part[j]
    <2>1. PICK x : x = at + j
      OBVIOUS
    <2>2. x \in 1 .. Len(d) /\ ~(x > m)
      BY <1>2, <2>1
    <2>3. d[x] = r[x]
      BY <2>2 DEF RightBytes
    <2>4. r[x] = part[j]
      BY <1>1, <2>1 DEF Belongs
    <2> QED BY <1>3, <2>1, <2>3, <2>4
  <1>5. w = part
    BY <1>1, <1>3, <1>4
  <1> QED BY <1>1, <1>5 DEF Bytes

LEMMA HeaderFound ==
    ASSUME Inv, ImageInv, disk[Image] # Absent
    PROVE  ParseHeader(disk[Image]) \in {"short", "header"}
  <1>1. /\ files \in PendingLists /\ version \in 1 .. CURRENT_VERSION
        /\ disk[Image] \in Seq(CellsOf(Listed)) /\ Listed \subseteq Files
    BY ListType DEF Inv, TypeOK, ImageAt
  <1>2. PICK d, r, m, S : /\ d = disk[Image] /\ r = Reference /\ m = DataBegin
                          /\ S = CellsOf(Listed)
    OBVIOUS
  <1>3. d \in Seq(S) /\ RightBytes(d, r, m)
    BY <1>1, <1>2 DEF ImageInv, ImageRight
  <1>4. /\ Belongs(EncodeHeader, 0, r) /\ EncodeHeader \in Seq(S)
        /\ Len(EncodeHeader) = HeaderLen /\ HeaderLen \in Nat
        /\ m \in Nat /\ HeaderLen <= m
    BY <1>1, <1>2, HeaderBelongs, HeaderType, LaidHere
  <1>5. CASE 0 + HeaderLen <= Len(d)
    <2>1. 0 + Len(EncodeHeader) <= m /\ 0 + Len(EncodeHeader) <= Len(d)
      BY <1>4, <1>5
    <2>2. Bytes(d, 0, Len(EncodeHeader)) = EncodeHeader
      BY <1>3, <1>4, <2>1, FoundHere
    <2> QED BY <1>2, <1>4, <2>2 DEF ParseHeader
  <1>6. CASE ~(0 + HeaderLen <= Len(d))
    BY <1>2, <1>6 DEF ParseHeader, Good
  <1> QED BY <1>5, <1>6

\* At the place of record k there is that record or the end of the file.
LEMMA RecordFound ==
    ASSUME Inv, ImageInv, disk[Image] # Absent, NEW k \in 1 .. Len(files),
           NEW at, at = RecordEnd(files, version, k - 1),
           NEW record, record = ParseRecord(disk[Image], at, version)
    PROVE  \/ record.code = "short"
           \/ /\ record.code = "record" /\ record.file = files[k]
              /\ record.end = RecordEnd(files, version, k)
  <1>1. /\ files \in PendingLists /\ version \in 1 .. CURRENT_VERSION
        /\ disk[Image] \in Seq(CellsOf(Listed)) /\ Listed \subseteq Files
    BY ListType DEF Inv, TypeOK, ImageAt
  <1>2. PICK d, r, m, S, e, whole, fixed :
           /\ d = disk[Image] /\ r = Reference /\ m = DataBegin /\ S = CellsOf(Listed)
           /\ e = files[k] /\ whole = SerializeFileMetadata(e, version)
           /\ fixed = FixedLenOf(version)
    OBVIOUS
  <1>3. d \in Seq(S) /\ RightBytes(d, r, m) /\ Len(d) \in Nat
    BY <1>1, <1>2 DEF ImageInv, ImageRight
  <1>4. m \in Nat /\ e \in Files /\ whole \in Seq(S)
    BY <1>1, <1>2, LaidHere, RecordOffset
  <1>5. PICK length, next : length = RecordSize(e, version) /\ next = RecordEnd(files, version, k)
    OBVIOUS
  <1>6. /\ Belongs(whole, at, r) /\ Len(whole) = length /\ next = at + length
        /\ next <= m /\ at \in Nat /\ next \in Nat
    BY <1>1, <1>2, <1>5, RecordBelongs
  <1>7. /\ FileMetaFixedSize(version) = fixed /\ fixed \in Nat /\ length \in Nat
        /\ fixed + LengthLen <= length /\ LengthLen \in Nat \ {0}
        /\ whole[fixed + 1] = <<"length1", e, 1>>
    BY <1>1, <1>2, <1>4, <1>5, RecordStrings, LengthsAssumption
  <1>8. PICK strings, f, size :
           /\ strings = at + FileMetaFixedSize(version)
           /\ f = d[strings + 1][2]
           /\ size = FileMetaFixedSize(version) + 2 * LengthLen + 2 * NameLen[f] + SuffixLen
    OBVIOUS
  <1>9. record = IF ~Good(d, strings, LengthLen) THEN [code |-> "short"]
                 ELSE IF d[strings + 1] # <<"length1", f, 1>> THEN [code |-> "garbled"]
                 ELSE IF ~Good(d, at, size) THEN [code |-> "short"]
                 ELSE IF Bytes(d, at, size) # SerializeFileMetadata(f, version)
                      THEN [code |-> "garbled"]
                 ELSE [code |-> "record", file |-> f, end |-> at + size]
    BY <1>2, <1>8 DEF ParseRecord
  <1>10. CASE ~Good(d, strings, LengthLen)
    BY <1>9, <1>10
  <1>11. CASE Good(d, strings, LengthLen)
    <2>1. PICK x : x = fixed + 1
      OBVIOUS
    <2>2. x \in 1 .. length /\ strings + 1 = at + x /\ at + x <= Len(d) /\ ~(at + x > m)
          /\ at + x \in Nat \ {0}
      <3>1. PICK y : y = LengthLen
        OBVIOUS
      <3>2. y \in Nat \ {0} /\ fixed + y <= length /\ fixed \in Nat /\ length \in Nat
        BY <1>7, <3>1
      <3>3. strings = at + fixed /\ strings + y <= Len(d)
        BY <1>7, <1>8, <1>11, <3>1 DEF Good
      <3>4. at \in Nat /\ at + length <= m /\ m \in Nat /\ Len(d) \in Nat
        BY <1>3, <1>4, <1>6
      <3>5. x \in 1 .. length /\ x \in Nat /\ x <= fixed + y
        BY <2>1, <3>2
      <3>6. PICK z, last : z = at + x /\ last = Len(d)
        OBVIOUS
      <3>7. strings + 1 = z
        BY <2>1, <3>2, <3>3, <3>4, <3>6
      <3>8. z \in Nat \ {0} /\ z <= last
        <4>1. strings \in Nat
          <5>1. strings = at + fixed /\ at \in Nat /\ fixed \in Nat
            BY <3>2, <3>3, <3>4
          <5> QED BY <5>1
        <4>3. last \in Nat
          <5>1. Len(d) \in Nat
            BY <3>4
          <5> QED BY <3>6, <5>1
        <4>2. strings + y <= last /\ y \in Nat \ {0}
          BY <3>2, <3>3, <3>6
        <4> QED BY <3>7, <4>1, <4>2, <4>3
      <3>9. z <= m
        BY <3>2, <3>4, <3>5, <3>6
      <3>10. ~(z > m)
        BY <3>4, <3>8, <3>9
      <3> QED BY <3>5, <3>6, <3>7, <3>8, <3>10
    <2>3. d[at + x] = r[at + x]
      <3>1. at + x \in 1 .. Len(d)
        BY <1>3, <2>2
      <3> QED BY <1>3, <2>2, <3>1 DEF RightBytes
    <2>4. r[at + x] = whole[x]
      BY <1>6, <2>2 DEF Belongs
    <2>5. d[strings + 1] = <<"length1", e, 1>>
      BY <1>7, <2>1, <2>2, <2>3, <2>4
    <2>6. f = e
      BY <1>8, <2>5
    <2>7. size = length
      BY <1>2, <1>5, <1>7, <1>8, <2>6 DEF RecordSize
    <2>8. CASE ~Good(d, at, size)
      BY <1>9, <1>11, <2>5, <2>6, <2>8
    <2>9. CASE Good(d, at, size)
      <3>1. at + Len(whole) <= m /\ at + Len(whole) <= Len(d)
        BY <1>6, <2>7, <2>9 DEF Good
      <3>2. Bytes(d, at, Len(whole)) = whole
        BY <1>3, <1>4, <1>6, <3>1, FoundHere
      <3>3. Bytes(d, at, size) = SerializeFileMetadata(f, version)
        BY <1>2, <1>6, <2>6, <2>7, <3>2
      <3>4. record = [code |-> "record", file |-> f, end |-> at + size]
        BY <1>9, <1>11, <2>5, <2>6, <2>9, <3>3
      <3> QED BY <1>2, <1>5, <1>6, <2>6, <2>7, <3>4
    <2> QED BY <2>8, <2>9
  <1> QED BY <1>10, <1>11

LEMMA MountFacts ==
    ASSUME Inv, ImageInv
    PROVE  /\ files \in Seq(Listed) /\ cached \in Seq(Listed) /\ Len(files) \in Nat
           /\ Len(cached) \in Nat /\ Len(cached) <= Len(files)
           /\ mount # "idle" => disk[Image] # Absent
  <1>1. files \in Seq(Listed) /\ cached \in Seq(Listed) /\ (mount # "idle" => disk[Image] # Absent)
    BY ListType DEF Inv, TypeOK, ImageAt
  <1>2. Len(cached) <= Len(files)
    BY <1>1, PrefixParts DEF ImageInv, MountAt
  <1> QED BY <1>1, <1>2

\* A header is found or the file ends before it; every record that is there is found
\* where it was put, and all of them are there when the mount has read as many.
LEMMA MountAtNext ==
    ASSUME FieldsFit, Inv, ImageInv, MountStep
    PROVE  MountAt'
  <1>1. /\ files' = files /\ version' = version
        /\ files \in PendingLists /\ version \in 1 .. CURRENT_VERSION
    BY DEF MountStep, packVars, Inv, TypeOK
  <1>2. /\ files \in Seq(Listed) /\ cached \in Seq(Listed) /\ Len(files) \in Nat
        /\ Len(cached) \in Nat /\ Len(cached) <= Len(files)
        /\ mount # "idle" => disk[Image] # Absent
    BY MountFacts
  <1>3. /\ mount # "garbled" /\ IsPrefix(cached, files)
        /\ mount \in {"idle", "header"} => cached = <<>>
        /\ mount = "records" => pos = RecordEnd(files, version, Len(cached))
    BY DEF ImageInv, MountAt, RecordEnd
  <1>4. VolumeMetadata(files, version).file_count = Len(files)
    <2>1. Len(files) < Word /\ Word \in Nat \ {0}
      BY <1>1, LengthsAssumption DEF FieldsFit
    <2>2. PICK n : n = Len(files)
      OBVIOUS
    <2>3. n % Word = n
      BY <1>2, <2>1, <2>2
    <2> QED BY <2>2, <2>3 DEF VolumeMetadata
  <1>5. CASE CallMount
    BY <1>1, <1>3, <1>5 DEF CallMount, MountAt
  <1>6. CASE MountHeader
    <2>1. mount = "header" /\ cached' = cached /\ cached = <<>>
      BY <1>3, <1>6 DEF MountHeader
    <2>2. ParseHeader(disk[Image]) # "garbled"
      BY <1>2, <2>1, HeaderFound
    <2>3. \/ mount' = "records" /\ pos' = VolumeMetadata(files, version).metadata_offset
          \/ mount' = "ERROR"
      BY <1>6, <2>2 DEF MountHeader
    <2>4. VolumeMetadata(files, version).metadata_offset = HeaderLen
      BY DEF VolumeMetadata
    <2>5. Len(cached) = 0
      BY <2>1
    <2>6. RecordEnd(files, version, 0) = HeaderLen
      BY <1>1, LaidHere DEF Laid
    <2>7. mount' = "records" => pos' = RecordEnd(files, version, Len(cached))
      BY <2>3, <2>4, <2>5, <2>6
    <2> QED BY <1>1, <1>3, <2>1, <2>3, <2>7 DEF MountAt, RecordEnd
  <1>7. CASE MountRecord
    <2>1. PICK record : record = ParseRecord(disk[Image], pos, version)
      OBVIOUS
    <2>2. /\ mount = "records" /\ Len(cached) < Len(files)
          /\ \/ /\ record.code = "record"
                /\ cached' = Append(cached, record.file)
                /\ pos' = record.end
                /\ mount' = mount
             \/ /\ record.code = "short"
                /\ mount' = "ERROR"
                /\ pos' = pos /\ cached' = cached
             \/ record.code \notin {"record", "short"}
      BY <1>4, <1>7, <2>1 DEF MountRecord
    <2>3. PICK k : k = Len(cached) + 1
      OBVIOUS
    <2>4. k \in 1 .. Len(files) /\ k - 1 = Len(cached)
      BY <1>2, <2>2, <2>3
    <2>5. pos = RecordEnd(files, version, k - 1)
      BY <1>3, <2>2, <2>4
    <2>6. \/ record.code = "short"
          \/ /\ record.code = "record" /\ record.file = files[k]
             /\ record.end = RecordEnd(files, version, k)
      BY <1>2, <2>1, <2>2, <2>4, <2>5, RecordFound
    <2>7. CASE record.code = "short"
      BY <1>1, <1>3, <2>2, <2>7 DEF MountAt
    <2>8. CASE record.code = "record"
      <3>1. /\ cached' = Append(cached, files[Len(cached) + 1]) /\ mount' = "records"
            /\ pos' = RecordEnd(files, version, k)
        BY <2>2, <2>3, <2>6, <2>8
      <3>2. Len(cached') = k /\ IsPrefix(cached', files)
        BY <1>2, <1>3, <2>2, <2>3, <3>1, PrefixNext
      <3> QED BY <1>1, <3>1, <3>2 DEF MountAt, RecordEnd
    <2> QED BY <2>6, <2>7, <2>8
  <1>8. CASE FinishMount
    <2>1. /\ mount = "records" /\ Len(cached) = Len(files)
          /\ mount' = "SUCCESS" /\ cached' = cached
      BY <1>4, <1>8 DEF FinishMount
    <2>2. cached = files
      BY <1>2, <1>3, <2>1, PrefixAll
    <2> QED BY <1>1, <1>3, <2>1, <2>2 DEF MountAt
  <1> QED BY <1>5, <1>6, <1>7, <1>8 DEF MountStep

LEMMA ImageMountNext ==
    ASSUME FieldsFit, Inv, ImageInv, MountStep
    PROVE  ImageInv'
  <1>1. UNCHANGED <<ioVars, packVars, readVars>>
    BY DEF MountStep
  <1>2. /\ files' = files /\ version' = version /\ pack' = pack /\ written' = written
        /\ disk' = disk /\ io' = io /\ reading' = reading /\ settled' = settled
    BY <1>1 DEF packVars, ioVars, readVars
  <1>3. ImageRight' /\ HeadWritten' /\ DataWritten' /\ Finished'
    BY <1>2, SameKeeps
  <1>4. ReadBytes'
    BY <1>2, ReaderKeeps
  <1> QED BY <1>3, <1>4, MountAtNext DEF ImageInv

LEMMA ImageReadNext ==
    ASSUME FieldsFit, Inv, ImageInv, CallRead
    PROVE  ImageInv'
  <1>1. PICK f \in Files :
           /\ reading' = f
           /\ io' = [io EXCEPT ![Reader] = AsyncReadAt(Image, Place(f), DataLen[f])]
           /\ Readable(f)
    BY DEF CallRead
  <1>2. /\ reading = NoFile /\ settled' = (pack \in {"SUCCESS", "none"})
        /\ UNCHANGED <<directories, disk, budgets, packVars, mountVars>>
    BY DEF CallRead
  <1>3. /\ files' = files /\ version' = version /\ pack' = pack /\ written' = written
        /\ disk' = disk /\ UNCHANGED mountVars
    BY <1>2 DEF packVars
  <1>4. /\ TypeOK /\ ImageAt /\ files \in PendingLists /\ version \in 1 .. CURRENT_VERSION
        /\ io \in [Procs -> CallSet] /\ Reader \in Procs /\ Packer # Reader
        /\ Listed \subseteq Files /\ Reader \notin Files
    BY ListType, ProcFacts DEF Inv, TypeOK, CallSet
  <1>5. io'[Packer] = io[Packer] /\ \A g \in Listed : io'[g] = io[g]
    BY <1>1, <1>4, ProcFacts
  <1>6. ImageRight' /\ HeadWritten' /\ DataWritten' /\ Finished'
    BY <1>3, <1>5, SameKeeps
  <1>7. MountAt'
    BY <1>3, MountKeeps
  <1>8. f \in Listed
    <2>1. CASE pack = "SUCCESS" /\ InFiles(f)
      BY <1>4, <2>1, ListType
    <2>2. CASE mount = "SUCCESS" /\ \E k \in DOMAIN cached : cached[k] = f
      BY <1>4, <2>2 DEF ImageAt
    <2> QED BY <1>1, <2>1, <2>2 DEF Readable
  <1>9. io'[Reader].buffer = <<>>
    <2>1. PICK c, offset, size :
             /\ offset = Place(f) /\ size = DataLen[f]
             /\ c = AsyncReadAt(Image, offset, size)
      OBVIOUS
    <2>2. offset \in Nat /\ size \in Nat /\ Image \in Names
      BY <1>4, <1>8, <2>1, PlaceType, LengthsAssumption, ProcFacts
    <2>3. c.buffer = <<>>
      BY <2>1, <2>2, ReadAtCall
    <2> QED BY <1>1, <1>4, <2>1, <2>3
  <1>10. ReadBytes'
    <2>1. Len(<<>>) = 0 /\ 1 .. 0 = {}
      OBVIOUS
    <2>2. ReadRight(<<>>, f, Gaps')
      BY <2>1 DEF ReadRight
    <2> QED BY <1>1, <1>2, <1>3, <1>9, <2>2 DEF ReadBytes
  <1> QED BY <1>6, <1>7, <1>10 DEF ImageInv

LEMMA ImageStutterNext ==
    ASSUME ImageInv, UNCHANGED vars
    PROVE  ImageInv'
  <1>1. /\ files' = files /\ version' = version /\ pack' = pack /\ written' = written
        /\ disk' = disk /\ io' = io /\ reading' = reading /\ settled' = settled
        /\ UNCHANGED mountVars
    BY DEF vars, packVars, ioVars, readVars
  <1>2. ImageRight' /\ HeadWritten' /\ DataWritten' /\ Finished'
    BY <1>1, SameKeeps
  <1>3. ReadBytes' /\ MountAt'
    BY <1>1, ReaderKeeps, MountKeeps
  <1> QED BY <1>2, <1>3 DEF ImageInv

LEMMA ImageInvNext ==
    ASSUME FieldsFit, Inv, ImageInv, [Next]_vars
    PROVE  ImageInv'
  <1>1. CASE PackStep
    BY <1>1, ImagePackNext
  <1>2. CASE MountStep
    BY <1>2, ImageMountNext
  <1>3. CASE CallRead
    BY <1>3, ImageReadNext
  <1>4. CASE \E p \in Procs : IoStep(p)
    BY <1>4, ImageIoNext
  <1>5. CASE Rest \/ UNCHANGED vars
    BY <1>5, ImageStutterNext DEF Rest
  <1> QED BY <1>1, <1>2, <1>3, <1>4, <1>5 DEF Next

LEMMA ImageInvInit ==
    ASSUME FieldsFit, Init
    PROVE  ImageInv
  <1>1. /\ FileIOInit /\ files \in PendingLists /\ written = 0
        /\ mount = "idle" /\ pos = 0 /\ cached = <<>>
        /\ reading = NoFile /\ settled = FALSE
    BY DEF Init
  <1>2. \/ version = 2 /\ pack = "start" /\ disk = [n \in Names |-> Absent]
        \/ /\ version = 1 /\ pack = "none"
           /\ disk = [n \in Names |-> IF n = Image THEN ReferenceImage(files, 1) ELSE Absent]
    BY DEF Init, CURRENT_VERSION
  <1>3. \/ pack = "start" /\ disk[Image] = Absent
        \/ version = 1 /\ pack = "none" /\ disk[Image] = Reference
    BY <1>2, ProcFacts DEF Reference
  <1>4. ImageRight
    <2>1. \A x \in 1 .. Len(Reference) : Reference[x] = Reference[x]
      OBVIOUS
    <2>2. version \in 1 .. CURRENT_VERSION
      BY <1>2 DEF CURRENT_VERSION
    <2>3. Len(Reference) <= Len(Reference)
      BY <1>1, <2>2, LaidHere
    <2> QED BY <1>3, <2>3 DEF ImageRight, RightBytes
  <1>5. HeadWritten /\ DataWritten /\ Finished
    BY <1>3 DEF HeadWritten, DataWritten, Finished
  <1>6. MountAt
    BY <1>1, ListType, PrefixNone DEF MountAt
  <1>7. ReadBytes
    BY <1>1 DEF ReadBytes
  <1> QED BY <1>4, <1>5, <1>6, <1>7 DEF ImageInv

LEMMA ImageInvHolds ==
    ASSUME FieldsFit
    PROVE  Spec => [](Inv /\ ImageInv)
  <1>1. Init => Inv /\ ImageInv
    BY InvInit, ImageInvInit
  <1>2. Inv /\ ImageInv /\ [Next]_vars => Inv' /\ ImageInv'
    BY InvNext, ImageInvNext
  <1> QED BY <1>1, <1>2, PTL DEF Spec

\* If no field is too narrow, a mount is never misled: whatever part of the image is
\* there, MountVolume caches records that were packed, in their order, and returns
\* SUCCESS only with all of them.
THEOREM MountFindsRecords ==
    ASSUME FieldsFit
    PROVE  Spec => []MountExact
  <1>1. Inv /\ ImageInv => MountExact
    BY DEF ImageInv, MountAt, MountExact
  <1> QED BY <1>1, ImageInvHolds, PTL

\* If no field is too narrow, a pack that returns SUCCESS has made its image byte for
\* byte: AsyncFileIO's loops lose nothing, and 32-bit offsets put all data in its place.
THEOREM PackWritesImage ==
    ASSUME FieldsFit
    PROVE  Spec => []WrittenThrough
  <1>1. ASSUME Inv, ImageInv PROVE WrittenThrough
    <2> SUFFICES ASSUME pack = "SUCCESS"
                 PROVE  disk[Image] = ReferenceImage(files, CURRENT_VERSION)
      BY DEF WrittenThrough
    <2>1. version \in 1 .. CURRENT_VERSION /\ version # 1 /\ CURRENT_VERSION = 2
      BY <1>1 DEF Inv, TypeOK, ImageAt, CURRENT_VERSION
    <2>2. version = CURRENT_VERSION
      BY <2>1
    <2> QED BY <1>1, <2>2 DEF ImageInv, Finished, Reference
  <1> QED BY <1>1, ImageInvHolds, PTL

\* If no field is too narrow, ReadFile gets the bytes of its file; what an image that is
\* still being written can lack it gets as gaps, never as bytes of something else.
THEOREM ReadsOwnBytes ==
    ASSUME FieldsFit
    PROVE  Spec => []ReadOwnBytes
  <1>1. ASSUME Inv, ImageInv PROVE ReadOwnBytes
    <2> SUFFICES ASSUME reading # NoFile, io[Reader].code = "SUCCESS"
                 PROVE  /\ Len(io[Reader].buffer) = DataLen[reading]
                        /\ \A k \in 1 .. DataLen[reading] :
                              \/ io[Reader].buffer[k] = EncodeData(reading)[k]
                              \/ ~settled /\ io[Reader].buffer[k] = Hole
      BY DEF ReadOwnBytes
    <2>1. Len(io[Reader].buffer) = DataLen[reading]
      BY <1>1 DEF Inv, ReaderAt, ReadAtJob, ReadAtPhase
    <2>2. ReadRight(io[Reader].buffer, reading, Gaps)
      BY <1>1 DEF ImageInv, ReadBytes
    <2> QED BY <2>1, <2>2 DEF ReadRight, Gaps
  <1> QED BY <1>1, ImageInvHolds, PTL
=============================================================================

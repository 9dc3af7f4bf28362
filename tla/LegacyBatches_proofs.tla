------------------------ MODULE LegacyBatches_proofs ------------------------
(* Lemmas about the batches of the legacy migration, for every number of     *)
(* images and every batch limit: cutting the images that are left into       *)
(* batches, start after start, always gives the blocks of the plan           *)
(* (_build_batches, media_migration_v2.py; _linear_batches,                  *)
(* media_asset_backfill.py).                                                 *)
EXTENDS LegacyDisk, FiniteSetTheorems, TLAPS

Below(j, A) == {k \in A : k < j}
Rank(j, A) == Cardinality(Below(j, A))

LEMMA BatchIs ==
    ASSUME NEW S
    PROVE  Batch(S) = {i \in S : Rank(i, S) < BatchLimit}
  BY DEF Batch, Rank, Below

LEMMA BlockIs ==
    ASSUME NEW A, NEW i
    PROVE  BlockOf(i, A) =
             {j \in A : Rank(j, A) \div BatchLimit = Rank(i, A) \div BatchLimit}
  BY DEF BlockOf, Rank, Below

LEMMA ImagesNat == Images \subseteq Nat /\ N \in Nat /\ IsFiniteSet(Images)
<1>1. N \in Int /\ 1 \in Int
  BY SizesAssumption
<1>2. IsFiniteSet(1..N)
  BY <1>1, FS_Interval
<1>. QED  BY <1>2, SizesAssumption DEF Images

LEMMA OfNat ==
    ASSUME NEW S \in SUBSET Images, NEW k \in S
    PROVE  k \in Nat
  BY ImagesNat

LEMMA ImagesFinite ==
    ASSUME NEW S \in SUBSET Images
    PROVE  IsFiniteSet(S) /\ Cardinality(S) \in Nat
<1>1. IsFiniteSet(S)
  BY ImagesNat, FS_Subset
<1>. QED  BY <1>1, FS_CardinalityType

LEMMA RankNat ==
    ASSUME NEW A \in SUBSET Images, NEW j
    PROVE  Below(j, A) \in SUBSET Images /\ Rank(j, A) \in Nat
  BY ImagesFinite DEF Below, Rank

LEMMA LimitNat == BatchLimit \in Nat \ {0}
  BY SizesAssumption

-----------------------------------------------------------------------------
(* The least and the greatest of some images.                                *)

LEMMA HasLeast ==
    ASSUME NEW T \in SUBSET Nat, T # {}
    PROVE  \E x \in T : \A y \in T : x <= y
<1> DEFINE Smaller == {ss \in Nat \X Nat : ss[1] < ss[2]}
<1>0. IsWellFoundedOn(Smaller, Nat)
  <2>1. Smaller = OpToRel(<, Nat)
    BY DEF OpToRel
  <2>. QED  BY <2>1, NatLessThanWellFounded
<1>1. PICK x \in T : \A y \in T : ~(<<y, x>> \in Smaller)
  <2> HIDE DEF Smaller
  <2>. QED  BY <1>0, WFMin
<1>2. ASSUME NEW y \in T  PROVE x <= y
  <2>1. x \in Nat /\ y \in Nat /\ <<y, x>> \notin Smaller
    BY <1>1
  <2>2. ~(y < x)
    BY <2>1 DEF Smaller
  <2>. QED  BY <2>1, <2>2
<1>. QED  BY <1>2

LEMMA LeastIn ==
    ASSUME NEW S \in SUBSET Images, S # {}
    PROVE  First(S) \in S /\ \A y \in S : First(S) <= y
<1>1. PICK x \in S : \A y \in S : x <= y
  BY HasLeast, ImagesNat
<1>. QED  BY <1>1 DEF First, Min

LEMMA HasGreatest ==
    ASSUME NEW S \in SUBSET Images, S # {}
    PROVE  \E x \in S : \A y \in S : y <= x
<1> DEFINE T == {N - y : y \in S}
<1>1. T \in SUBSET Nat /\ T # {}
  <2>1. \A y \in S : y \in Nat /\ y <= N
    BY ImagesNat DEF Images
  <2>2. \A y \in S : N - y \in Nat
    BY <2>1, ImagesNat
  <2>. QED  BY <2>2
<1>2. PICK t \in T : \A u \in T : t <= u
  BY <1>1, HasLeast
<1>3. PICK x \in S : t = N - x
  BY <1>2
<1>4. ASSUME NEW y \in S  PROVE y <= x
  <2>1. N - x <= N - y
    BY <1>2, <1>3
  <2>. QED  BY <2>1, ImagesNat
<1>. QED  BY <1>4

-----------------------------------------------------------------------------
(* A batch holds the first images that are left, and some if any is.         *)

LEMMA RankGrows ==
    ASSUME NEW A \in SUBSET Images, NEW i \in Images, NEW j \in Images, i <= j
    PROVE  Rank(i, A) <= Rank(j, A)
<1>1. Below(i, A) \subseteq Below(j, A)
  <2>1. ASSUME NEW k \in A, k < i  PROVE k < j
    <3>1. k \in Nat /\ i \in Nat /\ j \in Nat
      BY OfNat
    <3>. QED  BY <2>1, <3>1
  <2>. QED  BY <2>1 DEF Below
<1>2. IsFiniteSet(Below(j, A))
  BY RankNat, ImagesFinite
<1>. QED  BY <1>1, <1>2, FS_Subset DEF Rank

LEMMA RankGrowsStrictly ==
    ASSUME NEW A \in SUBSET Images, NEW i \in A, NEW j \in Images, i < j
    PROVE  Rank(i, A) < Rank(j, A)
<1>1. Below(i, A) \subseteq Below(j, A) /\ i \in Below(j, A) /\ i \notin Below(i, A)
  <2>1. i \in Nat /\ j \in Nat /\ ~(i < i)
    BY OfNat
  <2>2. ASSUME NEW k \in A, k < i  PROVE k < j
    <3>1. k \in Nat
      BY OfNat
    <3>. QED  BY <2>1, <2>2, <3>1
  <2>. QED  BY <2>1, <2>2 DEF Below
<1>2. IsFiniteSet(Below(j, A))
  BY RankNat, ImagesFinite
<1>3. Rank(i, A) <= Rank(j, A) /\ Rank(i, A) # Rank(j, A)
  BY <1>1, <1>2, FS_Subset DEF Rank
<1>. QED  BY <1>3, RankNat

LEMMA BatchFirst ==
    ASSUME NEW S \in SUBSET Images, NEW i \in Batch(S), NEW j \in S \ Batch(S)
    PROVE  i < j
<1>1. i \in Images /\ j \in Images /\ Rank(i, S) < BatchLimit
      /\ ~(Rank(j, S) < BatchLimit)
  BY BatchIs
<1>2. ~(j <= i)
  BY <1>1, RankGrows, RankNat, LimitNat
<1>. QED  BY <1>1, <1>2, ImagesNat

LEMMA RankOfFirst ==
    ASSUME NEW S \in SUBSET Images, S # {}
    PROVE  Rank(First(S), S) = 0
<1>1. First(S) \in S /\ \A y \in S : First(S) <= y
  BY LeastIn
<1>2. ASSUME NEW y \in S  PROVE ~(y < First(S))
  <2>1. y \in Nat /\ First(S) \in Nat /\ First(S) <= y
    BY <1>1, OfNat
  <2>. QED  BY <2>1
<1>3. Below(First(S), S) = {}
  BY <1>2 DEF Below
<1>. QED  BY <1>3, FS_EmptySet DEF Rank

LEMMA BatchNonempty ==
    ASSUME NEW S \in SUBSET Images, S # {}
    PROVE  First(S) \in Batch(S)
<1>1. First(S) \in S /\ Rank(First(S), S) = 0
  BY LeastIn, RankOfFirst
<1>. QED  BY <1>1, BatchIs, LimitNat

LEMMA BatchWithin ==
    ASSUME NEW S
    PROVE  Batch(S) \subseteq S
  BY DEF Batch

-----------------------------------------------------------------------------
(* Division, as BlockOf uses it.                                             *)

LEMMA QuotientOf ==
    ASSUME NEW n \in Nat, NEW l \in Nat \ {0}
    PROVE  n \div l \in Nat
  OBVIOUS

LEMMA Carry ==
    ASSUME NEW n \in Nat, NEW l \in Nat \ {0}, (n + 1) \div l # n \div l
    PROVE  n + 1 = l * ((n + 1) \div l)
  OBVIOUS

LEMMA QuotientIs ==
    ASSUME NEW n \in Nat, NEW l \in Nat \ {0}, NEW q \in Nat
    PROVE  n \div l = q <=> l * q <= n /\ n < l * q + l
  OBVIOUS

-----------------------------------------------------------------------------
(* Images done so far: the first ones of a plan, up to the end of a block.   *)
Leading(D, A) ==
    /\ D \subseteq A
    /\ \A d \in D, j \in A : j < d => j \in D
    /\ \A d \in D : BlockOf(d, A) \subseteq D

(* Nothing, or one block of a plan.                                          *)
OneBlock(D, A) == \A d \in D : d \in A /\ BlockOf(d, A) = D

LEMMA LeadingNone == ASSUME NEW A  PROVE Leading({}, A) /\ OneBlock({}, A)
  BY DEF Leading, OneBlock

LEMMA BlockMember ==
    ASSUME NEW A, NEW i, NEW j \in BlockOf(i, A)
    PROVE  j \in A /\ BlockOf(j, A) = BlockOf(i, A)
  BY BlockIs

LEMMA InOwnBlock ==
    ASSUME NEW A, NEW i \in A
    PROVE  i \in BlockOf(i, A)
  BY BlockIs

(* The images that are left rank behind those that are done.                 *)
LEMMA RankLeft ==
    ASSUME NEW A \in SUBSET Images, NEW D, Leading(D, A), NEW j \in A \ D
    PROVE  Rank(j, A) = Cardinality(D) + Rank(j, A \ D)
<1> DEFINE S == A \ D
<1>1. D \in SUBSET Images /\ S \in SUBSET Images
  BY DEF Leading
<1>2. Below(j, A) = D \cup Below(j, S)
  <2>1. \A d \in D : d < j
    BY <1>1, ImagesNat DEF Leading
  <2>. QED  BY <2>1 DEF Below, Leading
<1>3. D \cap Below(j, S) = {}
  BY DEF Below
<1>4. /\ IsFiniteSet(D) /\ Cardinality(D) \in Nat
      /\ IsFiniteSet(Below(j, S)) /\ Rank(j, S) \in Nat
  BY <1>1, RankNat, ImagesFinite
<1>5. Cardinality(D \cap Below(j, S)) = 0
  BY <1>3, FS_EmptySet
<1>6. Rank(j, A) = Cardinality(D) + Rank(j, S) - 0
  BY <1>2, <1>4, <1>5, FS_Union DEF Rank
<1>. QED  BY <1>4, <1>6

(* There are as many done as fill whole blocks, if any are left.             *)
LEMMA WholeBlocks ==
    ASSUME NEW A \in SUBSET Images, NEW D, Leading(D, A), A \ D # {}
    PROVE  /\ Cardinality(D) \in Nat
           /\ \E q \in Nat : Cardinality(D) = BatchLimit * q
<1> DEFINE S == A \ D
           m == First(S)
           n == Cardinality(D)
<1>1. D \in SUBSET Images /\ S \in SUBSET Images
  BY DEF Leading
<1>2. n \in Nat /\ IsFiniteSet(D)
  BY <1>1, ImagesFinite
<1>3. CASE D = {}
  <2>1. n = BatchLimit * 0
    BY <1>3, FS_EmptySet, LimitNat
  <2>. QED  BY <1>2, <2>1
<1>4. CASE D # {}
  <2>1. PICK x \in D : \A y \in D : y <= x
    BY <1>1, <1>4, HasGreatest
  <2>2. Below(x, A) = D \ {x}
    <3>1. ASSUME NEW k \in A  PROVE k < x <=> k \in D \ {x}
      <4>1. k \in Nat /\ x \in Nat
        BY <1>1, OfNat
      <4>2. k < x => k \in D /\ k # x
        BY <4>1 DEF Leading
      <4>3. k \in D /\ k # x => k < x
        BY <2>1, <4>1
      <4>. QED  BY <4>2, <4>3
    <3>. QED  BY <3>1 DEF Below, Leading
  <2>3. Rank(x, A) = n - 1
    BY <1>2, <2>1, <2>2, FS_RemoveElement DEF Rank
  <2>4. m \in S /\ \A y \in S : m <= y
    BY <1>1, LeastIn
  <2>6. Rank(m, S) = 0
    BY <1>1, RankOfFirst
  <2>7. Rank(m, A) = n
    <3>1. m \in A \ D
      BY <2>4
    <3>2. Rank(m, A) = Cardinality(D) + Rank(m, A \ D)
      BY <3>1, RankLeft
    <3>. QED  BY <1>2, <2>6, <3>2
  <2>8. m \notin BlockOf(x, A)
    BY <2>1, <2>4 DEF Leading
  <2>9. n \div BatchLimit # (n - 1) \div BatchLimit
    BY <2>3, <2>4, <2>7, <2>8, BlockIs
  <2>10. n - 1 \in Nat
    BY <2>1, <2>3, RankNat DEF Leading
  <2>11. n = BatchLimit * (n \div BatchLimit) /\ n \div BatchLimit \in Nat
    <3>1. (n - 1) + 1 = n
      BY <1>2
    <3>. QED  BY <1>2, <2>9, <2>10, <3>1, Carry, QuotientOf, LimitNat
  <2>. QED  BY <1>2, <2>11
<1>. QED  BY <1>3, <1>4

(* The next batch is a block of the plan, whichever start cuts it.           *)
THEOREM BatchIsBlock ==
    ASSUME NEW A \in SUBSET Images, NEW D, Leading(D, A), NEW i \in Batch(A \ D)
    PROVE  BlockOf(i, A) = Batch(A \ D)
<1> DEFINE S == A \ D
           n == Cardinality(D)
<1>1. D \in SUBSET Images /\ S \in SUBSET Images /\ i \in S
  BY BatchIs DEF Leading
<1>2. PICK q \in Nat : n = BatchLimit * q
  BY <1>1, WholeBlocks
<1>3. n \in Nat
  BY <1>1, ImagesFinite
<1>4. ASSUME NEW j \in A
      PROVE  Rank(j, A) \div BatchLimit = q <=> j \in Batch(S)
  <2>0. Rank(j, A) \in Nat /\ Rank(j, S) \in Nat
    BY <1>1, RankNat
  <2>1. Rank(j, A) \div BatchLimit = q <=> n <= Rank(j, A) /\ Rank(j, A) < n + BatchLimit
    BY <1>2, <2>0, QuotientIs, LimitNat
  <2>2. CASE j \in D
    <3>1. First(S) \in S /\ j < First(S) /\ Rank(First(S), A) = n + Rank(First(S), S)
      <4>1. First(S) \in S
        BY <1>1, LeastIn
      <4>2. j \in Nat /\ First(S) \in Nat /\ j # First(S)
        BY <1>1, <2>2, <4>1, OfNat
      <4>3. ~(First(S) < j)
        BY <2>2, <4>1 DEF Leading
      <4>4. Rank(First(S), A) = n + Rank(First(S), S)
        BY <4>1, RankLeft
      <4>. QED  BY <4>1, <4>2, <4>3, <4>4
    <3>3. Rank(First(S), S) = 0
      BY <1>1, <3>1, RankOfFirst
    <3>4. Rank(j, A) < n
      BY <1>1, <1>3, <2>0, <2>2, <3>1, <3>3, RankGrowsStrictly
    <3>. QED  BY <1>3, <2>0, <2>1, <2>2, <3>4, BatchIs
  <2>3. CASE j \in S
    <3>1. Rank(j, A) = n + Rank(j, S)
      BY <2>3, RankLeft
    <3>2. j \in Batch(S) <=> Rank(j, S) < BatchLimit
      BY <2>3, BatchIs
    <3>. QED  BY <1>3, <2>0, <2>1, <3>1, <3>2, LimitNat
  <2>. QED  BY <2>2, <2>3
<1>5. Rank(i, A) \div BatchLimit = q
  BY <1>1, <1>4
<1>6. BlockOf(i, A) = {j \in A : Rank(j, A) \div BatchLimit = q}
  BY <1>5, BlockIs
<1>7. Batch(S) \subseteq A
  BY BatchIs
<1>. QED  BY <1>4, <1>6, <1>7

(* A batch that is done leaves whole blocks done.                            *)
LEMMA LeadingGrows ==
    ASSUME NEW A \in SUBSET Images, NEW D, Leading(D, A)
    PROVE  /\ Leading(D \cup Batch(A \ D), A)
           /\ OneBlock(Batch(A \ D), A)
           /\ Batch(A \ D) \cap D = {}
<1> DEFINE S == A \ D
           B == Batch(S)
<1>1. B \subseteq S /\ S \in SUBSET Images
  BY BatchIs
<1>2. \A i \in B : BlockOf(i, A) = B
  BY BatchIsBlock
<1>3. ASSUME NEW d \in D \cup B, NEW j \in A, j < d  PROVE j \in D \cup B
  <2>1. CASE d \in D
    BY <1>3, <2>1 DEF Leading
  <2>2. CASE d \in B /\ j \in S \ B
    <3>1. d < j
      BY <1>1, <2>2, BatchFirst
    <3>2. d \in Nat /\ j \in Nat
      BY <1>1, <2>2, OfNat
    <3>. QED  BY <1>3, <3>1, <3>2
  <2>. QED  BY <1>1, <2>1, <2>2
<1>. QED  BY <1>1, <1>2, <1>3 DEF Leading, OneBlock

(* A walk over the batches that meets one that is not done has passed all    *)
(* that is done.                                                             *)
LEMMA WalkReaches ==
    ASSUME NEW A \in SUBSET Images, NEW C, Leading(C, A), NEW D, Leading(D, A),
           D \subseteq C, Batch(A \ D) # {}, Batch(A \ D) \cap C = {}
    PROVE  C = D
<1>1. PICK w \in Batch(A \ D) : w \notin C
  OBVIOUS
<1>2. ASSUME NEW c \in C \ D  PROVE FALSE
  <2>1. c \in A \ D /\ c \notin Batch(A \ D)
    BY <1>2 DEF Leading
  <2>2. w < c
    BY <1>1, <2>1, BatchFirst
  <2>3. w \in A
    BY <1>1, BatchWithin
  <2>. QED  BY <1>1, <2>2, <2>3 DEF Leading
<1>. QED  BY <1>2

(* A block and what is done do not overlap in part.                          *)
LEMMA BlockInOrOut ==
    ASSUME NEW A, NEW D, Leading(D, A), NEW B, OneBlock(B, A), B \cap D # {}
    PROVE  B \subseteq D
  BY DEF Leading, OneBlock

LEMMA BlocksMeet ==
    ASSUME NEW A, NEW B, OneBlock(B, A), NEW C, OneBlock(C, A), B \cap C # {}
    PROVE  B = C
  BY DEF OneBlock
=============================================================================

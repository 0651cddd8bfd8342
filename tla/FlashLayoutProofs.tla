-------------------------- MODULE FlashLayoutProofs --------------------------
(***************************************************************************)
(* The block arithmetic of FlashLayout.tla, for every block size and width *)
(* of block numbers: the rounding of payload_block_count and the limit of  *)
(* validate_image_size agree.                                              *)
(***************************************************************************)
EXTENDS FlashLayout, TLAPS

\* Division rounded up (payload_block_count): the least number of blocks that hold n bytes.
LEMMA DivCeilBounds ==
    ASSUME NEW n \in Nat, NEW d \in Nat \ {0}
    PROVE  /\ DivCeil(n, d) \in Nat
           /\ n <= DivCeil(n, d) * d
           /\ DivCeil(n, d) * d < n + d
<1> DEFINE q == (n + d - 1) \div d
           r == (n + d - 1) % d
<1>1. q \in Int /\ r \in 0..d - 1 /\ n + d - 1 = d * q + r
  OBVIOUS
<1>2. q >= 0
  <2>1. SUFFICES ASSUME q < 0 PROVE FALSE
    BY <1>1
  <2>2. d * q <= -d
    BY <1>1, <2>1
  <2> QED
    BY <1>1, <2>2
<1>3. d * q = q * d
  BY <1>1
<1> QED
  BY <1>1, <1>2, <1>3 DEF DivCeil

\* Fewer bytes than m blocks hold need no more than m blocks.
LEMMA LessIsFewer ==
    ASSUME NEW b \in Nat, NEW m \in Nat, NEW d \in Nat \ {0}, b * d < m * d + d
    PROVE  b <= m
<1>1. SUFFICES ASSUME b >= m + 1 PROVE FALSE
  OBVIOUS
<1>2. b * d >= (m + 1) * d
  BY <1>1
<1>3. (m + 1) * d = m * d + d
  OBVIOUS
<1> QED
  BY <1>2, <1>3

\* An image that fits a range of the plan is written inside it, as a whole (validate_image_size
\* and payload_block_count agree, and the saturation of the latter never happens).
LEMMA FittingImageIsWritten ==
    ASSUME NEW stage \in [start : Nat, count : Nat], NEW size \in Nat,
           FitsU32(stage.count), SizeFits(stage, size)
    PROVE  LET written == Written(stage, size)
           IN  /\ written.start = stage.start
               /\ written.count \in Nat /\ written.count <= stage.count
               /\ size <= written.count * BlockSize
               /\ written.count * BlockSize < size + BlockSize
<1> DEFINE blocks == DivCeil(size, BlockSize)
<1>1. BlockSize \in Nat \ {0} /\ U32 \in Nat \ {0}
  BY LayoutAssumption
<1>2. blocks \in Nat /\ size <= blocks * BlockSize /\ blocks * BlockSize < size + BlockSize
  BY <1>1, DivCeilBounds
<1>3. size <= stage.count * BlockSize
  BY DEF SizeFits, MaxBytes
<1> HIDE DEF blocks
<1>4. blocks * BlockSize < stage.count * BlockSize + BlockSize
  <2>1. blocks * BlockSize \in Nat /\ stage.count * BlockSize \in Nat
    BY <1>1, <1>2
  <2> QED
    BY <1>1, <1>2, <1>3, <2>1
<1>5. blocks <= stage.count
  BY <1>1, <1>2, <1>4, LessIsFewer
<1>6. PayloadBlockCount(size) = blocks
  BY <1>1, <1>2, <1>5 DEF PayloadBlockCount, FitsU32, blocks
<1> QED
  BY <1>2, <1>5, <1>6 DEF Written, Range32
==============================================================================

-------------------------- MODULE OrderBookProofs --------------------------
(***************************************************************************)
(* First the bitmap's functions.  Then BookInv, an inductive invariant of  *)
(* the CURRENT engine for any pool, price range, users and quantities.     *)
(* Cancel and Fill take a node out of a list, so what that does to each    *)
(* part of the invariant is proved once, for Unlinked; then there is one   *)
(* theorem per action.  Then the engine implements LimitBook, and so is    *)
(* never crossed.  The last sections follow the queries: the scan of the   *)
(* bitmap lists the marked prices and the walk of a list its orders, so    *)
(* the snapshots are exact.                                                *)
(***************************************************************************)
EXTENDS OrderBookQueries, SumTheorems, SequenceTheorems, WellFoundedInduction, TLAPS

-----------------------------------------------------------------------------
(* The three-level bitmap is a set of prices: set and clear add and remove *)
(* one price and keep the levels consistent, and the top-down scans return *)
(* the largest and the smallest marked price, for every MAX_PRICE and      *)
(* every word size.                                                        *)

\* A non-empty set of naturals has a least element.
LEMMA NatMin == ASSUME NEW S, S \subseteq Nat, S # {}
                PROVE  \E x \in S : \A y \in S : x <= y
<1>1. PICK x \in S : \A y \in S : ~ (<<y, x>> \in OpToRel(<, Nat))
  BY NatLessThanWellFounded, WFMin
<1>2. \A y \in S : <<y, x>> \in OpToRel(<, Nat) <=> y < x
  BY DEF OpToRel
<1>3. \A y \in S : ~ (y < x)
  BY <1>1, <1>2, Zenon
<1>4. \A y \in S : y \in Nat
  OBVIOUS
<1>5. \A a, b \in Nat : ~ (b < a) => a <= b
  OBVIOUS
<1>6. \A y \in S : x <= y
  BY <1>3, <1>4, <1>5, Zenon
<1>. QED  BY <1>6

\* A non-empty word has a lowest bit (ctz) ...
LEMMA WordMin == ASSUME NEW w \in Word, w # {}
                 PROVE  Min(w) \in w /\ \A b \in w : Min(w) <= b
<1>1. w \subseteq Nat
  BY BitmapAssumption DEF Word
<1>2. \E x \in w : \A y \in w : x <= y
  BY <1>1, NatMin
<1>. QED  BY <1>2 DEF Min

\* ... and a highest bit (clz).
LEMMA WordMax == ASSUME NEW w \in Word, w # {}
                 PROVE  Max(w) \in w /\ \A b \in w : b <= Max(w)
<1>. DEFINE mirror == {WordBits - 1 - b : b \in w}
<1>0. w \subseteq 0 .. WordBits - 1 /\ WordBits \in Nat
  BY BitmapAssumption DEF Word
<1>1. mirror \subseteq Nat /\ mirror # {}
  <2>1. \A b \in w : WordBits - 1 - b \in Nat
    BY <1>0
  <2>. QED  BY <2>1
<1>2. PICK x \in mirror : \A y \in mirror : x <= y
  BY <1>1, NatMin
<1>3. PICK t \in w : x = WordBits - 1 - t
  OBVIOUS
<1>4. w \subseteq Int /\ WordBits \in Int
  BY BitmapAssumption DEF Word
<1>5. \A b \in w : b <= t
  <2>1. TAKE b \in w
  <2>2. WordBits - 1 - b \in mirror
    OBVIOUS
  <2>3. WordBits - 1 - t <= WordBits - 1 - b
    BY <1>2, <1>3, <2>2
  <2>. QED  BY <2>3, <1>4
<1>6. \E z \in w : \A y \in w : z >= y
  BY <1>5, <1>4
<1>7. Max(w) \in w /\ \A y \in w : Max(w) >= y
  BY <1>6 DEF Max
<1>. QED  BY <1>7, <1>4

\* Quotient and remainder of a natural number.
LEMMA DivMod == ASSUME NEW p \in Nat, NEW w \in Nat \ {0}
                PROVE  /\ p = (p \div w) * w + (p % w)
                       /\ p % w \in 0 .. w - 1
                       /\ p \div w \in Nat
  OBVIOUS

\* Quotient and remainder determine the number, and conversely.
LEMMA DivModUnique == ASSUME NEW w \in Nat \ {0}, NEW q \in Nat,
                             NEW r \in 0 .. w - 1
                      PROVE  /\ (q * w + r) \div w = q
                             /\ (q * w + r) % w = r
  OBVIOUS

\* Comparing quotients first and remainders second compares the numbers.
LEMMA DigitOrder == ASSUME NEW w \in Nat \ {0}, NEW a \in Nat, NEW b \in Nat,
                           NEW r \in 0 .. w - 1, NEW s \in 0 .. w - 1,
                           a < b \/ (a = b /\ r <= s)
                    PROVE  a * w + r <= b * w + s
<1>1. CASE a = b /\ r <= s
  BY <1>1
<1>2. CASE a < b
  <2>1. a * w + w <= b * w
    BY <1>2
  <2>. QED  BY <2>1
<1>. QED  BY <1>1, <1>2

\* The same for three digits, as the three levels give them.
LEMMA PathOrder ==
    ASSUME NEW w \in Nat \ {0}, NEW j \in Nat, NEW k \in Nat,
           NEW b2 \in 0 .. w - 1, NEW c2 \in 0 .. w - 1,
           NEW b1 \in 0 .. w - 1, NEW c1 \in 0 .. w - 1,
           j < k \/ (j = k /\ (b2 < c2 \/ (b2 = c2 /\ b1 <= c1)))
    PROVE  (j * w + b2) * w + b1 <= (k * w + c2) * w + c1
<1>. DEFINE i == j * w + b2
            h == k * w + c2
<1>1. i \in Nat /\ h \in Nat
  OBVIOUS
<1>2. CASE j = k /\ b2 = c2 /\ b1 <= c1
  BY <1>1, <1>2, DigitOrder
<1>3. CASE j < k \/ (j = k /\ b2 < c2)
  <2>1. i < h
    <3>1. CASE j < k
      <4>1. j * w + w <= k * w
        BY <3>1
      <4>. QED  BY <4>1
    <3>. QED  BY <1>3, <3>1
  <2>. HIDE DEF i, h
  <2>2. i * w + b1 <= h * w + c1
    BY <1>1, <2>1, DigitOrder
  <2>. QED  BY <2>2 DEF i, h
<1>. QED  BY <1>2, <1>3

\* Where the bits of a price live.
LEMMA Indices == ASSUME NEW p \in Price
                 PROVE  /\ p \in Nat
                        /\ L1Idx(p) \in 0 .. BITMAP_L1_SIZE - 1
                        /\ L1Bit(p) \in 0 .. WordBits - 1
                        /\ L2Idx(p) \in 0 .. BITMAP_L2_SIZE - 1
                        /\ L2Bit(p) \in 0 .. WordBits - 1
                        /\ L2Idx(p) \in 0 .. WordBits - 1
                        /\ p = L1Idx(p) * WordBits + L1Bit(p)
                        /\ L1Idx(p) = L2Idx(p) * WordBits + L2Bit(p)
<1>0. WordBits \in Nat \ {0} /\ MaxPrice \in Nat \ {0} /\ p \in Nat /\ p < MaxPrice
  BY BitmapAssumption DEF Price
<1>1. p \div WordBits <= MaxPrice \div WordBits
  BY <1>0
<1>2. L1Idx(p) \in 0 .. BITMAP_L1_SIZE - 1
  BY <1>0, <1>1 DEF L1Idx, BITMAP_L1_SIZE
<1>3. L1Idx(p) \div WordBits <= BITMAP_L1_SIZE \div WordBits
  BY <1>0, <1>2 DEF BITMAP_L1_SIZE
<1>4. L2Idx(p) \in 0 .. BITMAP_L2_SIZE - 1
  BY <1>0, <1>2, <1>3 DEF L2Idx, BITMAP_L2_SIZE, BITMAP_L1_SIZE
<1>5. L1Bit(p) \in 0 .. WordBits - 1 /\ p = L1Idx(p) * WordBits + L1Bit(p)
  BY <1>0, DivMod DEF L1Bit, L1Idx
<1>6. L2Bit(p) \in 0 .. WordBits - 1 /\ L1Idx(p) = L2Idx(p) * WordBits + L2Bit(p)
  <2>1. L1Idx(p) \in Nat
    BY <1>2
  <2>. QED  BY <1>0, <2>1, DivMod DEF L2Bit, L2Idx
<1>7. L2Idx(p) \in 0 .. WordBits - 1
  BY <1>0, <1>4, BitmapAssumption DEF BITMAP_L2_SIZE, BITMAP_L1_SIZE
<1>. QED  BY <1>0, <1>2, <1>4, <1>5, <1>6, <1>7

\* Two prices with the same word and bit are the same price.
LEMMA IndexInjective == ASSUME NEW p \in Price, NEW q \in Price,
                               L1Idx(p) = L1Idx(q), L1Bit(p) = L1Bit(q)
                        PROVE  p = q
<1>1. p = L1Idx(p) * WordBits + L1Bit(p)  BY Indices
<1>2. q = L1Idx(q) * WordBits + L1Bit(q)  BY Indices
<1>. QED  BY <1>1, <1>2

-----------------------------------------------------------------------------
\* The sizes of the three levels, and that words number enough bits.
LEMMA Sizes == /\ WordBits \in Nat \ {0}
               /\ BITMAP_L1_SIZE \in Nat \ {0}
               /\ BITMAP_L2_SIZE \in Nat \ {0}
<1>1. WordBits \in Nat \ {0} /\ MaxPrice \in Nat
  BY BitmapAssumption
<1>2. MaxPrice \div WordBits \in Nat
  BY <1>1
<1>3. BITMAP_L1_SIZE \in Nat \ {0}
  BY <1>2 DEF BITMAP_L1_SIZE
<1>4. BITMAP_L1_SIZE \div WordBits \in Nat
  BY <1>1, <1>3
<1>. QED  BY <1>1, <1>3, <1>4 DEF BITMAP_L2_SIZE

\* A new book's bitmap is well formed and marks nothing.
THEOREM EmptyBitmapCorrect == WellFormed(EmptyBitmap) /\ Marked(EmptyBitmap) = {}
<1>1. \A i \in 0 .. BITMAP_L1_SIZE - 1 : i \div WordBits \in 0 .. BITMAP_L2_SIZE - 1
  <2>1. TAKE i \in 0 .. BITMAP_L1_SIZE - 1
  <2>2. i \in Nat /\ i <= BITMAP_L1_SIZE
    BY Sizes
  <2>3. i \div WordBits <= BITMAP_L1_SIZE \div WordBits /\ i \div WordBits \in Nat
    BY <2>2, Sizes
  <2>. QED  BY <2>3, Sizes DEF BITMAP_L2_SIZE
<1>2. Marked(EmptyBitmap) = {}
  BY Indices DEF Marked, EmptyBitmap
<1>3. EmptyBitmap \in Bitmap
  BY DEF EmptyBitmap, Bitmap, Word
<1>. QED  BY <1>1, <1>2, <1>3 DEF WellFormed, LevelsAgree, InRange, EmptyBitmap

\* set_bids_bit / set_asks_bit add one price to the marked ones.
THEOREM SetBitCorrect == ASSUME NEW m, WellFormed(m), NEW p \in Price
                         PROVE  /\ WellFormed(SetBit(m, p))
                                /\ Marked(SetBit(m, p)) = Marked(m) \union {p}
<1>. DEFINE n == SetBit(m, p)
<1>0. m \in Bitmap /\ LevelsAgree(m) /\ InRange(m)
  BY DEF WellFormed
<1>1. n \in Bitmap
  BY <1>0, Indices DEF SetBit, Bitmap, Word
<1>2. Marked(n) = Marked(m) \union {p}
  BY <1>0, Indices, IndexInjective DEF SetBit, Bitmap, Marked
<1>3. ASSUME NEW i \in 0 .. BITMAP_L1_SIZE - 1
      PROVE  n.l1[i] # {} <=> (i % WordBits) \in n.l2[i \div WordBits]
  <2>1. i = (i \div WordBits) * WordBits + (i % WordBits)
    BY Sizes, DivMod
  <2>2. CASE i = L1Idx(p)
    BY <1>0, <2>2, Indices DEF SetBit, Bitmap, L2Bit, L2Idx
  <2>3. CASE i # L1Idx(p)
    <3>1. ~ (i \div WordBits = L2Idx(p) /\ i % WordBits = L2Bit(p))
      BY <2>1, <2>3, Indices
    <3>2. n.l1[i] = m.l1[i]
      BY <1>0, <2>3 DEF SetBit, Bitmap
    <3>3. (i % WordBits) \in n.l2[i \div WordBits] <=> (i % WordBits) \in m.l2[i \div WordBits]
      BY <1>0, <3>1, Indices DEF SetBit, Bitmap
    <3>. QED  BY <1>0, <3>2, <3>3 DEF LevelsAgree
  <2>. QED  BY <2>2, <2>3
<1>4. ASSUME NEW j \in 0 .. BITMAP_L2_SIZE - 1
      PROVE  n.l2[j] # {} <=> j \in n.l3
  BY <1>0, Indices DEF SetBit, Bitmap, LevelsAgree
<1>5. InRange(n)
  BY <1>0, Indices DEF SetBit, Bitmap, InRange
<1>. QED  BY <1>1, <1>2, <1>3, <1>4, <1>5 DEF WellFormed, LevelsAgree

\* clear_bids_bit / clear_asks_bit remove one price from the marked ones.
THEOREM ClearBitCorrect == ASSUME NEW m, WellFormed(m), NEW p \in Price
                           PROVE  /\ WellFormed(ClearBit(m, p))
                                  /\ Marked(ClearBit(m, p)) = Marked(m) \ {p}
<1>. DEFINE n == ClearBit(m, p)
<1>0. m \in Bitmap /\ LevelsAgree(m) /\ InRange(m)
  BY DEF WellFormed
<1>1. n \in Bitmap
  BY <1>0, Indices DEF ClearBit, Bitmap, Word
<1>2. Marked(n) = Marked(m) \ {p}
  BY <1>0, Indices, IndexInjective DEF ClearBit, Bitmap, Marked
<1>3. ASSUME NEW i \in 0 .. BITMAP_L1_SIZE - 1
      PROVE  n.l1[i] # {} <=> (i % WordBits) \in n.l2[i \div WordBits]
  <2>1. i = (i \div WordBits) * WordBits + (i % WordBits)
    BY Sizes, DivMod
  <2>2. CASE i = L1Idx(p)
    BY <1>0, <2>2, Indices DEF ClearBit, Bitmap, L2Bit, L2Idx, LevelsAgree
  <2>3. CASE i # L1Idx(p)
    <3>1. ~ (i \div WordBits = L2Idx(p) /\ i % WordBits = L2Bit(p))
      BY <2>1, <2>3, Indices
    <3>2. n.l1[i] = m.l1[i]
      BY <1>0, <2>3 DEF ClearBit, Bitmap
    <3>3. (i % WordBits) \in n.l2[i \div WordBits] <=> (i % WordBits) \in m.l2[i \div WordBits]
      BY <1>0, <3>1, Indices DEF ClearBit, Bitmap
    <3>. QED  BY <1>0, <3>2, <3>3 DEF LevelsAgree
  <2>. QED  BY <2>2, <2>3
<1>4. ASSUME NEW j \in 0 .. BITMAP_L2_SIZE - 1
      PROVE  n.l2[j] # {} <=> j \in n.l3
  BY <1>0, Indices DEF ClearBit, Bitmap, LevelsAgree
<1>5. InRange(n)
  BY <1>0, Indices DEF ClearBit, Bitmap, InRange
<1>. QED  BY <1>1, <1>2, <1>3, <1>4, <1>5 DEF WellFormed, LevelsAgree

\* A marked price is reachable from level 3.
LEMMA MarkedPath == ASSUME NEW m, WellFormed(m), NEW p \in Marked(m)
                    PROVE  /\ p \in Price
                           /\ L2Idx(p) \in m.l3
                           /\ L2Bit(p) \in m.l2[L2Idx(p)]
                           /\ L1Bit(p) \in m.l1[L1Idx(p)]
<1>1. p \in Price /\ L1Bit(p) \in m.l1[L1Idx(p)]
  BY DEF Marked
<1>2. L2Bit(p) \in m.l2[L2Idx(p)]
  BY <1>1, Indices DEF WellFormed, LevelsAgree, L2Bit, L2Idx
<1>. QED  BY <1>1, <1>2, Indices DEF WellFormed, LevelsAgree

\* A path of set bits from level 3 leads to a marked price.
LEMMA PathMarked == ASSUME NEW m, WellFormed(m), NEW j \in m.l3,
                           NEW b2 \in m.l2[j], NEW b1 \in m.l1[j * WordBits + b2]
                    PROVE  /\ (j * WordBits + b2) * WordBits + b1 \in Marked(m)
                           /\ L1Idx((j * WordBits + b2) * WordBits + b1) = j * WordBits + b2
                           /\ L1Bit((j * WordBits + b2) * WordBits + b1) = b1
<1>. DEFINE i == j * WordBits + b2
            p == i * WordBits + b1
<1>1. j \in 0 .. BITMAP_L2_SIZE - 1
  BY DEF WellFormed, InRange
<1>2. i \in 0 .. BITMAP_L1_SIZE - 1
  BY <1>1 DEF WellFormed, InRange
<1>3. p \in Price
  BY <1>2 DEF WellFormed, InRange
<1>4. b1 \in 0 .. WordBits - 1
  BY <1>2 DEF WellFormed, Bitmap, Word
<1>5. L1Idx(p) = i /\ L1Bit(p) = b1
  <2>1. i \in Nat
    BY <1>2, Sizes
  <2>. HIDE DEF i
  <2>. QED  BY <2>1, <1>4, Sizes, DivModUnique DEF L1Idx, L1Bit
<1>. QED  BY <1>3, <1>5 DEF Marked

\* Below a level-3 bit there is a non-empty level-2 word, and below each of
\* its bits a non-empty level-1 word: the scans never meet a zero word, on
\* which clz and ctz are undefined.
LEMMA NoZeroWord == ASSUME NEW m, WellFormed(m), NEW j \in m.l3
                    PROVE  /\ m.l2[j] \in Word \ {{}}
                           /\ \A b \in m.l2[j] : m.l1[j * WordBits + b] \in Word \ {{}}
<1>1. j \in 0 .. BITMAP_L2_SIZE - 1 /\ m.l2[j] \in Word \ {{}}
  BY DEF WellFormed, InRange, LevelsAgree, Bitmap
<1>2. ASSUME NEW b \in m.l2[j]
      PROVE  m.l1[j * WordBits + b] \in Word \ {{}}
  <2>1. j * WordBits + b \in 0 .. BITMAP_L1_SIZE - 1
    BY <1>1 DEF WellFormed, InRange
  <2>2. b \in 0 .. WordBits - 1
    BY <1>1 DEF Word
  <2>3. (j * WordBits + b) \div WordBits = j /\ (j * WordBits + b) % WordBits = b
    BY <1>1, <2>2, Sizes, DivModUnique
  <2>. QED  BY <2>1, <2>3 DEF WellFormed, LevelsAgree, Bitmap
<1>. QED  BY <1>1, <1>2

\* get_best_ask returns the lowest marked price, NULL_IDX when there is none.
THEOREM BestAskCorrect ==
    ASSUME NEW m, WellFormed(m)
    PROVE  /\ BestAsk(m) = NULL_IDX <=> Marked(m) = {}
           /\ BestAsk(m) # NULL_IDX => /\ BestAsk(m) \in Marked(m)
                                       /\ \A p \in Marked(m) : BestAsk(m) <= p
<1>1. CASE m.l3 = {}
  BY <1>1, MarkedPath DEF BestAsk, NULL_IDX
<1>2. CASE m.l3 # {}
  <2>. DEFINE j == Min(m.l3)
              b2 == Min(m.l2[j])
              i == j * WordBits + b2
              b1 == Min(m.l1[i])
              best == i * WordBits + b1
  <2>1. j \in m.l3 /\ \A k \in m.l3 : j <= k
    BY <1>2, WordMin DEF WellFormed, Bitmap
  <2>2. b2 \in m.l2[j] /\ \A k \in m.l2[j] : b2 <= k
    BY <2>1, NoZeroWord, WordMin
  <2>3. b1 \in m.l1[i] /\ \A k \in m.l1[i] : b1 <= k
    BY <2>1, <2>2, NoZeroWord, WordMin
  <2>4. best \in Marked(m)
    BY <2>1, <2>2, <2>3, PathMarked
  <2>5. j \in 0 .. BITMAP_L2_SIZE - 1 /\ i \in 0 .. BITMAP_L1_SIZE - 1
    BY <2>1, <2>2 DEF WellFormed, InRange
  <2>6. b2 \in 0 .. WordBits - 1 /\ b1 \in 0 .. WordBits - 1
    <3>1. m.l2[j] \in Word /\ m.l1[i] \in Word
      BY <2>5 DEF WellFormed, Bitmap
    <3>. HIDE DEF j, b2, i, b1
    <3>. QED  BY <3>1, <2>2, <2>3 DEF Word
  <2>7. BestAsk(m) = best
    BY <1>2 DEF BestAsk
  <2>8. best # NULL_IDX
    BY <2>4 DEF Marked, Price, NULL_IDX
  <2>9. ASSUME NEW p \in Marked(m)
        PROVE  best <= p
    <3>1. /\ p \in Price
          /\ L2Idx(p) \in m.l3
          /\ L2Bit(p) \in m.l2[L2Idx(p)]
          /\ L1Bit(p) \in m.l1[L1Idx(p)]
      BY MarkedPath
    <3>2. /\ L1Idx(p) = L2Idx(p) * WordBits + L2Bit(p)
          /\ p = L1Idx(p) * WordBits + L1Bit(p)
          /\ L2Idx(p) \in Nat
          /\ L2Bit(p) \in 0 .. WordBits - 1
          /\ L1Bit(p) \in 0 .. WordBits - 1
      BY <3>1, Indices
    <3>3. i = j * WordBits + b2 /\ best = i * WordBits + b1
      OBVIOUS
    <3>4. j \in Nat
      BY <2>5
    <3>. HIDE DEF j, b2, i, b1, best
    <3>5. j < L2Idx(p) \/ (j = L2Idx(p) /\ (b2 < L2Bit(p) \/ (b2 = L2Bit(p) /\ b1 <= L1Bit(p))))
      <4>1. j <= L2Idx(p)
        BY <2>1, <3>1
      <4>2. j = L2Idx(p) => b2 <= L2Bit(p)
        BY <2>2, <3>1
      <4>3. j = L2Idx(p) /\ b2 = L2Bit(p) => b1 <= L1Bit(p)
        BY <2>3, <3>1, <3>2, <3>3
      <4>4. /\ j \in Int /\ L2Idx(p) \in Int
            /\ b2 \in Int /\ L2Bit(p) \in Int
        BY <2>6, <3>2, <3>4, Sizes
      <4>. QED  BY <4>1, <4>2, <4>3, <4>4
    <3>6. (j * WordBits + b2) * WordBits + b1 <= (L2Idx(p) * WordBits + L2Bit(p)) * WordBits + L1Bit(p)
      BY <2>6, <3>2, <3>4, <3>5, Sizes, PathOrder
    <3>. QED  BY <3>2, <3>3, <3>6
  <2>. HIDE DEF best
  <2>. QED  BY <2>4, <2>7, <2>8, <2>9
<1>. QED  BY <1>1, <1>2

\* get_best_bid returns the highest marked price, NULL_IDX when there is none.
THEOREM BestBidCorrect ==
    ASSUME NEW m, WellFormed(m)
    PROVE  /\ BestBid(m) = NULL_IDX <=> Marked(m) = {}
           /\ BestBid(m) # NULL_IDX => /\ BestBid(m) \in Marked(m)
                                       /\ \A p \in Marked(m) : p <= BestBid(m)
<1>1. CASE m.l3 = {}
  BY <1>1, MarkedPath DEF BestBid, NULL_IDX
<1>2. CASE m.l3 # {}
  <2>. DEFINE j == Max(m.l3)
              b2 == Max(m.l2[j])
              i == j * WordBits + b2
              b1 == Max(m.l1[i])
              best == i * WordBits + b1
  <2>1. j \in m.l3 /\ \A k \in m.l3 : k <= j
    BY <1>2, WordMax DEF WellFormed, Bitmap
  <2>2. b2 \in m.l2[j] /\ \A k \in m.l2[j] : k <= b2
    BY <2>1, NoZeroWord, WordMax
  <2>3. b1 \in m.l1[i] /\ \A k \in m.l1[i] : k <= b1
    BY <2>1, <2>2, NoZeroWord, WordMax
  <2>4. best \in Marked(m)
    BY <2>1, <2>2, <2>3, PathMarked
  <2>5. j \in 0 .. BITMAP_L2_SIZE - 1 /\ i \in 0 .. BITMAP_L1_SIZE - 1
    BY <2>1, <2>2 DEF WellFormed, InRange
  <2>6. b2 \in 0 .. WordBits - 1 /\ b1 \in 0 .. WordBits - 1
    <3>1. m.l2[j] \in Word /\ m.l1[i] \in Word
      BY <2>5 DEF WellFormed, Bitmap
    <3>. HIDE DEF j, b2, i, b1
    <3>. QED  BY <3>1, <2>2, <2>3 DEF Word
  <2>7. BestBid(m) = best
    BY <1>2 DEF BestBid
  <2>8. best # NULL_IDX
    BY <2>4 DEF Marked, Price, NULL_IDX
  <2>9. ASSUME NEW p \in Marked(m)
        PROVE  p <= best
    <3>1. /\ p \in Price
          /\ L2Idx(p) \in m.l3
          /\ L2Bit(p) \in m.l2[L2Idx(p)]
          /\ L1Bit(p) \in m.l1[L1Idx(p)]
      BY MarkedPath
    <3>2. /\ L1Idx(p) = L2Idx(p) * WordBits + L2Bit(p)
          /\ p = L1Idx(p) * WordBits + L1Bit(p)
          /\ L2Idx(p) \in Nat
          /\ L2Bit(p) \in 0 .. WordBits - 1
          /\ L1Bit(p) \in 0 .. WordBits - 1
      BY <3>1, Indices
    <3>3. i = j * WordBits + b2 /\ best = i * WordBits + b1
      OBVIOUS
    <3>4. j \in Nat
      BY <2>5
    <3>. HIDE DEF j, b2, i, b1, best
    <3>5. L2Idx(p) < j \/ (L2Idx(p) = j /\ (L2Bit(p) < b2 \/ (L2Bit(p) = b2 /\ L1Bit(p) <= b1)))
      <4>1. L2Idx(p) <= j
        BY <2>1, <3>1
      <4>2. j = L2Idx(p) => L2Bit(p) <= b2
        BY <2>2, <3>1
      <4>3. j = L2Idx(p) /\ b2 = L2Bit(p) => L1Bit(p) <= b1
        BY <2>3, <3>1, <3>2, <3>3
      <4>4. /\ j \in Int /\ L2Idx(p) \in Int
            /\ b2 \in Int /\ L2Bit(p) \in Int
        BY <2>6, <3>2, <3>4, Sizes
      <4>. QED  BY <4>1, <4>2, <4>3, <4>4
    <3>6. (L2Idx(p) * WordBits + L2Bit(p)) * WordBits + L1Bit(p) <= (j * WordBits + b2) * WordBits + b1
      BY <2>6, <3>2, <3>4, <3>5, Sizes, PathOrder
    <3>. QED  BY <3>2, <3>3, <3>6
  <2>. HIDE DEF best
  <2>. QED  BY <2>4, <2>7, <2>8, <2>9
<1>. QED  BY <1>1, <1>2

-----------------------------------------------------------------------------
(* The parts of the invariant, and taking a node out of a list.            *)

\* Taking the active node s out of the list of side sd and price pr, between
\* its neighbours prv and nxt, as cancel_order does for any node and
\* match_buy/match_sell for a head whose order is used up.
Unlinked(s, sd, pr, prv, nxt) ==
    /\ s \in At(sd, pr)
    /\ nodes[s].prev = prv /\ nodes[s].next = nxt
    /\ nodes' \in [Slots -> Node]
    /\ nodes'[s].seq = 0
    /\ \A i \in Slots \ {s} :
          /\ nodes'[i].seq = nodes[i].seq
          /\ nodes'[i].side = nodes[i].side
          /\ nodes'[i].price = nodes[i].price
          /\ nodes'[i].next = IF i = prv THEN nxt ELSE nodes[i].next
          /\ nodes'[i].prev = IF i = nxt THEN prv ELSE nodes[i].prev
    /\ lists'[sd][pr].head = IF prv = NULL_IDX THEN nxt ELSE lists[sd][pr].head
    /\ lists'[sd][pr].tail = IF nxt = NULL_IDX THEN prv ELSE lists[sd][pr].tail
    /\ lists'[sd][pr].count = lists[sd][pr].count - 1
    /\ \A side \in Sides, p \in Price :
          side # sd \/ p # pr => lists'[side][p] = lists[side][p]

\* Only the list the node was in loses an order, and only that one.
LEMMA UnlinkedAt ==
    ASSUME TypeOK, NEW s, NEW sd \in Sides, NEW pr \in Price, NEW prv, NEW nxt,
           Unlinked(s, sd, pr, prv, nxt), NEW side \in Sides, NEW p \in Price
    PROVE  At(side, p)' = At(side, p) \ {s}
<1>1. \A i \in Slots \ {s} : /\ nodes'[i].seq = nodes[i].seq
                             /\ nodes'[i].side = nodes[i].side
                             /\ nodes'[i].price = nodes[i].price
  BY DEF Unlinked
<1>2. s \in Slots /\ nodes'[s].seq = 0
  BY DEF Unlinked, At
<1>. QED  BY <1>1, <1>2 DEF At, Active

\* What the invariant says of two neighbours, one field at a time.
LEMMA Neighbours ==
    ASSUME TypeOK, Linked, NEW sd \in Sides, NEW pr \in Price, NEW i \in At(sd, pr)
    PROVE  /\ i \in Slots /\ i # NULL_IDX
           /\ nodes[i].seq \in Nat \ {0}
           /\ nodes[i].side = sd /\ nodes[i].price = pr
           /\ lists[sd][pr].head # NULL_IDX /\ lists[sd][pr].tail # NULL_IDX
           /\ lists[sd][pr].head \in At(sd, pr)
           /\ lists[sd][pr].tail \in At(sd, pr)
           /\ nodes[i].prev = NULL_IDX <=> i = lists[sd][pr].head
           /\ nodes[i].next = NULL_IDX <=> i = lists[sd][pr].tail
           /\ nodes[i].prev # NULL_IDX => /\ nodes[i].prev \in At(sd, pr)
                                          /\ nodes[nodes[i].prev].next = i
                                          /\ nodes[nodes[i].prev].seq < nodes[i].seq
           /\ nodes[i].next # NULL_IDX => /\ nodes[i].next \in At(sd, pr)
                                          /\ nodes[nodes[i].next].prev = i
<1>1. i \in Slots /\ Active(i) /\ nodes[i].side = sd /\ nodes[i].price = pr
  BY DEF At
<1>2. i # NULL_IDX /\ nodes[i].seq \in Nat \ {0}
  BY <1>1 DEF Slots, NULL_IDX, TypeOK, Node, Active
<1>3. NeighboursOK(i)
  BY <1>1 DEF Linked
<1>4. lists[sd][pr].head # NULL_IDX
  BY <1>1, <1>3 DEF NeighboursOK
<1>5. /\ lists[sd][pr].tail # NULL_IDX
      /\ lists[sd][pr].head \in At(sd, pr)
      /\ lists[sd][pr].tail \in At(sd, pr)
  BY <1>4 DEF Linked, EndsOK
<1>. QED  BY <1>1, <1>2, <1>3, <1>4, <1>5 DEF NeighboursOK

\* The last order of a list is at its tail.
LEMMA LastIsTail ==
    ASSUME TypeOK, Linked, NEW sd \in Sides, NEW pr \in Price, NEW i \in At(sd, pr)
    PROVE  lists[sd][pr].tail = i <=> nodes[i].next = NULL_IDX
BY Neighbours

\* What ByArrival says of two orders of a list.
LEMMA Ordered ==
    ASSUME TypeOK, Linked, ByArrival, NEW sd \in Sides, NEW pr \in Price,
           NEW i \in At(sd, pr), NEW k \in At(sd, pr), i # k
    PROVE  /\ nodes[i].seq # nodes[k].seq
           /\ nodes[k].seq < nodes[i].seq => /\ nodes[i].prev # NULL_IDX
                                             /\ nodes[k].seq <= nodes[nodes[i].prev].seq
           /\ nodes[k].seq <= nodes[lists[sd][pr].tail].seq
<1>1. InOrder(i, k)
  BY DEF ByArrival, At
<1>. QED  BY <1>1 DEF InOrder, At

\* The head is the oldest order of its list.
LEMMA HeadOldest ==
    ASSUME TypeOK, Linked, ByArrival, NEW sd \in Sides, NEW pr \in Price,
           NEW k \in At(sd, pr), k # lists[sd][pr].head
    PROVE  nodes[lists[sd][pr].head].seq < nodes[k].seq
<1>. DEFINE h == lists[sd][pr].head
<1>1. h \in At(sd, pr) /\ nodes[h].prev = NULL_IDX
  BY Neighbours
<1>2. nodes[h].seq \in Nat /\ nodes[k].seq \in Nat
  BY <1>1, Neighbours
<1>3. nodes[h].seq # nodes[k].seq /\ ~ (nodes[k].seq < nodes[h].seq)
  BY <1>1, Ordered
<1>. QED  BY <1>2, <1>3

\* An order that is head and tail is alone at its price.
LEMMA HeadIsTail ==
    ASSUME TypeOK, Linked, ByArrival, NEW sd \in Sides, NEW pr \in Price,
           NEW s \in At(sd, pr), s = lists[sd][pr].head, s = lists[sd][pr].tail
    PROVE  At(sd, pr) = {s}
<1>1. ASSUME NEW k \in At(sd, pr), k # s
      PROVE  FALSE
  <2>1. nodes[s].seq < nodes[k].seq
    BY <1>1, HeadOldest
  <2>2. nodes[k].seq <= nodes[s].seq
    BY <1>1, Ordered
  <2>. QED  BY <1>1, <2>1, <2>2, Neighbours
<1>. QED  BY <1>1

\* Unlinking joins the two neighbours: cancel_order and the pop of a used-up
\* head leave every list well linked.
LEMMA UnlinkedLinks ==
    ASSUME TypeOK, Linked, ByArrival,
           NEW s, NEW sd \in Sides, NEW pr \in Price, NEW prv, NEW nxt,
           Unlinked(s, sd, pr, prv, nxt)
    PROVE  Linked'
<1>1. \A i \in Slots \ {s} :
          /\ nodes'[i].seq = nodes[i].seq
          /\ nodes'[i].side = nodes[i].side
          /\ nodes'[i].price = nodes[i].price
          /\ nodes'[i].next = IF i = prv THEN nxt ELSE nodes[i].next
          /\ nodes'[i].prev = IF i = nxt THEN prv ELSE nodes[i].prev
  BY DEF Unlinked
<1>2. /\ lists'[sd][pr].head = IF prv = NULL_IDX THEN nxt ELSE lists[sd][pr].head
      /\ lists'[sd][pr].tail = IF nxt = NULL_IDX THEN prv ELSE lists[sd][pr].tail
      /\ \A side \in Sides, p \in Price :
            side # sd \/ p # pr => lists'[side][p] = lists[side][p]
  BY DEF Unlinked
<1>3. /\ s \in At(sd, pr) /\ nodes[s].prev = prv /\ nodes[s].next = nxt
      /\ nodes'[s].seq = 0
  BY DEF Unlinked
<1>4. \A side \in Sides, p \in Price : At(side, p)' = At(side, p) \ {s}
  BY UnlinkedAt
<1>5. prv # s /\ nxt # s
  BY <1>3, Neighbours
<1>6. EndsOK'
  <2>. SUFFICES ASSUME NEW side \in Sides, NEW p \in Price
                PROVE  /\ lists'[side][p].head = NULL_IDX <=> lists'[side][p].tail = NULL_IDX
                       /\ lists'[side][p].head # NULL_IDX => lists'[side][p].head \in At(side, p)'
                       /\ lists'[side][p].tail # NULL_IDX => lists'[side][p].tail \in At(side, p)'
    BY DEF EndsOK
  <2>1. CASE side = sd /\ p = pr
    BY <1>2, <1>3, <1>4, <1>5, <2>1, Neighbours
  <2>2. CASE side # sd \/ p # pr
    BY <1>2, <1>3, <1>4, <2>2, SMTT(30) DEF Linked, EndsOK, At
  <2>. QED  BY <2>1, <2>2
<1>7. ASSUME NEW i \in Slots, Active(i)'
      PROVE  NeighboursOK(i)'
  <2>1. i # s /\ Active(i)
    BY <1>1, <1>3, <1>7 DEF Active
  <2>2. PICK sd1 \in Sides, pr1 \in Price : i \in At(sd1, pr1)
    BY <2>1 DEF At, TypeOK, Node
  <2>3. nodes'[i].side = sd1 /\ nodes'[i].price = pr1
    BY <1>1, <2>1, <2>2 DEF At
  <2>4. At(sd1, pr1)' = At(sd1, pr1) \ {s}
    BY <1>4
  <2>5. CASE sd1 = sd /\ pr1 = pr
    <3>1. \A k \in At(sd, pr) \ {s} :
              /\ k \in Slots /\ k # NULL_IDX
              /\ nodes'[k].seq = nodes[k].seq /\ nodes[k].seq \in Nat
              /\ nodes'[k].next = IF k = prv THEN nxt ELSE nodes[k].next
              /\ nodes'[k].prev = IF k = nxt THEN prv ELSE nodes[k].prev
      BY <1>1, Neighbours
    <3>2. i \in At(sd, pr) \ {s}
      BY <2>1, <2>2, <2>5
    <3>3. lists'[sd][pr].head # NULL_IDX
      BY <1>2, <1>3, <3>2, Neighbours, HeadIsTail
    <3>4. nodes'[i].prev = NULL_IDX <=> i = lists'[sd][pr].head
      BY <1>2, <1>3, <1>5, <3>1, <3>2, Neighbours
    <3>5. nodes'[i].next = NULL_IDX <=> i = lists'[sd][pr].tail
      BY <1>2, <1>3, <1>5, <3>1, <3>2, Neighbours
    <3>6. nodes'[i].prev # NULL_IDX => /\ nodes'[i].prev \in At(sd, pr) \ {s}
                                       /\ nodes'[nodes'[i].prev].next = i
                                       /\ nodes'[nodes'[i].prev].seq < nodes'[i].seq
      <4>1. CASE i = nxt
        <5>1. nodes[s].seq \in Nat
          BY <1>3, Neighbours
        <5>2. nodes'[i].prev = prv
          BY <3>1, <3>2, <4>1
        <5>3. prv # NULL_IDX => /\ prv \in At(sd, pr) \ {s}
                                /\ nodes'[prv].next = nxt
                                /\ nodes[prv].seq < nodes[s].seq
          BY <1>3, <1>5, <3>1, Neighbours
        <5>4. nodes[s].seq < nodes[i].seq
          BY <1>3, <3>2, <4>1, Neighbours
        <5>. QED  BY <3>1, <3>2, <4>1, <5>1, <5>2, <5>3, <5>4
      <4>2. CASE i # nxt
        <5>1. nodes'[i].prev = nodes[i].prev
          BY <3>1, <3>2, <4>2
        <5>2. nodes[i].prev # NULL_IDX => /\ nodes[i].prev \in At(sd, pr) \ {s}
                                          /\ nodes[i].prev # prv
          BY <1>3, <3>2, <4>2, Neighbours
        <5>. QED  BY <3>1, <3>2, <5>1, <5>2, Neighbours
      <4>. QED  BY <4>1, <4>2
    <3>7. nodes'[i].next # NULL_IDX => /\ nodes'[i].next \in At(sd, pr) \ {s}
                                       /\ nodes'[nodes'[i].next].prev = i
      <4>1. CASE i = prv
        BY <1>3, <1>5, <3>1, <3>2, <4>1, Neighbours
      <4>2. CASE i # prv
        <5>1. nodes'[i].next = nodes[i].next
          BY <3>1, <3>2, <4>2
        <5>2. nodes[i].next # NULL_IDX => /\ nodes[i].next \in At(sd, pr) \ {s}
                                          /\ nodes[i].next # nxt
          BY <1>3, <3>2, <4>2, Neighbours
        <5>. QED  BY <3>1, <3>2, <5>1, <5>2, Neighbours
      <4>. QED  BY <4>1, <4>2
    <3>. QED  BY <2>3, <2>4, <2>5, <3>3, <3>4, <3>5, <3>6, <3>7 DEF NeighboursOK
  <2>6. CASE sd1 # sd \/ pr1 # pr
    <3>1. \A k \in At(sd1, pr1) : /\ k \in Slots \ {s} /\ k # NULL_IDX
                                  /\ k \notin At(sd, pr)
      BY <1>3, <2>6 DEF At, Slots, NULL_IDX
    <3>2. \A k \in At(sd1, pr1) : k # prv /\ k # nxt
      BY <1>3, <3>1, Neighbours
    <3>3. \A k \in At(sd1, pr1) : /\ nodes'[k].seq = nodes[k].seq
                                  /\ nodes'[k].next = nodes[k].next
                                  /\ nodes'[k].prev = nodes[k].prev
      BY <1>1, <3>1, <3>2
    <3>4. lists'[sd1][pr1] = lists[sd1][pr1] /\ At(sd1, pr1)' = At(sd1, pr1)
      BY <1>2, <2>4, <2>6, <3>1
    <3>. QED  BY <2>2, <2>3, <3>3, <3>4, Neighbours DEF NeighboursOK
  <2>. QED  BY <2>5, <2>6
<1>. QED  BY <1>6, <1>7 DEF Linked

\* Unlinking keeps a list in order of arrival and complete.
LEMMA UnlinkedOrder ==
    ASSUME TypeOK, Linked, ByArrival,
           NEW s, NEW sd \in Sides, NEW pr \in Price, NEW prv, NEW nxt,
           Unlinked(s, sd, pr, prv, nxt)
    PROVE  ByArrival'
<1>1. \A i \in Slots \ {s} :
          /\ nodes'[i].seq = nodes[i].seq
          /\ nodes'[i].side = nodes[i].side
          /\ nodes'[i].price = nodes[i].price
          /\ nodes'[i].prev = IF i = nxt THEN prv ELSE nodes[i].prev
  BY DEF Unlinked
<1>2. /\ lists'[sd][pr].tail = IF nxt = NULL_IDX THEN prv ELSE lists[sd][pr].tail
      /\ \A side \in Sides, p \in Price :
            side # sd \/ p # pr => lists'[side][p] = lists[side][p]
  BY DEF Unlinked
<1>3. /\ s \in At(sd, pr) /\ nodes[s].prev = prv /\ nodes[s].next = nxt
      /\ nodes'[s].seq = 0
  BY DEF Unlinked
<1>. SUFFICES ASSUME NEW i \in Slots, NEW k \in Slots, Active(i)',
                     (k \in At(nodes[i].side, nodes[i].price))', i # k
              PROVE  InOrder(i, k)'
  BY DEF ByArrival
<1>4. i # s /\ k # s
  BY <1>3 DEF At, Active
<1>5. PICK sd1 \in Sides, pr1 \in Price : i \in At(sd1, pr1) /\ k \in At(sd1, pr1)
  BY <1>1, <1>4 DEF At, Active, TypeOK, Node
<1>6. /\ nodes[i].side = sd1 /\ nodes[i].price = pr1
      /\ nodes'[i].side = sd1 /\ nodes'[i].price = pr1
  BY <1>1, <1>4, <1>5 DEF At
<1>7. /\ nodes'[i].seq = nodes[i].seq /\ nodes[i].seq \in Nat
      /\ nodes'[k].seq = nodes[k].seq /\ nodes[k].seq \in Nat
  BY <1>1, <1>4, <1>5, Neighbours
<1>8. CASE sd1 = sd /\ pr1 = pr
  <2>1. nodes[s].seq \in Nat
    BY <1>3, Neighbours
  <2>2. ASSUME nodes[k].seq < nodes[i].seq
        PROVE  /\ nodes'[i].prev # NULL_IDX
               /\ nodes[k].seq <= nodes'[nodes'[i].prev].seq
    <3>1. /\ nodes[i].prev # NULL_IDX /\ nodes[i].prev \in At(sd, pr)
          /\ nodes[k].seq <= nodes[nodes[i].prev].seq
      BY <1>5, <1>8, <2>2, Ordered, Neighbours
    <3>2. CASE i = nxt
      <4>1. nodes[i].prev = s
        BY <1>3, <1>5, <1>8, <3>2, Neighbours
      <4>2. nodes[k].seq < nodes[s].seq
        BY <1>3, <1>4, <1>5, <1>7, <1>8, <2>1, <3>1, <4>1, Ordered
      <4>3. /\ prv # NULL_IDX /\ prv \in Slots \ {s}
            /\ nodes[k].seq <= nodes[prv].seq
        BY <1>3, <1>4, <1>5, <1>8, <2>1, <4>2, Ordered, Neighbours
      <4>. QED  BY <1>1, <1>4, <3>2, <4>3
    <3>3. CASE i # nxt
      <4>1. nodes'[i].prev = nodes[i].prev
        BY <1>1, <1>4, <3>3
      <4>2. nodes[i].prev # s
        BY <1>3, <1>5, <1>8, <3>1, <3>3, Neighbours
      <4>. QED  BY <1>1, <3>1, <4>1, <4>2, Neighbours
    <3>. QED  BY <3>2, <3>3
  <2>3. nodes[k].seq <= nodes'[lists'[sd][pr].tail].seq
    <3>1. CASE nxt # NULL_IDX
      <4>1. lists[sd][pr].tail # s /\ lists[sd][pr].tail \in Slots
        BY <1>3, <3>1, Neighbours
      <4>2. nodes[k].seq <= nodes[lists[sd][pr].tail].seq
        BY <1>5, <1>8, Ordered
      <4>. QED  BY <1>1, <1>2, <3>1, <4>1, <4>2
    <3>2. CASE nxt = NULL_IDX
      <4>1. s = lists[sd][pr].tail
        BY <1>3, <3>2, Neighbours
      <4>2. nodes[k].seq < nodes[s].seq
        BY <1>3, <1>4, <1>5, <1>7, <1>8, <2>1, <4>1, Ordered
      <4>3. /\ prv # NULL_IDX /\ prv \in Slots \ {s}
            /\ nodes[k].seq <= nodes[prv].seq
        BY <1>3, <1>4, <1>5, <1>8, <2>1, <4>2, Ordered, Neighbours
      <4>. QED  BY <1>1, <1>2, <3>2, <4>3
    <3>. QED  BY <3>1, <3>2
  <2>4. nodes[i].seq # nodes[k].seq
    BY <1>5, Ordered
  <2>. QED  BY <1>6, <1>7, <1>8, <2>2, <2>3, <2>4 DEF InOrder
<1>9. CASE sd1 # sd \/ pr1 # pr
  <2>1. \A x \in At(sd1, pr1) : /\ x \in Slots \ {s}
                                /\ x \notin At(sd, pr)
    BY <1>3, <1>9 DEF At
  <2>2. \A x \in At(sd1, pr1) : x # nxt
    BY <1>3, <2>1, Neighbours
  <2>3. \A x \in At(sd1, pr1) : /\ nodes'[x].seq = nodes[x].seq
                                /\ nodes'[x].prev = nodes[x].prev
    BY <1>1, <2>1, <2>2
  <2>4. lists'[sd1][pr1] = lists[sd1][pr1] /\ lists[sd1][pr1].tail \in At(sd1, pr1)
    BY <1>2, <1>5, <1>9, Neighbours
  <2>. QED  BY <1>5, <1>6, <2>3, <2>4, Ordered, Neighbours DEF InOrder
<1>. QED  BY <1>8, <1>9

-----------------------------------------------------------------------------
(* Counting the orders of a price.                                         *)

\* The orders of a price can be counted, and the pool bounds their number.
LEMMA FiniteLevels ==
    ASSUME NEW side, NEW p
    PROVE  /\ IsFiniteSet(At(side, p))
           /\ Cardinality(At(side, p)) \in 0 .. MaxOrders
<1>1. IsFiniteSet(Slots) /\ Cardinality(Slots) = MaxOrders
  BY FS_Interval, OrderBookAssumption DEF Slots
<1>2. At(side, p) \in SUBSET Slots
  BY DEF At
<1>3. IsFiniteSet(At(side, p)) /\ Cardinality(At(side, p)) <= MaxOrders
  BY <1>1, <1>2, FS_Subset
<1>. QED  BY <1>3, FS_CardinalityType, OrderBookAssumption

\* A price has no order, an empty list and the count 0 all at once.
LEMMA EmptyLevel ==
    ASSUME TypeOK, Linked, Counted, NEW side \in Sides, NEW p \in Price
    PROVE  /\ lists[side][p].head = NULL_IDX <=> At(side, p) = {}
           /\ lists[side][p].tail = NULL_IDX <=> At(side, p) = {}
           /\ lists[side][p].count = 0 <=> At(side, p) = {}
<1>1. lists[side][p].count = Cardinality(At(side, p))
  BY DEF Counted
<1>2. Cardinality(At(side, p)) = 0 <=> At(side, p) = {}
  BY FiniteLevels, FS_EmptySet
<1>3. At(side, p) # {} => lists[side][p].head # NULL_IDX
  BY Neighbours
<1>4. lists[side][p].head # NULL_IDX => At(side, p) # {}
  BY DEF Linked, EndsOK
<1>. QED  BY <1>1, <1>2, <1>3, <1>4 DEF Linked, EndsOK

\* A count never reaches the end of its uint32_t: there are fewer slots.
LEMMA CountDown ==
    ASSUME Counted, NEW sd \in Sides, NEW pr \in Price, At(sd, pr) # {}
    PROVE  (lists[sd][pr].count - 1) % QtyMod = lists[sd][pr].count - 1
<1>1. lists[sd][pr].count \in 1 .. MaxOrders
  <2>1. Cardinality(At(sd, pr)) # 0
    BY FiniteLevels, FS_EmptySet
  <2>. QED  BY <2>1, FiniteLevels, OrderBookAssumption DEF Counted
<1>. QED  BY <1>1, OrderBookAssumption

LEMMA CountUp ==
    ASSUME Counted, NEW sd \in Sides, NEW pr \in Price, NEW n \in Slots, n \notin At(sd, pr)
    PROVE  (lists[sd][pr].count + 1) % QtyMod = lists[sd][pr].count + 1
<1>1. IsFiniteSet(Slots) /\ Cardinality(Slots) = MaxOrders
  BY FS_Interval, OrderBookAssumption DEF Slots
<1>2. At(sd, pr) \union {n} \in SUBSET Slots
  BY DEF At
<1>3. Cardinality(At(sd, pr) \union {n}) <= MaxOrders
  BY <1>1, <1>2, FS_Subset
<1>4. Cardinality(At(sd, pr) \union {n}) = Cardinality(At(sd, pr)) + 1
  BY FiniteLevels, FS_AddElement
<1>5. lists[sd][pr].count + 1 \in 1 .. MaxOrders
  BY <1>3, <1>4, FiniteLevels, OrderBookAssumption DEF Counted
<1>. QED  BY <1>5, OrderBookAssumption

\* order_count goes down with the number of orders at the price.
LEMMA UnlinkedCounts ==
    ASSUME TypeOK, Counted,
           NEW s, NEW sd \in Sides, NEW pr \in Price, NEW prv, NEW nxt,
           Unlinked(s, sd, pr, prv, nxt)
    PROVE  Counted' /\ lists[sd][pr].count - 1 \in 0 .. MaxOrders
<1>1. ASSUME NEW side \in Sides, NEW p \in Price
      PROVE  lists'[side][p].count = Cardinality(At(side, p)')
  <2>1. At(side, p)' = At(side, p) \ {s}
    BY UnlinkedAt
  <2>2. lists[side][p].count = Cardinality(At(side, p))
    BY DEF Counted
  <2>3. Cardinality(At(side, p) \ {s}) =
           IF s \in At(side, p) THEN Cardinality(At(side, p)) - 1
                                ELSE Cardinality(At(side, p))
    BY FiniteLevels, FS_RemoveElement
  <2>4. s \in At(side, p) <=> side = sd /\ p = pr
    BY DEF Unlinked, At
  <2>. QED  BY <2>1, <2>2, <2>3, <2>4 DEF Unlinked
<1>2. lists[sd][pr].count - 1 \in 0 .. MaxOrders
  <2>1. s \in At(sd, pr)
    BY DEF Unlinked
  <2>2. Cardinality(At(sd, pr)) # 0
    BY <2>1, FiniteLevels, FS_EmptySet
  <2>. QED  BY <2>2, FiniteLevels, OrderBookAssumption DEF Counted
<1>. QED  BY <1>1, <1>2 DEF Counted

\* The trailing update of the bitmap: a price loses its bit with its last order.
LEMMA UnlinkedBitmaps ==
    ASSUME TypeOK, Linked, Counted, Indexed,
           NEW s, NEW sd \in Sides, NEW pr \in Price, NEW prv, NEW nxt,
           Unlinked(s, sd, pr, prv, nxt), TypeOK', Linked', Counted',
           bitmaps' = IF lists'[sd][pr].count = 0
                      THEN [bitmaps EXCEPT ![sd] = ClearBit(@, pr)]
                      ELSE bitmaps
    PROVE  Indexed'
<1>. SUFFICES ASSUME NEW side \in Sides
              PROVE  /\ WellFormed(bitmaps'[side])
                     /\ Marked(bitmaps'[side]) = {p \in Price : lists'[side][p].head # NULL_IDX}
  BY DEF Indexed
<1>1. /\ WellFormed(bitmaps[side])
      /\ Marked(bitmaps[side]) = {p \in Price : lists[side][p].head # NULL_IDX}
  BY DEF Indexed
<1>2. lists'[sd][pr].count = 0 <=> lists'[sd][pr].head = NULL_IDX
  <2>1. At(sd, pr)' = At(sd, pr) \ {s}
    BY UnlinkedAt
  <2>2. lists'[sd][pr].count = Cardinality(At(sd, pr)')
    BY DEF Counted
  <2>3. Cardinality(At(sd, pr)') = 0 <=> At(sd, pr)' = {}
    BY <2>1, FiniteLevels, FS_RemoveElement, FS_EmptySet
  <2>4. lists'[sd][pr].head # NULL_IDX => At(sd, pr)' # {}
    BY DEF Linked, EndsOK
  <2>5. ASSUME NEW k \in At(sd, pr)'
        PROVE  lists'[sd][pr].head # NULL_IDX
    <3>1. k \in Slots /\ Active(k)' /\ nodes'[k].side = sd /\ nodes'[k].price = pr
      BY <2>5 DEF At
    <3>. QED  BY <3>1 DEF Linked, NeighboursOK
  <2>. QED  BY <2>2, <2>3, <2>4, <2>5
<1>3. lists[sd][pr].head # NULL_IDX
  BY Neighbours DEF Unlinked
<1>4. \A p \in Price : side # sd \/ p # pr => lists'[side][p] = lists[side][p]
  BY DEF Unlinked
<1>5. CASE side = sd /\ lists'[sd][pr].count = 0
  <2>1. bitmaps'[side] = ClearBit(bitmaps[side], pr)
    BY <1>5 DEF TypeOK
  <2>. QED  BY <1>1, <1>2, <1>4, <1>5, <2>1, ClearBitCorrect
<1>6. CASE side # sd \/ lists'[sd][pr].count # 0
  <2>1. bitmaps'[side] = bitmaps[side]
    BY <1>6 DEF TypeOK
  <2>. QED  BY <1>1, <1>2, <1>3, <1>4, <1>6, <2>1
<1>. QED  BY <1>5, <1>6

-----------------------------------------------------------------------------
(* The free stack.                                                         *)

\* A node is pushed on the free stack.
LEMMA Pushed ==
    ASSUME TypeOK, NEW s \in Slots, free' = Append(free, s)
    PROVE  /\ free' \in Seq(Slots)
           /\ Len(free') = Len(free) + 1 /\ Len(free) \in Nat
           /\ \A i \in 1 .. Len(free) : free'[i] = free[i]
           /\ free'[Len(free) + 1] = s
  BY AppendProperties DEF TypeOK

\* Returning the slot of an order that was active or incoming.
LEMMA PushedPartition ==
    ASSUME TypeOK, Partitioned, NEW s \in Slots, free' = Append(free, s),
           Active(s) \/ s = pool_idx,
           ~ Active(s)', s # pool_idx',
           \A i \in Slots \ {s} : nodes'[i].seq = nodes[i].seq,
           \A i \in Slots \ {s} : i = pool_idx' <=> i = pool_idx,
           incoming' = NoOrder <=> pool_idx' = NULL_IDX,
           pool_idx' \in Links
    PROVE  Partitioned'
<1>1. /\ Len(free') = Len(free) + 1 /\ Len(free) \in Nat
      /\ \A i \in 1 .. Len(free) : free'[i] = free[i]
      /\ free'[Len(free) + 1] = s
  BY Pushed
<1>2. \A i \in 1 .. Len(free) : free[i] \in Slots \ {s}
  BY DEF TypeOK, Partitioned
<1>3. \A i \in 1 .. Len(free') : i \in 1 .. Len(free) \/ i = Len(free) + 1
  BY <1>1
<1>4. \A i, j \in 1 .. Len(free') : i # j => free'[i] # free'[j]
  BY <1>1, <1>2, <1>3 DEF Partitioned
<1>5. ASSUME NEW i \in 1 .. Len(free')
      PROVE  nodes'[free'[i]].seq = 0 /\ free'[i] # pool_idx'
  <2>1. CASE i \in 1 .. Len(free)
    <3>1. /\ free'[i] \in Slots \ {s} /\ nodes[free'[i]].seq = 0
          /\ free'[i] # pool_idx
      BY <1>1, <1>2, <2>1 DEF Partitioned, Active
    <3>. QED  BY <3>1
  <2>2. CASE i = Len(free) + 1
    BY <1>1, <2>2 DEF Active
  <2>. QED  BY <1>3, <2>1, <2>2
<1>6. pool_idx' # NULL_IDX => nodes'[pool_idx'].seq = 0
  <2>. SUFFICES ASSUME pool_idx' # NULL_IDX
                PROVE  nodes'[pool_idx'].seq = 0
    OBVIOUS
  <2>1. pool_idx' \in Slots \ {s} /\ pool_idx' = pool_idx
    BY DEF Links
  <2>. QED  BY <2>1 DEF Partitioned, Active
<1>7. ASSUME NEW k \in Slots
      PROVE  Active(k)' \/ k = pool_idx' \/ \E i \in 1 .. Len(free') : free'[i] = k
  <2>1. CASE k = s
    BY <1>1, <2>1
  <2>2. CASE k # s
    BY <1>1, <2>2 DEF Partitioned, Active
  <2>. QED  BY <2>1, <2>2
<1>. QED  BY <1>4, <1>5, <1>6, <1>7 DEF Partitioned, Active

-----------------------------------------------------------------------------
(* Types hold whatever ids are cancelled, id 0 included: an index is one   *)
(* of the pool, or of a price, and the levels of a bitmap agree.           *)

TypeInv ==
    /\ TypeOK
    /\ incoming = NoOrder <=> pool_idx = NULL_IDX
    /\ \A side \in Sides : WellFormed(bitmaps[side])

\* The price that a match looks at is one of the array of the other side.
LEMMA MatchedPrice ==
    ASSUME TypeInv, incoming # NoOrder, Crossing,
           NEW sd, sd = Opposite(incoming.side), NEW pr, pr = Best(sd)
    PROVE  /\ incoming \in Orders /\ pool_idx \in Slots
           /\ sd \in Sides /\ pr \in Price /\ lists[sd][pr] \in OrderList
<1>1. incoming \in Orders /\ pool_idx \in Slots
  BY DEF TypeInv, TypeOK, Links
<1>2. sd \in Sides
  BY <1>1 DEF Orders, Opposite, Sides
<1>3. pr # NULL_IDX
  BY DEF Crossing
<1>4. pr \in Marked(bitmaps[sd])
  BY <1>2, <1>3, BestBidCorrect, BestAskCorrect DEF Best, TypeInv
<1>. QED  BY <1>1, <1>2, <1>4 DEF Marked, TypeInv, TypeOK

\* Marking a price, or taking its mark away, keeps the levels of the bitmap.
LEMMA MarksKept ==
    ASSUME TypeInv, NEW sd \in Sides, NEW p \in Price,
           \/ bitmaps' = bitmaps
           \/ bitmaps' = [bitmaps EXCEPT ![sd] = SetBit(@, p)]
           \/ bitmaps' = [bitmaps EXCEPT ![sd] = ClearBit(@, p)]
    PROVE  /\ bitmaps' \in [Sides -> Bitmap]
           /\ \A side \in Sides : WellFormed(bitmaps'[side])
<1>1. bitmaps \in [Sides -> Bitmap] /\ \A side \in Sides : WellFormed(bitmaps[side])
  BY DEF TypeInv, TypeOK
<1>2. /\ WellFormed(SetBit(bitmaps[sd], p)) /\ SetBit(bitmaps[sd], p) \in Bitmap
      /\ WellFormed(ClearBit(bitmaps[sd], p)) /\ ClearBit(bitmaps[sd], p) \in Bitmap
  BY <1>1, SetBitCorrect, ClearBitCorrect DEF WellFormed
<1>. QED  BY <1>1, <1>2

\* What a fill does to the nodes.
LEMMA FilledNodes ==
    ASSUME TypeOK, NEW s \in Slots, Fill(s),
           NEW q, q = Smaller(incoming.quantity, nodes[s].quantity),
           NEW nxt, nxt = nodes[s].next
    PROVE  \A i \in Slots :
              /\ nodes'[i].seq = IF i = s /\ nodes[s].quantity = q THEN 0 ELSE nodes[i].seq
              /\ nodes'[i].user = nodes[i].user
              /\ nodes'[i].side = nodes[i].side
              /\ nodes'[i].price = nodes[i].price
              /\ nodes'[i].quantity = IF i = s THEN nodes[i].quantity - q
                                                ELSE nodes[i].quantity
              /\ nodes'[i].next = nodes[i].next
              /\ nodes'[i].prev = IF nodes[s].quantity = q /\ i = nxt
                                  THEN NULL_IDX ELSE nodes[i].prev
<1>1. nodes \in [Slots -> Node]
  BY DEF TypeOK
<1>2. PICK prev, gone : /\ gone = (nodes[s].quantity = q)
                        /\ prev = [i \in Slots |-> IF gone /\ i = nxt THEN NULL_IDX
                                                   ELSE nodes[i].prev]
  OBVIOUS
<1>3. nodes' = [i \in Slots |->
                  IF i = s THEN [nodes[s] EXCEPT !.quantity = @ - q,
                                                 !.seq = IF gone THEN 0 ELSE @,
                                                 !.prev = prev[i]]
                           ELSE [nodes[i] EXCEPT !.prev = prev[i]]]
  BY <1>2 DEF Fill
<1>. QED  BY <1>1, <1>2, <1>3 DEF Node

\* A fill.
LEMMA FillTypes ==
    ASSUME TypeInv, NEW s \in Slots, Fill(s)
    PROVE  TypeInv'
<1>. USE DEF TypeInv
<1>1. PICK sd, pr, q, nxt : /\ sd = Opposite(incoming.side) /\ pr = Best(sd)
                            /\ q = Smaller(incoming.quantity, nodes[s].quantity)
                            /\ nxt = nodes[s].next
  OBVIOUS
<1>. DEFINE list == lists[sd][pr]
            gone == nodes[s].quantity = q
            rest == [head     |-> IF gone THEN nxt ELSE list.head,
                     tail     |-> IF gone /\ nxt = NULL_IDX THEN NULL_IDX ELSE list.tail,
                     quantity |-> (list.quantity - q) % QtyMod,
                     count    |-> IF gone THEN (list.count - 1) % QtyMod ELSE list.count]
            ends == incoming.quantity = q \/ rest.head = NULL_IDX
<1>2. /\ AtHead(s) /\ UNCHANGED <<counter, pool_idx, zeroCancelled>>
      /\ incoming' = [incoming EXCEPT !.quantity = @ - q]
      /\ lists' = [lists EXCEPT ![sd][pr] = rest]
      /\ free' = IF gone THEN Append(free, s) ELSE free
      /\ bitmaps' = IF ends /\ rest.count = 0
                    THEN [bitmaps EXCEPT ![sd] = ClearBit(@, pr)]
                    ELSE bitmaps
  BY <1>1 DEF Fill
<1>3. /\ incoming \in Orders /\ pool_idx \in Slots
      /\ sd \in Sides /\ pr \in Price /\ list \in OrderList
  BY <1>1, <1>2, MatchedPrice DEF AtHead
<1>4. nodes[s] \in Node /\ nxt \in Links
  BY <1>1 DEF TypeOK, Node
<1>5. /\ q \in Int
      /\ nodes[s].quantity - q \in Quantity /\ incoming.quantity - q \in Quantity
  <2>1. nodes[s].quantity \in Quantity /\ incoming.quantity \in Quantity
    BY <1>3, <1>4 DEF Node, Orders
  <2>2. \A a, b \in Quantity : /\ Smaller(a, b) \in Int
                               /\ a - Smaller(a, b) \in Quantity
                               /\ b - Smaller(a, b) \in Quantity
    BY OrderBookAssumption DEF Quantity, Smaller
  <2>. QED  BY <1>1, <2>1, <2>2
<1>6. incoming' \in Orders /\ incoming' # NoOrder /\ pool_idx' # NULL_IDX
  <2>1. incoming' \in Orders
    BY <1>2, <1>3, <1>5 DEF Orders
  <2>. QED  BY <1>2, <1>3, <2>1, OrderBookAssumption DEF Slots, NULL_IDX
<1>7. nodes' \in [Slots -> Node]
  <2>1. PICK prev, dead : /\ dead = (nodes[s].quantity = q)
                          /\ prev = [i \in Slots |-> IF dead /\ i = nxt THEN NULL_IDX
                                                     ELSE nodes[i].prev]
    OBVIOUS
  <2>2. nodes' = [i \in Slots |->
                    IF i = s THEN [nodes[s] EXCEPT !.quantity = @ - q,
                                                   !.seq = IF dead THEN 0 ELSE @,
                                                   !.prev = prev[i]]
                             ELSE [nodes[i] EXCEPT !.prev = prev[i]]]
    BY <1>1, <2>1 DEF Fill
  <2>3. \A i \in Slots : prev[i] \in Links /\ nodes[i] \in Node
    BY <2>1 DEF TypeOK, Node, Links
  <2>. SUFFICES ASSUME NEW i \in Slots PROVE nodes'[i] \in Node
    BY <2>2
  <2>. QED  BY <1>4, <1>5, <2>2, <2>3 DEF Node
<1>8. rest \in OrderList
  <2>1. /\ list.quantity \in Int /\ list.count \in 0 .. QtyMod - 1
        /\ list.head \in Links /\ list.tail \in Links
    BY <1>3, OrderBookAssumption DEF OrderList
  <2>2. /\ (list.quantity - q) % QtyMod \in 0 .. QtyMod - 1
        /\ (list.count - 1) % QtyMod \in 0 .. QtyMod - 1
    <3>. HIDE DEF list
    <3>. QED  BY <1>5, <2>1, OrderBookAssumption
  <2>. HIDE DEF list
  <2>. QED  BY <1>4, <2>1, <2>2 DEF OrderList, Links
<1>9. lists' \in [Sides -> [Price -> OrderList]]
  <2>. HIDE DEF rest
  <2>. QED  BY <1>2, <1>8 DEF TypeOK
<1>10. free' \in Seq(Slots)
  BY <1>2, Pushed DEF TypeOK
<1>11. /\ bitmaps' \in [Sides -> Bitmap]
       /\ \A side \in Sides : WellFormed(bitmaps'[side])
  <2>. HIDE DEF TypeInv
  <2>. QED  BY <1>2, <1>3, MarksKept
<1>. QED  BY <1>2, <1>6, <1>7, <1>9, <1>10, <1>11 DEF TypeOK

\* An order that comes to rest.
LEMMA RestTypes ==
    ASSUME TypeInv, Rest
    PROVE  TypeInv'
<1>. USE DEF TypeInv
<1>1. PICK sd, pr, n, t : /\ sd = incoming.side /\ pr = incoming.price
                          /\ n = pool_idx /\ t = lists[sd][pr].tail
  OBVIOUS
<1>. DEFINE list == lists[sd][pr]
            rest == [head     |-> IF t = NULL_IDX THEN n ELSE list.head,
                     tail     |-> n,
                     quantity |-> (list.quantity + incoming.quantity) % QtyMod,
                     count    |-> (list.count + 1) % QtyMod]
<1>2. /\ incoming # NoOrder /\ incoming' = NoOrder /\ pool_idx' = NULL_IDX
      /\ UNCHANGED <<free, counter, zeroCancelled>>
      /\ nodes' = [i \in Slots |->
                     IF i = n
                     THEN [seq |-> incoming.seq, user |-> incoming.user,
                           side |-> sd, price |-> pr,
                           quantity |-> incoming.quantity,
                           prev |-> t, next |-> IF t = n THEN n ELSE NULL_IDX]
                     ELSE IF i = t
                     THEN [nodes[i] EXCEPT !.next = n]
                     ELSE nodes[i]]
      /\ lists' = [lists EXCEPT ![sd][pr] = rest]
      /\ bitmaps' = IF t = NULL_IDX
                    THEN [bitmaps EXCEPT ![sd] = SetBit(@, pr)]
                    ELSE bitmaps
  BY <1>1 DEF Rest
<1>3. /\ incoming \in Orders /\ n \in Slots /\ sd \in Sides /\ pr \in Price
      /\ list \in OrderList /\ t \in Links
  BY <1>1, <1>2 DEF TypeOK, Links, Orders, OrderList
<1>4. nodes' \in [Slots -> Node]
  <2>. SUFFICES ASSUME NEW i \in Slots PROVE nodes'[i] \in Node
    BY <1>2
  <2>1. NULL_IDX \in Links /\ n \in Links /\ nodes[i] \in Node
    BY <1>3 DEF Links, TypeOK
  <2>2. /\ incoming.seq \in Nat /\ incoming.user \in Users \union {NoUser}
        /\ incoming.quantity \in Quantity
    BY <1>3 DEF Orders, Quantity
  <2>3. CASE i = n
    BY <1>2, <1>3, <2>1, <2>2, <2>3, ZenonT(40) DEF Node
  <2>4. CASE i # n
    BY <1>2, <2>1, <2>4 DEF Node
  <2>. QED  BY <2>3, <2>4
<1>5. rest \in OrderList
  <2>1. /\ list.quantity \in Int /\ list.count \in Int /\ incoming.quantity \in Int
        /\ list.head \in Links
    BY <1>3, OrderBookAssumption DEF OrderList, Orders, Quantity
  <2>2. /\ (list.quantity + incoming.quantity) % QtyMod \in 0 .. QtyMod - 1
        /\ (list.count + 1) % QtyMod \in 0 .. QtyMod - 1
    <3>. HIDE DEF list
    <3>. QED  BY <2>1, OrderBookAssumption
  <2>. HIDE DEF list
  <2>. QED  BY <1>3, <2>1, <2>2 DEF OrderList, Links
<1>6. lists' \in [Sides -> [Price -> OrderList]]
  <2>. HIDE DEF rest
  <2>. QED  BY <1>2, <1>5 DEF TypeOK
<1>7. /\ bitmaps' \in [Sides -> Bitmap]
      /\ \A side \in Sides : WellFormed(bitmaps'[side])
  <2>. HIDE DEF TypeInv
  <2>. QED  BY <1>2, <1>3, MarksKept
<1>. QED  BY <1>2, <1>4, <1>6, <1>7 DEF TypeOK, Links

\* A cancel, of id 0 as well: the node's own links and price are in range.
LEMMA CancelTypes ==
    ASSUME TypeInv, NEW id, NEW u, Cancel(id, u)
    PROVE  TypeInv'
<1>. USE DEF TypeInv
<1>1. PICK s \in Slots : s = id[2]
  BY DEF Cancel, Cancellable
<1>2. PICK sd \in Sides, pr \in Price, prv \in Links, nxt \in Links :
          /\ nodes[s].side = sd /\ nodes[s].price = pr
          /\ nodes[s].prev = prv /\ nodes[s].next = nxt
  BY DEF TypeOK, Node
<1>. DEFINE list == lists[sd][pr]
            rest == [head     |-> IF prv = NULL_IDX THEN nxt ELSE list.head,
                     tail     |-> IF nxt = NULL_IDX THEN prv ELSE list.tail,
                     quantity |-> (list.quantity - nodes[s].quantity) % QtyMod,
                     count    |-> (list.count - 1) % QtyMod]
<1>3. /\ UNCHANGED <<counter, incoming, pool_idx>>
      /\ zeroCancelled' = (zeroCancelled \/ id = <<0, 0>>)
      /\ free' = Append(free, s)
      /\ nodes' = [i \in Slots |->
                     IF i = s THEN [nodes[s] EXCEPT !.seq = 0]
                     ELSE [nodes[i] EXCEPT !.next = IF i = prv THEN nxt ELSE @,
                                           !.prev = IF i = nxt THEN prv ELSE @]]
      /\ lists' = [lists EXCEPT ![sd][pr] = rest]
      /\ bitmaps' = IF rest.count = 0
                    THEN [bitmaps EXCEPT ![sd] = ClearBit(@, pr)]
                    ELSE bitmaps
  BY <1>1, <1>2 DEF Cancel, ListWithout
<1>4. nodes' \in [Slots -> Node]
  <2>. SUFFICES ASSUME NEW i \in Slots PROVE nodes'[i] \in Node
    BY <1>3
  <2>. QED  BY <1>2, <1>3 DEF TypeOK, Node
<1>5. rest \in OrderList
  <2>1. /\ list.quantity \in Int /\ list.count \in Int /\ nodes[s].quantity \in Int
        /\ list.head \in Links /\ list.tail \in Links
    BY OrderBookAssumption DEF OrderList, TypeOK, Node, Quantity
  <2>2. /\ (list.quantity - nodes[s].quantity) % QtyMod \in 0 .. QtyMod - 1
        /\ (list.count - 1) % QtyMod \in 0 .. QtyMod - 1
    <3>. HIDE DEF list
    <3>. QED  BY <2>1, OrderBookAssumption
  <2>. HIDE DEF list
  <2>. QED  BY <1>2, <2>1, <2>2 DEF OrderList
<1>6. lists' \in [Sides -> [Price -> OrderList]]
  <2>. HIDE DEF rest
  <2>. QED  BY <1>3, <1>5 DEF TypeOK
<1>7. free' \in Seq(Slots)
  BY <1>3, Pushed
<1>8. /\ bitmaps' \in [Sides -> Bitmap]
      /\ \A side \in Sides : WellFormed(bitmaps'[side])
  <2>. HIDE DEF TypeInv
  <2>. QED  BY <1>3, MarksKept
<1>9. zeroCancelled' \in BOOLEAN
  BY <1>3
<1>. QED  BY <1>3, <1>4, <1>6, <1>7, <1>8, <1>9 DEF TypeOK

\* The free stack loses its top.
LEMMA Popped ==
    ASSUME TypeOK, free # <<>>, free' = SubSeq(free, 1, Len(free) - 1)
    PROVE  /\ free' \in Seq(Slots) /\ Len(free') = Len(free) - 1
           /\ \A i \in 1 .. Len(free') : free'[i] = free[i]
           /\ free[Len(free)] \in Slots
           /\ Len(free) \in Nat \ {0} /\ \A i \in 1 .. Len(free) : free[i] \in Slots
<1>1. /\ free \in Seq(Slots) /\ Len(free) \in Nat \ {0}
      /\ \A i \in 1 .. Len(free) : free[i] \in Slots
  BY EmptySeq DEF TypeOK
<1>2. PICK m : m = Len(free) - 1
  OBVIOUS
<1>3. m \in Nat /\ free' = SubSeq(free, 1, m)
  BY <1>1, <1>2
<1>4. \A i \in 1 .. m : free[i] \in Slots
  BY <1>1, <1>2
<1>5. /\ free' \in Seq(Slots)
      /\ Len(free') = IF 1 <= m THEN m - 1 + 1 ELSE 0
      /\ \A i \in 1 .. m - 1 + 1 : free'[i] = free[1 + i - 1]
  BY <1>3, <1>4, SubSeqProperties
<1>6. Len(free') = m /\ \A i \in 1 .. m : free'[i] = free[i]
  BY <1>3, <1>5
<1>. QED  BY <1>1, <1>2, <1>5, <1>6

\* Every step keeps the types.
LEMMA TypeStep ==
    ASSUME TypeInv, [Next]_vars
    PROVE  TypeInv'
<1>1. ASSUME NEW u \in Users, NEW side \in Sides, NEW p \in 0 .. MaxPrice,
             NEW q \in Quantity, Submit(u, side, p, q)
      PROVE  TypeInv'
  <2>1. /\ counter < MaxSeq /\ p < MaxPrice /\ free # <<>>
        /\ pool_idx' = free[Len(free)]
        /\ free' = SubSeq(free, 1, Len(free) - 1)
        /\ counter' = counter + 1
        /\ incoming' = [seq |-> counter + 1, user |-> u, side |-> side,
                        price |-> p, quantity |-> q]
        /\ UNCHANGED <<nodes, lists, bitmaps, zeroCancelled>>
    BY <1>1 DEF Submit, CanProcess
  <2>2. counter \in Nat /\ counter' \in 0 .. MaxSeq /\ p \in Price
    BY <2>1, BitmapAssumption, OrderBookAssumption DEF TypeInv, TypeOK, Price
  <2>3. incoming' \in Orders /\ incoming' # NoOrder
    BY <2>1, <2>2, OrderBookAssumption DEF Orders
  <2>4. free' \in Seq(Slots) /\ pool_idx' \in Slots
    BY <2>1, Popped DEF TypeInv
  <2>. QED  BY <2>1, <2>2, <2>3, <2>4 DEF TypeInv, TypeOK, Links, Slots, NULL_IDX
<1>2. ASSUME UNCHANGED <<nodes, free, lists, bitmaps, counter, incoming, pool_idx, zeroCancelled>>
      PROVE  TypeInv'
  BY <1>2 DEF TypeInv, TypeOK
<1>3. ASSUME NEW s \in Slots, Fill(s) PROVE TypeInv'
  BY <1>3, FillTypes
<1>4. ASSUME NEW s \in Slots, SelfTradeStop(s) PROVE TypeInv'
  <2>1. /\ incoming # NoOrder /\ incoming' = [incoming EXCEPT !.quantity = 0]
        /\ UNCHANGED <<nodes, free, lists, bitmaps, counter, pool_idx, zeroCancelled>>
    BY <1>4 DEF SelfTradeStop, AtHead, bookVars
  <2>2. incoming \in Orders /\ 0 \in Quantity
    BY <2>1, OrderBookAssumption DEF TypeInv, TypeOK, Quantity
  <2>3. incoming' \in Orders
    BY <2>1, <2>2 DEF Orders
  <2>. QED  BY <2>1, <2>3, OrderBookAssumption DEF TypeInv, TypeOK
<1>5. CASE SkipLevel
  <2>1. PICK sd, pr : sd = Opposite(incoming.side) /\ pr = Best(sd)
    OBVIOUS
  <2>2. /\ incoming # NoOrder /\ Crossing
        /\ UNCHANGED <<nodes, free, lists, counter, incoming, pool_idx, zeroCancelled>>
        /\ bitmaps' = bitmaps \/ bitmaps' = [bitmaps EXCEPT ![sd] = ClearBit(@, pr)]
    BY <1>5, <2>1 DEF SkipLevel
  <2>3. sd \in Sides /\ pr \in Price
    BY <2>1, <2>2, MatchedPrice
  <2>4. /\ bitmaps' \in [Sides -> Bitmap]
        /\ \A side \in Sides : WellFormed(bitmaps'[side])
    BY <2>2, <2>3, MarksKept
  <2>. QED  BY <2>2, <2>4 DEF TypeInv, TypeOK
<1>6. CASE Rest
  BY <1>6, RestTypes
<1>7. CASE Finish
  <2>1. /\ incoming # NoOrder /\ incoming' = NoOrder /\ pool_idx' = NULL_IDX
        /\ free' = Append(free, pool_idx)
        /\ UNCHANGED <<nodes, lists, bitmaps, counter, zeroCancelled>>
    BY <1>7 DEF Finish
  <2>2. pool_idx \in Slots
    BY <2>1 DEF TypeInv, TypeOK, Links
  <2>3. free' \in Seq(Slots)
    BY <2>1, <2>2, Pushed DEF TypeInv
  <2>. QED  BY <2>1, <2>3 DEF TypeInv, TypeOK, Links
<1>8. ASSUME NEW id \in Ids, NEW u \in Users, Cancel(id, u) PROVE TypeInv'
  BY <1>8, CancelTypes
<1>. QED  BY <1>1, <1>2, <1>3, <1>4, <1>5, <1>6, <1>7, <1>8
          DEF Next, Refuse, CancelMiss, bookVars, vars

\* A cancel that is accepted, of another id than 0, is that of an active order.
LEMMA CancelNamed ==
    ASSUME NEW id \in Ids, NEW u, Cancel(id, u), id # <<0, 0>>
    PROVE  /\ id[2] \in Slots /\ Active(id[2])
           /\ id = <<nodes[id[2]].seq, id[2]>>
<1>1. id = <<id[1], id[2]>>
  BY DEF Ids
<1>2. id[2] \in Slots /\ IdAt(id[2]) = id
  BY DEF Cancel, Cancellable
<1>. QED  BY <1>1, <1>2 DEF IdAt

-----------------------------------------------------------------------------
(* One theorem per action.                                                 *)

\* The constructor establishes the invariant.
THEOREM InitInv == Init => BookInv
<1>. SUFFICES ASSUME Init PROVE BookInv
  OBVIOUS
<1>. USE DEF Init
<1>1. /\ MaxOrders \in Nat \ {0} /\ MaxQty \in Nat /\ QtyMod \in Nat /\ QtyMod > MaxQty
      /\ QtyMod > MaxOrders /\ MaxSeq \in Nat
  BY OrderBookAssumption
<1>2. 0 \in Price /\ 0 \in Slots /\ NULL_IDX \in Links
  BY <1>1, BitmapAssumption DEF Price, Slots, Links
<1>3. free \in [1 .. MaxOrders -> Slots] /\ free \in Seq(Slots) /\ Len(free) = MaxOrders
  <2>1. \A i \in 1 .. MaxOrders : MaxOrders - i \in Slots
    BY <1>1 DEF Slots
  <2>2. free \in [1 .. MaxOrders -> Slots]
    BY <2>1
  <2>. QED  BY <1>1, <2>2
<1>4. \A s \in Slots : ~ Active(s)
  BY DEF Active
<1>5. TypeOK
  <2>1. nodes \in [Slots -> Node]
    BY <1>1, <1>2 DEF Node, Links, Sides, Quantity
  <2>2. lists \in [Sides -> [Price -> OrderList]]
    BY <1>1, <1>2 DEF OrderList
  <2>3. bitmaps \in [Sides -> Bitmap]
    BY EmptyBitmapCorrect DEF WellFormed
  <2>4. /\ counter \in 0 .. MaxSeq /\ incoming \in Orders \union {NoOrder}
        /\ pool_idx \in Links
    BY <1>1, <1>2
  <2>5. zeroCancelled \in BOOLEAN
    OBVIOUS
  <2>. HIDE DEF Init
  <2>. QED  BY <1>3, <2>1, <2>2, <2>3, <2>4, <2>5 DEF TypeOK
<1>6. Partitioned
  <2>1. \A i \in 1 .. Len(free) : free[i] \in Slots /\ free[i] = MaxOrders - i
    BY <1>1, <1>3
  <2>2. ASSUME NEW s \in Slots
        PROVE  \E i \in 1 .. Len(free) : free[i] = s
    <3>1. MaxOrders - s \in 1 .. Len(free)
      BY <1>1, <1>3 DEF Slots
    <3>. QED  BY <1>1, <2>1, <3>1 DEF Slots
  <2>3. \A i, j \in 1 .. Len(free) : i # j => free[i] # free[j]
    BY <1>1, <1>3, <2>1
  <2>4. /\ incoming = NoOrder /\ pool_idx = NULL_IDX
        /\ \A s \in Slots : s # NULL_IDX
    BY <1>1 DEF Slots, NULL_IDX
  <2>. HIDE DEF Init
  <2>. QED  BY <1>4, <2>1, <2>2, <2>3, <2>4 DEF Partitioned
<1>7. \A side \in Sides, p \in Price : At(side, p) = {}
  BY <1>4 DEF At
<1>8. Counted
  BY <1>7, FS_EmptySet DEF Counted
<1>9. Indexed
  BY EmptyBitmapCorrect DEF Indexed
<1>. QED  BY <1>4, <1>5, <1>6, <1>8, <1>9, OrderBookAssumption
          DEF BookInv, Linked, EndsOK, ByArrival, SeqsOK

\* Cancelling unlinks the node, wherever it is in its list.
THEOREM CancelInv ==
    ASSUME BookInv, TypeOK', NEW id \in Ids, NEW u \in Users,
           Cancel(id, u), id # <<0, 0>>
    PROVE  BookInv'
<1>. USE DEF BookInv
<1>0. PICK s \in Slots : s = id[2] /\ Active(s)
  BY CancelNamed
<1>1. /\ incoming = NoOrder /\ Active(s)
      /\ UNCHANGED <<counter, incoming, pool_idx>>
      /\ free' = Append(free, s)
  BY <1>0 DEF Cancel
<1>2. nodes \in [Slots -> Node] /\ lists \in [Sides -> [Price -> OrderList]]
  BY DEF TypeOK
<1>3. PICK sd \in Sides, pr \in Price, prv \in Links, nxt \in Links :
          /\ nodes[s].side = sd /\ nodes[s].price = pr
          /\ nodes[s].prev = prv /\ nodes[s].next = nxt
  BY <1>2 DEF Node
<1>4. s \in At(sd, pr)
  BY <1>1, <1>3 DEF At
<1>5. nodes' = [i \in Slots |->
                  IF i = s THEN [nodes[s] EXCEPT !.seq = 0]
                  ELSE [nodes[i] EXCEPT !.next = IF i = prv THEN nxt ELSE @,
                                        !.prev = IF i = nxt THEN prv ELSE @]]
  BY <1>0, <1>3 DEF Cancel
<1>6. nodes' \in [Slots -> Node]
  BY DEF TypeOK
<1>7. \A i \in Slots \ {s} :
          /\ nodes'[i].seq = nodes[i].seq
          /\ nodes'[i].side = nodes[i].side
          /\ nodes'[i].price = nodes[i].price
          /\ nodes'[i].quantity = nodes[i].quantity
          /\ nodes'[i].next = IF i = prv THEN nxt ELSE nodes[i].next
          /\ nodes'[i].prev = IF i = nxt THEN prv ELSE nodes[i].prev
  BY <1>2, <1>5 DEF Node
<1>8. nodes'[s].seq = 0
  BY <1>2, <1>5 DEF Node
<1>. DEFINE list == lists[sd][pr]
            rest == [head     |-> IF prv = NULL_IDX THEN nxt ELSE list.head,
                     tail     |-> IF nxt = NULL_IDX THEN prv ELSE list.tail,
                     quantity |-> (list.quantity - nodes[s].quantity) % QtyMod,
                     count    |-> (list.count - 1) % QtyMod]
<1>9. /\ lists' = [lists EXCEPT ![sd][pr] = rest]
      /\ bitmaps' = IF rest.count = 0
                    THEN [bitmaps EXCEPT ![sd] = ClearBit(@, pr)]
                    ELSE bitmaps
  BY <1>0, <1>3 DEF Cancel, ListWithout
<1>10. lists'[sd][pr] = rest /\ rest.count = list.count - 1
  BY <1>2, <1>4, <1>9, CountDown
<1>11. \A side \in Sides, p \in Price : side # sd \/ p # pr => lists'[side][p] = lists[side][p]
  BY <1>2, <1>9
<1>12. Unlinked(s, sd, pr, prv, nxt)
  BY <1>3, <1>4, <1>6, <1>7, <1>8, <1>10, <1>11 DEF Unlinked
<1>13. Counted' /\ list.count - 1 \in 0 .. MaxOrders
  BY <1>12, UnlinkedCounts
<1>14. Linked'
  BY <1>12, UnlinkedLinks
<1>15. ByArrival'
  BY <1>12, UnlinkedOrder
<1>16. TypeOK'
  OBVIOUS
<1>17. Indexed'
  BY <1>9, <1>10, <1>12, <1>13, <1>14, <1>16, UnlinkedBitmaps
<1>18. Partitioned'
  <2>1. s # pool_idx
    BY <1>1, <1>4 DEF Partitioned, Slots, NULL_IDX
  <2>2. ~ Active(s)'
    BY <1>8 DEF Active
  <2>. QED  BY <1>1, <1>7, <2>1, <2>2, PushedPartition DEF TypeOK, Partitioned
<1>19. SeqsOK'
  <2>1. counter \in Nat /\ incoming' = NoOrder /\ counter' = counter
    BY <1>1, OrderBookAssumption DEF TypeOK
  <2>. QED  BY <1>7, <1>8, <2>1 DEF SeqsOK, Active
<1>. QED  BY <1>13, <1>14, <1>15, <1>16, <1>17, <1>18, <1>19

\* The best price of a side: a price with orders, none better.
LEMMA BestOK ==
    ASSUME BookInv, NEW side \in Sides
    PROVE  /\ Best(side) = NULL_IDX <=> \A p \in Price : At(side, p) = {}
           /\ Best(side) # NULL_IDX =>
                 /\ Best(side) \in Price
                 /\ At(side, Best(side)) # {}
                 /\ \A p \in Price : At(side, p) # {} =>
                       IF side = "buy" THEN p <= Best(side) ELSE Best(side) <= p
<1>. USE DEF BookInv
<1>1. /\ WellFormed(bitmaps[side])
      /\ Marked(bitmaps[side]) = {p \in Price : lists[side][p].head # NULL_IDX}
  BY DEF Indexed
<1>2. \A p \in Price : p \in Marked(bitmaps[side]) <=> At(side, p) # {}
  BY <1>1, EmptyLevel
<1>3. Marked(bitmaps[side]) \subseteq Price
  BY DEF Marked
<1>4. CASE side = "buy"
  <2>1. Best(side) = BestBid(bitmaps[side])
    BY <1>4 DEF Best
  <2>. QED  BY <1>1, <1>2, <1>3, <1>4, <2>1, BestBidCorrect
<1>5. CASE side = "sell"
  <2>1. Best(side) = BestAsk(bitmaps[side])
    BY <1>5 DEF Best
  <2>. QED  BY <1>1, <1>2, <1>3, <1>5, <2>1, BestAskCorrect
<1>. QED  BY <1>4, <1>5 DEF Sides

\* What match_* finds at the head of the best list.
LEMMA AtHeadOK ==
    ASSUME BookInv, NEW s, AtHead(s), NEW sd, sd = Opposite(incoming.side),
           NEW pr, pr = Best(sd)
    PROVE  /\ sd \in Sides /\ pr \in Price
           /\ s \in At(sd, pr) /\ s = lists[sd][pr].head
           /\ nodes[s].prev = NULL_IDX
           /\ incoming \in Orders /\ incoming.quantity > 0
           /\ pool_idx \in Slots
<1>. USE DEF BookInv
<1>1. incoming \in Orders /\ incoming.quantity > 0
  BY DEF AtHead, Crossing, TypeOK
<1>2. sd \in Sides
  BY <1>1 DEF Orders, Opposite, Sides
<1>3. pr # NULL_IDX
  BY DEF AtHead, Crossing
<1>4. pr \in Price /\ At(sd, pr) # {}
  BY <1>2, <1>3, BestOK
<1>5. s = lists[sd][pr].head
  BY DEF AtHead
<1>6. s \in At(sd, pr) /\ nodes[s].prev = NULL_IDX
  BY <1>2, <1>4, <1>5, Neighbours
<1>7. pool_idx \in Slots
  BY <1>1 DEF AtHead, Partitioned, TypeOK, Links
<1>. QED  BY <1>1, <1>2, <1>4, <1>5, <1>6, <1>7

\* A fill either leaves the resting order where it is or unlinks it.
THEOREM FillInv ==
    ASSUME BookInv, TypeOK', NEW s \in Slots, Fill(s)
    PROVE  BookInv'
<1>. USE DEF BookInv
<1>. DEFINE sd0 == Opposite(incoming.side)
<1>1. PICK sd, pr, q, nxt : /\ sd = Opposite(incoming.side) /\ pr = Best(sd)
                            /\ q = Smaller(incoming.quantity, nodes[s].quantity)
                            /\ nxt = nodes[s].next
  OBVIOUS
<1>2. /\ AtHead(s)
      /\ UNCHANGED <<counter, pool_idx>>
      /\ incoming' = [incoming EXCEPT !.quantity = @ - q]
  BY <1>1 DEF Fill
<1>3. /\ sd \in Sides /\ pr \in Price
      /\ s \in At(sd, pr) /\ s = lists[sd][pr].head
      /\ nodes[s].prev = NULL_IDX
      /\ incoming \in Orders /\ incoming.quantity > 0
      /\ pool_idx \in Slots
  BY <1>1, <1>2, AtHeadOK
<1>4. nodes \in [Slots -> Node] /\ lists \in [Sides -> [Price -> OrderList]]
  BY DEF TypeOK
<1>5. /\ nodes[s].quantity > 0 /\ nodes[s].quantity \in Quantity
      /\ incoming.quantity \in Quantity
      /\ q \in Quantity /\ q > 0
      /\ q <= nodes[s].quantity /\ q <= incoming.quantity
      /\ nodes[s].quantity - q \in Quantity
      /\ incoming.quantity - q \in Quantity
  <2>1. nodes[s].quantity > 0 /\ nodes[s].quantity \in Quantity /\ incoming.quantity \in Quantity
    BY <1>3, <1>4 DEF SeqsOK, At, Node, Orders
  <2>2. \A a, b \in Quantity : a > 0 /\ b > 0 =>
            /\ Smaller(a, b) \in Quantity /\ Smaller(a, b) > 0
            /\ Smaller(a, b) <= a /\ Smaller(a, b) <= b
            /\ a - Smaller(a, b) \in Quantity
            /\ b - Smaller(a, b) \in Quantity
    BY OrderBookAssumption DEF Quantity, Smaller
  <2>. QED  BY <1>1, <1>3, <2>1, <2>2
<1>. DEFINE list == lists[sd][pr]
            gone == nodes[s].quantity = q
            rest == [head     |-> IF gone THEN nxt ELSE list.head,
                     tail     |-> IF gone /\ nxt = NULL_IDX THEN NULL_IDX ELSE list.tail,
                     quantity |-> (list.quantity - q) % QtyMod,
                     count    |-> IF gone THEN (list.count - 1) % QtyMod ELSE list.count]
            ends == incoming.quantity = q \/ rest.head = NULL_IDX
<1>6. /\ lists' = [lists EXCEPT ![sd][pr] = rest]
      /\ free' = IF gone THEN Append(free, s) ELSE free
      /\ bitmaps' = IF ends /\ rest.count = 0
                    THEN [bitmaps EXCEPT ![sd] = ClearBit(@, pr)]
                    ELSE bitmaps
  BY <1>1 DEF Fill
<1>7. incoming' \in Orders /\ incoming' # NoOrder /\ incoming'.seq = incoming.seq
  <2>1. incoming' \in Orders /\ incoming'.seq = incoming.seq
    BY <1>2, <1>3, <1>5 DEF Orders
  <2>. QED  BY <2>1, OrderBookAssumption
<1>8. /\ nodes' \in [Slots -> Node]
      /\ \A i \in Slots :
            /\ nodes'[i].seq = IF i = s /\ gone THEN 0 ELSE nodes[i].seq
            /\ nodes'[i].user = nodes[i].user
            /\ nodes'[i].side = nodes[i].side
            /\ nodes'[i].price = nodes[i].price
            /\ nodes'[i].quantity = IF i = s THEN nodes[i].quantity - q
                                              ELSE nodes[i].quantity
            /\ nodes'[i].next = nodes[i].next
            /\ nodes'[i].prev = IF gone /\ i = nxt THEN NULL_IDX ELSE nodes[i].prev
  BY <1>1, FilledNodes DEF TypeOK
<1>9. nxt \in Links
  BY <1>1, <1>4 DEF Node
<1>10. lists'[sd][pr] = rest
  BY <1>3, <1>4, <1>6
<1>11. \A side \in Sides, p \in Price : side # sd \/ p # pr => lists'[side][p] = lists[side][p]
  BY <1>3, <1>4, <1>6
<1>12. \A i \in Slots \ {s} :
          /\ nodes'[i].seq = nodes[i].seq
          /\ nodes'[i].side = nodes[i].side
          /\ nodes'[i].price = nodes[i].price
          /\ nodes'[i].quantity = nodes[i].quantity
          /\ nodes'[i].next = nodes[i].next
          /\ nodes'[i].prev = IF gone /\ i = nxt THEN NULL_IDX ELSE nodes[i].prev
  BY <1>8
<1>14. SeqsOK'
  <2>1. nodes'[s].seq = IF gone THEN 0 ELSE nodes[s].seq
    BY <1>8
  <2>2. nodes'[s].quantity = nodes[s].quantity - q
    BY <1>8
  <2>3. nodes'[s].seq # 0 => nodes'[s].quantity > 0
    BY <1>5, <2>1, <2>2, OrderBookAssumption DEF Quantity
  <2>4. nodes'[s].seq <= counter /\ nodes'[s].seq < incoming.seq
    BY <1>2, <1>3, <1>7, <2>1, OrderBookAssumption DEF SeqsOK, TypeOK, Orders
  <2>5. /\ incoming # NoOrder /\ counter' = counter
        /\ incoming.seq = counter
    BY <1>2, <1>3, OrderBookAssumption DEF SeqsOK
  <2>. QED  BY <1>7, <1>12, <2>3, <2>4, <2>5 DEF SeqsOK, Active
<1>15. CASE gone
  <2>1. nodes'[s].seq = 0
    BY <1>8, <1>15
  <2>2. list.tail = s <=> nxt = NULL_IDX
    BY <1>1, <1>3, LastIsTail
  <2>3. \A i \in Slots \ {s} : i # NULL_IDX
    BY DEF Slots, NULL_IDX
  <2>4. Unlinked(s, sd, pr, NULL_IDX, nxt)
    <3>1. /\ lists'[sd][pr].head = nxt
          /\ lists'[sd][pr].tail = IF nxt = NULL_IDX THEN NULL_IDX ELSE lists[sd][pr].tail
          /\ lists'[sd][pr].count = lists[sd][pr].count - 1
      BY <1>3, <1>10, <1>15, CountDown
    <3>2. \A i \in Slots \ {s} :
              /\ nodes'[i].next = IF i = NULL_IDX THEN nxt ELSE nodes[i].next
              /\ nodes'[i].prev = IF i = nxt THEN NULL_IDX ELSE nodes[i].prev
      BY <1>12, <1>15, <2>3
    <3>3. nodes[s].next = nxt
      BY <1>1
    <3>. HIDE DEF rest, list, gone
    <3>. QED  BY <1>3, <1>8, <1>11, <1>12, <2>1, <3>1, <3>2, <3>3 DEF Unlinked
  <2>5. Counted' /\ list.count - 1 \in 0 .. MaxOrders
    BY <1>3, <2>4, UnlinkedCounts
  <2>6. Linked'
    BY <1>3, <2>4, UnlinkedLinks
  <2>7. ByArrival'
    BY <1>3, <2>4, UnlinkedOrder
  <2>9. rest.count = 0 <=> rest.head = NULL_IDX
    <3>1. lists'[sd][pr].count = Cardinality(At(sd, pr)')
      BY <1>3, <2>5 DEF Counted
    <3>2. At(sd, pr)' = At(sd, pr) \ {s}
      BY <1>3, <2>4, UnlinkedAt
    <3>3. rest.count = 0 <=> At(sd, pr) \ {s} = {}
      BY <1>10, <3>1, <3>2, FiniteLevels, FS_RemoveElement, FS_EmptySet
    <3>4. rest.head = nxt
      BY <1>15
    <3>5. nxt # NULL_IDX => nxt \in At(sd, pr) \ {s}
      <4>1. nxt # NULL_IDX => nxt \in At(sd, pr) /\ nodes[nxt].prev = s
        <5>1. nodes[s].next = nxt
          BY <1>1
        <5>. HIDE DEF rest, list, gone, ends
        <5>. QED  BY <1>3, <5>1, Neighbours
      <4>2. s # NULL_IDX
        BY DEF Slots, NULL_IDX
      <4>. QED  BY <1>3, <4>1, <4>2
    <3>6. nxt = NULL_IDX => At(sd, pr) = {s}
      BY <1>3, <2>2, HeadIsTail
    <3>. QED  BY <3>3, <3>4, <3>5, <3>6
  <2>10. bitmaps' = IF lists'[sd][pr].count = 0
                    THEN [bitmaps EXCEPT ![sd] = ClearBit(@, pr)]
                    ELSE bitmaps
    BY <1>6, <1>10, <2>9
  <2>11. Indexed'
    BY <1>3, <2>4, <2>5, <2>6, <2>10, UnlinkedBitmaps
  <2>12. Partitioned'
    <3>1. s # pool_idx /\ Active(s)
      BY <1>3 DEF Partitioned, Slots, NULL_IDX, At
    <3>2. ~ Active(s)'
      BY <2>1 DEF Active
    <3>3. incoming' # NoOrder /\ pool_idx' = pool_idx /\ pool_idx # NULL_IDX
      BY <1>2, <1>3, <1>7 DEF Slots, NULL_IDX
    <3>. QED  BY <1>3, <1>6, <1>12, <1>15, <3>1, <3>2, <3>3, PushedPartition DEF Links
  <2>. QED  BY <1>14, <2>5, <2>6, <2>7, <2>11, <2>12
<1>16. CASE ~ gone
  <2>1. /\ nodes'[s].seq = nodes[s].seq
        /\ nodes'[s].side = nodes[s].side
        /\ nodes'[s].price = nodes[s].price
        /\ nodes'[s].next = nodes[s].next
        /\ nodes'[s].prev = nodes[s].prev
    BY <1>8, <1>16
  <2>2. \A i \in Slots : /\ nodes'[i].seq = nodes[i].seq
                         /\ nodes'[i].side = nodes[i].side
                         /\ nodes'[i].price = nodes[i].price
                         /\ nodes'[i].next = nodes[i].next
                         /\ nodes'[i].prev = nodes[i].prev
    BY <1>12, <1>16, <2>1
  <2>3. \A side \in Sides, p \in Price : /\ lists'[side][p].head = lists[side][p].head
                                         /\ lists'[side][p].tail = lists[side][p].tail
                                         /\ lists'[side][p].count = lists[side][p].count
    BY <1>10, <1>11, <1>16
  <2>4. \A side \in Sides, p \in Price : At(side, p)' = At(side, p)
    BY <2>2 DEF At, Active
  <2>5. list.count # 0 /\ list \in OrderList
    BY <1>3, <1>4, EmptyLevel
  <2>6. bitmaps' = bitmaps /\ free' = free
    BY <1>6, <1>16, <2>5
  <2>8. Partitioned'
    <3>1. incoming' # NoOrder /\ pool_idx' = pool_idx /\ pool_idx # NULL_IDX
      BY <1>2, <1>3, <1>7 DEF Slots, NULL_IDX
    <3>2. \A i \in 1 .. Len(free) : free[i] \in Slots
      BY DEF TypeOK
    <3>. QED  BY <1>3, <2>2, <2>6, <3>1, <3>2 DEF Partitioned, Active
  <2>9. Linked'
    <3>1. EndsOK'
      BY <2>3, <2>4 DEF Linked, EndsOK
    <3>2. ASSUME NEW i \in Slots, Active(i)'
          PROVE  NeighboursOK(i)'
      <4>1. PICK sd1 \in Sides, pr1 \in Price : i \in At(sd1, pr1)
        BY <1>4, <2>2, <3>2 DEF At, Active, Node
      <4>2. nodes'[i].side = sd1 /\ nodes'[i].price = pr1
        BY <2>2, <4>1 DEF At
      <4>3. \A k \in At(sd1, pr1) : k \in Slots
        BY DEF At
      <4>. QED  BY <2>2, <2>3, <2>4, <4>1, <4>2, <4>3, Neighbours DEF NeighboursOK
    <3>. QED  BY <3>1, <3>2 DEF Linked
  <2>10. ByArrival'
    <3>. SUFFICES ASSUME NEW i \in Slots, NEW k \in Slots, Active(i)',
                         (k \in At(nodes[i].side, nodes[i].price))', i # k
                  PROVE  InOrder(i, k)'
      BY DEF ByArrival
    <3>1. PICK sd1 \in Sides, pr1 \in Price : i \in At(sd1, pr1) /\ k \in At(sd1, pr1)
      BY <1>4, <2>2 DEF At, Active, Node
    <3>2. nodes'[i].side = sd1 /\ nodes'[i].price = pr1
      BY <2>2, <3>1 DEF At
    <3>3. \A x \in At(sd1, pr1) : x \in Slots
      BY DEF At
    <3>. QED  BY <2>2, <2>3, <3>1, <3>2, <3>3, Ordered, Neighbours DEF InOrder
  <2>11. Counted'
    BY <2>3, <2>4 DEF Counted
  <2>12. Indexed'
    BY <2>3, <2>6 DEF Indexed
  <2>. QED  BY <1>14, <2>8, <2>9, <2>10, <2>11, <2>12
<1>. QED  BY <1>15, <1>16

\* Appending the incoming order at the tail of its list.
THEOREM RestInv ==
    ASSUME BookInv, TypeOK', Rest
    PROVE  BookInv'
<1>. USE DEF BookInv
<1>1. PICK sd, pr, n, t : /\ sd = incoming.side /\ pr = incoming.price
                          /\ n = pool_idx /\ t = lists[sd][pr].tail
  OBVIOUS
<1>2. /\ incoming \in Orders /\ incoming.quantity > 0 /\ incoming # NoOrder
      /\ incoming' = NoOrder /\ pool_idx' = NULL_IDX
      /\ UNCHANGED <<free, counter>>
  BY DEF Rest, TypeOK
<1>3. sd \in Sides /\ pr \in Price /\ incoming.seq \in Nat \ {0} /\ incoming.quantity \in Quantity
  BY <1>1, <1>2 DEF Orders
<1>4. /\ n \in Slots /\ n # NULL_IDX /\ ~ Active(n)
      /\ \A i \in 1 .. Len(free) : free[i] # n
  BY <1>1, <1>2 DEF Partitioned, TypeOK, Links
<1>5. nodes \in [Slots -> Node] /\ lists \in [Sides -> [Price -> OrderList]]
  BY DEF TypeOK
<1>6. t \in Links /\ t # n
  BY <1>1, <1>3, <1>4, <1>5 DEF OrderList, Linked, EndsOK, At
<1>. DEFINE list == lists[sd][pr]
            rest == [head     |-> IF t = NULL_IDX THEN n ELSE list.head,
                     tail     |-> n,
                     quantity |-> (list.quantity + incoming.quantity) % QtyMod,
                     count    |-> (list.count + 1) % QtyMod]
<1>7. /\ nodes' = [i \in Slots |->
                     IF i = n
                     THEN [seq |-> incoming.seq, user |-> incoming.user,
                           side |-> sd, price |-> pr,
                           quantity |-> incoming.quantity,
                           prev |-> t, next |-> IF t = n THEN n ELSE NULL_IDX]
                     ELSE IF i = t
                     THEN [nodes[i] EXCEPT !.next = n]
                     ELSE nodes[i]]
      /\ lists' = [lists EXCEPT ![sd][pr] = rest]
      /\ bitmaps' = IF t = NULL_IDX
                    THEN [bitmaps EXCEPT ![sd] = SetBit(@, pr)]
                    ELSE bitmaps
  BY <1>1 DEF Rest
<1>8. /\ nodes'[n].seq = incoming.seq /\ nodes'[n].side = sd /\ nodes'[n].price = pr
      /\ nodes'[n].quantity = incoming.quantity
      /\ nodes'[n].prev = t /\ nodes'[n].next = NULL_IDX
  BY <1>4, <1>6, <1>7
<1>9. \A i \in Slots \ {n} :
          /\ nodes'[i].seq = nodes[i].seq
          /\ nodes'[i].side = nodes[i].side
          /\ nodes'[i].price = nodes[i].price
          /\ nodes'[i].quantity = nodes[i].quantity
          /\ nodes'[i].prev = nodes[i].prev
          /\ nodes'[i].next = IF i = t THEN n ELSE nodes[i].next
  BY <1>5, <1>7 DEF Node
<1>10. /\ lists'[sd][pr].head = IF t = NULL_IDX THEN n ELSE list.head
       /\ lists'[sd][pr].tail = n
       /\ lists'[sd][pr].count = list.count + 1
  BY <1>3, <1>4, <1>5, <1>7, CountUp DEF At
<1>11. \A side \in Sides, p \in Price : side # sd \/ p # pr => lists'[side][p] = lists[side][p]
  BY <1>3, <1>5, <1>7
<1>12. nodes' \in [Slots -> Node]
  BY DEF TypeOK
<1>13. \A side \in Sides, p \in Price :
          At(side, p)' = IF side = sd /\ p = pr THEN At(side, p) \union {n} ELSE At(side, p)
  BY <1>3, <1>4, <1>8, <1>9 DEF At, Active
<1>14. \A side \in Sides, p \in Price : n \notin At(side, p)
  BY <1>4 DEF At
<1>15. Counted'
  <2>. SUFFICES ASSUME NEW side \in Sides, NEW p \in Price
                PROVE  lists'[side][p].count = Cardinality(At(side, p)')
    BY DEF Counted
  <2>1. lists[side][p].count = Cardinality(At(side, p))
    BY DEF Counted
  <2>2. Cardinality(At(side, p) \union {n}) = Cardinality(At(side, p)) + 1
    BY <1>14, FiniteLevels, FS_AddElement
  <2>. QED  BY <1>10, <1>11, <1>13, <2>1, <2>2
<1>17. t = NULL_IDX <=> At(sd, pr) = {}
  BY <1>1, <1>3, EmptyLevel
<1>18. Indexed'
  <2>. SUFFICES ASSUME NEW side \in Sides
                PROVE  /\ WellFormed(bitmaps'[side])
                       /\ Marked(bitmaps'[side]) = {p \in Price : lists'[side][p].head # NULL_IDX}
    BY DEF Indexed
  <2>1. /\ WellFormed(bitmaps[side])
        /\ Marked(bitmaps[side]) = {p \in Price : lists[side][p].head # NULL_IDX}
    BY DEF Indexed
  <2>2. lists'[sd][pr].head # NULL_IDX
    BY <1>3, <1>4, <1>10, <1>17, EmptyLevel
  <2>3. CASE side = sd /\ t = NULL_IDX
    <3>1. bitmaps'[side] = SetBit(bitmaps[side], pr)
      BY <1>7, <2>3 DEF TypeOK
    <3>. QED  BY <1>3, <1>11, <2>1, <2>2, <2>3, <3>1, SetBitCorrect
  <2>4. CASE side # sd \/ t # NULL_IDX
    <3>1. bitmaps'[side] = bitmaps[side]
      BY <1>7, <2>4 DEF TypeOK
    <3>2. side = sd => lists[sd][pr].head # NULL_IDX
      BY <1>3, <1>17, <2>4, EmptyLevel
    <3>. QED  BY <1>3, <1>11, <2>1, <2>2, <3>1, <3>2
  <2>. QED  BY <2>3, <2>4
<1>19. SeqsOK'
  <2>1. \A i \in Slots : nodes'[i].seq <= counter
    <3>1. counter \in Nat /\ incoming.seq = counter
      BY <1>2, OrderBookAssumption DEF SeqsOK, TypeOK
    <3>. QED  BY <1>4, <1>8, <1>9, <3>1 DEF SeqsOK
  <2>. QED  BY <1>2, <1>8, <1>9, <2>1 DEF SeqsOK, Active
<1>20. Partitioned'
  <2>1. \A i \in 1 .. Len(free) : free[i] \in Slots \ {n}
    BY <1>4 DEF TypeOK
  <2>2. \A i \in 1 .. Len(free) : nodes'[free[i]].seq = 0 /\ free[i] # NULL_IDX
    BY <1>9, <2>1 DEF Partitioned, Active, Slots, NULL_IDX
  <2>3. ASSUME NEW k \in Slots
        PROVE  Active(k)' \/ \E i \in 1 .. Len(free) : free[i] = k
    <3>1. CASE k = n
      BY <1>3, <1>8, <3>1 DEF Active
    <3>2. CASE k # n
      BY <1>1, <1>9, <3>2 DEF Partitioned, Active
    <3>. QED  BY <3>1, <3>2
  <2>. QED  BY <1>2, <2>2, <2>3 DEF Partitioned, Active
<1>21. \A side \in Sides, p \in Price : \A k \in At(side, p) :
           /\ k \in Slots \ {n} /\ k # NULL_IDX
           /\ nodes[k].seq < incoming.seq /\ nodes[k].seq \in Nat
  BY <1>2, <1>5, <1>14 DEF SeqsOK, At, Slots, NULL_IDX, Node
<1>22. ASSUME NEW k \in At(sd, pr)
       PROVE  /\ t \in At(sd, pr) /\ t # n /\ t # NULL_IDX
              /\ nodes[t].next = NULL_IDX /\ nodes'[t].next = n
              /\ nodes[k].seq <= nodes[t].seq
  <2>1. t \in At(sd, pr) /\ t # n /\ t # NULL_IDX /\ nodes[t].next = NULL_IDX
    BY <1>1, <1>3, <1>21, Neighbours
  <2>2. nodes'[t].next = n
    BY <1>9, <1>21, <1>3, <2>1
  <2>3. nodes[k].seq <= nodes[t].seq
    <3>1. CASE k = t
      BY <1>3, <1>21, <3>1
    <3>2. CASE k # t
      BY <1>1, <1>3, <2>1, <3>2, Ordered
    <3>. QED  BY <3>1, <3>2
  <2>. QED  BY <2>1, <2>2, <2>3
<1>23. Linked'
  <2>1. EndsOK'
    <3>. SUFFICES ASSUME NEW side \in Sides, NEW p \in Price
                  PROVE  /\ lists'[side][p].head = NULL_IDX <=> lists'[side][p].tail = NULL_IDX
                         /\ lists'[side][p].head # NULL_IDX => lists'[side][p].head \in At(side, p)'
                         /\ lists'[side][p].tail # NULL_IDX => lists'[side][p].tail \in At(side, p)'
      BY DEF EndsOK
    <3>1. CASE side = sd /\ p = pr
      BY <1>3, <1>4, <1>10, <1>13, <1>17, <3>1, EmptyLevel DEF Linked, EndsOK
    <3>2. CASE side # sd \/ p # pr
      BY <1>11, <1>13, <3>2 DEF Linked, EndsOK
    <3>. QED  BY <3>1, <3>2
  <2>2. NeighboursOK(n)'
    <3>1. n \in At(sd, pr)' /\ At(sd, pr)' = At(sd, pr) \union {n}
      BY <1>3, <1>13
    <3>2. nodes'[n].prev = NULL_IDX <=> n = lists'[sd][pr].head
      BY <1>3, <1>8, <1>10, <1>14, <1>17, Neighbours
    <3>3. lists'[sd][pr].head # NULL_IDX
      BY <1>3, <1>4, <1>10, <1>17, EmptyLevel
    <3>4. t # NULL_IDX => /\ t \in At(sd, pr) /\ nodes'[t].next = n
                          /\ nodes'[t].seq < nodes'[n].seq
      BY <1>3, <1>8, <1>9, <1>17, <1>21, <1>22
    <3>5. nodes'[n].next = NULL_IDX /\ n = lists'[sd][pr].tail
      BY <1>8, <1>10
    <3>. QED  BY <1>8, <3>1, <3>2, <3>3, <3>4, <3>5 DEF NeighboursOK
  <2>3. ASSUME NEW i \in Slots \ {n}, Active(i)'
        PROVE  NeighboursOK(i)'
    <3>1. PICK sd1 \in Sides, pr1 \in Price : i \in At(sd1, pr1)
      BY <1>5, <1>9, <2>3 DEF At, Active, Node
    <3>2. nodes'[i].side = sd1 /\ nodes'[i].price = pr1
      BY <1>9, <3>1 DEF At
    <3>3. CASE sd1 = sd /\ pr1 = pr
      <4>1. t # NULL_IDX /\ t \in At(sd, pr) /\ t = lists[sd][pr].tail
        BY <1>1, <1>22, <3>1, <3>3
      <4>2. /\ lists'[sd][pr].head = lists[sd][pr].head
            /\ lists[sd][pr].head # NULL_IDX
        BY <1>3, <1>10, <4>1, Neighbours
      <4>3. nodes'[i].prev = NULL_IDX <=> i = lists'[sd][pr].head
        BY <1>3, <1>9, <3>1, <3>3, <4>2, Neighbours
      <4>4. nodes'[i].next = NULL_IDX <=> i = lists'[sd][pr].tail
        BY <1>3, <1>4, <1>9, <1>10, <3>1, <3>3, <4>1, Neighbours
      <4>5. nodes'[i].prev # NULL_IDX => /\ nodes'[i].prev \in At(sd, pr)
                                         /\ nodes'[nodes'[i].prev].next = i
                                         /\ nodes'[nodes'[i].prev].seq < nodes'[i].seq
        <5>1. nodes'[i].prev = nodes[i].prev
          BY <1>9
        <5>2. nodes[i].prev # NULL_IDX => /\ nodes[i].prev \in At(sd, pr)
                                          /\ nodes[nodes[i].prev].next = i
                                          /\ nodes[nodes[i].prev].seq < nodes[i].seq
          BY <1>3, <3>1, <3>3, Neighbours
        <5>3. nodes[i].prev # NULL_IDX => nodes[i].prev # t
          BY <1>3, <1>22, <3>1, <3>3, <5>2, <1>21
        <5>. QED  BY <1>3, <1>9, <1>21, <5>1, <5>2, <5>3
      <4>6. nodes'[i].next # NULL_IDX => /\ nodes'[i].next \in At(sd, pr) \union {n}
                                         /\ nodes'[nodes'[i].next].prev = i
        <5>1. CASE i = t
          BY <1>8, <1>9, <5>1
        <5>2. CASE i # t
          <6>1. nodes'[i].next = nodes[i].next
            BY <1>9, <5>2
          <6>. QED  BY <1>3, <1>9, <1>21, <3>1, <3>3, <6>1, Neighbours
        <5>. QED  BY <5>1, <5>2
      <4>. QED  BY <1>3, <1>13, <3>2, <3>3, <4>2, <4>3, <4>4, <4>5, <4>6 DEF NeighboursOK
    <3>4. CASE sd1 # sd \/ pr1 # pr
      <4>1. \A k \in At(sd1, pr1) : k # t
        BY <1>1, <1>3, <1>21, <3>4 DEF At, Linked, EndsOK
      <4>2. \A k \in At(sd1, pr1) : /\ nodes'[k].seq = nodes[k].seq
                                    /\ nodes'[k].prev = nodes[k].prev
                                    /\ nodes'[k].next = nodes[k].next
        BY <1>9, <1>21, <4>1
      <4>3. lists'[sd1][pr1] = lists[sd1][pr1] /\ At(sd1, pr1)' = At(sd1, pr1)
        BY <1>11, <1>13, <3>4
      <4>. QED  BY <3>1, <3>2, <4>2, <4>3, Neighbours DEF NeighboursOK
    <3>. QED  BY <3>3, <3>4
  <2>. QED  BY <2>1, <2>2, <2>3 DEF Linked
<1>24. ByArrival'
  <2>. SUFFICES ASSUME NEW i \in Slots, NEW k \in Slots, Active(i)',
                       (k \in At(nodes[i].side, nodes[i].price))', i # k
                PROVE  InOrder(i, k)'
    BY DEF ByArrival
  <2>1. PICK sd1 \in Sides, pr1 \in Price : /\ nodes'[i].side = sd1
                                            /\ nodes'[i].price = pr1
    BY <1>12 DEF Node
  <2>2. i \in At(sd1, pr1)' /\ k \in At(sd1, pr1)'
    BY <2>1 DEF At
  <2>3. CASE i = n
    <3>1. sd1 = sd /\ pr1 = pr /\ k \in At(sd, pr)
      BY <1>3, <1>8, <1>13, <2>1, <2>2, <2>3
    <3>2. /\ nodes'[k].seq = nodes[k].seq /\ nodes[k].seq < incoming.seq
          /\ nodes[k].seq \in Nat
      BY <1>3, <1>9, <1>21, <3>1
    <3>3. t # NULL_IDX /\ nodes'[t].seq = nodes[t].seq /\ nodes[k].seq <= nodes[t].seq
      BY <1>3, <1>9, <1>21, <1>22, <3>1
    <3>. QED  BY <1>3, <1>8, <1>10, <2>1, <2>3, <3>1, <3>2, <3>3 DEF InOrder
  <2>4. CASE i # n /\ k = n
    <3>1. sd1 = sd /\ pr1 = pr /\ i \in At(sd, pr)
      BY <1>3, <1>8, <1>13, <1>14, <2>2, <2>4
    <3>2. nodes'[i].seq = nodes[i].seq /\ nodes[i].seq < incoming.seq /\ nodes[i].seq \in Nat
      BY <1>3, <1>9, <1>21, <3>1
    <3>. QED  BY <1>3, <1>8, <1>10, <2>1, <2>4, <3>1, <3>2 DEF InOrder
  <2>5. CASE i # n /\ k # n
    <3>1. i \in At(sd1, pr1) /\ k \in At(sd1, pr1)
      BY <1>13, <2>2, <2>5
    <3>2. \A x \in At(sd1, pr1) : nodes'[x].seq = nodes[x].seq /\ nodes'[x].prev = nodes[x].prev
      BY <1>9, <1>21
    <3>3. nodes[k].seq <= nodes'[lists'[sd1][pr1].tail].seq
      <4>1. CASE sd1 = sd /\ pr1 = pr
        BY <1>3, <1>8, <1>10, <1>21, <3>1, <4>1
      <4>2. CASE sd1 # sd \/ pr1 # pr
        BY <1>11, <3>1, <3>2, <4>2, Ordered, Neighbours
      <4>. QED  BY <4>1, <4>2
    <3>. QED  BY <2>1, <2>5, <3>1, <3>2, <3>3, Ordered, Neighbours DEF InOrder
  <2>. QED  BY <2>3, <2>4, <2>5
<1>. QED  BY <1>15, <1>18, <1>19, <1>20, <1>23, <1>24

\* A step that leaves the nodes, the lists and the bitmaps alone keeps what
\* the invariant says of them.
LEMMA SameBook ==
    ASSUME Linked, ByArrival, Counted, Indexed,
           UNCHANGED <<nodes, lists, bitmaps>>
    PROVE  Linked' /\ ByArrival' /\ Counted' /\ Indexed'
<1>1. \A side \in Sides, p \in Price : At(side, p)' = At(side, p)
  BY DEF At, Active
<1>2. EndsOK'
  BY <1>1 DEF Linked, EndsOK
<1>3. \A s \in Slots : Active(s)' => NeighboursOK(s)'
  BY DEF Linked, NeighboursOK, At, Active
<1>4. ByArrival'
  BY DEF ByArrival, InOrder, At, Active
<1>5. Counted'
  BY <1>1 DEF Counted
<1>6. Indexed'
  BY DEF Indexed
<1>. QED  BY <1>2, <1>3, <1>4, <1>5, <1>6 DEF Linked

\* Popping the free stack: the slot moves from the stack to the order.
THEOREM SubmitInv ==
    ASSUME BookInv, TypeOK', NEW u \in Users, NEW side \in Sides,
           NEW p \in 0 .. MaxPrice, NEW q \in Quantity, Submit(u, side, p, q)
    PROVE  BookInv'
<1>. USE DEF BookInv
<1>1. /\ incoming = NoOrder /\ counter < MaxSeq /\ p < MaxPrice /\ free # <<>>
      /\ pool_idx' = free[Len(free)]
      /\ free' = SubSeq(free, 1, Len(free) - 1)
      /\ counter' = counter + 1
      /\ incoming' = [seq |-> counter + 1, user |-> u, side |-> side,
                      price |-> p, quantity |-> q]
      /\ UNCHANGED <<nodes, lists, bitmaps>>
  BY DEF Submit, CanProcess
<1>2. counter \in Nat /\ counter' \in 0 .. MaxSeq /\ p \in Price
  BY <1>1, BitmapAssumption, OrderBookAssumption DEF TypeOK, Price
<1>3. incoming' \in Orders /\ incoming' # NoOrder
  BY <1>1, <1>2, OrderBookAssumption DEF Orders
<1>5. /\ free' \in Seq(Slots) /\ Len(free') = Len(free) - 1
      /\ \A i \in 1 .. Len(free') : free'[i] = free[i]
      /\ free \in Seq(Slots) /\ Len(free) \in Nat \ {0}
      /\ \A i \in 1 .. Len(free) : free[i] \in Slots
  BY <1>1, Popped DEF TypeOK
<1>6. pool_idx' \in Slots /\ pool_idx' # NULL_IDX
  BY <1>1, <1>5 DEF Slots, NULL_IDX
<1>8. Partitioned'
  <2>1. \A i \in 1 .. Len(free') : i \in 1 .. Len(free) /\ i # Len(free)
    BY <1>5
  <2>2. ASSUME NEW i \in 1 .. Len(free')
        PROVE  nodes[free'[i]].seq = 0 /\ free'[i] # pool_idx'
    <3>1. i \in 1 .. Len(free) /\ Len(free) \in 1 .. Len(free) /\ i # Len(free)
      BY <1>5, <2>1
    <3>2. free[i] # free[Len(free)] /\ nodes[free[i]].seq = 0
      BY <3>1 DEF Partitioned, Active
    <3>. QED  BY <1>1, <1>5, <3>2
  <2>3. \A i, j \in 1 .. Len(free') : i # j => free'[i] # free'[j]
    BY <1>5, <2>1 DEF Partitioned
  <2>4. nodes[pool_idx'].seq = 0
    BY <1>1, <1>5 DEF Partitioned, Active
  <2>5. ASSUME NEW s \in Slots
        PROVE  nodes[s].seq # 0 \/ s = pool_idx' \/ \E i \in 1 .. Len(free') : free'[i] = s
    <3>1. CASE nodes[s].seq # 0
      BY <3>1
    <3>2. CASE nodes[s].seq = 0
      <4>1. s # pool_idx
        BY <1>1 DEF Partitioned, Slots, NULL_IDX
      <4>2. PICK i \in 1 .. Len(free) : free[i] = s
        BY <3>2, <4>1 DEF Partitioned, Active
      <4>3. i = Len(free) \/ i \in 1 .. Len(free')
        BY <1>5
      <4>. QED  BY <1>1, <1>5, <4>2, <4>3
    <3>. QED  BY <3>1, <3>2
  <2>6. nodes' = nodes /\ incoming' # NoOrder /\ pool_idx' # NULL_IDX
    BY <1>1, <1>3, <1>6
  <2>. HIDE DEF BookInv
  <2>. QED  BY <2>2, <2>3, <2>4, <2>5, <2>6 DEF Partitioned, Active
<1>9. SeqsOK'
  BY <1>1, <1>2 DEF SeqsOK, Active, TypeOK, Node
<1>. QED  BY <1>1, <1>8, <1>9, SameBook

\* The slot of an order that does not rest goes back to the stack.
THEOREM FinishInv ==
    ASSUME BookInv, TypeOK', Finish
    PROVE  BookInv'
<1>. USE DEF BookInv
<1>1. /\ incoming # NoOrder /\ incoming' = NoOrder /\ pool_idx' = NULL_IDX
      /\ free' = Append(free, pool_idx)
      /\ UNCHANGED <<nodes, lists, bitmaps, counter>>
  BY DEF Finish
<1>2. pool_idx \in Slots /\ pool_idx # NULL_IDX
  BY <1>1 DEF Partitioned, TypeOK, Links
<1>4. pool_idx' \in Links
  BY <1>1 DEF Links
<1>6. Partitioned'
  <2>1. PICK s \in Slots : s = pool_idx
    BY <1>2
  <2>2. ~ Active(s)' /\ s # pool_idx'
    BY <1>1, <1>2, <2>1 DEF Partitioned, Active
  <2>3. \A i \in Slots \ {s} : i = pool_idx' <=> i = pool_idx
    BY <1>1, <2>1 DEF Slots, NULL_IDX
  <2>. QED  BY <1>1, <1>4, <2>1, <2>2, <2>3, PushedPartition
<1>7. SeqsOK'
  BY <1>1 DEF SeqsOK, Active
<1>. QED  BY <1>1, <1>6, <1>7, SameBook

\* Stopping at a user's own order touches neither the book nor the pool.
THEOREM SelfTradeStopInv ==
    ASSUME BookInv, TypeOK', NEW s \in Slots, SelfTradeStop(s)
    PROVE  BookInv'
<1>. USE DEF BookInv
<1>1. /\ incoming # NoOrder /\ incoming' = [incoming EXCEPT !.quantity = 0]
      /\ UNCHANGED <<nodes, free, lists, bitmaps, counter, pool_idx>>
  BY DEF SelfTradeStop, AtHead, bookVars
<1>2. incoming' \in Orders /\ incoming' # NoOrder /\ incoming'.seq = incoming.seq
  <2>1. incoming \in Orders /\ 0 \in Quantity
    BY <1>1, OrderBookAssumption DEF TypeOK, Quantity
  <2>2. incoming' \in Orders /\ incoming'.seq = incoming.seq
    BY <1>1, <2>1 DEF Orders
  <2>. QED  BY <2>2, OrderBookAssumption
<1>4. Partitioned'
  BY <1>1, <1>2 DEF Partitioned, Active
<1>5. SeqsOK'
  BY <1>1, <1>2 DEF SeqsOK, Active
<1>. QED  BY <1>1, <1>4, <1>5, SameBook

\* Steps that leave the engine alone: refusals, missed cancels, stuttering.
LEMMA QuietInv ==
    ASSUME BookInv, TypeOK', UNCHANGED <<nodes, free, lists, bitmaps, counter, incoming, pool_idx>>
    PROVE  BookInv'
<1>. USE DEF BookInv
<1>2. Partitioned'
  BY DEF Partitioned, Active
<1>3. SeqsOK'
  BY DEF SeqsOK, Active
<1>. QED  BY <1>2, <1>3, SameBook

\* An outer loop that finds a marked list empty: there is none.
LEMMA NoSkip == BookInv => ~ SkipLevel
<1>. SUFFICES ASSUME BookInv, SkipLevel PROVE FALSE
  OBVIOUS
<1>. USE DEF BookInv
<1>1. PICK sd, pr : sd = Opposite(incoming.side) /\ pr = Best(sd)
  OBVIOUS
<1>2. /\ incoming # NoOrder /\ Crossing /\ lists[sd][pr].head = NULL_IDX
  BY <1>1 DEF SkipLevel
<1>3. sd \in Sides /\ pr # NULL_IDX
  BY <1>1, <1>2 DEF Crossing, TypeOK, Orders, Opposite, Sides
<1>4. pr \in Price /\ At(sd, pr) # {}
  BY <1>1, <1>3, BestOK
<1>. QED  BY <1>2, <1>3, <1>4, EmptyLevel

\* Every step of the engine preserves it, unless it cancels id 0.
LEMMA BookInvStep ==
    ASSUME BookInv, TypeOK', ~ zeroCancelled', [Next]_vars
    PROVE  BookInv'
<1>1. ASSUME NEW u \in Users, NEW side \in Sides, NEW p \in 0 .. MaxPrice,
             NEW q \in Quantity, Submit(u, side, p, q)
      PROVE  BookInv'
  BY <1>1, SubmitInv
<1>2. ASSUME NEW p \in 0 .. MaxPrice, Refuse(p)
      PROVE  BookInv'
  BY <1>2, QuietInv DEF Refuse, bookVars
<1>3. ASSUME NEW s \in Slots, Fill(s) PROVE BookInv'
  BY <1>3, FillInv
<1>4. ASSUME NEW s \in Slots, SelfTradeStop(s) PROVE BookInv'
  BY <1>4, SelfTradeStopInv
<1>5. CASE Rest
  BY <1>5, RestInv
<1>6. CASE Finish
  BY <1>6, FinishInv
<1>7. ASSUME NEW id \in Ids, NEW u \in Users, Cancel(id, u)
      PROVE  BookInv'
  <2>1. id # <<0, 0>>
    BY <1>7 DEF Cancel
  <2>. QED  BY <1>7, <2>1, CancelInv
<1>8. ASSUME NEW id \in Ids, NEW u \in Users, CancelMiss(id, u)
      PROVE  BookInv'
  BY <1>8, QuietInv DEF CancelMiss, bookVars
<1>9. CASE UNCHANGED vars
  BY <1>9, QuietInv DEF vars
<1>. QED  BY <1>1, <1>2, <1>3, <1>4, <1>5, <1>6, <1>7, <1>8, <1>9, NoSkip DEF Next

\* What has happened is not undone.
LEMMA ZeroStays == [Next]_vars /\ zeroCancelled => zeroCancelled'
BY DEF Next, Submit, Refuse, Fill, SelfTradeStop, SkipLevel, Rest, Finish, Cancel,
       CancelMiss, vars

\* The types alone, whatever is cancelled.
LEMMA TypeInvariant == Spec => []TypeInv
<1>1. Init => TypeInv
  BY InitInv, EmptyBitmapCorrect DEF BookInv, Indexed, Partitioned, TypeInv
<1>2. TypeInv /\ [Next]_vars => TypeInv'
  BY TypeStep
<1>. QED  BY <1>1, <1>2, PTL DEF Spec

\* The invariant of the CURRENT engine: for any pool, price range and users,
\* the pool, the lists, their counts and the bitmaps stay consistent until the
\* owner of a freed slot 0 cancels id 0, which cancel_order accepts.
THEOREM BookInvariant == Spec => [](zeroCancelled \/ BookInv)
<1>1. Init => zeroCancelled \/ BookInv
  BY InitInv
<1>2. (zeroCancelled \/ BookInv) /\ TypeInv' /\ [Next]_vars => (zeroCancelled \/ BookInv)'
  BY BookInvStep, ZeroStays DEF TypeInv
<1>. QED  BY <1>1, <1>2, TypeInvariant, PTL DEF Spec

\* The state keeps its types whatever ids are cancelled, id 0 included: no link,
\* list, free slot or bitmap word ever leaves its array.
THEOREM TypeCorrect == Spec => []TypeOK
<1>1. TypeInv => TypeOK
  BY DEF TypeInv
<1>. QED  BY <1>1, TypeInvariant, PTL

\* Until id 0 is cancelled no slot is leaked, freed twice or given to two orders.
THEOREM SlotsConserved == Spec => []SlotsPartitioned
<1>1. zeroCancelled \/ BookInv => SlotsPartitioned
  BY DEF BookInv, SlotsPartitioned
<1>. QED  BY <1>1, BookInvariant, PTL

\* Until then the lists are well linked: prev and next, head and tail agree.
THEOREM ListsLinked == Spec => []LinksOK
<1>1. zeroCancelled \/ BookInv => LinksOK
  BY DEF BookInv, LinksOK
<1>. QED  BY <1>1, BookInvariant, PTL

\* Until then each list holds the orders of its price in order of arrival, all
\* of them.
THEOREM ListsInOrder == Spec => []ArrivalOrder
<1>1. zeroCancelled \/ BookInv => ArrivalOrder
  BY DEF BookInv, ArrivalOrder
<1>. QED  BY <1>1, BookInvariant, PTL

\* Until then order_count is the number of orders at the price.
THEOREM ListsCounted == Spec => []CountsExact
<1>1. zeroCancelled \/ BookInv => CountsExact
  BY DEF BookInv, CountsExact
<1>. QED  BY <1>1, BookInvariant, PTL

\* The levels of the bitmaps agree, whatever is cancelled, and until id 0 is
\* they mark the prices with orders and no others.
THEOREM BitmapsCorrect == Spec => []BitmapsExact
<1>1. (zeroCancelled \/ BookInv) /\ TypeInv => BitmapsExact
  BY DEF BookInv, TypeInv, BitmapsExact
<1>. QED  BY <1>1, BookInvariant, TypeInvariant, PTL

-----------------------------------------------------------------------------
(* The quantity resting at a price.                                        *)

\* The quantities at a price can be added up.
LEMMA QuantitiesInt ==
    ASSUME TypeOK, NEW side, NEW p
    PROVE  /\ \A s \in At(side, p) : Quantities[s] \in Int
           /\ SumFunctionOnSet(Quantities, At(side, p)) \in Int
<1>1. \A s \in At(side, p) : Quantities[s] \in Int
  BY OrderBookAssumption DEF At, Quantities, TypeOK, Node, Quantity
<1>. QED  BY <1>1, FiniteLevels, SumInt

\* A step that leaves the quantities of the active orders and the totals alone.
LEMMA SameTotals ==
    ASSUME TypeOK, Totalled, UNCHANGED <<nodes, lists>>
    PROVE  Totalled'
  BY DEF Totalled, Quantities, At, Active

\* A list whose total changes by d, as the sum of its orders does.
LEMMA TotalMoves ==
    ASSUME TypeOK, NEW side \in Sides, NEW p \in Price, NEW d \in Int,
           lists[side][p].quantity = SumFunctionOnSet(Quantities, At(side, p)) % QtyMod,
           lists'[side][p].quantity = (lists[side][p].quantity + d) % QtyMod,
           NEW sum, sum = SumFunctionOnSet(Quantities, At(side, p)) + d
    PROVE  lists'[side][p].quantity = sum % QtyMod
<1>1. SumFunctionOnSet(Quantities, At(side, p)) \in Int
  BY QuantitiesInt
<1>2. QtyMod \in Nat \ {0}
  BY OrderBookAssumption
<1>. QED  BY <1>1, <1>2, ModAdd

\* total_quantity goes down by what the unlinked order had left.
LEMMA UnlinkedTotals ==
    ASSUME TypeOK, Totalled,
           NEW s, NEW sd \in Sides, NEW pr \in Price, NEW prv, NEW nxt,
           Unlinked(s, sd, pr, prv, nxt),
           \A i \in Slots \ {s} : nodes'[i].quantity = nodes[i].quantity,
           lists'[sd][pr].quantity
             = (lists[sd][pr].quantity - nodes[s].quantity) % QtyMod
    PROVE  Totalled'
<1>. SUFFICES ASSUME NEW side \in Sides, NEW p \in Price
              PROVE  lists'[side][p].quantity
                       = SumFunctionOnSet(Quantities', At(side, p)') % QtyMod
  BY DEF Totalled
<1>1. PICK f, g : f = Quantities /\ g = Quantities'
  OBVIOUS
<1>2. At(side, p)' = At(side, p) \ {s} /\ At(side, p) \subseteq Slots
  BY UnlinkedAt DEF At
<1>3. \A i \in At(side, p) \ {s} : g[i] = f[i]
  BY <1>1, <1>2 DEF Quantities
<1>4. /\ \A i \in At(side, p) : f[i] \in Int
      /\ SumFunctionOnSet(f, At(side, p)) \in Int
  BY <1>1, QuantitiesInt
<1>5. IsFiniteSet(At(side, p)) /\ IsFiniteSet(At(side, p) \ {s})
  BY FiniteLevels, FS_Subset
<1>6. SumFunctionOnSet(g, At(side, p) \ {s}) = SumFunctionOnSet(f, At(side, p) \ {s})
  BY <1>3, <1>5, SumSame
<1>7. lists[side][p].quantity = SumFunctionOnSet(f, At(side, p)) % QtyMod
  BY <1>1 DEF Totalled
<1>8. CASE side = sd /\ p = pr
  <2>1. s \in At(side, p) /\ nodes[s].quantity = f[s] /\ f[s] \in Int
    BY <1>1, <1>2, <1>4, <1>8 DEF Unlinked, Quantities
  <2>2. SumFunctionOnSet(f, At(side, p)) = f[s] + SumFunctionOnSet(f, At(side, p) \ {s})
    BY <1>4, <1>5, <2>1, SumRemove
  <2>3. SumFunctionOnSet(f, At(side, p) \ {s}) \in Int
    BY <1>4, <1>5, SumInt
  <2>4. SumFunctionOnSet(f, At(side, p) \ {s}) = SumFunctionOnSet(f, At(side, p)) + (- f[s])
    BY <2>1, <2>2, <2>3
  <2>5. lists[side][p].quantity \in Int
    BY OrderBookAssumption DEF TypeOK, OrderList
  <2>6. lists'[side][p].quantity = (lists[side][p].quantity + (- f[s])) % QtyMod
    BY <1>8, <2>1, <2>5
  <2>7. lists'[side][p].quantity = SumFunctionOnSet(f, At(side, p) \ {s}) % QtyMod
    BY <1>1, <1>7, <2>1, <2>4, <2>6, TotalMoves
  <2>. QED  BY <1>1, <1>2, <1>6, <2>7
<1>9. CASE side # sd \/ p # pr
  <2>1. s \notin At(side, p) /\ lists'[side][p] = lists[side][p]
    BY <1>9 DEF Unlinked, At
  <2>2. At(side, p) \ {s} = At(side, p)
    BY <2>1
  <2>. QED  BY <1>1, <1>2, <1>6, <1>7, <2>1, <2>2
<1>. QED  BY <1>8, <1>9

\* A fill takes the same from the order at the head and from the total.
LEMMA FillTotals ==
    ASSUME BookInv, TypeOK', Totalled, NEW s \in Slots, Fill(s)
    PROVE  Totalled'
<1>. USE DEF BookInv
<1>1. PICK sd, pr, q, nxt : /\ sd = Opposite(incoming.side) /\ pr = Best(sd)
                            /\ q = Smaller(incoming.quantity, nodes[s].quantity)
                            /\ nxt = nodes[s].next
  OBVIOUS
<1>2. /\ sd \in Sides /\ pr \in Price
      /\ s \in At(sd, pr) /\ s = lists[sd][pr].head
      /\ nodes[s].prev = NULL_IDX
      /\ incoming \in Orders
  BY <1>1, AtHeadOK DEF Fill
<1>3. nodes \in [Slots -> Node] /\ lists \in [Sides -> [Price -> OrderList]]
  BY DEF TypeOK
<1>. DEFINE list == lists[sd][pr]
            gone == nodes[s].quantity = q
            rest == [head     |-> IF gone THEN nxt ELSE list.head,
                     tail     |-> IF gone /\ nxt = NULL_IDX THEN NULL_IDX ELSE list.tail,
                     quantity |-> (list.quantity - q) % QtyMod,
                     count    |-> IF gone THEN (list.count - 1) % QtyMod ELSE list.count]
<1>4. lists' = [lists EXCEPT ![sd][pr] = rest]
  BY <1>1 DEF Fill
<1>5. /\ nodes' \in [Slots -> Node]
      /\ \A i \in Slots :
            /\ nodes'[i].seq = IF i = s /\ gone THEN 0 ELSE nodes[i].seq
            /\ nodes'[i].side = nodes[i].side
            /\ nodes'[i].price = nodes[i].price
            /\ nodes'[i].quantity = IF i = s THEN nodes[i].quantity - q
                                              ELSE nodes[i].quantity
            /\ nodes'[i].next = nodes[i].next
            /\ nodes'[i].prev = IF gone /\ i = nxt THEN NULL_IDX ELSE nodes[i].prev
  BY <1>1, FilledNodes DEF TypeOK
<1>6. lists'[sd][pr] = rest
  BY <1>2, <1>3, <1>4
<1>7. \A side \in Sides, p \in Price : side # sd \/ p # pr => lists'[side][p] = lists[side][p]
  BY <1>2, <1>3, <1>4
<1>8. \A i \in Slots \ {s} :
          /\ nodes'[i].seq = nodes[i].seq
          /\ nodes'[i].side = nodes[i].side
          /\ nodes'[i].price = nodes[i].price
          /\ nodes'[i].quantity = nodes[i].quantity
          /\ nodes'[i].next = nodes[i].next
          /\ nodes'[i].prev = IF gone /\ i = nxt THEN NULL_IDX ELSE nodes[i].prev
  BY <1>5
<1>9. /\ nodes'[s].seq = IF gone THEN 0 ELSE nodes[s].seq
      /\ nodes'[s].side = nodes[s].side
      /\ nodes'[s].price = nodes[s].price
      /\ nodes'[s].quantity = nodes[s].quantity - q
  BY <1>5
<1>10. lists'[sd][pr].quantity = (list.quantity - q) % QtyMod
  BY <1>6
<1>11. CASE gone
  <2>1. list.tail = s <=> nxt = NULL_IDX
    BY <1>1, <1>2, LastIsTail
  <2>2. \A i \in Slots \ {s} : i # NULL_IDX
    BY DEF Slots, NULL_IDX
  <2>3. /\ lists'[sd][pr].head = nxt
        /\ lists'[sd][pr].tail = IF nxt = NULL_IDX THEN NULL_IDX ELSE lists[sd][pr].tail
        /\ lists'[sd][pr].count = lists[sd][pr].count - 1
    BY <1>2, <1>6, <1>11, CountDown
  <2>4. \A i \in Slots \ {s} :
            /\ nodes'[i].next = IF i = NULL_IDX THEN nxt ELSE nodes[i].next
            /\ nodes'[i].prev = IF i = nxt THEN NULL_IDX ELSE nodes[i].prev
    BY <1>8, <1>11, <2>2
  <2>5. nodes'[s].seq = 0 /\ nodes[s].next = nxt /\ q = nodes[s].quantity
    BY <1>1, <1>9, <1>11
  <2>. HIDE DEF rest, list, gone
  <2>6. Unlinked(s, sd, pr, NULL_IDX, nxt)
    BY <1>2, <1>5, <1>7, <1>8, <2>3, <2>4, <2>5 DEF Unlinked
  <2>7. lists'[sd][pr].quantity = (lists[sd][pr].quantity - nodes[s].quantity) % QtyMod
    BY <1>10, <2>5 DEF list
  <2>. QED  BY <1>2, <1>8, <2>6, <2>7, UnlinkedTotals
<1>12. CASE ~ gone
  <2>. SUFFICES ASSUME NEW side \in Sides, NEW p \in Price
                PROVE  lists'[side][p].quantity
                         = SumFunctionOnSet(Quantities', At(side, p)') % QtyMod
    BY DEF Totalled
  <2>1. PICK f, g : f = Quantities /\ g = Quantities'
    OBVIOUS
  <2>2. At(side, p)' = At(side, p) /\ At(side, p) \subseteq Slots
    BY <1>8, <1>9, <1>12 DEF At, Active
  <2>3. \A i \in At(side, p) \ {s} : g[i] = f[i]
    BY <1>8, <2>1, <2>2 DEF Quantities
  <2>4. /\ \A i \in At(side, p) : f[i] \in Int
        /\ SumFunctionOnSet(f, At(side, p)) \in Int
    BY <2>1, QuantitiesInt
  <2>5. IsFiniteSet(At(side, p))
    BY FiniteLevels
  <2>6. lists[side][p].quantity = SumFunctionOnSet(f, At(side, p)) % QtyMod
    BY <2>1 DEF Totalled
  <2>7. CASE side = sd /\ p = pr
    <3>1. s \in At(side, p) /\ f[s] \in Int /\ q \in Int /\ g[s] = f[s] - q
      <4>1. nodes[s].quantity \in Int /\ incoming.quantity \in Int
        BY <1>2, <1>3, OrderBookAssumption DEF Node, Orders, Quantity
      <4>2. f[s] = nodes[s].quantity /\ g[s] = nodes'[s].quantity
        BY <2>1 DEF Quantities
      <4>3. q \in Int
        BY <1>1, <4>1 DEF Smaller
      <4>4. g[s] = f[s] - q
        BY <1>9, <4>2
      <4>. QED  BY <1>2, <2>7, <4>1, <4>2, <4>3, <4>4
    <3>2. SumFunctionOnSet(g, At(side, p))
            = SumFunctionOnSet(f, At(side, p)) - f[s] + g[s]
      <4>1. g[s] \in Int
        BY <3>1
      <4>. QED  BY <2>3, <2>4, <2>5, <3>1, <4>1, SumChange
    <3>3. SumFunctionOnSet(g, At(side, p)) = SumFunctionOnSet(f, At(side, p)) + (- q)
      BY <2>4, <3>1, <3>2
    <3>4. lists[side][p].quantity \in Int
      BY OrderBookAssumption DEF TypeOK, OrderList
    <3>5. lists'[side][p].quantity = (lists[side][p].quantity + (- q)) % QtyMod
      BY <1>10, <2>7, <3>1, <3>4
    <3>6. lists'[side][p].quantity = SumFunctionOnSet(g, At(side, p)) % QtyMod
      BY <2>1, <2>6, <3>1, <3>3, <3>5, TotalMoves
    <3>. QED  BY <2>1, <2>2, <3>6
  <2>8. CASE side # sd \/ p # pr
    <3>1. s \notin At(side, p) /\ lists'[side][p] = lists[side][p]
      BY <1>2, <1>7, <2>8 DEF At
    <3>2. SumFunctionOnSet(g, At(side, p)) = SumFunctionOnSet(f, At(side, p))
      BY <2>3, <2>5, <3>1, SumSame
    <3>. QED  BY <2>1, <2>2, <2>6, <3>1, <3>2
  <2>. QED  BY <2>7, <2>8
<1>. QED  BY <1>11, <1>12

\* An order that comes to rest adds its quantity to its price.
LEMMA RestTotals ==
    ASSUME BookInv, Totalled, Rest
    PROVE  Totalled'
<1>. USE DEF BookInv
<1>1. PICK sd, pr, n, t : /\ sd = incoming.side /\ pr = incoming.price
                          /\ n = pool_idx /\ t = lists[sd][pr].tail
  OBVIOUS
<1>2. incoming \in Orders /\ incoming # NoOrder
  BY DEF Rest, TypeOK
<1>3. /\ sd \in Sides /\ pr \in Price /\ incoming.quantity \in Int
      /\ incoming.seq # 0
  BY <1>1, <1>2, OrderBookAssumption DEF Orders, Quantity
<1>4. n \in Slots /\ ~ Active(n)
  BY <1>1, <1>2 DEF Partitioned, TypeOK, Links
<1>5. nodes \in [Slots -> Node] /\ lists \in [Sides -> [Price -> OrderList]]
  BY DEF TypeOK
<1>. DEFINE list == lists[sd][pr]
            rest == [head     |-> IF t = NULL_IDX THEN n ELSE list.head,
                     tail     |-> n,
                     quantity |-> (list.quantity + incoming.quantity) % QtyMod,
                     count    |-> (list.count + 1) % QtyMod]
<1>6. /\ nodes' = [i \in Slots |->
                     IF i = n
                     THEN [seq |-> incoming.seq, user |-> incoming.user,
                           side |-> sd, price |-> pr,
                           quantity |-> incoming.quantity,
                           prev |-> t, next |-> IF t = n THEN n ELSE NULL_IDX]
                     ELSE IF i = t
                     THEN [nodes[i] EXCEPT !.next = n]
                     ELSE nodes[i]]
      /\ lists' = [lists EXCEPT ![sd][pr] = rest]
  BY <1>1 DEF Rest
<1>7. /\ nodes'[n].seq = incoming.seq /\ nodes'[n].side = sd /\ nodes'[n].price = pr
      /\ nodes'[n].quantity = incoming.quantity
  BY <1>4, <1>6
<1>8. \A i \in Slots \ {n} :
          /\ nodes'[i].seq = nodes[i].seq
          /\ nodes'[i].side = nodes[i].side
          /\ nodes'[i].price = nodes[i].price
          /\ nodes'[i].quantity = nodes[i].quantity
  BY <1>5, <1>6 DEF Node
<1>9. lists'[sd][pr].quantity = (list.quantity + incoming.quantity) % QtyMod
  BY <1>3, <1>5, <1>6
<1>10. \A side \in Sides, p \in Price : side # sd \/ p # pr => lists'[side][p] = lists[side][p]
  BY <1>3, <1>5, <1>6
<1>. SUFFICES ASSUME NEW side \in Sides, NEW p \in Price
              PROVE  lists'[side][p].quantity
                       = SumFunctionOnSet(Quantities', At(side, p)') % QtyMod
  BY DEF Totalled
<1>11. PICK f, g : f = Quantities /\ g = Quantities'
  OBVIOUS
<1>12. At(side, p)' = IF side = sd /\ p = pr THEN At(side, p) \union {n} ELSE At(side, p)
  BY <1>3, <1>4, <1>7, <1>8 DEF At, Active
<1>13. n \notin At(side, p) /\ At(side, p) \subseteq Slots
  BY <1>4 DEF At
<1>14. \A i \in At(side, p) : g[i] = f[i]
  BY <1>8, <1>11, <1>13 DEF Quantities
<1>15. /\ \A i \in At(side, p) : f[i] \in Int
       /\ SumFunctionOnSet(f, At(side, p)) \in Int
  BY <1>11, QuantitiesInt
<1>16. SumFunctionOnSet(g, At(side, p)) = SumFunctionOnSet(f, At(side, p))
  BY <1>14, FiniteLevels, SumSame
<1>17. lists[side][p].quantity = SumFunctionOnSet(f, At(side, p)) % QtyMod
  BY <1>11 DEF Totalled
<1>18. CASE side = sd /\ p = pr
  <2>1. g[n] = incoming.quantity
    BY <1>4, <1>7, <1>11 DEF Quantities
  <2>2. \A i \in At(side, p) \union {n} : g[i] \in Int
    BY <1>3, <1>14, <1>15, <2>1
  <2>3. SumFunctionOnSet(g, At(side, p) \union {n})
          = SumFunctionOnSet(g, At(side, p)) + incoming.quantity
    BY <1>13, <2>1, <2>2, FiniteLevels, SumAdd
  <2>4. lists'[side][p].quantity
          = SumFunctionOnSet(g, At(side, p) \union {n}) % QtyMod
    BY <1>3, <1>9, <1>11, <1>16, <1>17, <1>18, <2>3, TotalMoves
  <2>. QED  BY <1>11, <1>12, <1>18, <2>4
<1>19. CASE side # sd \/ p # pr
  BY <1>10, <1>11, <1>12, <1>16, <1>17, <1>19
<1>. QED  BY <1>18, <1>19

\* Cancelling takes what the order had left from the total.
LEMMA CancelTotals ==
    ASSUME BookInv, TypeOK', Totalled, NEW id \in Ids, NEW u \in Users,
           Cancel(id, u), id # <<0, 0>>
    PROVE  Totalled'
<1>. USE DEF BookInv
<1>1. PICK s \in Slots : s = id[2] /\ Active(s)
  BY CancelNamed
<1>2. nodes \in [Slots -> Node] /\ lists \in [Sides -> [Price -> OrderList]]
  BY DEF TypeOK
<1>3. PICK sd \in Sides, pr \in Price, prv \in Links, nxt \in Links :
          /\ nodes[s].side = sd /\ nodes[s].price = pr
          /\ nodes[s].prev = prv /\ nodes[s].next = nxt
  BY <1>2 DEF Node
<1>4. s \in At(sd, pr)
  BY <1>1, <1>3 DEF At
<1>5. nodes' = [i \in Slots |->
                  IF i = s THEN [nodes[s] EXCEPT !.seq = 0]
                  ELSE [nodes[i] EXCEPT !.next = IF i = prv THEN nxt ELSE @,
                                        !.prev = IF i = nxt THEN prv ELSE @]]
  BY <1>1, <1>3 DEF Cancel
<1>6. nodes' \in [Slots -> Node]
  BY DEF TypeOK
<1>7. \A i \in Slots \ {s} :
          /\ nodes'[i].seq = nodes[i].seq
          /\ nodes'[i].side = nodes[i].side
          /\ nodes'[i].price = nodes[i].price
          /\ nodes'[i].quantity = nodes[i].quantity
          /\ nodes'[i].next = IF i = prv THEN nxt ELSE nodes[i].next
          /\ nodes'[i].prev = IF i = nxt THEN prv ELSE nodes[i].prev
  BY <1>2, <1>5 DEF Node
<1>8. nodes'[s].seq = 0
  BY <1>2, <1>5 DEF Node
<1>. DEFINE rest == ListWithout(nodes[s], lists[sd][pr])
<1>9. lists' = [lists EXCEPT ![sd][pr] = rest]
  BY <1>1, <1>3 DEF Cancel
<1>10. lists'[sd][pr] = rest
  BY <1>2, <1>9
<1>11. \A side \in Sides, p \in Price : side # sd \/ p # pr => lists'[side][p] = lists[side][p]
  BY <1>2, <1>9
<1>12. /\ lists'[sd][pr].head = IF prv = NULL_IDX THEN nxt ELSE lists[sd][pr].head
       /\ lists'[sd][pr].tail = IF nxt = NULL_IDX THEN prv ELSE lists[sd][pr].tail
       /\ lists'[sd][pr].count = lists[sd][pr].count - 1
       /\ lists'[sd][pr].quantity = (lists[sd][pr].quantity - nodes[s].quantity) % QtyMod
  BY <1>3, <1>4, <1>10, CountDown DEF ListWithout
<1>13. Unlinked(s, sd, pr, prv, nxt)
  BY <1>3, <1>4, <1>6, <1>7, <1>8, <1>11, <1>12 DEF Unlinked
<1>. QED  BY <1>7, <1>12, <1>13, UnlinkedTotals

\* Until id 0 is cancelled total_quantity is the quantity resting at the price,
\* modulo 2^32.
THEOREM TotalsCorrect == Spec => []TotalsExact
<1>1. Init => BookInv /\ Totalled
  <2>. SUFFICES ASSUME Init PROVE BookInv /\ Totalled
    OBVIOUS
  <2>1. BookInv
    BY InitInv
  <2>2. ASSUME NEW side \in Sides, NEW p \in Price
        PROVE  lists[side][p].quantity = SumFunctionOnSet(Quantities, At(side, p)) % QtyMod
    <3>1. At(side, p) = {} /\ lists[side][p].quantity = 0
      BY DEF Init, At, Active
    <3>2. SumFunctionOnSet(Quantities, {}) = 0
      BY SumEmpty
    <3>3. 0 % QtyMod = 0
      BY OrderBookAssumption, Remainder
    <3>. QED  BY <3>1, <3>2, <3>3
  <2>. QED  BY <2>1, <2>2 DEF Totalled
<1>2. ASSUME BookInv, TypeOK', Totalled, ~ zeroCancelled', [Next]_vars
      PROVE  Totalled'
  <2>1. ASSUME UNCHANGED <<nodes, lists>> PROVE Totalled'
    BY <1>2, <2>1, SameTotals DEF BookInv
  <2>2. ASSUME NEW s \in Slots, Fill(s) PROVE Totalled'
    BY <1>2, <2>2, FillTotals
  <2>3. CASE Rest
    BY <1>2, <2>3, RestTotals
  <2>4. ASSUME NEW id \in Ids, NEW u \in Users, Cancel(id, u) PROVE Totalled'
    <3>1. id # <<0, 0>>
      BY <1>2, <2>4 DEF Cancel
    <3>. QED  BY <1>2, <2>4, <3>1, CancelTotals
  <2>. QED  BY <1>2, <2>1, <2>2, <2>3, <2>4, NoSkip
            DEF Next, Submit, Refuse, SelfTradeStop, Finish, CancelMiss, bookVars, vars
<1>3. /\ zeroCancelled \/ BookInv
      /\ TypeOK'
      /\ TotalsExact /\ [Next]_vars
      => TotalsExact'
  BY <1>2, ZeroStays DEF TotalsExact
<1>4. Init => TotalsExact
  BY <1>1 DEF TotalsExact
<1>. QED  BY <1>3, <1>4, BookInvariant, TypeCorrect, PTL DEF Spec

-----------------------------------------------------------------------------
(* The CURRENT engine implements LimitBook, for any pool, price range,     *)
(* users and quantities: BookInv makes the head of the list at the best    *)
(* marked price the first order of its side, and what each operation does  *)
(* to the nodes is what the abstract one does to the set of their orders.  *)

\* The book that LimitBook sees: the refinement mapping of OrderBook!Book.
Resting == {OrderAt(s) : s \in {t \in Slots : Active(t)}}

\* No two slots hold the same order number.  A cancel is looked up by slot in
\* the engine and by number in LimitBook: that they agree rests on this.
Unique ==
    \A s, t \in Slots : Active(s) /\ Active(t) /\ s # t => nodes[s].seq # nodes[t].seq

RefInv == BookInv /\ Unique

-----------------------------------------------------------------------------
\* Orders that an operation leaves active keep their numbers, and a new one
\* has a number that no slot holds.
LEMMA UniqueKept ==
    ASSUME Unique, NEW n,
           \A i \in Slots \ {n} : Active(i)' => nodes'[i].seq = nodes[i].seq,
           \/ nodes'[n].seq = 0 \/ nodes'[n].seq = nodes[n].seq
           \/ \A i \in Slots : nodes[i].seq # nodes'[n].seq
    PROVE  Unique'
BY DEF Unique, Active

\* The order of an active slot rests.
LEMMA RestingOf ==
    ASSUME NEW s \in Slots, Active(s)
    PROVE  OrderAt(s) \in Resting
BY DEF Resting

\* Orders of different slots differ.
LEMMA Distinct ==
    ASSUME Unique, NEW s \in Slots, NEW t \in Slots, Active(s), Active(t), s # t
    PROVE  OrderAt(s) # OrderAt(t)
<1>1. OrderAt(s).seq = nodes[s].seq /\ OrderAt(t).seq = nodes[t].seq
  BY DEF OrderAt
<1>. QED  BY <1>1 DEF Unique

\* A step that leaves the nodes alone leaves the book alone.
LEMMA SameResting ==
    ASSUME UNCHANGED nodes
    PROVE  Resting' = Resting
BY DEF Resting, OrderAt, Active

\* Taking the order of one slot out.
LEMMA RestingWithout ==
    ASSUME Unique, NEW s \in Slots, Active(s), nodes'[s].seq = 0,
           \A i \in Slots \ {s} : /\ nodes'[i].seq = nodes[i].seq
                                  /\ nodes'[i].user = nodes[i].user
                                  /\ nodes'[i].side = nodes[i].side
                                  /\ nodes'[i].price = nodes[i].price
                                  /\ nodes'[i].quantity = nodes[i].quantity
    PROVE  Resting' = Resting \ {OrderAt(s)}
<1>1. \A i \in Slots \ {s} : OrderAt(i)' = OrderAt(i) /\ (Active(i)' <=> Active(i))
  BY DEF OrderAt, Active
<1>2. ~ Active(s)'
  BY DEF Active
<1>3. \A i \in Slots \ {s} : Active(i) => OrderAt(i) # OrderAt(s)
  BY Distinct
<1>. QED  BY <1>1, <1>2, <1>3 DEF Resting

\* Writing the order of one slot anew, the others left alone.
LEMMA RestingWith ==
    ASSUME NEW s \in Slots, nodes'[s].seq # 0,
           \A i \in Slots \ {s} : /\ nodes'[i].seq = nodes[i].seq
                                  /\ nodes'[i].user = nodes[i].user
                                  /\ nodes'[i].side = nodes[i].side
                                  /\ nodes'[i].price = nodes[i].price
                                  /\ nodes'[i].quantity = nodes[i].quantity
    PROVE  Resting' = {OrderAt(i) : i \in {t \in Slots \ {s} : Active(t)}}
                          \union {OrderAt(s)'}
<1>1. \A i \in Slots \ {s} : OrderAt(i)' = OrderAt(i) /\ (Active(i)' <=> Active(i))
  BY DEF OrderAt, Active
<1>2. Active(s)'
  BY DEF Active
<1>. QED  BY <1>1, <1>2 DEF Resting

-----------------------------------------------------------------------------
(* The best price and the head of its list are the abstract priority.      *)

\* The order that the inner loop looks at is the first of its side.
LEMMA HeadIsFirst ==
    ASSUME BookInv, NEW s, AtHead(s)
    PROVE  /\ s \in Slots /\ Active(s)
           /\ OrderAt(s).price = Best(Opposite(incoming.side))
           /\ Book!Meets(OrderAt(s))
<1>. USE DEF BookInv
<1>1. PICK sd, pr : sd = Opposite(incoming.side) /\ pr = Best(sd)
  OBVIOUS
<1>2. /\ sd \in Sides /\ pr \in Price
      /\ s \in At(sd, pr) /\ s = lists[sd][pr].head
      /\ incoming \in Orders /\ incoming.quantity > 0
  BY <1>1, AtHeadOK
<1>3. /\ s \in Slots /\ Active(s) /\ nodes[s].side = sd /\ nodes[s].price = pr
  BY <1>2 DEF At
<1>4. OrderAt(s).side = sd /\ OrderAt(s).price = pr /\ OrderAt(s).seq = nodes[s].seq
  BY <1>3 DEF OrderAt
<1>5. Crosses(incoming.side, incoming.price, pr)
  BY <1>1 DEF AtHead, Crossing
<1>6. ASSUME NEW k \in Slots, Active(k), nodes[k].side = sd, k # s
      PROVE  Book!Ahead(OrderAt(s), OrderAt(k))
  <2>1. PICK p \in Price : p = nodes[k].price
    BY DEF TypeOK, Node
  <2>2. k \in At(sd, p)
    BY <1>6, <2>1 DEF At
  <2>3. OrderAt(k).side = sd /\ OrderAt(k).price = p /\ OrderAt(k).seq = nodes[k].seq
    BY <1>6, <2>1 DEF OrderAt
  <2>4. CASE p = pr
    <3>1. nodes[s].seq < nodes[k].seq
      BY <1>2, <1>6, <2>2, <2>4, HeadOldest
    <3>. QED  BY <1>4, <2>3, <2>4, <3>1 DEF Book!Ahead
  <2>5. CASE p # pr
    <3>1. pr # NULL_IDX
      BY <1>1 DEF AtHead, Crossing
    <3>2. IF sd = "buy" THEN p <= pr ELSE pr <= p
      BY <1>1, <1>2, <2>2, <3>1, BestOK
    <3>3. Book!BetterPrice(sd, pr, p)
      BY <1>2, <2>5, <3>2, BitmapAssumption DEF Book!BetterPrice, Price
    <3>. QED  BY <1>4, <2>3, <3>3 DEF Book!Ahead
  <2>. QED  BY <2>4, <2>5
<1>7. Book!IsFirst(OrderAt(s))
  <2>. SUFFICES ASSUME NEW x \in Book!Resting(OrderAt(s).side), x # OrderAt(s)
                PROVE  Book!Ahead(OrderAt(s), x)
    BY DEF Book!IsFirst
  <2>1. PICK k \in Slots : Active(k) /\ x = OrderAt(k) /\ x.side = sd
    BY <1>4 DEF Book!Resting
  <2>2. nodes[k].side = sd /\ k # s
    BY <2>1 DEF OrderAt
  <2>. QED  BY <1>6, <2>1, <2>2
<1>8. incoming # NoOrder /\ Book!Crosses(incoming.side, incoming.price, OrderAt(s).price)
  BY <1>4, <1>5 DEF AtHead, Crosses, Book!Crosses
<1>9. OrderAt(s).side = Book!Opposite(incoming.side)
  BY <1>1, <1>4 DEF Opposite, Book!Opposite
<1>. QED  BY <1>1, <1>2, <1>3, <1>4, <1>7, <1>8, <1>9 DEF Book!Meets

\* When the outer loop stops for want of a crossing price, no order of the
\* other side crosses.
LEMMA NoneCrosses ==
    ASSUME BookInv, incoming \in Orders, incoming.quantity > 0, ~ Crossing
    PROVE  \A o \in Book!Resting(Book!Opposite(incoming.side)) :
              ~ Book!Crosses(incoming.side, incoming.price, o.price)
<1>. USE DEF BookInv
<1>1. PICK sd, best : sd = Opposite(incoming.side) /\ best = Best(sd)
  OBVIOUS
<1>2. sd \in Sides /\ incoming.price \in Price /\ incoming.side \in Sides
  BY <1>1 DEF Orders, Opposite, Sides
<1>. SUFFICES ASSUME NEW o \in Book!Resting(Book!Opposite(incoming.side))
              PROVE  ~ Book!Crosses(incoming.side, incoming.price, o.price)
  OBVIOUS
<1>3. PICK k \in Slots : Active(k) /\ o = OrderAt(k) /\ o.side = sd
  BY <1>1 DEF Book!Resting, Opposite, Book!Opposite
<1>4. PICK p \in Price : p = nodes[k].price /\ p = o.price
  BY <1>3 DEF OrderAt, TypeOK, Node
<1>5. k \in At(sd, p)
  BY <1>3, <1>4 DEF OrderAt, At
<1>6. best # NULL_IDX /\ best \in Price /\ (IF sd = "buy" THEN p <= best ELSE best <= p)
  BY <1>1, <1>2, <1>5, BestOK
<1>7. ~ Crosses(incoming.side, incoming.price, best)
  BY <1>1, <1>6 DEF Crossing
<1>. QED  BY <1>1, <1>2, <1>4, <1>6, <1>7, BitmapAssumption
          DEF Crosses, Book!Crosses, Opposite, Sides, Price

-----------------------------------------------------------------------------
(* Every action is an action of LimitBook.                                 *)

\* The two parts of the abstract step that trades, from what Fill does to the
\* node of the resting order and to the others.
LEMMA FillStep ==
    ASSUME RefInv, NEW s \in Slots, Fill(s)
    PROVE  Book!Match(OrderAt(s)) /\ OrderAt(s) \in Resting /\ Unique'
<1>. USE DEF RefInv
<1>1. PICK sd, pr, q, nxt, o :
          /\ sd = Opposite(incoming.side) /\ pr = Best(sd)
          /\ q = Smaller(incoming.quantity, nodes[s].quantity)
          /\ nxt = nodes[s].next
          /\ o = OrderAt(s)
  OBVIOUS
<1>2. /\ AtHead(s) /\ nodes[s].user # incoming.user
      /\ UNCHANGED <<counter, pool_idx>>
      /\ incoming' = [incoming EXCEPT !.quantity = @ - q]
      /\ out' = Trade(incoming, o, pr, q)
  BY <1>1 DEF Fill
<1>3. Active(s) /\ o.price = pr /\ Book!Meets(o)
  BY <1>1, <1>2, HeadIsFirst
<1>4. /\ o = [seq |-> nodes[s].seq, user |-> nodes[s].user, side |-> nodes[s].side,
              price |-> nodes[s].price, quantity |-> nodes[s].quantity]
      /\ o \in Resting
  BY <1>1, <1>3, RestingOf DEF OrderAt
<1>5. nodes \in [Slots -> Node] /\ incoming \in Orders
  BY <1>2 DEF BookInv, TypeOK, AtHead
<1>. DEFINE gone == nodes[s].quantity = q
            left == [o EXCEPT !.quantity = @ - q]
<1>6. \A i \in Slots :
          /\ nodes'[i].seq = IF i = s /\ gone THEN 0 ELSE nodes[i].seq
          /\ nodes'[i].user = nodes[i].user
          /\ nodes'[i].side = nodes[i].side
          /\ nodes'[i].price = nodes[i].price
          /\ nodes'[i].quantity = IF i = s THEN nodes[i].quantity - q ELSE nodes[i].quantity
  BY <1>1, FilledNodes DEF BookInv
<1>7. \A i \in Slots \ {s} : /\ nodes'[i].seq = nodes[i].seq
                             /\ nodes'[i].user = nodes[i].user
                             /\ nodes'[i].side = nodes[i].side
                             /\ nodes'[i].price = nodes[i].price
                             /\ nodes'[i].quantity = nodes[i].quantity
  BY <1>6
<1>8. /\ nodes'[s].seq = IF gone THEN 0 ELSE nodes[s].seq
      /\ nodes'[s].user = nodes[s].user
      /\ nodes'[s].side = nodes[s].side
      /\ nodes'[s].price = nodes[s].price
      /\ nodes'[s].quantity = nodes[s].quantity - q
  BY <1>6
<1>9. q \in Int /\ nodes[s].quantity \in Int
  BY <1>1, <1>5 DEF Smaller, Orders, Node, Quantity
<1>10. Unique'
  BY <1>7, <1>8, UniqueKept
<1>11. left.quantity = 0 <=> gone
  BY <1>4, <1>9
<1>12. Resting' = (Resting \ {o}) \union (IF left.quantity = 0 THEN {} ELSE {left})
  <2>1. CASE gone
    <3>1. nodes'[s].seq = 0
      BY <1>8, <2>1
    <3>2. Resting' = Resting \ {o}
      BY <1>1, <1>3, <1>7, <3>1, RestingWithout
    <3>. QED  BY <1>11, <2>1, <3>2
  <2>2. CASE ~ gone
    <3>1. nodes'[s].seq # 0
      BY <1>3, <1>8, <2>2 DEF Active
    <3>2. OrderAt(s)' = left
      BY <1>4, <1>8, <2>2 DEF OrderAt
    <3>3. Resting' = {OrderAt(i) : i \in {t \in Slots \ {s} : Active(t)}} \union {left}
      BY <1>7, <3>1, <3>2, RestingWith
    <3>4. Resting \ {o} = {OrderAt(i) : i \in {t \in Slots \ {s} : Active(t)}}
      BY <1>1, <1>3, Distinct DEF Resting
    <3>. QED  BY <1>11, <2>2, <3>3, <3>4
  <2>. QED  BY <2>1, <2>2
<1>13. q = Book!Smaller(incoming.quantity, o.quantity)
  BY <1>1, <1>4 DEF Smaller, Book!Smaller
<1>14. out' = Book!Trade(incoming, o, q)
  BY <1>2, <1>3 DEF Trade, Book!Trade
<1>15. o.user # incoming.user
  BY <1>2, <1>4
<1>16. Book!Match(o)
  <2>. HIDE DEF gone
  <2>. QED  BY <1>2, <1>3, <1>12, <1>13, <1>14, <1>15 DEF Book!Match, Resting
<1>. QED  BY <1>1, <1>4, <1>10, <1>16

\* match_* stops at an order of the same user: so may the abstract book.
LEMMA SelfTradeStopStep ==
    ASSUME RefInv, NEW s \in Slots, SelfTradeStop(s)
    PROVE  Book!SelfTradeStop(OrderAt(s)) /\ OrderAt(s) \in Resting /\ Unique'
<1>. USE DEF RefInv
<1>1. AtHead(s) /\ nodes[s].user = incoming.user /\ UNCHANGED <<bookVars, counter>>
  BY DEF SelfTradeStop
<1>2. Active(s) /\ Book!Meets(OrderAt(s))
  BY <1>1, HeadIsFirst
<1>3. OrderAt(s).user = incoming.user
  BY <1>1 DEF OrderAt
<1>4. Resting' = Resting
  BY <1>1, SameResting DEF bookVars
<1>5. Book!SelfTradeStop(OrderAt(s))
  BY <1>1, <1>2, <1>3, <1>4
     DEF SelfTradeStop, Book!SelfTradeStop, Rejected, Book!Rejected, Resting
<1>. QED  BY <1>1, <1>2, <1>5, RestingOf DEF Unique, Active, bookVars

\* What is left of a limit order is linked: it rests in the abstract book.
LEMMA RestStep ==
    ASSUME RefInv, Rest
    PROVE  Book!Rest /\ Unique'
<1>. USE DEF RefInv
<1>1. PICK n, t : n = pool_idx /\ t = lists[incoming.side][incoming.price].tail
  OBVIOUS
<1>2. /\ incoming # NoOrder /\ incoming \in Orders /\ incoming.quantity > 0
      /\ ~ Crossing
      /\ UNCHANGED <<free, counter>>
  BY DEF Rest, BookInv, TypeOK
<1>3. n \in Slots /\ ~ Active(n)
  BY <1>1, <1>2 DEF BookInv, Partitioned, TypeOK, Links
<1>4. nodes \in [Slots -> Node]
  BY DEF BookInv, TypeOK
<1>5. nodes' = [i \in Slots |->
                  IF i = n
                  THEN [seq |-> incoming.seq, user |-> incoming.user,
                        side |-> incoming.side, price |-> incoming.price,
                        quantity |-> incoming.quantity,
                        prev |-> t, next |-> IF t = n THEN n ELSE NULL_IDX]
                  ELSE IF i = t
                  THEN [nodes[i] EXCEPT !.next = n]
                  ELSE nodes[i]]
  BY <1>1 DEF Rest
<1>6. \A i \in Slots \ {n} : /\ nodes'[i].seq = nodes[i].seq
                             /\ nodes'[i].user = nodes[i].user
                             /\ nodes'[i].side = nodes[i].side
                             /\ nodes'[i].price = nodes[i].price
                             /\ nodes'[i].quantity = nodes[i].quantity
  BY <1>4, <1>5 DEF Node
<1>7. /\ nodes'[n].seq = incoming.seq /\ nodes'[n].user = incoming.user
      /\ nodes'[n].side = incoming.side /\ nodes'[n].price = incoming.price
      /\ nodes'[n].quantity = incoming.quantity
  BY <1>3, <1>5
<1>8. incoming.seq \in Nat \ {0} /\ \A i \in Slots : nodes[i].seq # incoming.seq
  BY <1>2, <1>4 DEF BookInv, SeqsOK, Orders, Node
<1>9. Unique'
  BY <1>6, <1>7, <1>8, UniqueKept
<1>10. OrderAt(n)' = incoming
  BY <1>2, <1>7 DEF OrderAt, Orders
<1>11. Resting' = Resting \union {incoming}
  <2>1. Resting' = {OrderAt(i) : i \in {k \in Slots \ {n} : Active(k)}} \union {incoming}
    BY <1>3, <1>6, <1>7, <1>8, <1>10, RestingWith
  <2>2. Resting = {OrderAt(i) : i \in {k \in Slots \ {n} : Active(k)}}
    BY <1>3 DEF Resting
  <2>. QED  BY <2>1, <2>2
<1>12. \A o \in Book!Resting(Book!Opposite(incoming.side)) :
          ~ Book!Crosses(incoming.side, incoming.price, o.price)
  BY <1>2, NoneCrosses
<1>13. incoming' = NoOrder /\ out' = Nothing
  BY DEF Rest
<1>. QED  BY <1>2, <1>9, <1>11, <1>12, <1>13 DEF Book!Rest, Resting, Nothing, Book!Nothing

\* cancel_order unlinks the order that the abstract book removes.
LEMMA CancelStep ==
    ASSUME RefInv, NEW id \in Ids, NEW u \in Users, Cancel(id, u), id # <<0, 0>>
    PROVE  /\ OrderAt(id[2]) \in Resting /\ Book!Cancel(OrderAt(id[2]))
           /\ Unique'
<1>. USE DEF RefInv
<1>2. /\ incoming = NoOrder
      /\ UNCHANGED <<counter, incoming, pool_idx>>
  BY DEF Cancel
<1>3. PICK s \in Slots : s = id[2] /\ Active(s)
  BY CancelNamed
<1>4. PICK prv, nxt : prv = nodes[s].prev /\ nxt = nodes[s].next
  OBVIOUS
<1>5. /\ nodes' = [i \in Slots |->
                     IF i = s THEN [nodes[s] EXCEPT !.seq = 0]
                     ELSE [nodes[i] EXCEPT !.next = IF i = prv THEN nxt ELSE @,
                                           !.prev = IF i = nxt THEN prv ELSE @]]
      /\ out' = Cancelled(OrderAt(s))
  BY <1>3, <1>4 DEF Cancel
<1>6. nodes \in [Slots -> Node]
  BY DEF BookInv, TypeOK
<1>7. \A i \in Slots \ {s} : /\ nodes'[i].seq = nodes[i].seq
                             /\ nodes'[i].user = nodes[i].user
                             /\ nodes'[i].side = nodes[i].side
                             /\ nodes'[i].price = nodes[i].price
                             /\ nodes'[i].quantity = nodes[i].quantity
  BY <1>5, <1>6 DEF Node
<1>8. nodes'[s].seq = 0
  BY <1>5, <1>6 DEF Node
<1>9. Resting' = Resting \ {OrderAt(s)}
  BY <1>3, <1>7, <1>8, RestingWithout
<1>10. Unique'
  BY <1>7, <1>8, UniqueKept
<1>11. Book!Cancel(OrderAt(s))
  BY <1>2, <1>5, <1>9 DEF Book!Cancel, Cancelled, Book!Cancelled, Resting
<1>. QED  BY <1>3, <1>10, <1>11, RestingOf

\* An id that is not accepted names no resting order of the user.
LEMMA CancelMissStep ==
    ASSUME RefInv, NEW id \in Ids, NEW u \in Users, CancelMiss(id, u)
    PROVE  Named(id) \in 0 .. MaxSeq /\ Book!CancelMiss(Named(id), u) /\ Unique'
<1>. USE DEF RefInv
<1>1. /\ id = <<id[1], id[2]>> /\ id[1] \in 0 .. MaxSeq /\ id[2] \in 0 .. MaxOrders
      /\ 0 \in 0 .. MaxSeq
  BY OrderBookAssumption DEF Ids
<1>2. PICK n : n = Named(id)
  OBVIOUS
<1>3. /\ incoming = NoOrder /\ ~ Cancellable(id, u)
      /\ out' = NotCancelled(n, u)
      /\ UNCHANGED <<nodes, counter, incoming>>
  BY <1>2 DEF CancelMiss, bookVars
<1>4. ~ \E o \in Resting : o.seq = n /\ o.user = u
  <2>. SUFFICES ASSUME NEW k \in Slots, Active(k), nodes[k].seq = n, nodes[k].user = u
                PROVE  FALSE
    BY DEF Resting, OrderAt
  <2>1. n = id[1] /\ n # 0 /\ k = id[2]
    BY <1>2 DEF Named, Active
  <2>2. IdAt(k) = id
    BY <1>1, <2>1 DEF IdAt
  <2>. QED  BY <1>3, <2>1, <2>2 DEF Cancellable
<1>5. Resting' = Resting
  BY <1>3, SameResting
<1>6. Book!CancelMiss(n, u)
  BY <1>3, <1>4, <1>5 DEF Book!CancelMiss, NotCancelled, Book!NotCancelled, Resting
<1>7. n \in 0 .. MaxSeq
  BY <1>1, <1>2 DEF Named
<1>. QED  BY <1>2, <1>3, <1>6, <1>7 DEF Unique, Active

\* Between two calls there is a free slot for every order that the pool holds
\* less than it could: an order finds no slot only if all hold orders.
LEMMA Room ==
    ASSUME RefInv, incoming = NoOrder
    PROVE  free # <<>> <=> Cardinality(Resting) < MaxOrders
<1>. DEFINE Busy == {t \in Slots : Active(t)}
<1>1. IsFiniteSet(Slots) /\ Cardinality(Slots) = MaxOrders /\ MaxOrders \in Nat
  BY FS_Interval, OrderBookAssumption DEF Slots
<1>2. IsFiniteSet(Busy) /\ Cardinality(Resting) = Cardinality(Busy)
  <2>1. PICK f : f = [t \in Busy |-> OrderAt(t)]
    OBVIOUS
  <2>2. Busy \in SUBSET Slots
    OBVIOUS
  <2>3. IsFiniteSet(Busy)
    BY <1>1, <2>2, FS_Subset
  <2>4. f \in Bijection(Busy, Resting)
    <3>1. \A s, t \in Busy : s # t => f[s] # f[t]
      BY <2>1, Distinct DEF RefInv
    <3>2. f \in [Busy -> Resting] /\ \A o \in Resting : \E t \in Busy : f[t] = o
      BY <2>1 DEF Resting
    <3>. HIDE DEF Busy
    <3>. QED  BY <3>1, <3>2 DEF Bijection, Injection, Surjection, IsInjective
  <2>5. \E g : g \in Bijection(Busy, Resting)
    BY <2>4
  <2>. HIDE DEF Busy
  <2>. QED  BY <2>3, <2>5, FS_Bijection DEF ExistsBijection
<1>3. Len(free) \in Nat /\ (free # <<>> <=> Len(free) # 0) /\ \A i \in 1 .. Len(free) : free[i] \in Slots
  BY EmptySeq DEF RefInv, BookInv, TypeOK
<1>4. \A s \in Slots : Active(s) <=> ~ \E i \in 1 .. Len(free) : free[i] = s
  <2>1. \A s \in Slots : s # pool_idx
    BY DEF RefInv, BookInv, Partitioned, Slots, NULL_IDX
  <2>. QED  BY <2>1 DEF RefInv, BookInv, Partitioned
<1>5. CASE free = <<>>
  <2>1. Busy = Slots
    BY <1>3, <1>4, <1>5
  <2>. HIDE DEF Busy
  <2>. QED  BY <1>1, <1>2, <1>5, <2>1
<1>6. CASE free # <<>>
  <2>1. PICK s \in Slots : s = free[1] /\ s \notin Busy
    BY <1>3, <1>4, <1>6
  <2>2. Busy \in SUBSET (Slots \ {s})
    BY <2>1
  <2>3. IsFiniteSet(Slots \ {s}) /\ Cardinality(Slots \ {s}) = MaxOrders - 1
    BY <1>1, FS_RemoveElement
  <2>. HIDE DEF Busy
  <2>4. Cardinality(Busy) <= MaxOrders - 1
    BY <2>2, <2>3, FS_Subset
  <2>5. Cardinality(Busy) \in Nat
    BY <1>2, FS_CardinalityType
  <2>. QED  BY <1>1, <1>2, <1>6, <2>4, <2>5
<1>. QED  BY <1>5, <1>6

\* The abstract book counts as the engine does.
LEMMA SameCardinality == \A S : Book!Cardinality(S) = Cardinality(S)
BY DEF Book!Cardinality, Cardinality

\* can_process_order and the abstract book say the same.
LEMMA SameAccepts ==
    ASSUME RefInv, incoming = NoOrder, NEW p
    PROVE  CanProcess(p) <=> Book!Accepts(p, MaxOrders)
<1>1. MaxOrders # Book!Unbounded
  BY OrderBookAssumption DEF Book!Unbounded
<1>. QED  BY <1>1, Room, SameCardinality DEF CanProcess, Book!Accepts, Resting

\* A step that leaves the pool alone leaves the resting orders.
LEMMA QuietStep ==
    ASSUME Unique, UNCHANGED nodes
    PROVE  Resting' = Resting /\ Unique'
BY SameResting DEF Unique, Active

\* Every step of the engine but a cancel of id 0 keeps the numbers distinct and
\* is a step of LimitBook, or leaves its variables alone.
THEOREM StepRefines ==
    ASSUME RefInv, [Next]_vars, ~ zeroCancelled'
    PROVE  Unique' /\ [Book!Next]_(Book!vars)
<1>1. ASSUME NEW u \in Users, NEW side \in Sides, NEW p \in 0 .. MaxPrice,
             NEW q \in Quantity, Submit(u, side, p, q)
      PROVE  Unique' /\ Book!NextWithin(MaxOrders)
  <2>1. Resting' = Resting /\ Unique'
    BY <1>1, QuietStep DEF RefInv, Submit
  <2>2. Book!Submit(u, side, p, q)
    BY <1>1, <2>1 DEF Submit, Book!Submit, Nothing, Book!Nothing, Resting
  <2>3. Book!Accepts(p, MaxOrders)
    BY <1>1, SameAccepts DEF Submit
  <2>. QED  BY <2>1, <2>2, <2>3 DEF Book!NextWithin, Sides, Book!Sides, Quantity
<1>2. ASSUME NEW p \in 0 .. MaxPrice, Refuse(p)
      PROVE  Unique' /\ Book!NextWithin(MaxOrders)
  <2>1. Resting' = Resting /\ Unique'
    BY <1>2, QuietStep DEF RefInv, Refuse, bookVars
  <2>2. Book!Refuse
    BY <1>2, <2>1 DEF Refuse, Book!Refuse, Refused, Book!Refused, Resting
  <2>3. ~ Book!Accepts(p, MaxOrders)
    BY <1>2, SameAccepts DEF Refuse
  <2>. QED  BY <2>1, <2>2, <2>3 DEF Book!NextWithin
<1>3. ASSUME NEW s \in Slots, Fill(s)
      PROVE  Unique' /\ Book!NextWithin(MaxOrders)
  BY <1>3, FillStep DEF Book!NextWithin, Resting
<1>4. ASSUME NEW s \in Slots, SelfTradeStop(s)
      PROVE  Unique' /\ Book!NextWithin(MaxOrders)
  BY <1>4, SelfTradeStopStep DEF Book!NextWithin, Resting
<1>5. ASSUME Rest PROVE Unique' /\ Book!NextWithin(MaxOrders)
  BY <1>5, RestStep DEF Book!NextWithin
<1>6. ASSUME Finish PROVE Unique' /\ Book!NextWithin(MaxOrders)
  <2>1. Resting' = Resting /\ Unique'
    BY <1>6, QuietStep DEF RefInv, Finish
  <2>2. Book!Finish
    BY <1>6, <2>1 DEF Finish, Book!Finish, Nothing, Book!Nothing, Resting
  <2>. QED  BY <2>1, <2>2 DEF Book!NextWithin
<1>7. ASSUME NEW id \in Ids, NEW u \in Users, Cancel(id, u)
      PROVE  Unique' /\ Book!NextWithin(MaxOrders)
  <2>1. id # <<0, 0>>
    BY <1>7 DEF Cancel
  <2>. QED  BY <1>7, <2>1, CancelStep DEF Book!NextWithin, Resting
<1>8. ASSUME NEW id \in Ids, NEW u \in Users, CancelMiss(id, u)
      PROVE  Unique' /\ Book!NextWithin(MaxOrders)
  BY <1>8, CancelMissStep DEF Book!NextWithin
<1>9. CASE UNCHANGED vars
  <2>1. Resting' = Resting /\ Unique'
    BY <1>9, QuietStep DEF RefInv, vars
  <2>. QED  BY <1>9, <2>1 DEF vars, Book!vars, Resting
<1>10. ~ SkipLevel
  BY NoSkip DEF RefInv
<1>. QED  BY <1>1, <1>2, <1>3, <1>4, <1>5, <1>6, <1>7, <1>8, <1>9, <1>10
          DEF Next, Book!Next

\* Until id 0 is cancelled, order numbers identify the resting orders.
THEOREM NumbersUnique == Spec => [](zeroCancelled \/ Unique)
<1>1. Init => Unique
  BY DEF Init, Unique, Active
<1>2. /\ zeroCancelled \/ BookInv
      /\ zeroCancelled \/ Unique
      /\ [Next]_vars
      => (zeroCancelled \/ Unique)'
  BY StepRefines, ZeroStays DEF RefInv
<1>. QED  BY <1>1, <1>2, BookInvariant, PTL DEF Spec

\* Until id 0 is cancelled the CURRENT engine implements the abstract book: it
\* refuses an order only for its price or when every slot holds one, best price
\* first, the oldest order of it first, no trade of a user with itself, what is
\* left over rests, and a cancel takes out the order it names or nothing.
THEOREM EngineRefines == Spec => ImplementsLimitBook
<1>1. Init => Book!Init
  BY DEF Init, Book!Init, Active, Nothing, Book!Nothing
<1>2. /\ zeroCancelled \/ BookInv
      /\ zeroCancelled \/ Unique
      /\ [Next]_vars
      => [zeroCancelled' \/ Book!Next]_(Book!vars)
  BY StepRefines, ZeroStays DEF RefInv
<1>. QED  BY <1>1, <1>2, BookInvariant, NumbersUnique, PTL
          DEF Spec, ImplementsLimitBook

-----------------------------------------------------------------------------
(* What holds of LimitBook holds of the engine.                            *)

BookFacts == INSTANCE LimitBookProofs WITH book <- Resting, Capacity <- MaxOrders

\* LimitBook's assumption holds of the engine's constants.
LEMMA BookAssumption == BookFacts!LimitBookAssumption
BY OrderBookAssumption, BitmapAssumption
   DEF Orders, BookFacts!Orders, Sides, BookFacts!Sides, Price, Quantity

\* The two instances of LimitBook are the same book.
LEMMA SameStep ==
    /\ Book!Init => BookFacts!Init
    /\ [Book!Next]_(Book!vars) => [BookFacts!NextWithin(MaxOrders)]_(BookFacts!vars)
    /\ BookFacts!NotCrossed => Book!NotCrossed
<1>0. \A p, room : Book!Accepts(p, room) <=> BookFacts!Accepts(p, room)
  <2>1. \A S : Book!Cardinality(S) = BookFacts!Cardinality(S)
    BY DEF Book!Cardinality, BookFacts!Cardinality
  <2>. QED  BY <2>1 DEF Book!Accepts, BookFacts!Accepts, Book!Unbounded,
                        BookFacts!Unbounded, Resting
<1>1. Book!Init => BookFacts!Init
  BY DEF Book!Init, BookFacts!Init, Resting, Book!Nothing, BookFacts!Nothing
<1>2. [Book!Next]_(Book!vars) => [BookFacts!NextWithin(MaxOrders)]_(BookFacts!vars)
  BY <1>0
     DEF Book!Next, Book!vars, BookFacts!vars, Resting,
         Book!NextWithin, BookFacts!NextWithin,
         Book!Sides, BookFacts!Sides, Book!Nothing, BookFacts!Nothing,
         Book!Submit, BookFacts!Submit, Book!Refuse, BookFacts!Refuse,
         Book!Refused, BookFacts!Refused, Book!Match, BookFacts!Match,
         Book!Meets, BookFacts!Meets, Book!IsFirst, BookFacts!IsFirst,
         Book!Resting, BookFacts!Resting, Book!Ahead, BookFacts!Ahead,
         Book!BetterPrice, BookFacts!BetterPrice, Book!Crosses, BookFacts!Crosses,
         Book!Opposite, BookFacts!Opposite, Book!Trade, BookFacts!Trade,
         Book!Smaller, BookFacts!Smaller, Book!SelfTradeStop, BookFacts!SelfTradeStop,
         Book!Rejected, BookFacts!Rejected, Book!Cancel, BookFacts!Cancel,
         Book!Cancelled, BookFacts!Cancelled, Book!CancelMiss, BookFacts!CancelMiss,
         Book!NotCancelled, BookFacts!NotCancelled, Book!Rest, BookFacts!Rest,
         Book!Finish, BookFacts!Finish
<1>3. BookFacts!NotCrossed => Book!NotCrossed
  BY DEF BookFacts!NotCrossed, Book!NotCrossed, Book!Resting, BookFacts!Resting, Resting
<1>. QED  BY <1>1, <1>2, <1>3

\* What the engine keeps of the abstract book's invariant.
AbstractInv == BookFacts!TypeOK /\ BookFacts!NotCrossed

\* Until id 0 is cancelled no resting buy order is priced at or above a resting
\* sell order, although match_* stops at an order of the same user.
THEOREM EngineNotCrossed == Spec => [](zeroCancelled \/ Book!NotCrossed)
<1>1. Init => AbstractInv
  <2>1. Init => BookFacts!Init
    BY SameStep DEF Init, Book!Init, Active, Nothing, Book!Nothing
  <2>. QED  BY <2>1, BookAssumption, BookFacts!InitHolds DEF AbstractInv
<1>2. AbstractInv /\ [Book!Next]_(Book!vars) => AbstractInv'
  BY SameStep, BookAssumption, BookFacts!TypeStep, BookFacts!NotCrossedStep DEF AbstractInv
<1>3. /\ zeroCancelled \/ AbstractInv
      /\ [zeroCancelled' \/ Book!Next]_(Book!vars)
      /\ [Next]_vars
      => (zeroCancelled \/ AbstractInv)'
  BY <1>2, ZeroStays
<1>4. AbstractInv => Book!NotCrossed
  BY SameStep DEF AbstractInv
<1>. QED  BY <1>1, <1>3, <1>4, EngineRefines, PTL DEF Spec, ImplementsLimitBook

-----------------------------------------------------------------------------
(* Lists of the elements of a set in the order of a relation, which is a   *)
(* set of pairs.                                                           *)

Listed(s, S, R) ==
    /\ s \in Seq(S)
    /\ \A x \in S : \E i \in 1 .. Len(s) : s[i] = x
    /\ \A i, j \in 1 .. Len(s) : i < j => <<s[i], s[j]>> \in R

OneWay(S, R) == \A x, y \in S : ~ (<<x, y>> \in R /\ <<y, x>> \in R)

Linear(S, R) ==
    /\ OneWay(S, R)
    /\ \A x, y \in S : x # y => <<x, y>> \in R \/ <<y, x>> \in R
    /\ \A x, y, z \in S : <<x, y>> \in R /\ <<y, z>> \in R => <<x, z>> \in R

\* A list agrees with every other of the same set as far as it goes.
LEMMA ListedPrefix ==
    ASSUME NEW S, NEW R, OneWay(S, R), NEW s, NEW t, Listed(s, S, R), Listed(t, S, R)
    PROVE  \A k \in 1 .. Len(s) : k \in 1 .. Len(t) /\ s[k] = t[k]
<1>. DEFINE Bad == {k \in 1 .. Len(s) : ~ (k \in 1 .. Len(t) /\ s[k] = t[k])}
<1>. SUFFICES ASSUME Bad # {} PROVE FALSE
  OBVIOUS
<1>0. /\ Len(s) \in Nat /\ Len(t) \in Nat
      /\ \A i \in 1 .. Len(s) : s[i] \in S
      /\ \A i \in 1 .. Len(t) : t[i] \in S
  <2>1. s \in Seq(S) /\ t \in Seq(S)
    BY DEF Listed
  <2>. QED  BY <2>1
<1>1. PICK k \in Bad : \A j \in Bad : k <= j
  <2>1. Bad \subseteq Nat
    BY <1>0
  <2>. HIDE DEF Bad
  <2>. QED  BY <2>1, NatMin
<1>2. \A j \in 1 .. k - 1 : j \in 1 .. Len(s) /\ j \in 1 .. Len(t) /\ s[j] = t[j]
  <2>. SUFFICES ASSUME NEW j \in 1 .. k - 1
                PROVE  j \in 1 .. Len(s) /\ j \in 1 .. Len(t) /\ s[j] = t[j]
    OBVIOUS
  <2>1. j \in 1 .. Len(s) /\ j \notin Bad
    BY <1>0, <1>1
  <2>. QED  BY <2>1
<1>3. k \in 1 .. Len(s) /\ s[k] \in S
  BY <1>0, <1>1
<1>4. PICK j \in 1 .. Len(t) : t[j] = s[k]
  BY <1>3 DEF Listed
<1>5. ~ (j < k)
  <2>. SUFFICES ASSUME j < k PROVE FALSE
    OBVIOUS
  <2>1. s[j] = s[k] /\ j \in 1 .. Len(s)
    BY <1>0, <1>2, <1>3, <1>4
  <2>2. <<s[j], s[k]>> \in R
    BY <1>3, <2>1 DEF Listed
  <2>. QED  BY <1>3, <2>1, <2>2 DEF OneWay
<1>6. j # k
  BY <1>1, <1>4
<1>7. k < j /\ k \in 1 .. Len(t)
  BY <1>0, <1>3, <1>4, <1>5, <1>6
<1>8. PICK i \in 1 .. Len(s) : s[i] = t[k]
  BY <1>0, <1>7 DEF Listed
<1>9. <<t[k], s[k]>> \in R
  BY <1>4, <1>7 DEF Listed
<1>10. i # k
  BY <1>1, <1>7, <1>8
<1>11. ~ (k < i)
  <2>. SUFFICES ASSUME k < i PROVE FALSE
    OBVIOUS
  <2>1. <<s[k], s[i]>> \in R
    BY <1>3, <1>8 DEF Listed
  <2>. QED  BY <1>0, <1>3, <1>7, <1>8, <1>9, <2>1 DEF OneWay
<1>12. i \in 1 .. k - 1
  BY <1>0, <1>3, <1>8, <1>10, <1>11
<1>13. t[i] = t[k] /\ i \in 1 .. Len(t) /\ i < k
  BY <1>2, <1>8, <1>12
<1>14. <<t[i], t[k]>> \in R
  BY <1>7, <1>13 DEF Listed
<1>. QED  BY <1>0, <1>7, <1>13, <1>14 DEF OneWay

\* There is one list at most.
LEMMA ListedOnce ==
    ASSUME NEW S, NEW R, OneWay(S, R), NEW s, NEW t, Listed(s, S, R), Listed(t, S, R)
    PROVE  s = t
<1>1. \A k \in 1 .. Len(s) : k \in 1 .. Len(t) /\ s[k] = t[k]
  BY ListedPrefix
<1>2. \A k \in 1 .. Len(t) : k \in 1 .. Len(s) /\ t[k] = s[k]
  BY ListedPrefix
<1>3. s \in Seq(S) /\ t \in Seq(S) /\ Len(s) \in Nat /\ Len(t) \in Nat
  BY DEF Listed
<1>4. Len(s) = Len(t)
  BY <1>1, <1>2, <1>3
<1>. QED  BY <1>1, <1>3, <1>4, SeqEqual

\* A list, and then one of elements that come later.
LEMMA ListedConcat ==
    ASSUME NEW A, NEW B, NEW R, NEW s, NEW t, Listed(s, A, R), Listed(t, B, R),
           \A x \in A, y \in B : <<x, y>> \in R
    PROVE  Listed(s \o t, A \union B, R)
<1>1. /\ s \in Seq(A \union B) /\ t \in Seq(A \union B)
      /\ Len(s) \in Nat /\ Len(t) \in Nat
      /\ \A i \in 1 .. Len(s) : s[i] \in A
      /\ \A i \in 1 .. Len(t) : t[i] \in B
  BY DEF Listed
<1>2. PICK r : r = s \o t
  OBVIOUS
<1>3. /\ r \in Seq(A \union B) /\ Len(r) = Len(s) + Len(t)
      /\ \A i \in 1 .. Len(s) : r[i] = s[i]
      /\ \A i \in 1 .. Len(t) : r[i + Len(s)] = t[i]
  <2>1. r \in Seq(A \union B) /\ Len(r) = Len(s) + Len(t)
    BY <1>1, <1>2, ConcatProperties
  <2>2. \A i \in 1 .. Len(s) + Len(t) : r[i] = IF i <= Len(s) THEN s[i] ELSE t[i - Len(s)]
    BY <1>1, <1>2, ConcatProperties
  <2>3. \A i \in 1 .. Len(t) : /\ i + Len(s) \in 1 .. Len(s) + Len(t)
                               /\ ~ (i + Len(s) <= Len(s))
                               /\ (i + Len(s)) - Len(s) = i
    BY <1>1
  <2>4. \A i \in 1 .. Len(t) : r[i + Len(s)] = t[i]
    BY <2>2, <2>3
  <2>5. \A i \in 1 .. Len(s) : i \in 1 .. Len(s) + Len(t) /\ i <= Len(s)
    BY <1>1
  <2>. QED  BY <2>1, <2>2, <2>4, <2>5
<1>4. ASSUME NEW x \in A \union B  PROVE \E i \in 1 .. Len(r) : r[i] = x
  <2>1. CASE x \in A
    <3>1. PICK i \in 1 .. Len(s) : s[i] = x
      BY <2>1 DEF Listed
    <3>. QED  BY <1>1, <1>3, <3>1
  <2>2. CASE x \in B
    <3>1. PICK i \in 1 .. Len(t) : t[i] = x
      BY <2>2 DEF Listed
    <3>2. i + Len(s) \in 1 .. Len(r) /\ r[i + Len(s)] = x
      BY <1>1, <1>3, <3>1
    <3>. QED  BY <3>2
  <2>. QED  BY <2>1, <2>2
<1>5. ASSUME NEW i \in 1 .. Len(r), NEW j \in 1 .. Len(r), i < j
      PROVE  <<r[i], r[j]>> \in R
  <2>1. \A k \in 1 .. Len(r) : \/ k \in 1 .. Len(s) /\ r[k] = s[k]
                               \/ k - Len(s) \in 1 .. Len(t) /\ r[k] = t[k - Len(s)]
    <3>. SUFFICES ASSUME NEW k \in 1 .. Len(r), k \notin 1 .. Len(s)
                  PROVE  k - Len(s) \in 1 .. Len(t) /\ r[k] = t[k - Len(s)]
      BY <1>3
    <3>1. k - Len(s) \in 1 .. Len(t) /\ (k - Len(s)) + Len(s) = k
      BY <1>1, <1>3
    <3>. QED  BY <1>3, <3>1
  <2>2. CASE j \in 1 .. Len(s)
    <3>1. i \in 1 .. Len(s)
      BY <1>1, <1>5, <2>2
    <3>. QED  BY <1>3, <1>5, <2>2, <3>1 DEF Listed
  <2>3. CASE i \in 1 .. Len(s) /\ j \notin 1 .. Len(s)
    BY <1>1, <1>3, <2>1, <2>3
  <2>4. CASE i \notin 1 .. Len(s)
    <3>1. i - Len(s) < j - Len(s) /\ j \notin 1 .. Len(s)
      BY <1>1, <1>3, <1>5, <2>4
    <3>. QED  BY <2>1, <2>4, <3>1 DEF Listed
  <2>. QED  BY <2>2, <2>3, <2>4
<1>. QED  BY <1>2, <1>3, <1>4, <1>5 DEF Listed

\* The empty list.
LEMMA ListedEmpty == \A R : Listed(<<>>, {}, R)
  BY DEF Listed

\* The list of one element.
LEMMA ListedOne == \A x, R : Listed(<<x>>, {x}, R)
  BY DEF Listed

\* A finite set that is linearly ordered can be listed.
LEMMA ListedExists ==
    ASSUME NEW S, IsFiniteSet(S), NEW R, Linear(S, R)
    PROVE  \E s : Listed(s, S, R)
<1>. DEFINE Bad == {T \in SUBSET S : \A s : ~ Listed(s, T, R)}
<1>. SUFFICES ASSUME Bad # {} PROVE FALSE
  OBVIOUS
<1>1. PICK T \in Bad : \A U \in SUBSET S : U \subseteq T /\ U # T => U \notin Bad
  <2>1. IsWellFoundedOn(StrictSubsetOrdering(S), FiniteSubsetsOf(S))
    BY FS_StrictSubsetOrderingWellFounded
  <2>2. Bad \subseteq FiniteSubsetsOf(S)
    BY FS_FiniteSubsetsOfFinite
  <2>. HIDE DEF Bad
  <2>3. PICK T \in Bad : \A U \in Bad : <<U, T>> \notin StrictSubsetOrdering(S)
    BY <2>1, <2>2, WFMin
  <2>4. T \in SUBSET S
    BY <2>2, FS_FiniteSubsetsOfFinite
  <2>5. \A U \in SUBSET S : U \subseteq T /\ U # T => <<U, T>> \in StrictSubsetOrdering(S)
    BY <2>4 DEF StrictSubsetOrdering
  <2>6. \A U \in SUBSET S : U \subseteq T /\ U # T => U \notin Bad
    BY <2>3, <2>5
  <2>. QED  BY <2>6
<1>2. PICK x : x \in T
  <2>1. T # {}
    BY <1>1, ListedEmpty
  <2>. QED  BY <2>1
<1>3. PICK Lo, Hi : Lo = {y \in T : <<y, x>> \in R} /\ Hi = {y \in T : <<x, y>> \in R}
  OBVIOUS
<1>4. x \notin Lo /\ x \notin Hi /\ T = Lo \union ({x} \union Hi)
  BY <1>1, <1>2, <1>3 DEF Linear, OneWay
<1>5. (\E s : Listed(s, Lo, R)) /\ (\E t : Listed(t, Hi, R))
  <2>1. Lo \in SUBSET S /\ Lo \subseteq T /\ Lo # T /\ Hi \in SUBSET S /\ Hi \subseteq T /\ Hi # T
    BY <1>1, <1>2, <1>4
  <2>. QED  BY <1>1, <2>1
<1>6. PICK s, t : Listed(s, Lo, R) /\ Listed(t, Hi, R)
  BY <1>5
<1>7. Listed(<<x>> \o t, {x} \union Hi, R)
  <2>1. Listed(<<x>>, {x}, R) /\ \A a \in {x}, b \in Hi : <<a, b>> \in R
    BY <1>3, ListedOne
  <2>. QED  BY <1>6, <2>1, ListedConcat
<1>8. \A a \in Lo, b \in {x} \union Hi : <<a, b>> \in R
  BY <1>1, <1>2, <1>3 DEF Linear
<1>9. Listed(s \o (<<x>> \o t), T, R)
  BY <1>4, <1>6, <1>7, <1>8, ListedConcat
<1>. QED  BY <1>1, <1>9

\* A list is as long as its set is large, and the sequences of that length
\* which are in order are the lists.
LEMMA ListedLen ==
    ASSUME NEW S, IsFiniteSet(S), NEW R, OneWay(S, R), NEW s, Listed(s, S, R)
    PROVE  Len(s) = Cardinality(S) /\ s \in [1 .. Cardinality(S) -> S]
<1>1. s \in Seq(S) /\ Len(s) \in Nat /\ \A i \in 1 .. Len(s) : s[i] \in S
  <2>1. s \in Seq(S)
    BY DEF Listed
  <2>. QED  BY <2>1
<1>2. s \in [1 .. Len(s) -> S]
  BY <1>1
<1>3. \A x \in S : \E i \in 1 .. Len(s) : s[i] = x
  BY DEF Listed
<1>4. s \in Surjection(1 .. Len(s), S)
  BY <1>2, <1>3 DEF Surjection
<1>5. \A i, j \in 1 .. Len(s) : s[i] = s[j] => i = j
  <2>. SUFFICES ASSUME NEW i \in 1 .. Len(s), NEW j \in 1 .. Len(s), i < j, s[i] = s[j]
                PROVE  FALSE
    BY <1>1
  <2>1. <<s[i], s[j]>> \in R
    BY DEF Listed
  <2>. QED  BY <1>1, <2>1 DEF OneWay
<1>6. s \in Injection(1 .. Len(s), S)
  BY <1>2, <1>5 DEF Injection, IsInjective
<1>7. IsFiniteSet(1 .. Len(s)) /\ Cardinality(1 .. Len(s)) = Len(s)
  <2>1. \A n \in Nat : IsFiniteSet(1 .. n) /\ Cardinality(1 .. n) = n
    BY FS_Interval
  <2>. QED  BY <1>1, <2>1
<1>8. Cardinality(S) = Cardinality(1 .. Len(s))
  BY <1>4, <1>6, <1>7, FS_Surjection
<1>. QED  BY <1>2, <1>7, <1>8

\* In particular there is such a sequence.
LEMMA InOrderExists ==
    ASSUME NEW S, IsFiniteSet(S), NEW R, Linear(S, R)
    PROVE  \E s \in [1 .. Cardinality(S) -> S] :
              \A i, j \in DOMAIN s : i < j => <<s[i], s[j]>> \in R
<1>1. PICK s : Listed(s, S, R)
  BY ListedExists
<1>2. Len(s) = Cardinality(S) /\ s \in [1 .. Cardinality(S) -> S]
  BY <1>1, ListedLen DEF Linear
<1>. QED  BY <1>1, <1>2 DEF Listed

\* A sequence of the set's length that is in order lists the set.
LEMMA InOrderListed ==
    ASSUME NEW S, IsFiniteSet(S), NEW R, OneWay(S, R),
           NEW s \in [1 .. Cardinality(S) -> S],
           \A i, j \in DOMAIN s : i < j => <<s[i], s[j]>> \in R
    PROVE  Listed(s, S, R)
<1>1. Cardinality(S) \in Nat
  BY FS_CardinalityType
<1>2. s \in Seq(S) /\ Len(s) = Cardinality(S)
  BY <1>1
<1>3. \A i, j \in DOMAIN s : s[i] = s[j] => i = j
  <2>. SUFFICES ASSUME NEW i \in DOMAIN s, NEW j \in DOMAIN s, i < j, s[i] = s[j]
                PROVE  FALSE
    BY <1>1
  <2>. QED  BY DEF OneWay
<1>4. s \in Injection(1 .. Cardinality(S), S)
  BY <1>3 DEF Injection, IsInjective
<1>5. Cardinality(1 .. Cardinality(S)) = Cardinality(S)
  BY <1>1, FS_Interval
<1>6. s \in Surjection(1 .. Cardinality(S), S)
  BY <1>4, <1>5, FS_Injection
<1>. QED  BY <1>2, <1>6 DEF Listed, Surjection

-----------------------------------------------------------------------------
(* FlattenSeq, which is defined by recursion.                              *)

\* One step of the recursion, over the function f it defines.
Flat(ls, f, i) == IF i = 1 THEN ls[i] ELSE f[i - 1] \o ls[i]

\* Some function satisfies the recursion of FlattenSeq.
LEMMA FlatExists ==
    ASSUME NEW ls, NEW n \in Nat
    PROVE  \E f : f = [i \in 1 .. n |-> Flat(ls, f, i)]
<1>. DEFINE Has(k) == \E f : f = [i \in 1 .. k |-> Flat(ls, f, i)]
            G == {k \in 0 .. n : Has(k)}
<1>1. 0 \in G
  <2>1. << >> = [i \in 1 .. 0 |-> Flat(ls, << >>, i)]
    OBVIOUS
  <2>2. Has(0)
    BY <2>1
  <2>. HIDE DEF Has
  <2>. QED  BY <2>2
<1>2. ASSUME NEW k \in 0 .. n - 1, k \in G  PROVE k + 1 \in G
  <2>1. PICK f : f = [i \in 1 .. k |-> Flat(ls, f, i)]
    BY <1>2
  <2>2. PICK h : h = [i \in 1 .. k + 1 |-> IF i = k + 1 THEN Flat(ls, f, i) ELSE f[i]]
    OBVIOUS
  <2>3. \A i \in 1 .. k + 1 : i # 1 => i - 1 \in 1 .. k /\ h[i - 1] = f[i - 1]
    BY <2>2
  <2>4. \A i \in 1 .. k + 1 : Flat(ls, h, i) = Flat(ls, f, i)
    BY <2>3 DEF Flat
  <2>5. \A i \in 1 .. k + 1 : h[i] = Flat(ls, f, i)
    <3>1. \A i \in 1 .. k : f[i] = Flat(ls, f, i)
      BY <2>1
    <3>2. \A i \in 1 .. k + 1 : i = k + 1 \/ i \in 1 .. k
      OBVIOUS
    <3>. QED  BY <2>2, <3>1, <3>2
  <2>6. h = [i \in 1 .. k + 1 |-> h[i]]
    BY <2>2
  <2>7. h = [i \in 1 .. k + 1 |-> Flat(ls, h, i)]
    BY <2>4, <2>5, <2>6
  <2>8. Has(k + 1)
    BY <2>7
  <2>. HIDE DEF Has
  <2>. QED  BY <2>8
<1>3. n \in G
  <2>. HIDE DEF G
  <2>. QED  BY <1>1, <1>2, IntervalInduction
<1>. QED  BY <1>3

\* FlattenSeq puts its sequences one behind the other.
LEMMA FlattenIs ==
    ASSUME NEW ls, NEW n \in Nat \ {0}, Len(ls) = n
    PROVE  \E f : /\ FlattenSeq(ls) = f[n]
                  /\ \A i \in 1 .. n : f[i] = Flat(ls, f, i)
<1>. DEFINE F == CHOOSE f : f = [i \in 1 .. n |-> Flat(ls, f, i)]
<1>1. F = [i \in 1 .. n |-> Flat(ls, F, i)]
  BY FlatExists
<1>2. FlattenSeq(ls) = F[n]
  BY DEF FlattenSeq, Flat
<1>. HIDE DEF F
<1>. QED  BY <1>1, <1>2

\* Lists of sets that follow each other make one list.
LEMMA FlattenListed ==
    ASSUME NEW n \in Nat, NEW ls, Len(ls) = n, n = 0 => ls = <<>>, NEW A, NEW R,
           \A i \in 1 .. n : Listed(ls[i], A[i], R),
           \A i, j \in 1 .. n : i < j => \A x \in A[i], y \in A[j] : <<x, y>> \in R
    PROVE  Listed(FlattenSeq(ls), UNION {A[i] : i \in 1 .. n}, R)
<1>1. CASE n = 0
  <2>1. FlattenSeq(ls) = <<>> /\ UNION {A[i] : i \in 1 .. n} = {}
    BY <1>1 DEF FlattenSeq
  <2>. QED  BY <2>1, ListedEmpty
<1>2. CASE n # 0
  <2>1. PICK f : /\ FlattenSeq(ls) = f[n]
                 /\ \A i \in 1 .. n : f[i] = Flat(ls, f, i)
    BY <1>2, FlattenIs
  <2>. DEFINE U(k) == UNION {A[i] : i \in 1 .. k}
              G == {k \in 0 .. n : k # 0 => Listed(f[k], U(k), R)}
  <2>2. 0 \in G
    OBVIOUS
  <2>3. ASSUME NEW k \in 0 .. n - 1, k \in G  PROVE k + 1 \in G
    <3>1. k + 1 \in 1 .. n /\ Listed(ls[k + 1], A[k + 1], R)
      OBVIOUS
    <3>2. U(k + 1) = U(k) \union A[k + 1]
      <4>1. \A i \in 1 .. k + 1 : i \in 1 .. k \/ i = k + 1
        OBVIOUS
      <4>2. \A i \in 1 .. k : i \in 1 .. k + 1
        OBVIOUS
      <4>. QED  BY <4>1, <4>2
    <3>3. CASE k = 0
      <4>1. f[k + 1] = ls[k + 1] /\ U(k) = {}
        BY <2>1, <3>1, <3>3 DEF Flat
      <4>2. U(k + 1) = A[k + 1]
        BY <3>2, <4>1
      <4>3. Listed(f[k + 1], U(k + 1), R)
        <5>. HIDE DEF U
        <5>. QED  BY <3>1, <4>1, <4>2
      <4>. HIDE DEF U
      <4>. QED  BY <4>3
    <3>4. CASE k # 0
      <4>1. f[k + 1] = f[k] \o ls[k + 1]
        <5>1. k + 1 # 1 /\ (k + 1) - 1 = k
          BY <3>4
        <5>. QED  BY <2>1, <3>1, <5>1 DEF Flat
      <4>2. Listed(f[k], U(k), R)
        <5>. HIDE DEF U
        <5>. QED  BY <2>3, <3>4
      <4>3. ASSUME NEW x \in U(k), NEW y \in A[k + 1]  PROVE <<x, y>> \in R
        <5>1. PICK i \in 1 .. k : x \in A[i]
          OBVIOUS
        <5>2. i \in 1 .. n /\ i < k + 1
          BY <3>1
        <5>. QED  BY <3>1, <5>1, <5>2
      <4>4. Listed(f[k + 1], U(k) \union A[k + 1], R)
        <5>. HIDE DEF U
        <5>. QED  BY <3>1, <4>1, <4>2, <4>3, ListedConcat
      <4>5. Listed(f[k + 1], U(k + 1), R)
        <5>. HIDE DEF U
        <5>. QED  BY <3>2, <4>4
      <4>. HIDE DEF U
      <4>. QED  BY <4>5
    <3>. QED  BY <3>3, <3>4
  <2>4. n \in G
    <3>. HIDE DEF G
    <3>. QED  BY <2>2, <2>3, IntervalInduction
  <2>. HIDE DEF U
  <2>5. Listed(f[n], U(n), R)
    BY <1>2, <2>4
  <2>. QED  BY <2>1, <2>5 DEF U
<1>. QED  BY <1>1, <1>2

Images(g, S) == {g[x] : x \in S}
Through(g, s) == [k \in 1 .. Len(s) |-> g[s[k]]]

\* A list of the images of the elements, if the images come in the same order.
LEMMA ListedMap ==
    ASSUME NEW S, NEW R, NEW Q, NEW s, Listed(s, S, R), NEW g,
           \A x, y \in S : <<x, y>> \in R => <<g[x], g[y]>> \in Q
    PROVE  Listed(Through(g, s), Images(g, S), Q)
<1>1. s \in Seq(S) /\ Len(s) \in Nat /\ \A i \in 1 .. Len(s) : s[i] \in S
  <2>1. s \in Seq(S)
    BY DEF Listed
  <2>. QED  BY <2>1
<1>2. PICK t : t = [k \in 1 .. Len(s) |-> g[s[k]]]
  OBVIOUS
<1>0. PICK T : T = {g[x] : x \in S}
  OBVIOUS
<1>3. t \in Seq(T) /\ Len(t) = Len(s)
  <2>1. \A k \in 1 .. Len(s) : g[s[k]] \in T
    BY <1>0, <1>1
  <2>2. t \in [1 .. Len(s) -> T]
    BY <1>2, <2>1
  <2>. QED  BY <1>1, <2>2
<1>4. ASSUME NEW y \in T  PROVE \E i \in 1 .. Len(t) : t[i] = y
  <2>1. PICK x \in S : y = g[x]
    BY <1>0
  <2>2. PICK i \in 1 .. Len(s) : s[i] = x
    BY DEF Listed
  <2>. QED  BY <1>2, <1>3, <2>1, <2>2
<1>5. ASSUME NEW i \in 1 .. Len(t), NEW j \in 1 .. Len(t), i < j
      PROVE  <<t[i], t[j]>> \in Q
  <2>1. <<s[i], s[j]>> \in R
    BY <1>3, <1>5 DEF Listed
  <2>. QED  BY <1>1, <1>2, <1>3, <2>1
<1>6. Listed(t, T, Q)
  BY <1>3, <1>4, <1>5 DEF Listed
<1>. QED  BY <1>0, <1>2, <1>6 DEF Through, Images

-----------------------------------------------------------------------------
(* The scan of a bitmap lists the marked prices, best first.               *)

PriceRel(side) == {r \in Int \X Int : IF side = "buy" THEN r[1] > r[2] ELSE r[1] < r[2]}

\* Prices are linearly ordered, best first.
LEMMA PriceLinear ==
    ASSUME NEW side, NEW S, S \subseteq Int
    PROVE  Linear(S, PriceRel(side))
<1>1. \A x, y \in S : <<x, y>> \in PriceRel(side) <=> IF side = "buy" THEN x > y ELSE x < y
  BY DEF PriceRel
<1>2. \A x \in S : x \in Int
  OBVIOUS
<1>. QED  BY <1>1, <1>2 DEF Linear, OneWay

\* The bits of a word, or any finite set of numbers.
LEMMA ScanListed ==
    ASSUME NEW side, NEW word, word \subseteq Int, IsFiniteSet(word)
    PROVE  Listed(Scan(side, word), word, PriceRel(side))
<1>1. Linear(word, PriceRel(side))
  BY PriceLinear
<1>2. PICK n : n = Cardinality(word)
  OBVIOUS
<1>3. \A x, y \in word : <<x, y>> \in PriceRel(side) <=> IF side = "buy" THEN x > y ELSE x < y
  BY DEF PriceRel
<1>4. \E s \in [1 .. n -> word] :
         \A i, j \in DOMAIN s : i < j => IF side = "buy" THEN s[i] > s[j] ELSE s[i] < s[j]
  <2>1. PICK s \in [1 .. n -> word] :
            \A i, j \in DOMAIN s : i < j => <<s[i], s[j]>> \in PriceRel(side)
    BY <1>1, <1>2, InOrderExists
  <2>2. \A i \in DOMAIN s : s[i] \in word
    OBVIOUS
  <2>. QED  BY <1>3, <2>1, <2>2
<1>5. PICK t : t = Scan(side, word)
  OBVIOUS
<1>6. /\ t \in [1 .. n -> word]
      /\ \A i, j \in DOMAIN t : i < j => IF side = "buy" THEN t[i] > t[j] ELSE t[i] < t[j]
  BY <1>2, <1>4, <1>5 DEF Scan, SortedBy
<1>7. \A i, j \in DOMAIN t : i < j => <<t[i], t[j]>> \in PriceRel(side)
  <2>1. \A i \in DOMAIN t : t[i] \in word
    BY <1>6
  <2>. QED  BY <1>3, <1>6, <2>1
<1>8. Listed(t, word, PriceRel(side))
  BY <1>1, <1>2, <1>6, <1>7, InOrderListed DEF Linear
<1>. QED  BY <1>5, <1>8

\* The numbers whose last digit is in a word.
LEMMA BelowListed ==
    ASSUME NEW side, NEW i \in Nat, NEW word \in Word
    PROVE  Listed(Below(side, i, word), {i * WordBits + b : b \in word}, PriceRel(side))
<1>1. word \subseteq Int /\ IsFiniteSet(word) /\ WordBits \in Nat
  <2>1. word \in SUBSET (0 .. WordBits - 1) /\ WordBits \in Nat
    BY BitmapAssumption DEF Word
  <2>2. IsFiniteSet(0 .. WordBits - 1)
    BY <2>1, FS_Interval
  <2>3. IsFiniteSet(word)
    BY <2>1, <2>2, FS_Subset
  <2>. QED  BY <2>1, <2>3
<1>2. PICK s : s = Scan(side, word)
  OBVIOUS
<1>3. Listed(s, word, PriceRel(side))
  BY <1>1, <1>2, ScanListed
<1>4. PICK g : g = [b \in word |-> i * WordBits + b]
  OBVIOUS
<1>5. PICK T : T = {g[b] : b \in word}
  OBVIOUS
<1>6. T = {i * WordBits + b : b \in word}
  BY <1>4, <1>5
<1>7. ASSUME NEW x \in word, NEW y \in word, <<x, y>> \in PriceRel(side)
      PROVE  <<g[x], g[y]>> \in PriceRel(side)
  <2>1. x \in Int /\ y \in Int /\ i * WordBits \in Int
    BY <1>1
  <2>. QED  BY <1>4, <1>7, <2>1 DEF PriceRel
<1>8. Listed([k \in 1 .. Len(s) |-> g[s[k]]], T, PriceRel(side))
  <2>1. \A x, y \in word : <<x, y>> \in PriceRel(side) => <<g[x], g[y]>> \in PriceRel(side)
    BY <1>7
  <2>4. Listed(Through(g, s), Images(g, word), PriceRel(side))
    BY <1>3, <2>1, ListedMap
  <2>5. Through(g, s) = [k \in 1 .. Len(s) |-> g[s[k]]] /\ Images(g, word) = T
    BY <1>5 DEF Through, Images
  <2>. QED  BY <2>4, <2>5
<1>9. [k \in 1 .. Len(s) |-> g[s[k]]] = Below(side, i, word)
  <2>1. s \in Seq(word)
    BY <1>3 DEF Listed
  <2>2. \A k \in 1 .. Len(s) : s[k] \in word
    BY <2>1
  <2>3. \A k \in 1 .. Len(s) : g[s[k]] = i * WordBits + s[k]
    BY <1>4, <2>2
  <2>. QED  BY <1>2, <2>3 DEF Below
<1>. QED  BY <1>6, <1>8, <1>9

\* A level of the bitmap below a list of the words that are not zero.
Under(J, w) == {x \in Nat : x \div WordBits \in J /\ x % WordBits \in w[x \div WordBits]}

\* Concatenating the scans of the words lists the level below.
LEMMA LevelListed ==
    ASSUME NEW side, NEW J, J \subseteq Nat, NEW js, Listed(js, J, PriceRel(side)),
           NEW w, \A j \in J : w[j] \in Word
    PROVE  Listed(FlattenSeq([k \in 1 .. Len(js) |-> Below(side, js[k], w[js[k]])]),
                  Under(J, w), PriceRel(side))
<1>1. js \in Seq(J) /\ Len(js) \in Nat /\ \A k \in 1 .. Len(js) : js[k] \in J /\ js[k] \in Nat
  <2>1. js \in Seq(J)
    BY DEF Listed
  <2>2. Len(js) \in Nat /\ \A k \in 1 .. Len(js) : js[k] \in J
    BY <2>1
  <2>. QED  BY <2>1, <2>2
<1>2. PICK n, ls, A : /\ n = Len(js)
                      /\ ls = [k \in 1 .. n |-> Below(side, js[k], w[js[k]])]
                      /\ A = [k \in 1 .. n |-> {js[k] * WordBits + b : b \in w[js[k]]}]
  OBVIOUS
<1>3. n \in Nat /\ Len(ls) = n /\ (n = 0 => ls = <<>>)
  BY <1>1, <1>2
<1>4. ASSUME NEW k \in 1 .. n  PROVE Listed(ls[k], A[k], PriceRel(side))
  BY <1>1, <1>2, BelowListed
<1>5. WordBits \in Nat \ {0} /\ \A j \in J : \A b \in w[j] : b \in 0 .. WordBits - 1
  BY BitmapAssumption DEF Word
<1>6. ASSUME NEW i \in Nat, NEW j \in Nat, NEW b \in 0 .. WordBits - 1,
             NEW c \in 0 .. WordBits - 1, i < j
      PROVE  i * WordBits + b < j * WordBits + c
  <2>1. i * WordBits + WordBits <= j * WordBits
    BY <1>5, <1>6
  <2>. QED  BY <1>5, <2>1
<1>7. ASSUME NEW k \in 1 .. n, NEW l \in 1 .. n, k < l, NEW x \in A[k], NEW y \in A[l]
      PROVE  <<x, y>> \in PriceRel(side)
  <2>1. <<js[k], js[l]>> \in PriceRel(side)
    BY <1>2, <1>7 DEF Listed
  <2>2. PICK b \in w[js[k]], c \in w[js[l]] : x = js[k] * WordBits + b /\ y = js[l] * WordBits + c
    BY <1>2
  <2>3. /\ js[k] \in Nat /\ js[l] \in Nat
        /\ b \in 0 .. WordBits - 1 /\ c \in 0 .. WordBits - 1
    BY <1>1, <1>2, <1>5
  <2>4. IF side = "buy" THEN js[k] > js[l] ELSE js[k] < js[l]
    BY <2>1, <2>3 DEF PriceRel
  <2>5. IF side = "buy" THEN x > y ELSE x < y
    BY <1>6, <2>2, <2>3, <2>4
  <2>6. x \in Int /\ y \in Int
    BY <1>5, <2>2, <2>3
  <2>. QED  BY <2>5, <2>6 DEF PriceRel
<1>8. Listed(FlattenSeq(ls), UNION {A[k] : k \in 1 .. n}, PriceRel(side))
  BY <1>3, <1>4, <1>7, FlattenListed
<1>9. UNION {A[k] : k \in 1 .. n} = Under(J, w)
  <2>1. ASSUME NEW k \in 1 .. n, NEW x \in A[k]  PROVE x \in Under(J, w)
    <3>1. PICK b \in w[js[k]] : x = js[k] * WordBits + b
      BY <1>2
    <3>2. js[k] \in Nat /\ js[k] \in J /\ b \in 0 .. WordBits - 1
      BY <1>1, <1>2, <1>5
    <3>3. \A a \in Nat : /\ a * WordBits + b \in Nat
                         /\ (a * WordBits + b) \div WordBits = a
                         /\ (a * WordBits + b) % WordBits = b
      <4>. SUFFICES ASSUME NEW a \in Nat
                    PROVE  /\ a * WordBits + b \in Nat
                           /\ (a * WordBits + b) \div WordBits = a
                           /\ (a * WordBits + b) % WordBits = b
        OBVIOUS
      <4>1. a * WordBits + b \in Nat
        BY <1>5, <3>2
      <4>. QED  BY <1>5, <3>2, <4>1, DivModUnique
    <3>4. x \in Nat /\ x \div WordBits = js[k] /\ x % WordBits = b
      BY <3>1, <3>2, <3>3
    <3>. QED  BY <3>2, <3>4 DEF Under
  <2>2. ASSUME NEW x \in Under(J, w)  PROVE \E k \in 1 .. n : x \in A[k]
    <3>1. x \in Nat /\ x \div WordBits \in J /\ x % WordBits \in w[x \div WordBits]
      BY DEF Under
    <3>2. PICK k \in 1 .. n : js[k] = x \div WordBits
      BY <1>2, <3>1 DEF Listed
    <3>3. x = (x \div WordBits) * WordBits + (x % WordBits)
      BY <1>5, <3>1, DivMod
    <3>. QED  BY <1>2, <3>1, <3>2, <3>3
  <2>. QED  BY <2>1, <2>2
<1>. QED  BY <1>2, <1>8, <1>9

\* The three nested loops meet the marked prices, each once, best first.
LEMMA PricesListed ==
    ASSUME NEW side, WellFormed(bitmaps[side])
    PROVE  Listed(PricesFound(side), Marked(bitmaps[side]), PriceRel(side))
<1>1. PICK m : m = bitmaps[side]
  OBVIOUS
<1>2. WellFormed(m)
  BY <1>1
<1>3. WordBits \in Nat \ {0} /\ BITMAP_L1_SIZE \in Nat /\ BITMAP_L2_SIZE \in Nat
  BY Sizes
<1>4. /\ m.l3 \subseteq 0 .. BITMAP_L2_SIZE - 1
      /\ \A j \in m.l3 : m.l2[j] \in Word
  BY <1>2 DEF WellFormed, InRange, Bitmap
<1>5. PICK l2 : l2 = Scan(side, m.l3)
  OBVIOUS
<1>6. Listed(l2, m.l3, PriceRel(side))
  <2>1. IsFiniteSet(0 .. BITMAP_L2_SIZE - 1)
    BY <1>3, FS_Interval
  <2>2. IsFiniteSet(m.l3) /\ m.l3 \subseteq Int
    BY <1>3, <1>4, <2>1, FS_Subset
  <2>. QED  BY <1>5, <2>2, ScanListed
<1>7. PICK l1 : l1 = FlattenSeq([k \in 1 .. Len(l2) |-> Below(side, l2[k], m.l2[l2[k]])])
  OBVIOUS
<1>8. PICK J : J = Under(m.l3, m.l2)
  OBVIOUS
<1>9. Listed(l1, J, PriceRel(side))
  <2>1. m.l3 \subseteq Nat
    BY <1>3, <1>4
  <2>. QED  BY <1>4, <1>6, <1>7, <1>8, <2>1, LevelListed
<1>10. J \subseteq 0 .. BITMAP_L1_SIZE - 1
  <2>. SUFFICES ASSUME NEW x \in J  PROVE x \in 0 .. BITMAP_L1_SIZE - 1
    OBVIOUS
  <2>1. x \in Nat /\ x \div WordBits \in m.l3 /\ x % WordBits \in m.l2[x \div WordBits]
    BY <1>8 DEF Under
  <2>2. x = (x \div WordBits) * WordBits + (x % WordBits)
    BY <1>3, <2>1, DivMod
  <2>. QED  BY <1>2, <1>4, <2>1, <2>2 DEF WellFormed, InRange
<1>11. \A j \in J : m.l1[j] \in Word
  BY <1>2, <1>10 DEF WellFormed, Bitmap
<1>12. PICK ps : ps = FlattenSeq([k \in 1 .. Len(l1) |-> Below(side, l1[k], m.l1[l1[k]])])
  OBVIOUS
<1>13. Listed(ps, Under(J, m.l1), PriceRel(side))
  <2>1. J \subseteq Nat
    BY <1>3, <1>10
  <2>. QED  BY <1>9, <1>11, <1>12, <2>1, LevelListed
<1>14. Under(J, m.l1) = Marked(m)
  <2>1. ASSUME NEW x \in Under(J, m.l1)  PROVE x \in Marked(m)
    <3>1. x \in Nat /\ x \div WordBits \in J /\ x % WordBits \in m.l1[x \div WordBits]
      BY DEF Under
    <3>2. x = (x \div WordBits) * WordBits + (x % WordBits)
      BY <1>3, <3>1, DivMod
    <3>3. x \in Price
      BY <1>2, <1>10, <3>1, <3>2 DEF WellFormed, InRange
    <3>. QED  BY <3>1, <3>3 DEF Marked, L1Bit, L1Idx
  <2>2. ASSUME NEW p \in Marked(m)  PROVE p \in Under(J, m.l1)
    <3>1. /\ p \in Price /\ L2Idx(p) \in m.l3 /\ L2Bit(p) \in m.l2[L2Idx(p)]
          /\ L1Bit(p) \in m.l1[L1Idx(p)]
      BY <1>2, MarkedPath
    <3>2. p \in Nat /\ L1Idx(p) \in Nat
      BY <1>3, <3>1, Indices
    <3>3. L1Idx(p) \in J
      BY <1>8, <3>1, <3>2 DEF Under, L2Idx, L2Bit
    <3>. QED  BY <3>1, <3>2, <3>3 DEF Under, L1Idx, L1Bit
  <2>. QED  BY <2>1, <2>2
<1>15. PricesFound(side) = ps
  BY <1>1, <1>5, <1>7, <1>12 DEF PricesFound
<1>. QED  BY <1>1, <1>13, <1>14, <1>15

-----------------------------------------------------------------------------
(* The list of a price, followed from its head, is its orders by arrival.  *)

SeqRel == {r \in Slots \X Slots : nodes[r[1]].seq < nodes[r[2]].seq}

\* The orders of a price that are not older than the one in slot i.
Since(sd, pr, i) ==
    {t \in At(sd, pr) : i # NULL_IDX /\ nodes[i].seq <= nodes[t].seq}

\* The next order of a list is the first one that is younger.
LEMMA Successor ==
    ASSUME TypeOK, Linked, ByArrival, NEW sd \in Sides, NEW pr \in Price,
           NEW i \in At(sd, pr), NEW nxt, nxt = nodes[i].next
    PROVE  /\ nxt \in At(sd, pr) \union {NULL_IDX}
           /\ i \notin Since(sd, pr, nxt)
           /\ Since(sd, pr, i) = {i} \union Since(sd, pr, nxt)
           /\ \A y \in Since(sd, pr, nxt) : <<i, y>> \in SeqRel
<1>0. nodes[i].next = NULL_IDX <=> i = lists[sd][pr].tail
  BY Neighbours
<1>1. \A t \in At(sd, pr) : t \in Slots /\ t # NULL_IDX /\ nodes[t].seq \in Nat
  BY Neighbours
<1>2. nxt # NULL_IDX => nxt \in At(sd, pr) /\ nodes[nxt].prev = i
  BY Neighbours
<1>3. nxt # NULL_IDX => nodes[i].seq < nodes[nxt].seq
  <2>. SUFFICES ASSUME nxt # NULL_IDX PROVE nodes[i].seq < nodes[nxt].seq
    OBVIOUS
  <2>1. nxt \in At(sd, pr) /\ nodes[nxt].prev = i /\ i # NULL_IDX
    BY <1>1, <1>2
  <2>2. nodes[nodes[nxt].prev].seq < nodes[nxt].seq
    BY <2>1, Neighbours
  <2>. QED  BY <2>1, <2>2
<1>4. ASSUME NEW t \in At(sd, pr), t # i, nodes[i].seq <= nodes[t].seq
      PROVE  nxt # NULL_IDX /\ nodes[nxt].seq <= nodes[t].seq
  <2>1. nodes[t].seq # nodes[i].seq /\ nodes[t].seq <= nodes[lists[sd][pr].tail].seq
    BY <1>4, Ordered
  <2>2. nxt # NULL_IDX
    <3>. SUFFICES ASSUME nxt = NULL_IDX PROVE FALSE
      OBVIOUS
    <3>1. lists[sd][pr].tail = i
      BY <1>0
    <3>. QED  BY <1>1, <1>4, <2>1, <3>1
  <2>3. CASE t = nxt
    BY <1>1, <2>2, <2>3
  <2>4. CASE t # nxt
    <3>1. nodes[t].seq < nodes[nxt].seq => nodes[t].seq <= nodes[nodes[nxt].prev].seq
      BY <1>2, <2>2, <2>4, Ordered
    <3>2. nodes[nxt].prev = i /\ nodes[nxt].seq \in Nat /\ nodes[i].seq \in Nat /\ nodes[t].seq \in Nat
      BY <1>1, <1>2, <2>2
    <3>3. ~ (nodes[t].seq < nodes[nxt].seq)
      BY <1>4, <2>1, <3>1, <3>2
    <3>. QED  BY <2>2, <3>2, <3>3
  <2>. QED  BY <2>3, <2>4
<1>5. ASSUME NEW t \in Since(sd, pr, nxt)  PROVE nodes[i].seq < nodes[t].seq
  <2>1. /\ t \in At(sd, pr) /\ nxt \in At(sd, pr) /\ nodes[i].seq < nodes[nxt].seq
        /\ nodes[nxt].seq <= nodes[t].seq
    BY <1>2, <1>3 DEF Since
  <2>2. nodes[t].seq \in Nat /\ nodes[nxt].seq \in Nat /\ nodes[i].seq \in Nat
    BY <1>1, <2>1
  <2>. QED  BY <2>1, <2>2
<1>6. i \notin Since(sd, pr, nxt)
  BY <1>1, <1>5
<1>7. Since(sd, pr, i) = {i} \union Since(sd, pr, nxt)
  <2>1. ASSUME NEW t \in Since(sd, pr, i), t # i  PROVE t \in Since(sd, pr, nxt)
    BY <1>4, <2>1 DEF Since
  <2>2. ASSUME NEW t \in Since(sd, pr, nxt)  PROVE t \in Since(sd, pr, i)
    <3>1. t \in At(sd, pr)
      BY DEF Since
    <3>. QED  BY <1>1, <1>5, <3>1 DEF Since
  <2>3. i \in Since(sd, pr, i)
    BY <1>1 DEF Since
  <2>. QED  BY <2>1, <2>2, <2>3
<1>8. \A y \in Since(sd, pr, nxt) : <<i, y>> \in SeqRel
  <2>1. \A y \in Since(sd, pr, nxt) : y \in At(sd, pr)
    BY DEF Since
  <2>. QED  BY <1>1, <1>5, <2>1 DEF SeqRel
<1>. QED  BY <1>2, <1>6, <1>7, <1>8

\* One step of the recursion of Chain, over the function f it defines.
Walk(f, n) == [i \in Links |-> IF n = 0 \/ i = NULL_IDX THEN <<>>
                               ELSE <<i>> \o f[n - 1][nodes[i].next]]

\* Some function satisfies the recursion of Chain.
LEMMA WalkExists == \E f : f = [n \in 0 .. MaxOrders |-> Walk(f, n)]
<1>. DEFINE Has(k) == \E f : f = [n \in 0 .. k |-> Walk(f, n)]
            G == {k \in 0 .. MaxOrders : Has(k)}
<1>0. MaxOrders \in Nat
  BY OrderBookAssumption
<1>1. 0 \in G
  <2>1. PICK f : f = [n \in 0 .. 0 |-> [i \in Links |-> <<>>]]
    OBVIOUS
  <2>2. \A n \in 0 .. 0 : Walk(f, n) = [i \in Links |-> <<>>]
    BY DEF Walk
  <2>3. f = [n \in 0 .. 0 |-> Walk(f, n)]
    BY <2>1, <2>2
  <2>4. Has(0)
    BY <2>3
  <2>. HIDE DEF Has
  <2>. QED  BY <1>0, <2>4
<1>2. ASSUME NEW k \in 0 .. MaxOrders - 1, k \in G  PROVE k + 1 \in G
  <2>1. PICK f : f = [n \in 0 .. k |-> Walk(f, n)]
    BY <1>2
  <2>2. PICK h : h = [n \in 0 .. k + 1 |-> IF n = k + 1 THEN Walk(f, n) ELSE f[n]]
    OBVIOUS
  <2>3. \A n \in 0 .. k + 1 : n # 0 => n - 1 \in 0 .. k /\ n - 1 \in 0 .. k + 1 /\ n - 1 # k + 1
    BY <1>0
  <2>4. \A n \in 0 .. k + 1 : n # 0 => h[n - 1] = f[n - 1]
    BY <2>2, <2>3
  <2>5. \A n \in 0 .. k + 1 : Walk(h, n) = Walk(f, n)
    BY <2>4 DEF Walk
  <2>6. \A n \in 0 .. k + 1 : h[n] = Walk(f, n)
    <3>1. \A n \in 0 .. k : f[n] = Walk(f, n)
      BY <2>1
    <3>2. \A n \in 0 .. k + 1 : n = k + 1 \/ n \in 0 .. k
      BY <1>0
    <3>. QED  BY <2>2, <3>1, <3>2
  <2>7. h = [n \in 0 .. k + 1 |-> h[n]]
    BY <2>2
  <2>8. h = [n \in 0 .. k + 1 |-> Walk(h, n)]
    BY <2>5, <2>6, <2>7
  <2>9. Has(k + 1)
    BY <2>8
  <2>10. k + 1 \in 0 .. MaxOrders
    BY <1>0
  <2>. HIDE DEF Has
  <2>. QED  BY <2>9, <2>10
<1>3. MaxOrders \in G
  <2>. HIDE DEF G
  <2>. QED  BY <1>0, <1>1, <1>2, IntervalInduction
<1>. QED  BY <1>3

\* Chain satisfies its recursion.
LEMMA ChainIs ==
    \E f : /\ \A i \in Links : Chain(i) = f[MaxOrders][i]
           /\ \A n \in 0 .. MaxOrders : f[n] = Walk(f, n)
<1>. DEFINE F == CHOOSE f : f = [n \in 0 .. MaxOrders |-> Walk(f, n)]
<1>1. F = [n \in 0 .. MaxOrders |-> Walk(F, n)]
  BY WalkExists
<1>2. \A i \in Links : Chain(i) = F[MaxOrders][i]
  BY DEF Chain, Walk
<1>. HIDE DEF F
<1>. QED  BY <1>1, <1>2

\* From the head of a price the links lead to its orders, oldest first.
LEMMA ChainListed ==
    ASSUME TypeOK, Linked, ByArrival, Counted, NEW sd \in Sides, NEW pr \in Price
    PROVE  Listed(Chain(lists[sd][pr].head), At(sd, pr), SeqRel)
<1>0. MaxOrders \in Nat
  BY OrderBookAssumption
<1>1. PICK f : /\ \A i \in Links : Chain(i) = f[MaxOrders][i]
               /\ \A n \in 0 .. MaxOrders : f[n] = Walk(f, n)
  BY ChainIs
<1>2. At(sd, pr) \subseteq Slots /\ NULL_IDX \notin At(sd, pr) /\ Slots \subseteq Links
  BY Neighbours DEF At, Links
<1>3. \A n \in 0 .. MaxOrders : f[n][NULL_IDX] = <<>>
  BY <1>1 DEF Walk, Links
<1>4. \A n \in 0 .. MaxOrders : Listed(f[n][NULL_IDX], Since(sd, pr, NULL_IDX), SeqRel)
  <2>1. Since(sd, pr, NULL_IDX) = {}
    BY DEF Since
  <2>. QED  BY <1>3, <2>1, ListedEmpty
<1>5. \A i : /\ IsFiniteSet(Since(sd, pr, i))
             /\ Cardinality(Since(sd, pr, i)) \in 0 .. MaxOrders
  <2>. SUFFICES ASSUME NEW i
                PROVE  /\ IsFiniteSet(Since(sd, pr, i))
                       /\ Cardinality(Since(sd, pr, i)) \in 0 .. MaxOrders
    OBVIOUS
  <2>1. IsFiniteSet(At(sd, pr)) /\ Cardinality(At(sd, pr)) \in 0 .. MaxOrders
    BY FiniteLevels
  <2>2. Since(sd, pr, i) \in SUBSET At(sd, pr)
    BY DEF Since
  <2>3. /\ IsFiniteSet(Since(sd, pr, i))
        /\ Cardinality(Since(sd, pr, i)) <= Cardinality(At(sd, pr))
    BY <2>1, <2>2, FS_Subset
  <2>4. Cardinality(Since(sd, pr, i)) \in Nat
    BY <2>3, FS_CardinalityType
  <2>. QED  BY <1>0, <2>1, <2>3, <2>4
<1>. DEFINE Good(n) == \A i \in At(sd, pr) :
                          Cardinality(Since(sd, pr, i)) <= n =>
                             Listed(f[n][i], Since(sd, pr, i), SeqRel)
            G == {n \in 0 .. MaxOrders : Good(n)}
<1>6. 0 \in G
  <2>1. ASSUME NEW i \in At(sd, pr)  PROVE ~ (Cardinality(Since(sd, pr, i)) <= 0)
    <3>1. i \in Since(sd, pr, i)
      BY Successor
    <3>2. Cardinality(Since(sd, pr, i)) # 0
      BY <1>5, <3>1, FS_EmptySet
    <3>. QED  BY <1>5, <3>2
  <2>2. Good(0)
    BY <2>1
  <2>. HIDE DEF Good
  <2>. QED  BY <1>0, <2>2
<1>7. ASSUME NEW n \in 0 .. MaxOrders - 1, n \in G  PROVE n + 1 \in G
  <2>1. n + 1 \in 0 .. MaxOrders /\ n + 1 # 0 /\ (n + 1) - 1 = n /\ n \in 0 .. MaxOrders
    BY <1>0
  <2>2. ASSUME NEW i \in At(sd, pr), Cardinality(Since(sd, pr, i)) <= n + 1
        PROVE  Listed(f[n + 1][i], Since(sd, pr, i), SeqRel)
    <3>1. PICK nxt : nxt = nodes[i].next
      OBVIOUS
    <3>2. /\ nxt \in At(sd, pr) \union {NULL_IDX}
          /\ i \notin Since(sd, pr, nxt)
          /\ Since(sd, pr, i) = {i} \union Since(sd, pr, nxt)
          /\ \A y \in Since(sd, pr, nxt) : <<i, y>> \in SeqRel
      BY <3>1, Successor
    <3>3. f[n + 1][i] = <<i>> \o f[n][nxt]
      <4>1. i \in Links /\ i # NULL_IDX
        BY <1>2
      <4>2. f[n + 1] = Walk(f, n + 1)
        BY <1>1, <2>1
      <4>. QED  BY <2>1, <3>1, <4>1, <4>2 DEF Walk
    <3>4. Cardinality(Since(sd, pr, nxt)) <= n
      <4>1. Cardinality(Since(sd, pr, nxt) \union {i}) = Cardinality(Since(sd, pr, nxt)) + 1
        BY <1>5, <3>2, FS_AddElement
      <4>3. Since(sd, pr, nxt) \union {i} = Since(sd, pr, i)
        BY <3>2
      <4>2. Cardinality(Since(sd, pr, nxt)) \in Nat
        BY <1>0, <1>5
      <4>4. Cardinality(Since(sd, pr, i)) = Cardinality(Since(sd, pr, nxt)) + 1
        BY <4>1, <4>3
      <4>5. PICK a, b : a = Cardinality(Since(sd, pr, nxt)) /\ b = Cardinality(Since(sd, pr, i))
        OBVIOUS
      <4>6. a \in Nat /\ b = a + 1 /\ b <= n + 1 /\ n \in Int
        BY <1>0, <2>2, <4>2, <4>4, <4>5
      <4>7. a <= n
        BY <4>6
      <4>. QED  BY <4>5, <4>7
    <3>5. Listed(f[n][nxt], Since(sd, pr, nxt), SeqRel)
      <4>1. CASE nxt = NULL_IDX
        BY <1>4, <2>1, <4>1
      <4>2. CASE nxt \in At(sd, pr)
        <5>1. Good(n)
          BY <1>7
        <5>. QED  BY <3>4, <4>2, <5>1
      <4>. QED  BY <3>2, <4>1, <4>2
    <3>6. Listed(<<i>>, {i}, SeqRel)
      BY ListedOne
    <3>7. \A x \in {i}, y \in Since(sd, pr, nxt) : <<x, y>> \in SeqRel
      BY <3>2
    <3>8. Listed(<<i>> \o f[n][nxt], {i} \union Since(sd, pr, nxt), SeqRel)
      BY <3>5, <3>6, <3>7, ListedConcat
    <3>. QED  BY <3>2, <3>3, <3>8
  <2>3. Good(n + 1)
    BY <2>2
  <2>. HIDE DEF Good
  <2>. QED  BY <2>1, <2>3
<1>8. MaxOrders \in G
  <2>. HIDE DEF G
  <2>. QED  BY <1>0, <1>6, <1>7, IntervalInduction
<1>9. PICK h : h = lists[sd][pr].head
  OBVIOUS
<1>10. CASE h = NULL_IDX
  <2>1. At(sd, pr) = {}
    BY <1>9, <1>10, EmptyLevel
  <2>2. Chain(h) = <<>>
    BY <1>0, <1>1, <1>3, <1>10 DEF Links
  <2>. QED  BY <1>9, <2>1, <2>2, ListedEmpty
<1>11. CASE h # NULL_IDX
  <2>1. h \in At(sd, pr)
    BY <1>9, <1>11 DEF Linked, EndsOK
  <2>2. Since(sd, pr, h) = At(sd, pr)
    <3>1. ASSUME NEW t \in At(sd, pr)  PROVE nodes[h].seq <= nodes[t].seq
      <4>1. nodes[h].seq \in Nat /\ nodes[t].seq \in Nat
        BY <2>1, Neighbours
      <4>2. t # h => nodes[h].seq < nodes[t].seq
        BY <1>9, HeadOldest
      <4>. QED  BY <4>1, <4>2
    <3>. QED  BY <1>11, <3>1 DEF Since
  <2>3. Listed(f[MaxOrders][h], Since(sd, pr, h), SeqRel)
    <3>1. Good(MaxOrders)
      BY <1>8
    <3>2. Cardinality(Since(sd, pr, h)) <= MaxOrders
      BY <1>0, <1>5
    <3>. HIDE DEF Good
    <3>3. Good(MaxOrders) /\ h \in At(sd, pr)
      BY <2>1, <3>1
    <3>. QED  BY <3>2, <3>3 DEF Good
  <2>4. Chain(h) = f[MaxOrders][h]
    BY <1>1, <1>2, <2>1
  <2>. QED  BY <1>9, <2>2, <2>3, <2>4
<1>. QED  BY <1>10, <1>11

-----------------------------------------------------------------------------
(* The depth: the prices that have orders, and what rests there.           *)

SlotsOf(side) == {t \in Slots : Active(t) /\ nodes[t].side = side}
PricesWith(side) == {p \in Price : At(side, p) # {}}

\* The slots of the orders at the first m of these prices.
SlotsAt(side, prices, m) == UNION {At(side, prices[k]) : k \in 1 .. m}

\* A prefix, element by element, and its length.
LEMMA PrefixIs ==
    ASSUME NEW n \in Nat, NEW S, NEW s \in [1 .. n -> S], NEW limit \in Nat
    PROVE  /\ Prefix(s, limit) = [k \in 1 .. Smaller(limit, n) |-> s[k]]
           /\ Len(s) = n /\ Smaller(limit, n) \in 0 .. n
<1>3. s \in Seq(S) /\ Len(s) = n
  OBVIOUS
<1>4. PICK m : m = Smaller(limit, n)
  OBVIOUS
<1>5. m \in 0 .. n
  BY <1>4 DEF Smaller
<1>6. SubSeq(s, 1, m) = [k \in 1 .. m |-> s[k]]
  BY <1>3, <1>5
<1>. QED  BY <1>3, <1>4, <1>5, <1>6 DEF Prefix

\* The bitmap marks the prices of the side's orders.
LEMMA PricesMarked ==
    ASSUME BookInv, NEW side \in Sides
    PROVE  /\ Marked(bitmaps[side]) = {o.price : o \in OrdersOf(side)}
           /\ Marked(bitmaps[side]) = PricesWith(side)
           /\ \A s \in SlotsOf(side) : /\ nodes[s].price \in Price
                                       /\ s \in At(side, nodes[s].price)
<1>1. Marked(bitmaps[side]) = {p \in Price : lists[side][p].head # NULL_IDX}
  BY DEF BookInv, Indexed
<1>2. \A p \in Price : lists[side][p].head = NULL_IDX <=> At(side, p) = {}
  BY EmptyLevel DEF BookInv
<1>3. Marked(bitmaps[side]) = {p \in Price : At(side, p) # {}}
  BY <1>1, <1>2
<1>4. \A s \in SlotsOf(side) : nodes[s].price \in Price /\ s \in At(side, nodes[s].price)
  BY DEF BookInv, TypeOK, Node, SlotsOf, At
<1>5. OrdersOf(side) = {OrderAt(s) : s \in SlotsOf(side)}
  BY DEF OrdersOf, SlotsOf
<1>6. \A s : OrderAt(s).price = nodes[s].price
  BY DEF OrderAt
<1>7. {o.price : o \in OrdersOf(side)} = {nodes[s].price : s \in SlotsOf(side)}
  BY <1>5, <1>6
<1>8. {nodes[s].price : s \in SlotsOf(side)} = {p \in Price : At(side, p) # {}}
  <2>1. ASSUME NEW p \in Price, At(side, p) # {}
        PROVE  \E s \in SlotsOf(side) : p = nodes[s].price
    BY <2>1 DEF At, SlotsOf
  <2>. QED  BY <1>4, <2>1
<1>. QED  BY <1>3, <1>4, <1>7, <1>8 DEF PricesWith

\* The scan of the bitmap is the list of the side's prices.
LEMMA PricesScanned ==
    ASSUME BookInv, NEW side \in Sides
    PROVE  /\ PricesFound(side) = Scan(side, {o.price : o \in OrdersOf(side)})
           /\ Listed(PricesFound(side), PricesWith(side), PriceRel(side))
<1>1. PICK P : P = Marked(bitmaps[side])
  OBVIOUS
<1>2. P \subseteq Price /\ P \subseteq Int /\ IsFiniteSet(P)
  <2>1. Price \subseteq Int /\ IsFiniteSet(Price)
    BY BitmapAssumption, FS_Interval DEF Price
  <2>2. P \subseteq Price
    BY <1>1 DEF Marked
  <2>3. IsFiniteSet(P)
    BY <2>1, <2>2, FS_Subset
  <2>. QED  BY <2>1, <2>2, <2>3
<1>3. Listed(PricesFound(side), P, PriceRel(side))
  BY <1>1, PricesListed DEF BookInv, Indexed
<1>4. Listed(Scan(side, P), P, PriceRel(side))
  BY <1>2, ScanListed
<1>5. OneWay(P, PriceRel(side))
  BY <1>2, PriceLinear DEF Linear
<1>6. PricesFound(side) = Scan(side, P)
  BY <1>3, <1>4, <1>5, ListedOnce
<1>. QED  BY <1>1, <1>3, <1>6, PricesMarked

\* The same of a list of prices.
LEMMA PrefixPrices ==
    ASSUME NEW n \in Nat, NEW limit \in Nat, NEW q \in [1 .. n -> Price]
    PROVE  /\ Prefix(q, limit) = [k \in 1 .. Smaller(limit, n) |-> q[k]]
           /\ Smaller(limit, n) \in 0 .. n
<1>1. \A S : \A s \in [1 .. n -> S] :
         /\ Prefix(s, limit) = [k \in 1 .. Smaller(limit, n) |-> s[k]]
         /\ Smaller(limit, n) \in 0 .. n
  BY PrefixIs
<1>. QED  BY <1>1, Zenon

\* Depth, level by level.
LEMMA DepthIs ==
    ASSUME BookInv, NEW side \in Sides, NEW limit \in Nat
    PROVE  \E ps, n, m :
             /\ ps = PricesFound(side) /\ n = Len(ps) /\ m = Smaller(limit, n)
             /\ n \in Nat /\ m \in 0 .. n
             /\ \A k \in 1 .. n : ps[k] \in Price
             /\ Depth(side, limit) = [k \in 1 .. m |->
                                        [price    |-> ps[k],
                                         quantity |-> lists[side][ps[k]].quantity,
                                         orders   |-> lists[side][ps[k]].count]]
<1>. PICK ps, n, m :
       ps = PricesFound(side) /\ n = Len(ps) /\ m = Smaller(limit, n)
  OBVIOUS
<1>1. n \in Nat /\ ps \in [1 .. n -> Price] /\ \A k \in 1 .. n : ps[k] \in Price
  <2>1. ps \in Seq(PricesWith(side))
    BY PricesScanned DEF Listed
  <2>. QED  BY <2>1 DEF PricesWith
<1>2. m \in 0 .. n /\ Prefix(ps, limit) = [k \in 1 .. m |-> ps[k]]
  <2>1. /\ Prefix(ps, limit) = [k \in 1 .. Smaller(limit, n) |-> ps[k]]
        /\ Smaller(limit, n) \in 0 .. n
    BY <1>1, PrefixPrices
  <2>. QED  BY <2>1
<1>3. Len(Prefix(ps, limit)) = m
  BY <1>1, <1>2
<1>4. \A k \in 1 .. m : Prefix(ps, limit)[k] = ps[k]
  BY <1>2
<1>5. Depth(side, limit) = [k \in 1 .. m |->
                             [price    |-> ps[k],
                              quantity |-> lists[side][ps[k]].quantity,
                              orders   |-> lists[side][ps[k]].count]]
  BY <1>1, <1>2, <1>3, <1>4 DEF Depth
<1>. QED  BY <1>1, <1>2, <1>5

\* Depth returns the first levels.
LEMMA DepthExact ==
    ASSUME BookInv, Totalled, NEW side \in Sides, NEW limit \in Nat
    PROVE  Depth(side, limit) = Prefix(Levels(side), limit)
<1>1. PICK ps, n, m :
        /\ ps = PricesFound(side) /\ n = Len(ps) /\ m = Smaller(limit, n)
        /\ n \in Nat /\ m \in 0 .. n
        /\ \A k \in 1 .. n : ps[k] \in Price
        /\ Depth(side, limit) = [k \in 1 .. m |->
                                   [price    |-> ps[k],
                                    quantity |-> lists[side][ps[k]].quantity,
                                    orders   |-> lists[side][ps[k]].count]]
  BY DepthIs
<1>2. n = Len(ps)
  BY <1>1
<1>3. m = Smaller(limit, n)
  BY <1>1
<1>4. PICK d : d = [k \in 1 .. m |->
                        [price    |-> ps[k],
                         quantity |-> lists[side][ps[k]].quantity,
                         orders   |-> lists[side][ps[k]].count]]
  OBVIOUS
<1>5. /\ n \in Nat /\ m \in 0 .. n
      /\ \A k \in 1 .. n : ps[k] \in Price
      /\ Depth(side, limit) = d
  BY <1>1, <1>4, Zenon
<1>7. PICK lv : lv = [k \in 1 .. n |->
                        [price    |-> ps[k],
                         quantity |-> SumFunctionOnSet(Quantities, At(side, ps[k])) % QtyMod,
                         orders   |-> Cardinality(At(side, ps[k]))]]
  OBVIOUS
<1>8. Levels(side) = lv
  BY <1>1, <1>2, <1>7, PricesScanned DEF Levels
<1>9. Prefix(lv, limit) = [k \in 1 .. m |-> lv[k]]
  <2>1. PICK S : S = {lv[k] : k \in 1 .. n}
    OBVIOUS
  <2>2. lv \in [1 .. n -> S]
    BY <1>7, <2>1
  <2>3. n \in Nat
    BY <1>5
  <2>4. Prefix(lv, limit) = [k \in 1 .. Smaller(limit, n) |-> lv[k]]
    BY <2>2, <2>3, PrefixIs
  <2>. QED  BY <1>3, <2>4
<1>12. \A k \in 1 .. m : d[k] = lv[k]
  <2>. SUFFICES ASSUME NEW k \in 1 .. m PROVE d[k] = lv[k]
    OBVIOUS
  <2>1. k \in 1 .. n /\ ps[k] \in Price
    BY <1>5
  <2>2. lists[side][ps[k]].quantity = SumFunctionOnSet(Quantities, At(side, ps[k])) % QtyMod
    BY <2>1 DEF Totalled
  <2>3. lists[side][ps[k]].count = Cardinality(At(side, ps[k]))
    BY <2>1 DEF BookInv, Counted
  <2>. QED  BY <1>4, <1>7, <2>1, <2>2, <2>3
<1>13. d = [k \in 1 .. m |-> lv[k]]
  BY <1>4, <1>12
<1>. QED  BY <1>5, <1>8, <1>9, <1>13

-----------------------------------------------------------------------------
(* The order snapshot: the first orders of the side.                       *)

\* The slots and the orders of a side, in the order of LimitBook.
SlotRel(side) ==
    {r \in SlotsOf(side) \X SlotsOf(side) : Book!Ahead(OrderAt(r[1]), OrderAt(r[2]))}
AheadRel(side) == {r \in OrdersOf(side) \X OrdersOf(side) : Book!Ahead(r[1], r[2])}

\* The slots of a side, and the order of their orders.
LEMMA SlotFacts ==
    ASSUME BookInv, NEW side \in Sides
    PROVE  /\ IsFiniteSet(SlotsOf(side))
           /\ OrdersOf(side) = {OrderAt(s) : s \in SlotsOf(side)}
           /\ \A s \in SlotsOf(side) : nodes[s].price \in Nat /\ nodes[s].seq \in Nat
           /\ \A s, t \in SlotsOf(side) :
                 /\ s # t => nodes[s].price # nodes[t].price \/ nodes[s].seq # nodes[t].seq
                 /\ <<s, t>> \in SlotRel(side) <=>
                       \/ IF side = "buy" THEN nodes[s].price > nodes[t].price
                                          ELSE nodes[s].price < nodes[t].price
                       \/ nodes[s].price = nodes[t].price /\ nodes[s].seq < nodes[t].seq
<1>1. IsFiniteSet(SlotsOf(side))
  <2>1. IsFiniteSet(Slots)
    BY FS_Interval, OrderBookAssumption DEF Slots
  <2>2. SlotsOf(side) \in SUBSET Slots
    BY DEF SlotsOf
  <2>. QED  BY <2>1, <2>2, FS_Subset
<1>2. OrdersOf(side) = {OrderAt(s) : s \in SlotsOf(side)}
  BY DEF OrdersOf, SlotsOf
<1>3. \A s \in SlotsOf(side) : nodes[s].price \in Nat /\ nodes[s].seq \in Nat
  BY BitmapAssumption DEF SlotsOf, BookInv, TypeOK, Node, Price
<1>4. ASSUME NEW s \in SlotsOf(side), NEW t \in SlotsOf(side), s # t,
             nodes[s].price = nodes[t].price
      PROVE  nodes[s].seq # nodes[t].seq
  <2>1. nodes[s].price \in Price /\ s \in At(side, nodes[s].price) /\ t \in At(side, nodes[s].price)
    BY <1>4, PricesMarked
  <2>. QED  BY <1>4, <2>1, Ordered DEF BookInv
<1>5. ASSUME NEW s \in SlotsOf(side), NEW t \in SlotsOf(side)
      PROVE  <<s, t>> \in SlotRel(side) <=>
                \/ IF side = "buy" THEN nodes[s].price > nodes[t].price
                                   ELSE nodes[s].price < nodes[t].price
                \/ nodes[s].price = nodes[t].price /\ nodes[s].seq < nodes[t].seq
  <2>1. <<s, t>> \in SlotRel(side) <=> Book!Ahead(OrderAt(s), OrderAt(t))
    BY DEF SlotRel
  <2>2. nodes[s].side = side
    BY DEF SlotsOf
  <2>. QED  BY <2>1, <2>2 DEF Book!Ahead, Book!BetterPrice, OrderAt
<1>. QED  BY <1>1, <1>2, <1>3, <1>4, <1>5

\* The slots of a side are linearly ordered by price and arrival.
LEMMA SlotsLinear ==
    ASSUME BookInv, NEW side \in Sides, NEW S, S \subseteq SlotsOf(side)
    PROVE  Linear(S, SlotRel(side))
<1>1. \A s \in S : nodes[s].price \in Nat /\ nodes[s].seq \in Nat
  BY SlotFacts
<1>2. \A s, t \in S :
         /\ s # t => nodes[s].price # nodes[t].price \/ nodes[s].seq # nodes[t].seq
         /\ <<s, t>> \in SlotRel(side) <=>
               \/ IF side = "buy" THEN nodes[s].price > nodes[t].price
                                  ELSE nodes[s].price < nodes[t].price
               \/ nodes[s].price = nodes[t].price /\ nodes[s].seq < nodes[t].seq
  BY SlotFacts
<1>3. PICK p, q : /\ p = [s \in S |-> nodes[s].price]
                  /\ q = [s \in S |-> nodes[s].seq]
  OBVIOUS
<1>4. \A s \in S : p[s] \in Nat /\ q[s] \in Nat
  BY <1>1, <1>3
<1>5. \A s, t \in S : s # t => p[s] # p[t] \/ q[s] # q[t]
  BY <1>2, <1>3
<1>6. \A s, t \in S : <<s, t>> \in SlotRel(side) <=>
                         \/ IF side = "buy" THEN p[s] > p[t] ELSE p[s] < p[t]
                         \/ p[s] = p[t] /\ q[s] < q[t]
  BY <1>2, <1>3
<1>7. OneWay(S, SlotRel(side))
  <2>. SUFFICES ASSUME NEW x \in S, NEW y \in S, <<x, y>> \in SlotRel(side),
                       <<y, x>> \in SlotRel(side)
                PROVE  FALSE
    BY DEF OneWay
  <2>1. p[x] \in Nat /\ q[x] \in Nat /\ p[y] \in Nat /\ q[y] \in Nat
    BY <1>4
  <2>2. \/ IF side = "buy" THEN p[x] > p[y] ELSE p[x] < p[y]
        \/ p[x] = p[y] /\ q[x] < q[y]
    BY <1>6
  <2>3. \/ IF side = "buy" THEN p[y] > p[x] ELSE p[y] < p[x]
        \/ p[y] = p[x] /\ q[y] < q[x]
    BY <1>6
  <2>. QED  BY <2>1, <2>2, <2>3
<1>8. \A x, y \in S : x # y => <<x, y>> \in SlotRel(side) \/ <<y, x>> \in SlotRel(side)
  BY <1>4, <1>5, <1>6
<1>9. \A x, y, z \in S : <<x, y>> \in SlotRel(side) /\ <<y, z>> \in SlotRel(side)
                            => <<x, z>> \in SlotRel(side)
  BY <1>4, <1>6
<1>. QED  BY <1>7, <1>8, <1>9 DEF Linear

\* The orders of a list of the side's slots are the ranked orders.
LEMMA RankedIs ==
    ASSUME BookInv, NEW side \in Sides, NEW t, Listed(t, SlotsOf(side), SlotRel(side))
    PROVE  Ranked(side) = [k \in 1 .. Len(t) |-> OrderAt(t[k])]
<1>1. PICK S, R, Q : S = SlotsOf(side) /\ R = SlotRel(side) /\ Q = AheadRel(side)
  OBVIOUS
<1>2. PICK T : T = OrdersOf(side)
  OBVIOUS
<1>3. PICK g : g = [s \in S |-> OrderAt(s)]
  OBVIOUS
<1>4. T = {g[x] : x \in S}
  BY <1>1, <1>2, <1>3, SlotFacts
<1>5. \A x, y \in S : <<x, y>> \in R <=> <<g[x], g[y]>> \in Q
  BY <1>1, <1>2, <1>3, <1>4 DEF SlotRel, AheadRel
<1>6. PICK r : r = [k \in 1 .. Len(t) |-> g[t[k]]]
  OBVIOUS
<1>7. Listed(r, T, Q)
  <2>1. \A x, y \in S : <<x, y>> \in R => <<g[x], g[y]>> \in Q
    BY <1>5
  <2>2. Listed(t, S, R)
    BY <1>1
  <2>3. Listed(Through(g, t), Images(g, S), Q)
    BY <2>1, <2>2, ListedMap
  <2>. QED  BY <1>4, <1>6, <2>3 DEF Through, Images
<1>8. OneWay(T, Q)
  <2>1. OneWay(S, R)
    BY <1>1, SlotsLinear DEF Linear
  <2>. QED  BY <1>4, <1>5, <2>1 DEF OneWay
<1>9. IsFiniteSet(T)
  <2>1. IsFiniteSet(S)
    BY <1>1, SlotFacts
  <2>2. g \in Surjection(S, T)
    BY <1>3, <1>4 DEF Surjection
  <2>. QED  BY <2>1, <2>2, FS_Surjection
<1>10. PICK n : n = Cardinality(T)
  OBVIOUS
<1>11. r \in [1 .. n -> T] /\ \A i, j \in DOMAIN r : i < j => Book!Ahead(r[i], r[j])
  <2>1. r \in [1 .. n -> T] /\ Len(r) = n
    BY <1>7, <1>8, <1>9, <1>10, ListedLen
  <2>2. ASSUME NEW i \in DOMAIN r, NEW j \in DOMAIN r, i < j
        PROVE  Book!Ahead(r[i], r[j])
    <3>1. <<r[i], r[j]>> \in Q
      BY <1>7, <2>1, <2>2 DEF Listed
    <3>. QED  BY <1>1, <3>1 DEF AheadRel
  <2>. QED  BY <2>1, <2>2
<1>12. PICK c : c = Ranked(side)
  OBVIOUS
<1>13. c \in [1 .. n -> T] /\ \A i, j \in DOMAIN c : i < j => Book!Ahead(c[i], c[j])
  BY <1>2, <1>10, <1>11, <1>12 DEF Ranked, SortedBy
<1>14. \A i, j \in DOMAIN c : i < j => <<c[i], c[j]>> \in Q
  <2>1. \A i \in DOMAIN c : c[i] \in T
    BY <1>13
  <2>. QED  BY <1>1, <1>2, <1>13, <2>1 DEF AheadRel
<1>15. Listed(c, T, Q)
  BY <1>8, <1>9, <1>10, <1>13, <1>14, InOrderListed
<1>16. c = r
  BY <1>7, <1>8, <1>15, ListedOnce
<1>17. r = [k \in 1 .. Len(t) |-> OrderAt(t[k])]
  <2>1. \A k \in 1 .. Len(t) : t[k] \in S
    <3>1. t \in Seq(S)
      BY <1>1 DEF Listed
    <3>. QED  BY <3>1
  <2>. QED  BY <1>3, <1>6, <2>1
<1>. QED  BY <1>12, <1>16, <1>17

\* The lists of the first m prices, one behind the other.
LEMMA SlotsListed ==
    ASSUME BookInv, NEW side \in Sides, NEW ps,
           Listed(ps, PricesWith(side), PriceRel(side)),
           NEW m \in 0 .. Len(ps)
    PROVE  Listed(FlattenSeq([k \in 1 .. m |-> Chain(lists[side][ps[k]].head)]),
                  SlotsAt(side, ps, m), SlotRel(side))
<1>0. PICK ls : ls = [k \in 1 .. m |-> Chain(lists[side][ps[k]].head)]
  OBVIOUS
<1>1. Len(ps) \in Nat /\ \A k \in 1 .. Len(ps) : ps[k] \in Price /\ At(side, ps[k]) # {}
  <2>1. ps \in Seq(PricesWith(side))
    BY DEF Listed
  <2>. QED  BY <2>1 DEF PricesWith
<1>2. m \in Nat /\ \A k \in 1 .. m : k \in 1 .. Len(ps) /\ ps[k] \in Price
  BY <1>1
<1>3. Len(ls) = m /\ (m = 0 => ls = <<>>)
  BY <1>0, <1>2
<1>4. PICK A : A = [k \in 1 .. m |-> At(side, ps[k])]
  OBVIOUS
<1>5. \A p \in Price : \A s \in At(side, p) : /\ s \in SlotsOf(side)
                                              /\ nodes[s].price = p
                                              /\ p \in Nat
  BY BitmapAssumption DEF SlotsOf, At, Price
<1>6. ASSUME NEW k \in 1 .. m  PROVE Listed(ls[k], A[k], SlotRel(side))
  <2>1. PICK p : p = ps[k]
    OBVIOUS
  <2>2. p \in Price
    BY <1>2, <2>1
  <2>3. PICK c : c = Chain(lists[side][p].head)
    OBVIOUS
  <2>4. Listed(c, At(side, p), SeqRel)
    BY <2>2, <2>3, ChainListed DEF BookInv
  <2>5. ASSUME NEW x \in At(side, p), NEW y \in At(side, p), <<x, y>> \in SeqRel
        PROVE  <<x, y>> \in SlotRel(side)
    <3>1. x \in SlotsOf(side) /\ y \in SlotsOf(side) /\ nodes[x].price = nodes[y].price
      BY <1>5, <2>2
    <3>2. nodes[x].seq < nodes[y].seq
      BY <2>5 DEF SeqRel
    <3>. QED  BY <3>1, <3>2, SlotFacts
  <2>6. Listed(c, At(side, p), SlotRel(side))
    <3>1. c \in Seq(At(side, p))
      BY <2>4 DEF Listed
    <3>2. \A i \in 1 .. Len(c) : c[i] \in At(side, p)
      BY <3>1
    <3>. QED  BY <2>4, <2>5, <3>2 DEF Listed
  <2>7. ls[k] = c /\ A[k] = At(side, p)
    BY <1>0, <1>4, <2>1, <2>3
  <2>. QED  BY <2>6, <2>7
<1>7. ASSUME NEW i \in 1 .. m, NEW j \in 1 .. m, i < j, NEW x \in A[i], NEW y \in A[j]
      PROVE  <<x, y>> \in SlotRel(side)
  <2>1. x \in At(side, ps[i]) /\ y \in At(side, ps[j])
    BY <1>4
  <2>2. /\ x \in SlotsOf(side) /\ nodes[x].price = ps[i] /\ ps[i] \in Nat
        /\ y \in SlotsOf(side) /\ nodes[y].price = ps[j] /\ ps[j] \in Nat
    BY <1>2, <1>5, <2>1
  <2>3. <<ps[i], ps[j]>> \in PriceRel(side)
    BY <1>2, <1>7 DEF Listed
  <2>4. IF side = "buy" THEN ps[i] > ps[j] ELSE ps[i] < ps[j]
    BY <2>3 DEF PriceRel
  <2>. QED  BY <2>2, <2>4, SlotFacts
<1>8. Listed(FlattenSeq(ls), UNION {A[k] : k \in 1 .. m}, SlotRel(side))
  <2>1. PICK R : R = SlotRel(side)
    OBVIOUS
  <2>2. m \in Nat /\ Len(ls) = m /\ (m = 0 => ls = <<>>)
    BY <1>2, <1>3
  <2>3. \A i \in 1 .. m : Listed(ls[i], A[i], R)
    BY <1>6, <2>1
  <2>4. \A i, j \in 1 .. m : i < j => \A x \in A[i], y \in A[j] : <<x, y>> \in R
    BY <1>7, <2>1
  <2>5. Listed(FlattenSeq(ls), UNION {A[k] : k \in 1 .. m}, R)
    BY <2>2, <2>3, <2>4, FlattenListed
  <2>. QED  BY <2>1, <2>5
<1>9. UNION {A[k] : k \in 1 .. m} = SlotsAt(side, ps, m)
  BY <1>4 DEF SlotsAt
<1>. QED  BY <1>0, <1>8, <1>9
\* A price that is not among the first m comes after them.
LEMMA RestFollows ==
    ASSUME BookInv, NEW side \in Sides, NEW ps,
           Listed(ps, PricesWith(side), PriceRel(side)),
           NEW m \in 0 .. Len(ps),
           NEW U, U = SlotsAt(side, ps, m)
    PROVE  /\ U \subseteq SlotsOf(side)
           /\ m = Len(ps) => U = SlotsOf(side)
           /\ \A x \in U, y \in SlotsOf(side) \ U : <<x, y>> \in SlotRel(side)
           /\ m <= Cardinality(U)
<1>1. Len(ps) \in Nat /\ \A k \in 1 .. Len(ps) : ps[k] \in Price /\ At(side, ps[k]) # {}
  <2>1. ps \in Seq(PricesWith(side))
    BY DEF Listed
  <2>. QED  BY <2>1 DEF PricesWith
<1>2. m \in Nat /\ \A k \in 1 .. m : k \in 1 .. Len(ps)
  BY <1>1
<1>3. \A p : \A s \in At(side, p) : s \in SlotsOf(side) /\ nodes[s].price = p
  BY DEF SlotsOf, At
<1>4. U \subseteq SlotsOf(side)
  BY <1>3 DEF SlotsAt
<1>5. ASSUME NEW y \in SlotsOf(side)
      PROVE  \E l \in 1 .. Len(ps) : nodes[y].price = ps[l] /\ y \in At(side, ps[l])
  <2>1. nodes[y].price \in Price /\ y \in At(side, nodes[y].price)
    BY PricesMarked
  <2>2. nodes[y].price \in PricesWith(side)
    BY <2>1 DEF PricesWith
  <2>3. PICK l \in 1 .. Len(ps) : ps[l] = nodes[y].price
    BY <2>2 DEF Listed
  <2>. QED  BY <2>1, <2>3
<1>6. m = Len(ps) => U = SlotsOf(side)
  BY <1>4, <1>5 DEF SlotsAt
<1>7. ASSUME NEW x \in U, NEW y \in SlotsOf(side) \ U
      PROVE  <<x, y>> \in SlotRel(side)
  <2>1. PICK k \in 1 .. m : x \in At(side, ps[k])
    BY DEF SlotsAt
  <2>2. PICK l \in 1 .. Len(ps) : nodes[y].price = ps[l] /\ y \in At(side, ps[l])
    BY <1>5
  <2>3. l \notin 1 .. m
    BY <2>2 DEF SlotsAt
  <2>4. k < l /\ k \in 1 .. Len(ps)
    BY <1>1, <1>2, <2>3
  <2>5. <<ps[k], ps[l]>> \in PriceRel(side)
    BY <2>4 DEF Listed
  <2>6. x \in SlotsOf(side) /\ nodes[x].price = ps[k]
    BY <1>3, <2>1
  <2>7. IF side = "buy" THEN nodes[x].price > nodes[y].price ELSE nodes[x].price < nodes[y].price
    BY <2>2, <2>5, <2>6 DEF PriceRel
  <2>. QED  BY <2>6, <2>7, SlotFacts
<1>8. m <= Cardinality(U)
  <2>1. PICK h : h = [k \in 1 .. m |-> CHOOSE s : s \in At(side, ps[k])]
    OBVIOUS
  <2>2. \A k \in 1 .. m : h[k] \in At(side, ps[k])
    BY <1>1, <1>2, <2>1
  <2>3. \A k \in 1 .. m : h[k] \in U /\ nodes[h[k]].price = ps[k]
    BY <1>3, <2>2 DEF SlotsAt
  <2>4. ASSUME NEW k \in 1 .. m, NEW l \in 1 .. m, k < l  PROVE h[k] # h[l]
    <3>1. <<ps[k], ps[l]>> \in PriceRel(side)
      BY <1>2, <2>4 DEF Listed
    <3>2. ps[k] # ps[l]
      BY <3>1 DEF PriceRel
    <3>. QED  BY <2>3, <3>2
  <2>5. \A k, l \in 1 .. m : h[k] = h[l] => k = l
    BY <1>2, <2>4
  <2>6. h \in [1 .. m -> U]
    BY <2>1, <2>3
  <2>7. h \in Injection(1 .. m, U)
    BY <2>5, <2>6 DEF Injection, IsInjective
  <2>8. IsFiniteSet(U)
    <3>1. IsFiniteSet(SlotsOf(side)) /\ U \in SUBSET SlotsOf(side)
      BY <1>4, SlotFacts
    <3>. QED  BY <3>1, FS_Subset
  <2>9. Cardinality(1 .. m) <= Cardinality(U)
    BY <2>7, <2>8, FS_Injection
  <2>10. Cardinality(1 .. m) = m
    <3>1. \A n \in Nat : IsFiniteSet(1 .. n) /\ Cardinality(1 .. n) = n
      BY FS_Interval
    <3>. QED  BY <1>2, <3>1
  <2>. QED  BY <2>9, <2>10
<1>. QED  BY <1>4, <1>6, <1>7, <1>8

\* OrdersFound returns the first orders.
LEMMA OrdersExact ==
    ASSUME BookInv, NEW side \in Sides, NEW limit \in Nat
    PROVE  OrdersFound(side, limit) = Prefix(Ranked(side), limit)
<1>0. PICK ps, n, m :
        /\ ps = PricesFound(side) /\ n = Len(ps) /\ m = Smaller(limit, n)
        /\ n \in Nat /\ m \in 0 .. n
        /\ \A k \in 1 .. n : ps[k] \in Price
        /\ Depth(side, limit) = [k \in 1 .. m |->
                                   [price    |-> ps[k],
                                    quantity |-> lists[side][ps[k]].quantity,
                                    orders   |-> lists[side][ps[k]].count]]
  BY DepthIs
<1>1. ps = PricesFound(side)
  BY <1>0
<1>2. n = Len(ps)
  BY <1>0
<1>3. m = Smaller(limit, n)
  BY <1>0
<1>4. PICK d : d = Depth(side, limit)
  OBVIOUS
<1>5. /\ n \in Nat /\ m \in 0 .. n /\ m \in Nat
      /\ \A k \in 1 .. n : ps[k] \in Price
      /\ Len(d) = m
      /\ \A k \in 1 .. m : d[k].price = ps[k]
  <2>1. /\ n \in Nat /\ m \in 0 .. n
        /\ \A k \in 1 .. n : ps[k] \in Price
        /\ d = [k \in 1 .. m |-> [price    |-> ps[k],
                                  quantity |-> lists[side][ps[k]].quantity,
                                  orders   |-> lists[side][ps[k]].count]]
    BY <1>0, <1>4, Zenon
  <2>2. m \in Nat
    BY <2>1
  <2>3. Len(d) = m
    BY <2>1, <2>2
  <2>4. \A k \in 1 .. m : d[k].price = ps[k]
    BY <2>1
  <2>. QED  BY <2>1, <2>2, <2>3, <2>4
<1>6. Listed(ps, PricesWith(side), PriceRel(side))
  BY <1>1, PricesScanned
<1>7. PICK ls : ls = [k \in 1 .. m |-> Chain(lists[side][ps[k]].head)]
  OBVIOUS
<1>8. PICK slots : slots = FlattenSeq(ls)
  OBVIOUS
<1>9. OrdersFound(side, limit) = [k \in 1 .. Smaller(limit, Len(slots)) |-> OrderAt(slots[k])]
  <2>1. [k \in 1 .. Len(d) |-> Chain(lists[side][d[k].price].head)] = ls
    BY <1>5, <1>7
  <2>. QED  BY <1>4, <1>8, <2>1 DEF OrdersFound
<1>10. PICK U : U = SlotsAt(side, ps, m)
  OBVIOUS
<1>11. Listed(slots, U, SlotRel(side))
  BY <1>2, <1>5, <1>6, <1>7, <1>8, <1>10, SlotsListed
<1>12. /\ U \subseteq SlotsOf(side)
       /\ m = n => U = SlotsOf(side)
       /\ \A x \in U, y \in SlotsOf(side) \ U : <<x, y>> \in SlotRel(side)
       /\ m <= Cardinality(U)
  <2>1. m \in 0 .. Len(ps)
    BY <1>2, <1>5
  <2>2. /\ U \subseteq SlotsOf(side)
        /\ m = Len(ps) => U = SlotsOf(side)
        /\ \A x \in U, y \in SlotsOf(side) \ U : <<x, y>> \in SlotRel(side)
        /\ m <= Cardinality(U)
    BY <1>6, <1>10, <2>1, RestFollows
  <2>. QED  BY <1>2, <2>2
<1>13. PICK V : V = SlotsOf(side) \ U
  OBVIOUS
<1>14. IsFiniteSet(U) /\ IsFiniteSet(V)
  <2>1. IsFiniteSet(SlotsOf(side)) /\ U \in SUBSET SlotsOf(side) /\ V \in SUBSET SlotsOf(side)
    BY <1>12, <1>13, SlotFacts
  <2>. QED  BY <2>1, FS_Subset
<1>15. PICK v : Listed(v, V, SlotRel(side))
  <2>1. Linear(V, SlotRel(side))
    BY <1>13, SlotsLinear
  <2>. QED  BY <1>14, <2>1, ListedExists
<1>16. PICK t : t = slots \o v
  OBVIOUS
<1>17. Listed(t, SlotsOf(side), SlotRel(side))
  <2>1. Listed(t, U \union V, SlotRel(side))
    BY <1>11, <1>12, <1>13, <1>15, <1>16, ListedConcat
  <2>2. U \union V = SlotsOf(side)
    BY <1>12, <1>13
  <2>. QED  BY <2>1, <2>2
<1>18. PICK a, b : a = Len(slots) /\ b = Len(v)
  OBVIOUS
<1>19. /\ a \in Nat /\ b \in Nat /\ Len(t) = a + b
       /\ \A k \in 1 .. a : t[k] = slots[k]
  <2>1. slots \in Seq(SlotsOf(side)) /\ v \in Seq(SlotsOf(side))
    BY <1>11, <1>12, <1>13, <1>15 DEF Listed
  <2>2. a \in Nat /\ b \in Nat
    BY <1>18, <2>1
  <2>3. /\ Len(t) = a + b
        /\ \A k \in 1 .. a + b : t[k] = IF k <= a THEN slots[k] ELSE v[k - a]
    BY <1>16, <1>18, <2>1, ConcatProperties
  <2>. QED  BY <2>2, <2>3
<1>20. a = Cardinality(U)
  <2>1. OneWay(U, SlotRel(side))
    BY <1>12, SlotsLinear DEF Linear
  <2>. QED  BY <1>11, <1>14, <1>18, <2>1, ListedLen
<1>21. Smaller(limit, a + b) = Smaller(limit, a)
  <2>1. CASE limit <= a
    BY <1>19, <2>1 DEF Smaller
  <2>2. CASE a < limit
    <3>1. m < limit
      BY <1>5, <1>12, <1>19, <1>20, <2>2
    <3>2. m = n
      BY <1>3, <3>1 DEF Smaller
    <3>3. V = {}
      BY <1>12, <1>13, <3>2
    <3>4. b = 0
      <4>1. v \in Seq(V)
        BY <1>15 DEF Listed
      <4>2. \A k \in 1 .. Len(v) : v[k] \in V
        BY <4>1
      <4>. QED  BY <1>18, <1>19, <3>3, <4>2
    <3>. QED  BY <1>19, <3>4
  <2>. QED  BY <1>19, <2>1, <2>2
<1>22. PICK r : r = Ranked(side)
  OBVIOUS
<1>23. r = [k \in 1 .. a + b |-> OrderAt(t[k])]
  BY <1>17, <1>19, <1>22, RankedIs
<1>24. Prefix(r, limit) = [k \in 1 .. Smaller(limit, a) |-> r[k]]
  <2>1. PICK c : c = a + b
    OBVIOUS
  <2>2. PICK S : S = {r[k] : k \in 1 .. c}
    OBVIOUS
  <2>3. c \in Nat
    BY <1>19, <2>1
  <2>4. r \in [1 .. c -> S]
    BY <1>23, <2>1, <2>2
  <2>5. Prefix(r, limit) = [k \in 1 .. Smaller(limit, c) |-> r[k]]
    BY <2>3, <2>4, PrefixIs
  <2>. QED  BY <1>21, <2>1, <2>5
<1>25. \A k \in 1 .. Smaller(limit, a) : r[k] = OrderAt(slots[k])
  <2>1. \A k \in 1 .. Smaller(limit, a) : k \in 1 .. a /\ k \in 1 .. a + b
    BY <1>19 DEF Smaller
  <2>2. \A k \in 1 .. a + b : r[k] = OrderAt(t[k])
    BY <1>23
  <2>3. \A k \in 1 .. a : OrderAt(t[k]) = OrderAt(slots[k])
    BY <1>19
  <2>. QED  BY <2>1, <2>2, <2>3
<1>26. OrdersFound(side, limit) = [k \in 1 .. Smaller(limit, a) |-> OrderAt(slots[k])]
  BY <1>9, <1>18
<1>27. [k \in 1 .. Smaller(limit, a) |-> r[k]] = [k \in 1 .. Smaller(limit, a) |-> OrderAt(slots[k])]
  BY <1>25
<1>. QED  BY <1>22, <1>24, <1>26, <1>27

\* Until id 0 is cancelled the depth and the order snapshot, for any limit, are
\* the first levels and the first orders of the side: bid_depth/ask_depth and
\* bid_orders/ask_orders miss nothing and repeat nothing.
THEOREM SnapshotsCorrect == Spec => []SnapshotsExact
<1>1. (zeroCancelled \/ BookInv) /\ TotalsExact => SnapshotsExact
  <2>. SUFFICES ASSUME BookInv, Totalled, NEW side \in Sides, NEW limit \in 0 .. MaxOrders
                PROVE  /\ OrdersFound(side, limit) = Prefix(Ranked(side), limit)
                       /\ Depth(side, limit) = Prefix(Levels(side), limit)
    BY DEF SnapshotsExact, TotalsExact
  <2>1. limit \in Nat
    BY OrderBookAssumption
  <2>. QED  BY <2>1, DepthExact, OrdersExact
<1>. QED  BY <1>1, BookInvariant, TotalsCorrect, PTL
=============================================================================

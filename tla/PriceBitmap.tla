---------------------------- MODULE PriceBitmap ----------------------------
(***************************************************************************)
(* The hierarchical bitmap with which OrderBook.h finds the best price of  *)
(* a side.  Level 1 has one bit per price, level 2 one bit per non-zero    *)
(* level-1 word, level 3 is a single word with one bit per non-zero        *)
(* level-2 word.  A word is the set of its bits that are 1, so "word # 0"  *)
(* is "set # {}", clz gives the Max of a word and ctz its Min.             *)
(*                                                                         *)
(* set_bids_bit/set_asks_bit and clear_bids_bit/clear_asks_bit are the     *)
(* same code on the arrays of the two sides: a side's three arrays are one *)
(* record here and each pair is one operator.                              *)
(***************************************************************************)
EXTENDS Integers, FiniteSetsExt

CONSTANTS
    WordBits,   \* bits of a word (64 in the code)
    MaxPrice    \* MAX_PRICE: prices are 0 .. MaxPrice-1

BITMAP_L1_SIZE == (MaxPrice \div WordBits) + 1
BITMAP_L2_SIZE == (BITMAP_L1_SIZE \div WordBits) + 1

\* Level 3 is one word: it has room for the level-2 words (25 of 64 bits).
ASSUME BitmapAssumption ==
    /\ WordBits \in Nat \ {0}
    /\ MaxPrice \in Nat \ {0}
    /\ BITMAP_L2_SIZE <= WordBits

Price == 0 .. MaxPrice - 1
NULL_IDX == -1      \* as a price: "no order on this side"

Word == SUBSET (0 .. WordBits - 1)
Bitmap == [l1 : [0 .. BITMAP_L1_SIZE - 1 -> Word],
           l2 : [0 .. BITMAP_L2_SIZE - 1 -> Word],
           l3 : Word]

EmptyBitmap == [l1 |-> [i \in 0 .. BITMAP_L1_SIZE - 1 |-> {}],
                l2 |-> [i \in 0 .. BITMAP_L2_SIZE - 1 |-> {}],
                l3 |-> {}]

L1Idx(p) == p \div WordBits
L1Bit(p) == p % WordBits
L2Idx(p) == L1Idx(p) \div WordBits
L2Bit(p) == L1Idx(p) % WordBits

SetBit(m, p) ==
    [l1 |-> [m.l1 EXCEPT ![L1Idx(p)] = @ \union {L1Bit(p)}],
     l2 |-> [m.l2 EXCEPT ![L2Idx(p)] = @ \union {L2Bit(p)}],
     l3 |-> m.l3 \union {L2Idx(p)}]

\* Mutant of ClearBit: the summary bits are cleared whatever else is set.
ClearPath(m, p) ==
    [l1 |-> [m.l1 EXCEPT ![L1Idx(p)] = @ \ {L1Bit(p)}],
     l2 |-> [m.l2 EXCEPT ![L2Idx(p)] = @ \ {L2Bit(p)}],
     l3 |-> m.l3 \ {L2Idx(p)}]

\* A summary bit is cleared only when the word it summarises became zero.
ClearBit(m, p) ==
    LET l1 == [m.l1 EXCEPT ![L1Idx(p)] = @ \ {L1Bit(p)}]
        l2 == IF l1[L1Idx(p)] = {}
              THEN [m.l2 EXCEPT ![L2Idx(p)] = @ \ {L2Bit(p)}]
              ELSE m.l2
        l3 == IF l1[L1Idx(p)] = {} /\ l2[L2Idx(p)] = {}
              THEN m.l3 \ {L2Idx(p)}
              ELSE m.l3
    IN  [l1 |-> l1, l2 |-> l2, l3 |-> l3]

\* get_best_bid: the highest bit of each level in turn.
BestBid(m) ==
    IF m.l3 = {} THEN NULL_IDX
    ELSE LET l3_bit == Max(m.l3)
             l1_idx == l3_bit * WordBits + Max(m.l2[l3_bit])
         IN  l1_idx * WordBits + Max(m.l1[l1_idx])

\* get_best_ask: the lowest bit of each level in turn.
BestAsk(m) ==
    IF m.l3 = {} THEN NULL_IDX
    ELSE LET l3_bit == Min(m.l3)
             l1_idx == l3_bit * WordBits + Min(m.l2[l3_bit])
         IN  l1_idx * WordBits + Min(m.l1[l1_idx])

-----------------------------------------------------------------------------
(* What the bitmap stands for, and when its three levels agree.            *)

Marked(m) == {p \in Price : L1Bit(p) \in m.l1[L1Idx(p)]}

LevelsAgree(m) ==
    /\ \A i \in 0 .. BITMAP_L1_SIZE - 1 :
          m.l1[i] # {} <=> (i % WordBits) \in m.l2[i \div WordBits]
    /\ \A j \in 0 .. BITMAP_L2_SIZE - 1 : m.l2[j] # {} <=> j \in m.l3

\* No bit is set above the last price, word or summary word.
InRange(m) ==
    /\ \A i \in 0 .. BITMAP_L1_SIZE - 1 :
          \A b \in m.l1[i] : i * WordBits + b \in Price
    /\ \A j \in 0 .. BITMAP_L2_SIZE - 1 :
          \A b \in m.l2[j] : j * WordBits + b \in 0 .. BITMAP_L1_SIZE - 1
    /\ m.l3 \subseteq 0 .. BITMAP_L2_SIZE - 1

WellFormed(m) == m \in Bitmap /\ LevelsAgree(m) /\ InRange(m)
=============================================================================

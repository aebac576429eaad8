-------------------------- MODULE OrderBookQueries --------------------------
(***************************************************************************)
(* The read-only half of OrderBook.h: bid_depth/ask_depth, which walk the  *)
(* three levels of a bitmap on copies of its words, and bid_orders/        *)
(* ask_orders, which walk the lists of the prices so found.  Both stop at  *)
(* a limit.  The engine thread calls them between two tasks.               *)
(***************************************************************************)
EXTENDS OrderBook, SequencesExt

\* The elements of a set in the order Before.
SortedBy(S, Before(_, _)) ==
    CHOOSE seq \in [1 .. Cardinality(S) -> S] :
        \A i, j \in DOMAIN seq : i < j => Before(seq[i], seq[j])

\* The bits of a word in the order a scan meets them: clz for bids, ctz for asks.
Scan(side, word) == SortedBy(word, LAMBDA a, b : IF side = "buy" THEN a > b ELSE a < b)

Prefix(seq, limit) == SubSeq(seq, 1, Smaller(limit, Len(seq)))

\* Mutant of Below: the index of the word is left out.
BitsOnly(side, i, word) == Scan(side, word)

\* The indices of the words (or prices) below word i that have a bit in it.
Below(side, i, word) ==
    LET bits == Scan(side, word)
    IN  [k \in 1 .. Len(bits) |-> i * WordBits + bits[k]]

\* The prices in the order of the three nested loops of bid_depth/ask_depth.
PricesFound(side) ==
    LET m  == bitmaps[side]
        l2 == Scan(side, m.l3)
        l1 == FlattenSeq([k \in 1 .. Len(l2) |-> Below(side, l2[k], m.l2[l2[k]])])
    IN  FlattenSeq([k \in 1 .. Len(l1) |-> Below(side, l1[k], m.l1[l1[k]])])

\* bid_depth/ask_depth.
Depth(side, limit) ==
    LET prices == Prefix(PricesFound(side), limit)
    IN  [k \in 1 .. Len(prices) |->
            [price    |-> prices[k],
             quantity |-> lists[side][prices[k]].quantity,
             orders   |-> lists[side][prices[k]].count]]

\* The slots met from slot s on, by next_idx.
Chain(s) ==
    LET walk[n \in 0 .. MaxOrders] ==
            [i \in Links |-> IF n = 0 \/ i = NULL_IDX THEN <<>>
                             ELSE <<i>> \o walk[n - 1][nodes[i].next]]
    IN  walk[MaxOrders][s]

\* bid_orders/ask_orders: at most limit orders, from at most limit prices.
OrdersFound(side, limit) ==
    LET levels == Depth(side, limit)
        slots  == FlattenSeq([k \in 1 .. Len(levels) |->
                                 Chain(lists[side][levels[k].price].head)])
    IN  [k \in 1 .. Smaller(limit, Len(slots)) |-> OrderAt(slots[k])]

-----------------------------------------------------------------------------
(* What the two should return, from the set of active orders alone.        *)

OrdersOf(side) == {OrderAt(s) : s \in {t \in Slots : Active(t) /\ nodes[t].side = side}}

Ranked(side) == SortedBy(OrdersOf(side), Book!Ahead)

Levels(side) ==
    LET prices == Scan(side, {o.price : o \in OrdersOf(side)})
    IN  [k \in 1 .. Len(prices) |->
            [price    |-> prices[k],
             quantity |-> SumFunctionOnSet(Quantities, At(side, prices[k])) % QtyMod,
             orders   |-> Cardinality(At(side, prices[k]))]]

\* Until id 0 is cancelled, whatever the limit, the order snapshot is the first
\* orders of the side by price and then by arrival, and the depth the first
\* prices with what rests there: the snapshot that clients get between two tasks
\* misses no order and repeats none.
SnapshotsExact ==
    incoming = NoOrder /\ ~ zeroCancelled =>
        \A side \in Sides, limit \in 0 .. MaxOrders :
            /\ OrdersFound(side, limit) = Prefix(Ranked(side), limit)
            /\ Depth(side, limit) = Prefix(Levels(side), limit)
=============================================================================

----------------------------- MODULE OrderBook -----------------------------
(***************************************************************************)
(* OrderBook.h, the CURRENT engine: orders live in a pool of nodes, the    *)
(* orders of one price form a doubly linked list through the pool, and a   *)
(* hierarchical bitmap per side finds the best price.                      *)
(*                                                                         *)
(* An order id is seq<<32 | slot; here it is the pair <<seq, slot>>, and   *)
(* id 0, which marks a node as inactive, is <<0, 0>>.  A node is stored in *)
(* the slot its id names, so a node keeps the seq half only.               *)
(*                                                                         *)
(* process_buy_order and process_sell_order are one thread's loop; they    *)
(* are cut into steps at the trade listener's callback: Submit up to the   *)
(* loop, one Fill or SelfTradeStop per iteration of the inner loop, one    *)
(* SkipLevel per iteration of the outer loop that finds its list empty,    *)
(* then Rest or Finish.  The code of the two sides differs in the arrays   *)
(* it uses and in the direction of price comparisons; an action is         *)
(* parameterised by the side instead.                                      *)
(*                                                                         *)
(* A client may send any id.  Id 0 is also the id of a freed node, so      *)
(* cancel_order accepts it from the last owner of slot 0 while that slot   *)
(* is free, and unlinks a node that is in no list.  The actions therefore  *)
(* do what the code does on any links, and zeroCancelled remembers that it *)
(* happened: what a book should be like is said of it until then.          *)
(***************************************************************************)
EXTENDS PriceBitmap, Sequences

CONSTANTS
    Users,      \* user ids that own orders
    NoUser,     \* user id of a node never used (0 in the code)
    MaxOrders,  \* MAX_ORDERS, the size of the pool
    MaxQty,     \* bound: largest quantity submitted
    QtyMod,     \* 2^32: total_quantity and order_count are uint32_t
    MaxSeq,     \* bound: orders accepted in a behaviour
    MaxFree,    \* bound: slots on the free stack, which may hold one twice
    NoOrder     \* "no order is being processed"

Sides == {"buy", "sell"}
Opposite(side) == IF side = "buy" THEN "sell" ELSE "buy"
Slots == 0 .. MaxOrders - 1
Links == Slots \union {NULL_IDX}
Quantity == 0 .. MaxQty

Orders == [seq : Nat \ {0}, user : Users, side : Sides,
           price : Price, quantity : Quantity]

ASSUME OrderBookAssumption ==
    /\ MaxOrders \in Nat \ {0}
    /\ MaxQty \in Nat
    /\ QtyMod \in Nat /\ QtyMod > MaxQty /\ QtyMod > MaxOrders
    /\ MaxSeq \in Nat
    /\ MaxFree \in Nat /\ MaxFree >= MaxOrders
    /\ NoUser \notin Users
    /\ NoOrder \notin Orders

VARIABLES
    nodes,      \* node_pool_
    free,       \* free_indices_, a stack with its top at the end
    lists,      \* bids_ and asks_: the list of each side and price
    bitmaps,    \* bids_l1_.. and asks_l1_..: the bitmap of each side
    counter,    \* order_id_counter
    incoming,   \* the order process_*_order is matching, or NoOrder
    pool_idx,   \* its local pool_idx: the slot reserved for that order
    out,        \* the last result or callback
    zeroCancelled   \* history: cancel_order has accepted id 0

bookVars == <<nodes, free, lists, bitmaps>>
vars == <<nodes, free, lists, bitmaps, counter, incoming, pool_idx, out, zeroCancelled>>

Node == [seq : Nat, user : Users \union {NoUser}, side : Sides, price : Price,
         quantity : Quantity, prev : Links, next : Links]
OrderList == [head : Links, tail : Links,
              quantity : 0 .. QtyMod - 1, count : 0 .. QtyMod - 1]

Active(s) == nodes[s].seq # 0
At(side, p) == {s \in Slots : Active(s) /\ nodes[s].side = side /\ nodes[s].price = p}
OrderAt(s) == [seq |-> nodes[s].seq, user |-> nodes[s].user, side |-> nodes[s].side,
               price |-> nodes[s].price, quantity |-> nodes[s].quantity]

Larger(a, b) == IF a <= b THEN b ELSE a             \* mutant of Smaller
Smaller(a, b) == IF a <= b THEN a ELSE b

CrossesStrictly(side, p, q) == IF side = "buy" THEN q < p ELSE q > p   \* mutant of Crosses
Crosses(side, p, q) == IF side = "buy" THEN q <= p ELSE q >= p

Nothing == [kind |-> "nothing"]
Refused == [kind |-> "refused"]
Rejected(o) == [kind |-> "rejected", order |-> o]
Cancelled(o) == [kind |-> "cancelled", order |-> o]
NotCancelled(n, u) == [kind |-> "not_cancelled", seq |-> n, user |-> u]

\* The Trade that match_buy and match_sell report.
Trade(t, o, p, q) ==
    LET buy  == IF t.side = "buy" THEN t ELSE o
        sell == IF t.side = "buy" THEN o ELSE t
    IN  [kind |-> "trade", price |-> p, quantity |-> q,
         buy |-> buy.seq, sell |-> sell.seq,
         buyer |-> buy.user, seller |-> sell.user,
         buyer_limit_price |-> buy.price]

-----------------------------------------------------------------------------
Init ==
    /\ nodes = [s \in Slots |-> [seq |-> 0, user |-> NoUser, side |-> "sell",
                                 price |-> 0, quantity |-> 0, prev |-> 0, next |-> 0]]
    /\ free = [i \in 1 .. MaxOrders |-> MaxOrders - i]
    /\ lists = [side \in Sides |-> [p \in Price |->
                   [head |-> NULL_IDX, tail |-> NULL_IDX, quantity |-> 0, count |-> 0]]]
    /\ bitmaps = [side \in Sides |-> EmptyBitmap]
    /\ counter = 0
    /\ incoming = NoOrder
    /\ pool_idx = NULL_IDX
    /\ out = Nothing
    /\ zeroCancelled = FALSE

CanProcess(p) == p < MaxPrice /\ free # <<>>

\* Mutant of Submit: the counter is read but not advanced.
SubmitSameNumber(u, side, p, q) ==
    /\ incoming = NoOrder
    /\ CanProcess(p)
    /\ pool_idx' = free[Len(free)]
    /\ free' = SubSeq(free, 1, Len(free) - 1)
    /\ incoming' = [seq |-> counter + 1, user |-> u, side |-> side,
                    price |-> p, quantity |-> q]
    /\ out' = Nothing
    /\ UNCHANGED <<nodes, lists, bitmaps, counter, zeroCancelled>>

\* process_*_order up to the call of match_*: take a slot, number the order.
Submit(u, side, p, q) ==
    /\ incoming = NoOrder
    /\ counter < MaxSeq
    /\ CanProcess(p)
    /\ pool_idx' = free[Len(free)]
    /\ free' = SubSeq(free, 1, Len(free) - 1)
    /\ counter' = counter + 1
    /\ incoming' = [seq |-> counter + 1, user |-> u, side |-> side,
                    price |-> p, quantity |-> q]
    /\ out' = Nothing
    /\ UNCHANGED <<nodes, lists, bitmaps, zeroCancelled>>

\* can_process_order says no: the caller does not process the order.
Refuse(p) ==
    /\ incoming = NoOrder
    /\ ~ CanProcess(p)
    /\ out' = Refused
    /\ UNCHANGED <<bookVars, counter, incoming, pool_idx, zeroCancelled>>

\* best_ask in match_buy, best_bid in match_sell.  The bitmap changes only
\* where the loop reads the best price anew.
Best(side) == IF side = "buy" THEN BestBid(bitmaps[side]) ELSE BestAsk(bitmaps[side])

\* The condition of the outer loop of match_*.
Crossing ==
    /\ incoming.quantity > 0
    /\ LET best == Best(Opposite(incoming.side))
       IN  best # NULL_IDX /\ Crosses(incoming.side, incoming.price, best)

\* The order that the inner loop of match_* looks at.
AtHead(s) ==
    /\ incoming # NoOrder
    /\ Crossing
    /\ s = lists[Opposite(incoming.side)][Best(Opposite(incoming.side))].head

\* One iteration of the inner loop that trades: quantities, callback, removal
\* of the resting order when it is used up and, when the inner loop ends here,
\* the update of the bitmap that follows it.
Fill(s) ==
    /\ AtHead(s)
    /\ nodes[s].user # incoming.user
    /\ LET side == Opposite(incoming.side)
           best == Best(side)
           list == lists[side][best]
           q    == Smaller(incoming.quantity, nodes[s].quantity)
           gone == nodes[s].quantity = q
           next == nodes[s].next
           rest == [head     |-> IF gone THEN next ELSE list.head,
                    tail     |-> IF gone /\ next = NULL_IDX THEN NULL_IDX ELSE list.tail,
                    quantity |-> (list.quantity - q) % QtyMod,
                    count    |-> IF gone THEN (list.count - 1) % QtyMod ELSE list.count]
           ends == incoming.quantity = q \/ rest.head = NULL_IDX
       IN  /\ gone => Len(free) < MaxFree
           /\ incoming' = [incoming EXCEPT !.quantity = @ - q]
           /\ nodes' = [i \in Slots |->
                          LET prev == IF gone /\ i = next THEN NULL_IDX ELSE nodes[i].prev
                          IN  IF i = s
                              THEN [nodes[s] EXCEPT !.quantity = @ - q,
                                                    !.seq = IF gone THEN 0 ELSE @,
                                                    !.prev = prev]
                              ELSE [nodes[i] EXCEPT !.prev = prev]]
           /\ lists' = [lists EXCEPT ![side][best] = rest]
           /\ free' = IF gone THEN Append(free, s) ELSE free
           /\ bitmaps' = IF ends /\ rest.count = 0
                         THEN [bitmaps EXCEPT ![side] = ClearBit(@, best)]
                         ELSE bitmaps
           /\ out' = Trade(incoming, OrderAt(s), best, q)
    /\ UNCHANGED <<counter, pool_idx, zeroCancelled>>

\* The outer loop meets a marked price whose list is empty: it clears the bit
\* if the count is 0, and otherwise comes back to the same price for ever.
SkipLevel ==
    /\ incoming # NoOrder
    /\ Crossing
    /\ LET side == Opposite(incoming.side)
           best == Best(side)
           list == lists[side][best]
       IN  /\ list.head = NULL_IDX
           /\ bitmaps' = IF list.count = 0
                         THEN [bitmaps EXCEPT ![side] = ClearBit(@, best)]
                         ELSE bitmaps
    /\ out' = Nothing
    /\ UNCHANGED <<nodes, free, lists, counter, incoming, pool_idx, zeroCancelled>>

\* Mutant of SelfTradeStop: the order is reported but still has its quantity.
SelfTradeSpin(s) ==
    /\ AtHead(s)
    /\ nodes[s].user = incoming.user
    /\ out' = Rejected(incoming)
    /\ UNCHANGED <<bookVars, counter, incoming, pool_idx, zeroCancelled>>

\* The resting order is the user's own: match_* returns the quantity left.
SelfTradeStop(s) ==
    /\ AtHead(s)
    /\ nodes[s].user = incoming.user
    /\ incoming' = [incoming EXCEPT !.quantity = 0]
    /\ out' = Rejected(incoming)
    /\ UNCHANGED <<bookVars, counter, pool_idx, zeroCancelled>>

\* add_buy_order/add_sell_order: append to the list of the price.
Rest ==
    /\ incoming # NoOrder
    /\ incoming.quantity > 0
    /\ ~ Crossing
    /\ LET side  == incoming.side
           p     == incoming.price
           list  == lists[side][p]
           empty == list.tail = NULL_IDX
       IN  /\ nodes' = [i \in Slots |->
                          IF i = pool_idx
                          THEN [seq |-> incoming.seq, user |-> incoming.user,
                                side |-> side, price |-> p,
                                quantity |-> incoming.quantity,
                                prev |-> list.tail,
                                next |-> IF list.tail = pool_idx THEN pool_idx
                                         ELSE NULL_IDX]
                          ELSE IF i = list.tail
                          THEN [nodes[i] EXCEPT !.next = pool_idx]
                          ELSE nodes[i]]
           /\ lists' = [lists EXCEPT ![side][p] =
                          [head     |-> IF empty THEN pool_idx ELSE list.head,
                           tail     |-> pool_idx,
                           quantity |-> (list.quantity + incoming.quantity) % QtyMod,
                           count    |-> (list.count + 1) % QtyMod]]
           /\ bitmaps' = IF empty
                         THEN [bitmaps EXCEPT ![side] = SetBit(@, p)]
                         ELSE bitmaps
    /\ incoming' = NoOrder
    /\ pool_idx' = NULL_IDX
    /\ out' = Nothing
    /\ UNCHANGED <<free, counter, zeroCancelled>>

\* Mutant of Finish: the reserved slot is not given back.
FinishLeaking ==
    /\ incoming # NoOrder
    /\ incoming.quantity = 0
    /\ incoming' = NoOrder
    /\ pool_idx' = NULL_IDX
    /\ out' = Nothing
    /\ UNCHANGED <<bookVars, counter, zeroCancelled>>

\* Nothing left to rest: the reserved slot goes back.
Finish ==
    /\ incoming # NoOrder
    /\ incoming.quantity = 0
    /\ free' = Append(free, pool_idx)
    /\ incoming' = NoOrder
    /\ pool_idx' = NULL_IDX
    /\ out' = Nothing
    /\ UNCHANGED <<nodes, lists, bitmaps, counter, zeroCancelled>>

\* The id in a node: <<0, 0>> once it was set to 0.
IdAt(s) == IF Active(s) THEN <<nodes[s].seq, s>> ELSE <<0, 0>>

\* Mutant of Cancellable: the owner is checked, the id only for its slot.
CancellableBySlot(id, u) == id[2] \in Slots /\ nodes[id[2]].user = u

\* cancel_order's check of the id and of the owner.
Cancellable(id, u) == id[2] \in Slots /\ IdAt(id[2]) = id /\ nodes[id[2]].user = u

\* Mutants of ListWithout: the tail, or the total, is not updated.
ListKeepingTail(node, list) ==
    [head     |-> IF node.prev = NULL_IDX THEN node.next ELSE list.head,
     tail     |-> list.tail,
     quantity |-> (list.quantity - node.quantity) % QtyMod,
     count    |-> (list.count - 1) % QtyMod]
ListKeepingTotal(node, list) ==
    [head     |-> IF node.prev = NULL_IDX THEN node.next ELSE list.head,
     tail     |-> IF node.next = NULL_IDX THEN node.prev ELSE list.tail,
     quantity |-> list.quantity,
     count    |-> (list.count - 1) % QtyMod]

\* The list of a price once cancel_order has unlinked this node of it.
ListWithout(node, list) ==
    [head     |-> IF node.prev = NULL_IDX THEN node.next ELSE list.head,
     tail     |-> IF node.next = NULL_IDX THEN node.prev ELSE list.tail,
     quantity |-> (list.quantity - node.quantity) % QtyMod,
     count    |-> (list.count - 1) % QtyMod]

\* cancel_order: unlink the node, whatever its place in the list.  Its order
\* is a resting one, or with id 0 the last one of slot 0.
Cancel(id, u) ==
    /\ incoming = NoOrder
    /\ Cancellable(id, u)
    /\ Len(free) < MaxFree
    /\ LET s    == id[2]
           node == nodes[s]
           rest == ListWithout(node, lists[node.side][node.price])
       IN  /\ nodes' = [i \in Slots |->
                          IF i = s THEN [node EXCEPT !.seq = 0]
                          ELSE [nodes[i] EXCEPT
                                  !.next = IF i = node.prev THEN node.next ELSE @,
                                  !.prev = IF i = node.next THEN node.prev ELSE @]]
           /\ lists' = [lists EXCEPT ![node.side][node.price] = rest]
           /\ bitmaps' = IF rest.count = 0
                         THEN [bitmaps EXCEPT ![node.side] = ClearBit(@, node.price)]
                         ELSE bitmaps
           /\ free' = Append(free, s)
           /\ out' = Cancelled(OrderAt(s))
    /\ zeroCancelled' = (zeroCancelled \/ id = <<0, 0>>)
    /\ UNCHANGED <<counter, incoming, pool_idx>>

\* The order that an id names: none, if its number is that of an order in
\* another slot.
Named(id) == IF \E s \in Slots : s # id[2] /\ nodes[s].seq = id[1] THEN 0 ELSE id[1]

CancelMiss(id, u) ==
    /\ incoming = NoOrder
    /\ ~ Cancellable(id, u)
    /\ out' = NotCancelled(Named(id), u)
    /\ UNCHANGED <<bookVars, counter, incoming, pool_idx, zeroCancelled>>

\* What a client may send as the two halves of an id: numbers handed out, to
\* come or never used, with any slot, or beyond the pool.
Ids == (0 .. MaxSeq) \X (0 .. MaxOrders)

Next ==
    \/ \E u \in Users, side \in Sides, p \in 0 .. MaxPrice, q \in Quantity :
          Submit(u, side, p, q)
    \/ \E p \in 0 .. MaxPrice : Refuse(p)
    \/ \E s \in Slots : Fill(s) \/ SelfTradeStop(s)
    \/ SkipLevel
    \/ Rest
    \/ Finish
    \/ \E id \in Ids, u \in Users : Cancel(id, u) \/ CancelMiss(id, u)

\* A call into the book runs to its end: nothing in it blocks.
Fairness == WF_vars((\E s \in Slots : Fill(s) \/ SelfTradeStop(s)) \/ SkipLevel \/ Rest \/ Finish)

Spec == Init /\ [][Next]_vars
FairSpec == Spec /\ Fairness

-----------------------------------------------------------------------------
(* What the data structures of a book are like.                            *)

\* Every slot of the pool is in exactly one place: once on the free stack,
\* reserved for the incoming order, or holding an active order.
Partitioned ==
    /\ incoming = NoOrder <=> pool_idx = NULL_IDX
    /\ \A i, j \in 1 .. Len(free) : i # j => free[i] # free[j]
    /\ \A i \in 1 .. Len(free) : ~ Active(free[i]) /\ free[i] # pool_idx
    /\ pool_idx # NULL_IDX => ~ Active(pool_idx)
    /\ \A s \in Slots : Active(s) \/ s = pool_idx \/ \E i \in 1 .. Len(free) : free[i] = s

\* The links of the nodes and the ends of the lists agree: following next
\* from a head and prev from a tail meets active orders of that price only,
\* older ones towards the head.
EndsOK ==
    \A side \in Sides, p \in Price :
        LET list == lists[side][p]
        IN  /\ list.head = NULL_IDX <=> list.tail = NULL_IDX
            /\ list.head # NULL_IDX => list.head \in At(side, p)
            /\ list.tail # NULL_IDX => list.tail \in At(side, p)

NeighboursOK(s) ==
    LET node == nodes[s]
        list == lists[node.side][node.price]
    IN  /\ list.head # NULL_IDX
        /\ node.prev = NULL_IDX <=> s = list.head
        /\ node.next = NULL_IDX <=> s = list.tail
        /\ node.prev # NULL_IDX => /\ node.prev \in At(node.side, node.price)
                                   /\ nodes[node.prev].next = s
                                   /\ nodes[node.prev].seq < node.seq
        /\ node.next # NULL_IDX => /\ node.next \in At(node.side, node.price)
                                   /\ nodes[node.next].prev = s

Linked == EndsOK /\ \A s \in Slots : Active(s) => NeighboursOK(s)

\* Between an order and its predecessor in the list there is no third one of
\* that price, and none is younger than the tail.
InOrder(s, t) ==
    /\ nodes[s].seq # nodes[t].seq
    /\ nodes[t].seq < nodes[s].seq =>
          /\ nodes[s].prev # NULL_IDX
          /\ nodes[t].seq <= nodes[nodes[s].prev].seq
    /\ nodes[t].seq <= nodes[lists[nodes[s].side][nodes[s].price].tail].seq

ByArrival ==
    \A s, t \in Slots :
        (Active(s) /\ t \in At(nodes[s].side, nodes[s].price) /\ s # t) => InOrder(s, t)

Counted ==
    \A side \in Sides, p \in Price : lists[side][p].count = Cardinality(At(side, p))

Quantities == [s \in Slots |-> nodes[s].quantity]
Totalled ==
    \A side \in Sides, p \in Price :
        lists[side][p].quantity = SumFunctionOnSet(Quantities, At(side, p)) % QtyMod

Indexed ==
    \A side \in Sides :
        /\ WellFormed(bitmaps[side])
        /\ Marked(bitmaps[side]) = {p \in Price : lists[side][p].head # NULL_IDX}

-----------------------------------------------------------------------------
(* Properties.                                                             *)

\* Whatever ids clients cancel, id 0 included, no index leaves its array: a
\* link or a free slot is one of the pool, a list and a bitmap word one of a
\* price, and a slot is reserved as long as an order is being matched.
TypeOK ==
    /\ nodes \in [Slots -> Node]
    /\ free \in Seq(Slots)
    /\ lists \in [Sides -> [Price -> OrderList]]
    /\ bitmaps \in [Sides -> Bitmap]
    /\ counter \in 0 .. MaxSeq
    /\ incoming \in Orders \union {NoOrder}
    /\ pool_idx \in Links
    /\ zeroCancelled \in BOOLEAN

\* Until id 0 is cancelled, no sequence of fills, cancels and self-trade stops
\* leaks a slot, frees one twice or gives one to two orders.
SlotsPartitioned == zeroCancelled \/ Partitioned

\* Until then the list of each price is well linked in both directions.
LinksOK == zeroCancelled \/ Linked

\* Until then each list is complete and in order of arrival.
ArrivalOrder == zeroCancelled \/ ByArrival

\* Until then order_count, which decides when a price loses its bit, counts the
\* orders of the list.
CountsExact == zeroCancelled \/ Counted

\* Until then total_quantity is the quantity resting at the price, as a
\* uint32_t.
TotalsExact == zeroCancelled \/ Totalled

\* The bitmap of a side always has three consistent levels: no lookup meets a
\* zero word.  Until id 0 is cancelled it marks exactly the prices that have
\* orders, also between the steps of a match: no price with orders is skipped.
BitmapsExact ==
    /\ \A side \in Sides : WellFormed(bitmaps[side])
    /\ zeroCancelled \/ Indexed

\* What the proofs need beside: arrival numbers were all handed out, the
\* incoming order has the last one, and no order of quantity 0 rests.
SeqsOK ==
    /\ \A s \in Slots : nodes[s].seq <= counter
    /\ \A s \in Slots : Active(s) => nodes[s].quantity > 0
    /\ incoming # NoOrder =>
          /\ incoming.seq = counter
          /\ \A s \in Slots : nodes[s].seq < incoming.seq

BookInv ==
    /\ TypeOK
    /\ Partitioned
    /\ Linked
    /\ ByArrival
    /\ Counted
    /\ Indexed
    /\ SeqsOK

\* Until id 0 is cancelled, the engine implements the abstract book: every step
\* is a step of LimitBook on the set of active orders, so orders are refused
\* only for their price or for want of room, trades happen at the best price
\* and, within it, with the oldest order, only a user's own order stops a
\* match, what is left over rests, and a cancel removes the order it names or
\* nothing.
Book == INSTANCE LimitBook WITH
            book <- {OrderAt(s) : s \in {t \in Slots : Active(t)}}, Capacity <- MaxOrders
ImplementsLimitBook == Book!Init /\ [][zeroCancelled' \/ Book!Next]_(Book!vars)

\* Until then a call to process_*_order returns: the matching loop ends.
MatchEnds == (incoming # NoOrder) ~> (incoming = NoOrder \/ zeroCancelled)
=============================================================================

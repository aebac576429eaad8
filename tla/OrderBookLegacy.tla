-------------------------- MODULE OrderBookLegacy --------------------------
(***************************************************************************)
(* OrderBookLegacy.h, the LEGACY engine: a map from prices to levels per   *)
(* side, the orders of a level in a list, and an index from order ids to   *)
(* places.  There is no pool, an order's id is its number, and a level     *)
(* exists only while it has orders.                                        *)
(*                                                                         *)
(* A std::map is a function whose domain are its keys.  An iterator into a *)
(* std::list stays with its element, so Location::node_it is the place     *)
(* that the order of that id has in the list now.  The cut into steps is   *)
(* the one of OrderBook: one step per call of the trade listener.          *)
(***************************************************************************)
EXTENDS FiniteSetsExt, SequencesExt

CONSTANTS
    Users,      \* user ids that own orders
    MaxPrice,   \* MAX_PRICE
    MaxQty,     \* bound: largest quantity submitted
    QtyMod,     \* 2^32: total_quantity is a uint32_t
    MaxSeq,     \* bound: orders accepted in a behaviour
    NoOrder     \* "no order is being processed"

VARIABLES
    levels,     \* bids_ and asks_: the price levels of each side
    locations,  \* locations_: where the order of an id rests
    counter,    \* order_id_counter_
    incoming,   \* the order process_*_order is matching, or NoOrder
    out         \* the last result or callback

vars == <<levels, locations, counter, incoming, out>>

Sides == {"buy", "sell"}
Opposite(side) == IF side = "buy" THEN "sell" ELSE "buy"
NULL_PRICE == -1

Smaller(a, b) == IF a <= b THEN a ELSE b
Lower(side, p, q) == p < q                          \* mutant of Better
Better(side, p, q) == IF side = "buy" THEN p > q ELSE p < q
CrossesStrictly(side, p, q) == IF side = "buy" THEN q < p ELSE q > p   \* mutant of Crosses
Crosses(side, p, q) == IF side = "buy" THEN q <= p ELSE q >= p

Put(map, key, value) ==
    [k \in DOMAIN map \union {key} |-> IF k = key THEN value ELSE map[k]]
Erase(map, key) == Restrict(map, DOMAIN map \ {key})

\* Mutant of SetLevel: a level stays although its last order went.
SetLevelAlways(map, p, orders, quantity) ==
    Put(map, p, [orders |-> orders, quantity |-> quantity % QtyMod])

\* What becomes of the level of a price: it is erased once it has no orders.
SetLevel(map, p, orders, quantity) ==
    IF orders = <<>> THEN Erase(map, p)
    ELSE Put(map, p, [orders |-> orders, quantity |-> quantity % QtyMod])

\* The level of a price, which the map creates when it is missing.
LevelAt(side, p) ==
    IF p \in DOMAIN levels[side] THEN levels[side][p]
    ELSE [orders |-> <<>>, quantity |-> 0]

Nothing == [kind |-> "nothing"]
Refused == [kind |-> "refused"]
Rejected(o) == [kind |-> "rejected", order |-> o]
Cancelled(o) == [kind |-> "cancelled", order |-> o]
NotCancelled(n, u) == [kind |-> "not_cancelled", seq |-> n, user |-> u]

\* The Trade that match_buy and match_sell report.
Trade(t, o, p, q) ==
    LET buy  == IF t.side = "buy" THEN t ELSE o
        sell == IF t.side = "buy" THEN o ELSE t
    IN  [kind |-> "trade", price |-> p, quantity |-> q,
         buy |-> buy.seq, sell |-> sell.seq,
         buyer |-> buy.user, seller |-> sell.user,
         buyer_limit_price |-> buy.price]

-----------------------------------------------------------------------------
Init ==
    /\ levels = [side \in Sides |-> <<>>]
    /\ locations = <<>>
    /\ counter = 0
    /\ incoming = NoOrder
    /\ out = Nothing

CanProcess(p) == p < MaxPrice

\* process_*_order up to the call of match_*.
Submit(u, side, p, q) ==
    /\ incoming = NoOrder
    /\ counter < MaxSeq
    /\ CanProcess(p)
    /\ counter' = counter + 1
    /\ incoming' = [seq |-> counter + 1, user |-> u, side |-> side,
                    price |-> p, quantity |-> q]
    /\ out' = Nothing
    /\ UNCHANGED <<levels, locations>>

Refuse(p) ==
    /\ incoming = NoOrder
    /\ ~ CanProcess(p)
    /\ out' = Refused
    /\ UNCHANGED <<levels, locations, counter, incoming>>

\* begin() of a map: the key that its order puts first.
Best(side) ==
    IF levels[side] = <<>> THEN NULL_PRICE
    ELSE CHOOSE p \in DOMAIN levels[side] :
            \A q \in DOMAIN levels[side] : p = q \/ Better(side, p, q)

\* The condition of the outer loop of match_*.
Crossing ==
    /\ incoming.quantity > 0
    /\ LET best == Best(Opposite(incoming.side))
       IN  best # NULL_PRICE /\ Crosses(incoming.side, incoming.price, best)

\* One iteration of the inner loop that trades, with the removal of the level
\* when the inner loop ends because it is empty.
Fill ==
    /\ incoming # NoOrder
    /\ Crossing
    /\ LET side    == Opposite(incoming.side)
           best    == Best(side)
           level   == levels[side][best]
           resting == Head(level.orders)
           q       == Smaller(incoming.quantity, resting.quantity)
           gone    == resting.quantity = q
           left    == (IF gone THEN <<>> ELSE <<[resting EXCEPT !.quantity = @ - q]>>)
                          \o Tail(level.orders)
       IN  /\ resting.user # incoming.user
           /\ incoming' = [incoming EXCEPT !.quantity = @ - q]
           /\ levels' = [levels EXCEPT ![side] =
                            SetLevel(@, best, left, level.quantity - q)]
           /\ locations' = IF gone THEN Erase(locations, resting.seq) ELSE locations
           /\ out' = Trade(incoming, resting, best, q)
    /\ UNCHANGED counter

\* The resting order is the user's own: match_* returns the quantity left.
SelfTradeStop ==
    /\ incoming # NoOrder
    /\ Crossing
    /\ LET side == Opposite(incoming.side)
       IN  Head(levels[side][Best(side)].orders).user = incoming.user
    /\ incoming' = [incoming EXCEPT !.quantity = 0]
    /\ out' = Rejected(incoming)
    /\ UNCHANGED <<levels, locations, counter>>

\* add_order.
Rest ==
    /\ incoming # NoOrder
    /\ incoming.quantity > 0
    /\ ~ Crossing
    /\ LET side  == incoming.side
           p     == incoming.price
           level == LevelAt(side, p)
       IN  /\ levels' = [levels EXCEPT ![side] =
                            SetLevel(@, p, Append(level.orders, incoming),
                                     level.quantity + incoming.quantity)]
           /\ locations' = Put(locations, incoming.seq, [side |-> side, price |-> p])
    /\ incoming' = NoOrder
    /\ out' = Nothing
    /\ UNCHANGED counter

Finish ==
    /\ incoming # NoOrder
    /\ incoming.quantity = 0
    /\ incoming' = NoOrder
    /\ out' = Nothing
    /\ UNCHANGED <<levels, locations, counter>>

\* The element of its level's list that an order's iterator is at.
NodeAt(n) ==
    LET orders == levels[locations[n].side][locations[n].price].orders
    IN  CHOOSE i \in DOMAIN orders : orders[i].seq = n

\* *loc.node_it
OrderAt(n) == levels[locations[n].side][locations[n].price].orders[NodeAt(n)]

Cancellable(n, u) == n \in DOMAIN locations /\ OrderAt(n).user = u

\* cancel_order with erase_from_book.
Cancel(n, u) ==
    /\ incoming = NoOrder
    /\ Cancellable(n, u)
    /\ LET side  == locations[n].side
           p     == locations[n].price
           level == levels[side][p]
           left  == RemoveAt(level.orders, NodeAt(n))
       IN  levels' = [levels EXCEPT ![side] =
                         SetLevel(@, p, left, level.quantity - OrderAt(n).quantity)]
    /\ locations' = Erase(locations, n)
    /\ out' = Cancelled(OrderAt(n))
    /\ UNCHANGED <<counter, incoming>>

CancelMiss(n, u) ==
    /\ incoming = NoOrder
    /\ ~ Cancellable(n, u)
    /\ out' = NotCancelled(n, u)
    /\ UNCHANGED <<levels, locations, counter, incoming>>

Next ==
    \/ \E u \in Users, side \in Sides, p \in 0 .. MaxPrice, q \in 0 .. MaxQty :
          Submit(u, side, p, q)
    \/ \E p \in 0 .. MaxPrice : Refuse(p)
    \/ Fill \/ SelfTradeStop \/ Rest \/ Finish
    \/ \E n \in 0 .. MaxSeq, u \in Users : Cancel(n, u) \/ CancelMiss(n, u)

Spec == Init /\ [][Next]_vars

-----------------------------------------------------------------------------
(* depth_of and orders_of.                                                 *)

\* Mutant of Prefix: the limit is tested after the element was added.
PrefixPast(seq, limit) == SubSeq(seq, 1, Smaller(limit + 1, Len(seq)))
Prefix(seq, limit) == SubSeq(seq, 1, Smaller(limit, Len(seq)))

\* A map is walked in the order of its keys.
PricesOf(side) ==
    LET keys == DOMAIN levels[side]
    IN  CHOOSE seq \in [1 .. Cardinality(keys) -> keys] :
            \A i, j \in DOMAIN seq : i < j => Better(side, seq[i], seq[j])

Depth(side, limit) ==
    LET prices == Prefix(PricesOf(side), limit)
    IN  [k \in 1 .. Len(prices) |->
            [price    |-> prices[k],
             quantity |-> levels[side][prices[k]].quantity,
             orders   |-> Len(levels[side][prices[k]].orders)]]

OrdersFound(side, limit) ==
    LET prices == PricesOf(side)
    IN  Prefix(FlattenSeq([k \in 1 .. Len(prices) |-> levels[side][prices[k]].orders]), limit)

-----------------------------------------------------------------------------
Resting == UNION {UNION {ToSet(levels[side][p].orders) : p \in DOMAIN levels[side]} :
                     side \in Sides}

\* The index leads to every resting order and to nothing else, and a level of
\* the map has orders: an iterator never dangles, and the front of the first
\* level, which match_* dereferences, exists.
IndexExact ==
    /\ \A n \in DOMAIN locations :
          LET loc == locations[n]
          IN  /\ loc.price \in DOMAIN levels[loc.side]
              /\ \E o \in ToSet(levels[loc.side][loc.price].orders) : o.seq = n
    /\ \A o \in Resting : /\ o.seq \in DOMAIN locations
                          /\ locations[o.seq] = [side |-> o.side, price |-> o.price]
    /\ \A side \in Sides : \A p \in DOMAIN levels[side] : levels[side][p].orders # <<>>

\* The LEGACY engine implements the abstract book too, one without a limit to
\* its orders.
Book == INSTANCE LimitBook WITH book <- Resting, Capacity <- -1
ImplementsLimitBook == Book!Spec
=============================================================================

----------------------------- MODULE LimitBook -----------------------------
(***************************************************************************)
(* What an IOrderBook promises, whichever engine implements it: a limit    *)
(* order book with price-time priority and self-trade prevention.          *)
(*                                                                         *)
(* The book is the set of resting orders.  An order is identified by its   *)
(* arrival number; the ids the engines hand out are a matter of theirs.    *)
(* Matching an order is a sequence of steps, one per trade, because each   *)
(* trade is reported to the trade listener on its own.                     *)
(***************************************************************************)
EXTENDS Integers, FiniteSets

CONSTANTS
    Users,      \* user ids that own orders
    MaxPrice,   \* MAX_PRICE
    MaxQty,     \* largest order quantity submitted
    MaxSeq,     \* bound: number of orders accepted in a behaviour
    Capacity,   \* how many orders the book has room for, or Unbounded
    NoOrder     \* "no order is being processed"

Unbounded == -1

Sides == {"buy", "sell"}                       \* Order::side, true is BUY
Opposite(side) == IF side = "buy" THEN "sell" ELSE "buy"

Orders == [seq : Nat \ {0}, user : Users, side : Sides,
           price : 0 .. MaxPrice - 1, quantity : 0 .. MaxQty]

ASSUME LimitBookAssumption ==
    /\ MaxPrice \in Nat \ {0}
    /\ MaxQty \in Nat
    /\ MaxSeq \in Nat
    /\ Capacity \in Nat \union {Unbounded}
    /\ NoOrder \notin Orders

VARIABLES
    book,       \* the resting orders
    incoming,   \* the order being matched, NoOrder between two calls
    counter,    \* order_id_counter: how many orders were accepted
    out         \* what the last step reported to its caller or the listener

vars == <<book, incoming, counter, out>>

Smaller(a, b) == IF a <= b THEN a ELSE b

\* p is a better price than q for an order resting on this side.
BetterPrice(side, p, q) == IF side = "buy" THEN p > q ELSE p < q

\* An incoming order on this side with limit p trades at resting price q.
Crosses(side, p, q) == IF side = "buy" THEN q <= p ELSE q >= p

\* Price first, then arrival.
Ahead(a, b) == \/ BetterPrice(a.side, a.price, b.price)
               \/ a.price = b.price /\ a.seq < b.seq

Resting(side) == {o \in book : o.side = side}
IsFirst(o) == \A x \in Resting(o.side) : x # o => Ahead(o, x)

Nothing == [kind |-> "nothing"]
Refused == [kind |-> "refused"]
Rejected(o) == [kind |-> "rejected", order |-> o]
Cancelled(o) == [kind |-> "cancelled", order |-> o]
NotCancelled(n, u) == [kind |-> "not_cancelled", seq |-> n, user |-> u]

\* The trade between the incoming order t and the resting order o: at the
\* resting price, with the buyer's own limit price beside it.
Trade(t, o, q) ==
    LET buy  == IF t.side = "buy" THEN t ELSE o
        sell == IF t.side = "buy" THEN o ELSE t
    IN  [kind |-> "trade", price |-> o.price, quantity |-> q,
         buy |-> buy.seq, sell |-> sell.seq,
         buyer |-> buy.user, seller |-> sell.user,
         buyer_limit_price |-> buy.price]

-----------------------------------------------------------------------------
Init == /\ book = {}
        /\ incoming = NoOrder
        /\ counter = 0
        /\ out = Nothing

\* can_process_order, of a book with room for so many orders.
Accepts(p, room) ==
    /\ p < MaxPrice
    /\ room # Unbounded => Cardinality(book) < room

\* The order is accepted: it gets its arrival number and is matched next.
Submit(u, side, p, q) ==
    /\ incoming = NoOrder
    /\ counter < MaxSeq
    /\ counter' = counter + 1
    /\ incoming' = [seq |-> counter + 1, user |-> u, side |-> side,
                    price |-> p, quantity |-> q]
    /\ out' = Nothing
    /\ UNCHANGED book

\* The order is not accepted.
Refuse ==
    /\ incoming = NoOrder
    /\ out' = Refused
    /\ UNCHANGED <<book, incoming, counter>>

\* The incoming order meets the first order of the other side.
Meets(o) ==
    /\ incoming # NoOrder
    /\ incoming.quantity > 0
    /\ o.side = Opposite(incoming.side)
    /\ IsFirst(o)
    /\ Crosses(incoming.side, incoming.price, o.price)

Match(o) ==
    /\ Meets(o)
    /\ o.user # incoming.user
    /\ LET q    == Smaller(incoming.quantity, o.quantity)
           left == [o EXCEPT !.quantity = @ - q]
       IN  /\ book' = (book \ {o}) \union (IF left.quantity = 0 THEN {} ELSE {left})
           /\ incoming' = [incoming EXCEPT !.quantity = @ - q]
           /\ out' = Trade(incoming, o, q)
    /\ UNCHANGED counter

\* Mutant of SelfTradeStop: what was to be rejected rests.
SelfTradeRest(o) ==
    /\ Meets(o)
    /\ o.user = incoming.user
    /\ book' = book \union {incoming}
    /\ incoming' = NoOrder
    /\ out' = Nothing
    /\ UNCHANGED counter

\* A user never trades with itself: the rest of the order is rejected.
SelfTradeStop(o) ==
    /\ Meets(o)
    /\ o.user = incoming.user
    /\ incoming' = [incoming EXCEPT !.quantity = 0]
    /\ out' = Rejected(incoming)
    /\ UNCHANGED <<book, counter>>

\* Nothing is left to trade with: the rest of the order joins the book.
Rest ==
    /\ incoming # NoOrder
    /\ incoming.quantity > 0
    /\ \A o \in Resting(Opposite(incoming.side)) :
          ~ Crosses(incoming.side, incoming.price, o.price)
    /\ book' = book \union {incoming}
    /\ incoming' = NoOrder
    /\ out' = Nothing
    /\ UNCHANGED counter

\* Nothing is left of the order.
Finish ==
    /\ incoming # NoOrder
    /\ incoming.quantity = 0
    /\ incoming' = NoOrder
    /\ out' = Nothing
    /\ UNCHANGED <<book, counter>>

\* The owner takes its resting order out.
Cancel(o) ==
    /\ incoming = NoOrder
    /\ book' = book \ {o}
    /\ out' = Cancelled(o)
    /\ UNCHANGED <<incoming, counter>>

\* Order n is not resting, or not this user's: nothing happens.
CancelMiss(n, u) ==
    /\ incoming = NoOrder
    /\ ~ \E o \in book : o.seq = n /\ o.user = u
    /\ out' = NotCancelled(n, u)
    /\ UNCHANGED <<book, incoming, counter>>

\* The steps of a book with room for so many orders.
NextWithin(room) ==
    \/ \E u \in Users, side \in Sides, p \in 0 .. MaxPrice, q \in 0 .. MaxQty :
          Accepts(p, room) /\ Submit(u, side, p, q)
    \/ \E p \in 0 .. MaxPrice : ~ Accepts(p, room) /\ Refuse
    \/ \E o \in book : Match(o) \/ SelfTradeStop(o) \/ Cancel(o)
    \/ Rest
    \/ Finish
    \/ \E n \in 0 .. MaxSeq, u \in Users : CancelMiss(n, u)

Next == NextWithin(Capacity)

Spec == Init /\ [][Next]_vars

-----------------------------------------------------------------------------
TypeOK ==
    /\ book \subseteq Orders
    /\ \A o \in book : o.quantity > 0
    /\ incoming \in Orders \union {NoOrder}
    /\ counter \in 0 .. MaxSeq

\* No resting buy order is priced at or above a resting sell order, although
\* an order that stopped at an order of its own user was still crossing it:
\* what self-trade prevention rejects must never reach the book.
NotCrossed ==
    \A b \in Resting("buy"), s \in Resting("sell") : b.price < s.price
=============================================================================

---------------------------- MODULE EngineParity ----------------------------
(***************************************************************************)
(* The two engines driven with the same calls, as in the parity tests: an  *)
(* order or a cancel goes to OrderBook first and, when that has returned,  *)
(* to OrderBookLegacy.  Each keeps its own ids, so a cancel names, in each *)
(* engine, the id that engine gave the order; a number no order has, 0     *)
(* among them, goes to both as it is.                                      *)
(***************************************************************************)
EXTENDS OrderBookQueries

VARIABLES
    levels, locations, legacyCounter, legacyIncoming, legacyOut,
    ids,        \* the slot in the id that OrderBook gave each order
    asked,      \* the call OrderBookLegacy has still to get, or NoCall
    reports,    \* what OrderBook reported of this call, in order
    legacyReports

Legacy == INSTANCE OrderBookLegacy WITH
    counter <- legacyCounter, incoming <- legacyIncoming, out <- legacyOut

legacyVars == <<levels, locations, legacyCounter, legacyIncoming, legacyOut>>
parityVars == <<vars, legacyVars, ids, asked, reports, legacyReports>>

NoCall == [call |-> "none"]
Order(u, side, p, q) == [call |-> "order", user |-> u, side |-> side, price |-> p, quantity |-> q]
CancelOf(n, u) == [call |-> "cancel", seq |-> n, user |-> u]

Idle == incoming = NoOrder /\ legacyIncoming = NoOrder /\ asked = NoCall

ParityInit ==
    /\ Init
    /\ Legacy!Init
    /\ ids = <<>>
    /\ asked = NoCall
    /\ reports = <<>> /\ legacyReports = <<>>

\* The test's script makes the next call.  OrderBook has room: the two part
\* ways when its pool is full, since OrderBookLegacy has none.  They also part
\* ways when OrderBook accepts a cancel of id 0, which is a miss in the other.
\* Bound: the script sends no order after that.
CallOrder(u, side, p, q) ==
    /\ Idle
    /\ free # <<>>
    /\ ~ zeroCancelled
    /\ counter < MaxSeq
    /\ Submit(u, side, p, q) \/ Refuse(p)
    /\ ids' = IF p < MaxPrice THEN Append(ids, pool_idx') ELSE ids
    /\ asked' = Order(u, side, p, q)
    /\ reports' = <<out'>> /\ legacyReports' = <<>>
    /\ UNCHANGED legacyVars

\* OrderBook's id of order n.
IdOf(n) == <<n, IF n \in DOMAIN ids THEN ids[n] ELSE 0>>

CallCancel(n, u) ==
    /\ Idle
    /\ Cancel(IdOf(n), u) \/ CancelMiss(IdOf(n), u)
    /\ asked' = CancelOf(n, u)
    /\ reports' = <<out'>> /\ legacyReports' = <<>>
    /\ UNCHANGED <<legacyVars, ids>>

\* process_*_order of OrderBook goes on.
Proceed ==
    /\ (\E s \in Slots : Fill(s) \/ SelfTradeStop(s)) \/ Rest \/ Finish
    /\ reports' = Append(reports, out')
    /\ UNCHANGED <<legacyVars, ids, asked, legacyReports>>

\* OrderBook has returned: the same call to OrderBookLegacy.
LegacyCall ==
    /\ incoming = NoOrder
    /\ asked # NoCall
    /\ IF asked.call = "order"
       THEN \/ Legacy!Submit(asked.user, asked.side, asked.price, asked.quantity)
            \/ Legacy!Refuse(asked.price)
       ELSE Legacy!Cancel(asked.seq, asked.user) \/ Legacy!CancelMiss(asked.seq, asked.user)
    /\ asked' = NoCall
    /\ legacyReports' = <<legacyOut'>>
    /\ UNCHANGED <<vars, ids, reports>>

LegacyProceed ==
    /\ Legacy!Fill \/ Legacy!SelfTradeStop \/ Legacy!Rest \/ Legacy!Finish
    /\ legacyReports' = Append(legacyReports, legacyOut')
    /\ UNCHANGED <<vars, ids, asked, reports>>

ParityNext ==
    \/ \E u \in Users, side \in Sides, p \in 0 .. MaxPrice, q \in Quantity :
          CallOrder(u, side, p, q)
    \/ \E n \in 0 .. MaxSeq, u \in Users : CallCancel(n, u)
    \/ Proceed
    \/ LegacyCall
    \/ LegacyProceed

ParitySpec == ParityInit /\ [][ParityNext]_parityVars

-----------------------------------------------------------------------------
\* The index of OrderBookLegacy leads to every resting order and to nothing
\* else, and no price keeps an empty level, after any calls.
LegacyIndexExact == Legacy!IndexExact

\* OrderBookLegacy implements the same abstract book as OrderBook: best price
\* first, then arrival, no trade of a user with itself, exact cancels.
LegacyImplementsLimitBook == Legacy!ImplementsLimitBook

\* Both engines have answered the same calls: they reported the same trades,
\* rejections and cancelled orders of the last one, in the same order.
SameReports == Idle => legacyReports = reports

SameOrders == Idle => Legacy!Resting = {OrderAt(s) : s \in {t \in Slots : Active(t)}}

\* Until id 0 is cancelled, the two engines report the same of each call, and
\* the same orders rest in both books, whatever calls came before.
ReportsAgree == zeroCancelled \/ (SameReports /\ SameOrders)

\* Until then their depths and order snapshots agree too, for every limit.
SnapshotsAgree ==
    Idle /\ ~ zeroCancelled =>
        \A side \in Sides, limit \in 0 .. MaxOrders :
            /\ Legacy!Depth(side, limit) = Depth(side, limit)
            /\ Legacy!OrdersFound(side, limit) = OrdersFound(side, limit)
=============================================================================

--------------------------- MODULE LimitBookProofs --------------------------
(***************************************************************************)
(* The book of any engine that implements LimitBook is never crossed.      *)
(***************************************************************************)
EXTENDS LimitBook, TLAPS

\* Quantities filled come out of what both orders have left.
LEMMA Filled ==
    ASSUME NEW a \in 1 .. MaxQty, NEW b \in 1 .. MaxQty
    PROVE  /\ Smaller(a, b) \in 1 .. MaxQty
           /\ a - Smaller(a, b) \in 0 .. MaxQty
           /\ b - Smaller(a, b) \in 0 .. MaxQty
  BY LimitBookAssumption DEF Smaller

\* Each step keeps the types; no order of quantity 0 rests.
LEMMA TypeStep ==
    ASSUME NEW room, TypeOK, [NextWithin(room)]_vars
    PROVE  TypeOK'
<1>. USE LimitBookAssumption
<1>1. ASSUME NEW u \in Users, NEW side \in Sides, NEW p \in 0 .. MaxPrice,
             NEW q \in 0 .. MaxQty, Accepts(p, room), Submit(u, side, p, q)
      PROVE  TypeOK'
  BY <1>1 DEF Accepts, Submit, TypeOK, Orders
<1>2. ASSUME NEW o \in book, Match(o)
      PROVE  TypeOK'
  <2>1. incoming \in Orders /\ incoming.quantity > 0 /\ o \in Orders /\ o.quantity > 0
    BY <1>2 DEF Match, Meets, TypeOK
  <2>. DEFINE q == Smaller(incoming.quantity, o.quantity)
              left == [o EXCEPT !.quantity = @ - q]
  <2>2. incoming.quantity \in 1 .. MaxQty /\ o.quantity \in 1 .. MaxQty
    BY <2>1 DEF Orders
  <2>3. incoming.quantity - q \in 0 .. MaxQty /\ o.quantity - q \in 0 .. MaxQty
    BY <2>2, Filled
  <2>4. /\ book' = (book \ {o}) \union (IF left.quantity = 0 THEN {} ELSE {left})
        /\ incoming' = [incoming EXCEPT !.quantity = @ - q]
        /\ counter' = counter
    BY <1>2 DEF Match
  <2>5. left \in Orders /\ left.quantity = o.quantity - q
    BY <2>1, <2>3 DEF Orders
  <2>6. incoming' \in Orders
    BY <2>1, <2>3, <2>4 DEF Orders
  <2>7. left.quantity # 0 => left.quantity > 0
    BY <2>3, <2>5
  <2>. QED  BY <2>4, <2>5, <2>6, <2>7 DEF TypeOK
<1>3. ASSUME NEW o \in book, SelfTradeStop(o)
      PROVE  TypeOK'
  BY <1>3 DEF SelfTradeStop, Meets, TypeOK, Orders
<1>4. ASSUME NEW o \in book, Cancel(o)
      PROVE  TypeOK'
  BY <1>4 DEF Cancel, TypeOK
<1>5. CASE Rest
  BY <1>5 DEF Rest, TypeOK
<1>6. CASE Finish
  BY <1>6 DEF Finish, TypeOK
<1>7. CASE Refuse
  BY <1>7 DEF Refuse, TypeOK
<1>8. ASSUME NEW n \in 0 .. MaxSeq, NEW u \in Users, CancelMiss(n, u)
      PROVE  TypeOK'
  BY <1>8 DEF CancelMiss, TypeOK
<1>9. CASE UNCHANGED vars
  BY <1>9 DEF vars, TypeOK
<1>. QED  BY <1>1, <1>2, <1>3, <1>4, <1>5, <1>6, <1>7, <1>8, <1>9 DEF NextWithin

\* An order joins the book only when nothing on the other side crosses it,
\* and a fill or a cancel changes no price.
LEMMA NotCrossedStep ==
    ASSUME NEW room, TypeOK, NotCrossed, [NextWithin(room)]_vars
    PROVE  NotCrossed'
<1>. USE LimitBookAssumption
<1>1. ASSUME NEW o \in book, Match(o)
      PROVE  NotCrossed'
  <2>. DEFINE q == Smaller(incoming.quantity, o.quantity)
              left == [o EXCEPT !.quantity = @ - q]
  <2>1. book' = (book \ {o}) \union (IF left.quantity = 0 THEN {} ELSE {left})
    BY <1>1 DEF Match
  <2>2. left.side = o.side /\ left.price = o.price
    BY DEF TypeOK, Orders
  <2>3. ASSUME NEW x \in book'
        PROVE  \E y \in book : y.side = x.side /\ y.price = x.price
    BY <2>1, <2>2
  <2>. QED  BY <2>3 DEF NotCrossed, Resting
<1>2. CASE Rest
  <2>1. ASSUME NEW x \in book', NEW y \in book', x.side = "buy", y.side = "sell"
        PROVE  x.price < y.price
    <3>1. /\ incoming \in Orders /\ book' = book \union {incoming}
          /\ \A z \in book : z.side = Opposite(incoming.side) =>
                 ~ Crosses(incoming.side, incoming.price, z.price)
      BY <1>2 DEF Rest, TypeOK, Resting
    <3>2. book \subseteq Orders
      BY DEF TypeOK
    <3>3. CASE x = incoming /\ y \in book
      BY <2>1, <3>1, <3>2, <3>3 DEF Crosses, Opposite, Orders
    <3>4. CASE y = incoming /\ x \in book
      BY <2>1, <3>1, <3>2, <3>4 DEF Crosses, Opposite, Orders
    <3>5. CASE x \in book /\ y \in book
      BY <2>1, <3>5 DEF NotCrossed, Resting
    <3>6. x \in book \/ x = incoming
      BY <3>1
    <3>7. y \in book \/ y = incoming
      BY <3>1
    <3>. QED  BY <2>1, <3>3, <3>4, <3>5, <3>6, <3>7
  <2>. QED  BY <2>1 DEF NotCrossed, Resting
<1>3. ASSUME NEW o \in book, Cancel(o)
      PROVE  NotCrossed'
  BY <1>3 DEF Cancel, NotCrossed, Resting
<1>4. CASE UNCHANGED book
  BY <1>4 DEF NotCrossed, Resting
<1>. QED
  BY <1>1, <1>2, <1>3, <1>4
     DEF NextWithin, Submit, Refuse, SelfTradeStop, Finish, CancelMiss, vars

\* An empty book is typed and not crossed.
LEMMA InitHolds == Init => TypeOK /\ NotCrossed
BY LimitBookAssumption DEF Init, TypeOK, NotCrossed, Resting

\* The types of the abstract book, for every number of users, prices,
\* quantities and orders.
THEOREM LimitBookTypes == Spec => []TypeOK
<1>1. Init => TypeOK
  BY InitHolds
<1>2. TypeOK /\ [Next]_vars => TypeOK'
  BY TypeStep DEF Next
<1>. QED  BY <1>1, <1>2, PTL DEF Spec

\* No resting buy order is priced at or above a resting sell order, also
\* between the fills of an order and after self-trade prevention stopped one
\* that still crossed.
THEOREM NeverCrossed == Spec => []NotCrossed
<1>1. Init => TypeOK /\ NotCrossed
  BY InitHolds
<1>2. TypeOK /\ NotCrossed /\ [Next]_vars => (TypeOK /\ NotCrossed)'
  BY TypeStep, NotCrossedStep DEF Next
<1>. QED  BY <1>1, <1>2, PTL DEF Spec
=============================================================================

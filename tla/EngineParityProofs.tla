------------------------- MODULE EngineParityProofs -------------------------
(***************************************************************************)
(* The LEGACY engine keeps its index exact and implements LimitBook, and   *)
(* the two engines give the same answers to the same calls.                *)
(*                                                                         *)
(* Sorted says what the list of a level is like; the first lemmas are      *)
(* about such lists.  Every change of the map is one Update of one level,  *)
(* seen as a change of the set of resting orders, and each step of the     *)
(* engine follows from what it does to that set.  Since both engines       *)
(* implement LimitBook, and what LimitBook does next is determined, the    *)
(* books that one goes through during a call are those of the other.       *)
(* The same changes keep the totals of the levels equal to those of their  *)
(* orders, and a list in the order of arrival is determined by what is in  *)
(* it, so the engines show alike between two calls.                        *)
(***************************************************************************)
EXTENDS EngineParity, OrderBookProofs

\* The list of the level of this side and price: its orders, oldest first.
Sorted(side, p, s) ==
    /\ s \in Seq(Orders)
    /\ \A i \in 1 .. Len(s) : s[i].side = side /\ s[i].price = p /\ s[i].quantity > 0
    /\ \A i, j \in 1 .. Len(s) : i < j => s[i].seq < s[j].seq

\* The orders of a list.
In(o, s) == \E i \in 1 .. Len(s) : s[i] = o

\* The fields of an order.
LEMMA OrderFields ==
    ASSUME NEW o \in Orders
    PROVE  /\ o.seq \in Nat /\ o.quantity \in Nat /\ o.price \in Price
           /\ o.side \in Sides /\ o.user \in Users
  BY OrderBookAssumption DEF Orders, Quantity

\* Two orders of a list with the same number are one.
LEMMA SortedUnique ==
    ASSUME NEW side, NEW p, NEW s, Sorted(side, p, s),
           NEW i \in 1 .. Len(s), NEW j \in 1 .. Len(s), s[i].seq = s[j].seq
    PROVE  i = j
<1>1. Len(s) \in Nat /\ s[i] \in Orders /\ s[j] \in Orders
  BY LenProperties, ElementOfSeq DEF Sorted
<1>2. s[i].seq \in Nat /\ s[j].seq \in Nat
  BY <1>1, OrderFields
<1>3. (i < j => s[i].seq < s[j].seq) /\ (j < i => s[j].seq < s[i].seq)
  BY DEF Sorted
<1>. QED  BY <1>1, <1>2, <1>3

\* The first order of a list is its oldest.
LEMMA SortedHead ==
    ASSUME NEW side, NEW p, NEW s, Sorted(side, p, s), s # <<>>
    PROVE  /\ Head(s) = s[1] /\ 1 \in 1 .. Len(s) /\ Head(s) \in Orders
           /\ In(Head(s), s)
           /\ \A o : In(o, s) /\ o # Head(s) => Head(s).seq < o.seq
<1>1. s \in Seq(Orders) /\ Len(s) \in Nat /\ Len(s) # 0
  BY LenProperties, EmptySeq DEF Sorted
<1>2. Head(s) = s[1] /\ 1 \in 1 .. Len(s) /\ Head(s) \in Orders
  BY <1>1, ElementOfSeq
<1>3. ASSUME NEW o, In(o, s), o # Head(s)
      PROVE  Head(s).seq < o.seq
  <2>1. PICK i \in 1 .. Len(s) : s[i] = o
    BY <1>3 DEF In
  <2>2. 1 < i
    BY <1>1, <1>2, <1>3, <2>1
  <2>. QED  BY <1>2, <2>1, <2>2 DEF Sorted
<1>. QED  BY <1>2, <1>3 DEF In

\* Without its first order.
LEMMA SortedTail ==
    ASSUME NEW side, NEW p, NEW s, Sorted(side, p, s), s # <<>>
    PROVE  /\ Sorted(side, p, Tail(s))
           /\ \A o : In(o, Tail(s)) <=> In(o, s) /\ o # Head(s)
<1>1. s \in Seq(Orders) /\ Len(s) \in Nat
  BY LenProperties DEF Sorted
<1>2. /\ Tail(s) \in Seq(Orders) /\ Len(Tail(s)) = Len(s) - 1
      /\ \A i \in 1 .. Len(Tail(s)) : Tail(s)[i] = s[i + 1]
  BY <1>1, HeadTailProperties
<1>3. \A i \in 1 .. Len(Tail(s)) : i + 1 \in 1 .. Len(s)
  BY <1>1, <1>2
<1>4. Sorted(side, p, Tail(s))
  <2>1. ASSUME NEW i \in 1 .. Len(Tail(s))
        PROVE  Tail(s)[i].side = side /\ Tail(s)[i].price = p /\ Tail(s)[i].quantity > 0
    BY <1>2, <1>3 DEF Sorted
  <2>2. ASSUME NEW i \in 1 .. Len(Tail(s)), NEW j \in 1 .. Len(Tail(s)), i < j
        PROVE  Tail(s)[i].seq < Tail(s)[j].seq
    <3>1. i + 1 < j + 1
      BY <1>1, <1>2, <2>2
    <3>. QED  BY <1>2, <1>3, <3>1 DEF Sorted
  <2>. QED  BY <1>2, <2>1, <2>2 DEF Sorted
<1>5. ASSUME NEW o, In(o, Tail(s))
      PROVE  In(o, s) /\ o # Head(s)
  <2>1. PICK i \in 1 .. Len(Tail(s)) : Tail(s)[i] = o
    BY <1>5 DEF In
  <2>2. i + 1 \in 1 .. Len(s) /\ s[i + 1] = o
    BY <1>2, <1>3, <2>1
  <2>3. Head(s) = s[1] /\ 1 \in 1 .. Len(s)
    BY SortedHead
  <2>4. i + 1 # 1
    BY <1>1, <1>2
  <2>. QED  BY <2>2, <2>3, <2>4, SortedUnique DEF In
<1>6. ASSUME NEW o, In(o, s), o # Head(s)
      PROVE  In(o, Tail(s))
  <2>1. PICK i \in 1 .. Len(s) : s[i] = o
    BY <1>6 DEF In
  <2>2. Head(s) = s[1]
    BY SortedHead
  <2>3. i - 1 \in 1 .. Len(Tail(s)) /\ i = (i - 1) + 1
    BY <1>1, <1>2, <1>6, <2>1, <2>2
  <2>. QED  BY <1>2, <2>1, <2>3 DEF In
<1>. QED  BY <1>4, <1>5, <1>6

\* With a younger order at the end.
LEMMA SortedAppend ==
    ASSUME NEW side, NEW p, NEW s, Sorted(side, p, s), NEW o \in Orders,
           o.side = side, o.price = p, o.quantity > 0,
           \A x : In(x, s) => x.seq < o.seq
    PROVE  /\ Sorted(side, p, Append(s, o)) /\ Append(s, o) # <<>>
           /\ \A x : In(x, Append(s, o)) <=> In(x, s) \/ x = o
<1>1. s \in Seq(Orders) /\ Len(s) \in Nat
  BY LenProperties DEF Sorted
<1>. DEFINE t == Append(s, o)
<1>2. /\ t \in Seq(Orders) /\ t # <<>> /\ Len(t) = Len(s) + 1
      /\ \A i \in 1 .. Len(s) : t[i] = s[i]
      /\ t[Len(s) + 1] = o
  BY <1>1, AppendProperties
<1>. HIDE DEF t
<1>3. \A i \in 1 .. Len(t) : i \in 1 .. Len(s) \/ i = Len(s) + 1
  BY <1>1, <1>2
<1>4. ASSUME NEW i \in 1 .. Len(t)
      PROVE  t[i].side = side /\ t[i].price = p /\ t[i].quantity > 0
  BY <1>2, <1>3 DEF Sorted
<1>5. ASSUME NEW i \in 1 .. Len(t), NEW j \in 1 .. Len(t), i < j
      PROVE  t[i].seq < t[j].seq
  <2>1. i \in 1 .. Len(s)
    BY <1>1, <1>2, <1>3, <1>5
  <2>2. CASE j \in 1 .. Len(s)
    BY <1>2, <1>5, <2>1, <2>2 DEF Sorted
  <2>3. CASE j = Len(s) + 1
    BY <1>2, <2>1, <2>3 DEF In
  <2>. QED  BY <1>3, <2>2, <2>3
<1>6. ASSUME NEW x  PROVE In(x, t) <=> In(x, s) \/ x = o
  <2>1. Len(s) + 1 \in 1 .. Len(t) /\ \A i \in 1 .. Len(s) : i \in 1 .. Len(t)
    BY <1>1, <1>2
  <2>. QED  BY <1>2, <1>3, <2>1 DEF In
<1>7. Sorted(side, p, t)
  BY <1>2, <1>4, <1>5 DEF Sorted
<1>. QED  BY <1>2, <1>6, <1>7 DEF t

\* What a trade leaves of the first order takes its place.
LEMMA SortedFill ==
    ASSUME NEW side, NEW p, NEW s, Sorted(side, p, s), s # <<>>, NEW o \in Orders,
           o.side = side, o.price = p, o.quantity > 0, o.seq = Head(s).seq
    PROVE  /\ Sorted(side, p, <<o>> \o Tail(s)) /\ <<o>> \o Tail(s) # <<>>
           /\ \A x : In(x, <<o>> \o Tail(s)) <=> In(x, Tail(s)) \/ x = o
<1>1. Sorted(side, p, Tail(s)) /\ \A x : In(x, Tail(s)) <=> In(x, s) /\ x # Head(s)
  BY SortedTail
<1>2. Tail(s) \in Seq(Orders) /\ Len(Tail(s)) \in Nat
  BY <1>1, LenProperties DEF Sorted
<1>3. <<o>> \in Seq(Orders) /\ Len(<<o>>) = 1 /\ <<o>>[1] = o
  OBVIOUS
<1>. DEFINE r == Tail(s)
            t == <<o>> \o r
<1>4. /\ t \in Seq(Orders) /\ Len(t) = Len(r) + 1
      /\ t[1] = o /\ \A i \in 2 .. Len(t) : t[i] = r[i - 1]
  <2>1. /\ t \in Seq(Orders) /\ Len(t) = 1 + Len(r)
        /\ \A i \in 1 .. (1 + Len(r)) :
              t[i] = IF i <= 1 THEN <<o>>[i] ELSE r[i - 1]
    BY <1>2, <1>3, ConcatProperties
  <2>. QED  BY <1>2, <1>3, <2>1
<1>. HIDE DEF t
<1>5. \A i \in 1 .. Len(t) : i = 1 \/ (i \in 2 .. Len(t) /\ i - 1 \in 1 .. Len(r))
  BY <1>2, <1>4
<1>6. \A i \in 1 .. Len(r) : In(r[i], s) /\ r[i] # Head(s)
  BY <1>1 DEF In
<1>7. ASSUME NEW i \in 1 .. Len(t)
      PROVE  t[i].side = side /\ t[i].price = p /\ t[i].quantity > 0
  BY <1>1, <1>4, <1>5 DEF Sorted
<1>8. ASSUME NEW i \in 1 .. Len(t), NEW j \in 1 .. Len(t), i < j
      PROVE  t[i].seq < t[j].seq
  <2>1. j \in 2 .. Len(t) /\ j - 1 \in 1 .. Len(r) /\ t[j] = r[j - 1]
    BY <1>4, <1>5, <1>8
  <2>2. CASE i = 1
    <3>1. Head(s).seq < r[j - 1].seq
      BY <1>6, <2>1, SortedHead
    <3>. QED  BY <1>4, <2>1, <2>2, <3>1
  <2>3. CASE i \in 2 .. Len(t) /\ i - 1 \in 1 .. Len(r)
    <3>1. i - 1 < j - 1 /\ t[i] = r[i - 1]
      BY <1>4, <1>8, <2>3
    <3>. QED  BY <1>1, <2>1, <2>3, <3>1 DEF Sorted
  <2>. QED  BY <1>5, <2>2, <2>3
<1>9. ASSUME NEW x  PROVE In(x, t) <=> In(x, r) \/ x = o
  <2>1. /\ 1 \in 1 .. Len(t)
        /\ \A i \in 1 .. Len(r) : i + 1 \in 1 .. Len(t) /\ t[i + 1] = r[i]
    BY <1>2, <1>4
  <2>. QED  BY <1>4, <1>5, <2>1 DEF In
<1>10. t # <<>>
  BY <1>2, <1>4, EmptySeq
<1>11. Sorted(side, p, t)
  BY <1>4, <1>7, <1>8 DEF Sorted
<1>. QED  BY <1>9, <1>10, <1>11 DEF t

\* Without the order at place k.
LEMMA SortedRemove ==
    ASSUME NEW side, NEW p, NEW s, Sorted(side, p, s), NEW k \in 1 .. Len(s)
    PROVE  /\ Sorted(side, p, RemoveAt(s, k))
           /\ \A x : In(x, RemoveAt(s, k)) <=> In(x, s) /\ x # s[k]
<1>1. s \in Seq(Orders) /\ Len(s) \in Nat
  BY LenProperties DEF Sorted
<1>. DEFINE a == SubSeq(s, 1, k - 1)
            b == SubSeq(s, k + 1, Len(s))
            t == a \o b
<1>2. /\ a \in Seq(Orders) /\ Len(a) = k - 1
      /\ \A i \in 1 .. k - 1 : a[i] = s[i]
  <2>1. k - 1 \in Int /\ \A i \in 1 .. k - 1 : s[i] \in Orders
    BY <1>1, ElementOfSeq
  <2>2. /\ a \in Seq(Orders)
        /\ Len(a) = IF 1 <= k - 1 THEN k - 1 - 1 + 1 ELSE 0
        /\ \A i \in 1 .. k - 1 - 1 + 1 : a[i] = s[1 + i - 1]
    BY <2>1, SubSeqProperties
  <2>. QED  BY <1>1, <2>2
<1>3. /\ b \in Seq(Orders) /\ Len(b) = Len(s) - k
      /\ \A i \in 1 .. Len(s) - k : b[i] = s[i + k]
  <2>1. k + 1 \in Int /\ Len(s) \in Int /\ \A i \in k + 1 .. Len(s) : s[i] \in Orders
    BY <1>1, ElementOfSeq
  <2>2. /\ b \in Seq(Orders)
        /\ Len(b) = IF k + 1 <= Len(s) THEN Len(s) - (k + 1) + 1 ELSE 0
        /\ \A i \in 1 .. Len(s) - (k + 1) + 1 : b[i] = s[k + 1 + i - 1]
    BY <2>1, SubSeqProperties
  <2>. QED  BY <1>1, <2>2
<1>. HIDE DEF a, b
<1>4. /\ t \in Seq(Orders) /\ Len(t) = Len(s) - 1
      /\ \A i \in 1 .. Len(t) : t[i] = IF i < k THEN s[i] ELSE s[i + 1]
  <2>1. /\ t \in Seq(Orders) /\ Len(t) = Len(a) + Len(b)
        /\ \A i \in 1 .. Len(a) + Len(b) : t[i] = IF i <= Len(a) THEN a[i] ELSE b[i - Len(a)]
    BY <1>2, <1>3, ConcatProperties
  <2>2. Len(t) = Len(s) - 1
    BY <1>1, <1>2, <1>3, <2>1
  <2>3. ASSUME NEW i \in 1 .. Len(t), i < k  PROVE t[i] = s[i]
    BY <1>1, <1>2, <1>3, <2>1, <2>3
  <2>4. ASSUME NEW i \in 1 .. Len(t), ~ (i < k)  PROVE t[i] = s[i + 1]
    <3>1. i - Len(a) \in 1 .. Len(s) - k /\ i - Len(a) + k = i + 1 /\ ~ (i <= Len(a))
      BY <1>1, <1>2, <2>2, <2>4
    <3>2. t[i] = b[i - Len(a)]
      BY <2>1, <3>1
    <3>. QED  BY <1>3, <3>1, <3>2
  <2>. QED  BY <2>1, <2>2, <2>3, <2>4
<1>. HIDE DEF t
<1>. DEFINE From(i) == IF i < k THEN i ELSE i + 1
<1>5. ASSUME NEW i \in 1 .. Len(t)
      PROVE  From(i) \in 1 .. Len(s) /\ From(i) # k /\ t[i] = s[From(i)]
  BY <1>1, <1>4
<1>6. \A i, j \in 1 .. Len(t) : i < j => From(i) < From(j)
  BY <1>1, <1>4
<1>7. \A j \in 1 .. Len(s) : j # k => \E i \in 1 .. Len(t) : From(i) = j
  <2>1. ASSUME NEW j \in 1 .. Len(s), j < k  PROVE j \in 1 .. Len(t) /\ From(j) = j
    BY <1>1, <1>4, <2>1
  <2>2. ASSUME NEW j \in 1 .. Len(s), j > k  PROVE j - 1 \in 1 .. Len(t) /\ From(j - 1) = j
    BY <1>1, <1>4, <2>2
  <2>3. \A j \in 1 .. Len(s) : j # k => j < k \/ j > k
    OBVIOUS
  <2>. QED  BY <2>1, <2>2, <2>3
<1>. HIDE DEF From
<1>8. Sorted(side, p, t)
  <2>1. ASSUME NEW i \in 1 .. Len(t)
        PROVE  t[i].side = side /\ t[i].price = p /\ t[i].quantity > 0
    BY <1>5 DEF Sorted
  <2>2. ASSUME NEW i \in 1 .. Len(t), NEW j \in 1 .. Len(t), i < j
        PROVE  t[i].seq < t[j].seq
    BY <1>5, <1>6, <2>2 DEF Sorted
  <2>. QED  BY <1>4, <2>1, <2>2 DEF Sorted
<1>9. ASSUME NEW x  PROVE In(x, t) <=> In(x, s) /\ x # s[k]
  <2>1. ASSUME NEW i \in 1 .. Len(t), t[i] = x  PROVE In(x, s) /\ x # s[k]
    <3>1. From(i) \in 1 .. Len(s) /\ From(i) # k /\ s[From(i)] = x
      BY <1>5, <2>1
    <3>. QED  BY <3>1, SortedUnique DEF In
  <2>2. ASSUME NEW j \in 1 .. Len(s), s[j] = x, x # s[k]  PROVE In(x, t)
    <3>1. j # k
      BY <2>2
    <3>2. PICK i \in 1 .. Len(t) : From(i) = j
      BY <1>7, <3>1
    <3>. QED  BY <1>5, <2>2, <3>2 DEF In
  <2>. QED  BY <2>1, <2>2 DEF In
<1>. QED  BY <1>8, <1>9 DEF t, a, b, RemoveAt

-----------------------------------------------------------------------------
(* The map.                                                                *)

\* The levels of a side: those that have orders.
LevelSet == [orders : Seq(Orders), quantity : Int]
MapOK(m) ==
    /\ DOMAIN m \subseteq Price
    /\ m \in [DOMAIN m -> LevelSet]
    /\ \A p \in DOMAIN m : m[p].orders # <<>>

LevelsOK ==
    /\ DOMAIN levels = Sides
    /\ \A side \in Sides :
          /\ MapOK(levels[side])
          /\ \A p \in DOMAIN levels[side] : Sorted(side, p, levels[side][p].orders)

\* What is left of a map when a level gets other orders.
LEMMA SetLevelIs ==
    ASSUME NEW m, MapOK(m), NEW p \in Price, NEW s \in Seq(Orders), NEW q \in Int,
           NEW n, n = Legacy!SetLevel(m, p, s, q)
    PROVE  /\ MapOK(n)
           /\ p \in DOMAIN n <=> s # <<>>
           /\ s # <<>> => n[p].orders = s
           /\ \A k : k # p => (k \in DOMAIN n <=> k \in DOMAIN m)
           /\ \A k \in DOMAIN m : k # p => n[k] = m[k]
<1>1. CASE s = <<>>
  <2>1. n = [k \in DOMAIN m \ {p} |-> m[k]]
    BY <1>1 DEF Legacy!SetLevel, Legacy!Erase, Legacy!Restrict
  <2>. QED  BY <1>1, <2>1 DEF MapOK
<1>2. CASE s # <<>>
  <2>. DEFINE level == [orders |-> s, quantity |-> q % QtyMod]
  <2>1. n = [k \in DOMAIN m \union {p} |-> IF k = p THEN level ELSE m[k]]
    BY <1>2, Zenon DEF Legacy!SetLevel, Legacy!Put
  <2>2. level \in LevelSet /\ level.orders = s
    <3>1. q % QtyMod \in Int
      BY OrderBookAssumption
    <3>. QED  BY <3>1 DEF LevelSet
  <2>. HIDE DEF level
  <2>3. DOMAIN n = DOMAIN m \union {p} /\ n[p] = level
    BY <2>1
  <2>4. \A k \in DOMAIN m : k # p => n[k] = m[k]
    BY <2>1
  <2>5. n \in [DOMAIN n -> LevelSet]
    BY <2>1, <2>2 DEF MapOK
  <2>6. \A k \in DOMAIN n : n[k].orders # <<>>
    BY <1>2, <2>2, <2>3, <2>4 DEF MapOK
  <2>. QED  BY <1>2, <2>2, <2>3, <2>4, <2>5, <2>6 DEF MapOK
<1>. QED  BY <1>1, <1>2

\* A resting order is in the list of the level of its side and price.
Found(o) ==
    /\ o.side \in Sides /\ o.price \in DOMAIN levels[o.side]
    /\ In(o, levels[o.side][o.price].orders)

\* That is what the set of resting orders is.
LEMMA RestingIs == LevelsOK => \A o : o \in Legacy!Resting <=> Found(o)
<1>. SUFFICES ASSUME LevelsOK  PROVE \A o : o \in Legacy!Resting <=> Found(o)
  OBVIOUS
<1>1. ASSUME NEW side \in Sides, NEW p \in DOMAIN levels[side], NEW o
      PROVE  /\ o \in Legacy!ToSet(levels[side][p].orders) <=> In(o, levels[side][p].orders)
             /\ In(o, levels[side][p].orders) => o.side = side /\ o.price = p
  <2>1. Sorted(side, p, levels[side][p].orders)
    BY DEF LevelsOK
  <2>2. DOMAIN levels[side][p].orders = 1 .. Len(levels[side][p].orders)
    BY <2>1, LenProperties DEF Sorted
  <2>. QED  BY <2>1, <2>2 DEF Sorted, In, Legacy!ToSet
<1>2. ASSUME NEW o
      PROVE  o \in Legacy!Resting
                <=> \E side \in Sides : \E p \in DOMAIN levels[side] :
                       o \in Legacy!ToSet(levels[side][p].orders)
  BY DEF Legacy!Resting, Legacy!Sides, Sides
<1>. QED  BY <1>1, <1>2 DEF Found

\* The same after a step.
LEMMA RestingIsNext == LevelsOK' => (\A o : o \in Legacy!Resting <=> Found(o))'
  BY RestingIs, PTL

\* The orders in the level of side and price p give way to those of s.
LEMMA Update ==
    ASSUME LevelsOK, NEW side \in Sides, NEW p \in Price, NEW s, Sorted(side, p, s),
           NEW q \in Int, DOMAIN levels' = Sides,
           levels'[side] = Legacy!SetLevel(levels[side], p, s, q),
           \A d \in Sides \ {side} : levels'[d] = levels[d]
    PROVE  /\ LevelsOK'
           /\ \A o : o \in Legacy!Resting'
                       <=> \/ o \in Legacy!Resting /\ ~ (o.side = side /\ o.price = p)
                           \/ In(o, s)
<1>. DEFINE n == Legacy!SetLevel(levels[side], p, s, q)
<1>1. /\ DOMAIN levels' = Sides /\ levels'[side] = n
      /\ \A d \in Sides \ {side} : levels'[d] = levels[d]
  OBVIOUS
<1>2. MapOK(levels[side]) /\ s \in Seq(Orders)
  BY DEF LevelsOK, Sorted
<1>3. /\ MapOK(n)
      /\ p \in DOMAIN n <=> s # <<>>
      /\ s # <<>> => n[p].orders = s
      /\ \A k : k # p => (k \in DOMAIN n <=> k \in DOMAIN levels[side])
      /\ \A k \in DOMAIN levels[side] : k # p => n[k] = levels[side][k]
  BY <1>2, SetLevelIs
<1>. HIDE DEF n
<1>4. LevelsOK'
  <2>1. ASSUME NEW d \in Sides
        PROVE  /\ MapOK(levels'[d])
               /\ \A k \in DOMAIN levels'[d] : Sorted(d, k, levels'[d][k].orders)
    <3>1. CASE d = side
      <4>1. ASSUME NEW k \in DOMAIN n  PROVE Sorted(side, k, n[k].orders)
        BY <1>3, <4>1 DEF LevelsOK
      <4>. QED  BY <1>1, <1>3, <3>1, <4>1
    <3>2. CASE d # side
      BY <1>1, <3>2 DEF LevelsOK
    <3>. QED  BY <3>1, <3>2
  <2>. QED  BY <1>1, <2>1 DEF LevelsOK
<1>5. \A o : o \in Legacy!Resting'
                <=> /\ o.side \in Sides /\ o.price \in DOMAIN levels'[o.side]
                    /\ In(o, levels'[o.side][o.price].orders)
  BY <1>4, RestingIsNext DEF Found
<1>6. \A o : In(o, s) => o.side = side /\ o.price = p /\ s # <<>>
  <2>1. s = <<>> => 1 .. Len(s) = {}
    OBVIOUS
  <2>. QED  BY <2>1 DEF Sorted, In
<1>7. ASSUME NEW o
      PROVE  o \in Legacy!Resting'
                <=> \/ o \in Legacy!Resting /\ ~ (o.side = side /\ o.price = p)
                    \/ In(o, s)
  <2>1. CASE o.side = side /\ o.price = p
    BY <1>1, <1>3, <1>5, <1>6, <2>1
  <2>2. CASE o.side = side /\ o.price # p
    BY <1>1, <1>3, <1>5, <1>6, <2>2, RestingIs DEF Found
  <2>3. CASE o.side # side
    BY <1>1, <1>5, <1>6, <2>3, RestingIs DEF Found
  <2>. QED  BY <2>1, <2>2, <2>3
<1>. QED  BY <1>4, <1>7

-----------------------------------------------------------------------------
(* The invariant.                                                          *)

\* The index leads to every resting order and to nothing else.
IndexOK ==
    /\ \A o \in Legacy!Resting :
          /\ o.seq \in DOMAIN locations
          /\ locations[o.seq] = [side |-> o.side, price |-> o.price]
    /\ \A n \in DOMAIN locations : \E o \in Legacy!Resting : o.seq = n

\* The order being processed is the youngest.
Youngest ==
    /\ legacyCounter \in Nat
    /\ \A o \in Legacy!Resting : o.seq <= legacyCounter
    /\ legacyIncoming # NoOrder =>
          /\ legacyIncoming \in Orders /\ legacyIncoming.seq = legacyCounter
          /\ \A o \in Legacy!Resting : o.seq < legacyIncoming.seq

LegacyInv == LevelsOK /\ IndexOK /\ Youngest

\* What rests is an order, with something left of it.
LEMMA RestingOrder ==
    ASSUME LevelsOK, NEW o \in Legacy!Resting
    PROVE  o \in Orders /\ o.quantity > 0
<1>1. Found(o)
  BY RestingIs
<1>2. Sorted(o.side, o.price, levels[o.side][o.price].orders)
  BY <1>1 DEF Found, LevelsOK
<1>. QED  BY <1>1, <1>2, ElementOfSeq DEF Found, In, Sorted

\* Orders of a list rest.
LEMMA InLevel ==
    ASSUME LevelsOK, NEW side \in Sides, NEW p \in DOMAIN levels[side], NEW o,
           In(o, levels[side][p].orders)
    PROVE  o \in Legacy!Resting /\ o.side = side /\ o.price = p
<1>1. Sorted(side, p, levels[side][p].orders)
  BY DEF LevelsOK
<1>2. o.side = side /\ o.price = p
  BY <1>1 DEF Sorted, In
<1>. QED  BY <1>2, RestingIs DEF Found

\* Numbers tell the resting orders apart.
LEMMA LegacyUnique ==
    ASSUME LevelsOK, IndexOK, NEW a \in Legacy!Resting, NEW b \in Legacy!Resting, a.seq = b.seq
    PROVE  a = b
<1>1. Found(a) /\ Found(b)
  BY RestingIs
<1>2. a.side = b.side /\ a.price = b.price
  <2>1. [side |-> a.side, price |-> a.price] = [side |-> b.side, price |-> b.price]
    BY DEF IndexOK
  <2>. QED  BY <2>1
<1>3. Sorted(a.side, a.price, levels[a.side][a.price].orders)
  BY <1>1 DEF Found, LevelsOK
<1>. QED  BY <1>1, <1>2, <1>3, SortedUnique DEF Found, In

\* IndexExact is this and that no level is empty.
LEMMA IndexIs == LevelsOK /\ IndexOK => LegacyIndexExact
<1>. SUFFICES ASSUME LevelsOK, IndexOK  PROVE LegacyIndexExact
  OBVIOUS
<1>1. ASSUME NEW n \in DOMAIN locations
      PROVE  /\ locations[n].price \in DOMAIN levels[locations[n].side]
             /\ \E o \in Legacy!ToSet(levels[locations[n].side][locations[n].price].orders) :
                   o.seq = n
  <2>1. PICK o \in Legacy!Resting : o.seq = n
    BY DEF IndexOK
  <2>2. locations[n] = [side |-> o.side, price |-> o.price]
    BY <2>1 DEF IndexOK
  <2>3. locations[n].side = o.side /\ locations[n].price = o.price
    BY <2>2
  <2>4. Found(o)
    BY RestingIs
  <2>5. Sorted(o.side, o.price, levels[o.side][o.price].orders)
    BY <2>4 DEF Found, LevelsOK
  <2>6. DOMAIN levels[o.side][o.price].orders = 1 .. Len(levels[o.side][o.price].orders)
    BY <2>5, LenProperties DEF Sorted
  <2>7. o \in Legacy!ToSet(levels[o.side][o.price].orders)
    BY <2>4, <2>6 DEF Found, In, Legacy!ToSet
  <2>. QED  BY <2>1, <2>3, <2>4, <2>7 DEF Found
<1>2. \A side \in Sides : \A p \in DOMAIN levels[side] : levels[side][p].orders # <<>>
  BY DEF LevelsOK, MapOK
<1>. QED  BY <1>1, <1>2 DEF LegacyIndexExact, Legacy!IndexExact, IndexOK, Legacy!Sides, Sides

\* begin() of a side's map is its best price.
LEMMA BestIs ==
    ASSUME LevelsOK, NEW side \in Sides
    PROVE  \/ DOMAIN levels[side] = {} /\ Legacy!Best(side) = -1
           \/ /\ Legacy!Best(side) \in DOMAIN levels[side] /\ Legacy!Best(side) # -1
              /\ \A q \in DOMAIN levels[side] :
                    q = Legacy!Best(side) \/ Legacy!Better(side, Legacy!Best(side), q)
<1>. DEFINE m == levels[side]
<1>1. MapOK(m)
  BY DEF LevelsOK
<1>2. CASE DOMAIN m = {}
  <2>1. m = <<>>
    BY <1>1, <1>2 DEF MapOK
  <2>. QED  BY <1>2, <2>1 DEF Legacy!Best, Legacy!NULL_PRICE
<1>3. CASE DOMAIN m # {}
  <2>1. m # <<>>
    BY <1>3
  <2>2. DOMAIN m \subseteq Nat /\ \A p \in DOMAIN m : p < MaxPrice
    BY <1>1, BitmapAssumption DEF MapOK, Price
  <2>3. \E p \in DOMAIN m : \A q \in DOMAIN m : p = q \/ Legacy!Better(side, p, q)
    <3>1. CASE side = "buy"
      <4>. DEFINE T == {MaxPrice - p : p \in DOMAIN m}
      <4>1. T \subseteq Nat /\ T # {}
        BY <1>3, <2>2, BitmapAssumption
      <4>2. PICK x \in T : \A y \in T : x <= y
        BY <4>1, NatMin
      <4>3. PICK p \in DOMAIN m : x = MaxPrice - p
        BY <4>2
      <4>4. \A q \in DOMAIN m : MaxPrice - p <= MaxPrice - q
        BY <4>2, <4>3
      <4>5. \A q \in DOMAIN m : q <= p
        BY <2>2, <4>4, BitmapAssumption
      <4>. QED  BY <2>2, <3>1, <4>5 DEF Legacy!Better
    <3>2. CASE side = "sell"
      <4>1. PICK p \in DOMAIN m : \A q \in DOMAIN m : p <= q
        BY <1>3, <2>2, NatMin
      <4>. QED  BY <2>2, <3>2, <4>1 DEF Legacy!Better
    <3>. QED  BY <3>1, <3>2 DEF Sides
  <2>4. Legacy!Best(side)
          = CHOOSE p \in DOMAIN m : \A q \in DOMAIN m : p = q \/ Legacy!Better(side, p, q)
    BY <2>1, Zenon DEF Legacy!Best
  <2>5. /\ Legacy!Best(side) \in DOMAIN m
        /\ \A q \in DOMAIN m : Legacy!Best(side) = q \/ Legacy!Better(side, Legacy!Best(side), q)
    BY <2>3, <2>4, Zenon
  <2>. QED  BY <2>2, <2>5
<1>. QED  BY <1>2, <1>3

\* The head of the list of the best price is first in LimitBook too.
LEMMA FirstIs ==
    ASSUME LevelsOK, NEW side \in Sides, DOMAIN levels[side] # {},
           NEW best, best = Legacy!Best(side), NEW o, o = Head(levels[side][best].orders)
    PROVE  /\ best \in DOMAIN levels[side] /\ best \in Price
           /\ Sorted(side, best, levels[side][best].orders) /\ levels[side][best].orders # <<>>
           /\ In(o, levels[side][best].orders)
           /\ o \in Legacy!Resting /\ o.side = side /\ o.price = best
           /\ Legacy!Book!IsFirst(o)
<1>1. /\ best \in DOMAIN levels[side]
      /\ \A q \in DOMAIN levels[side] : q = best \/ Legacy!Better(side, best, q)
  BY BestIs
<1>2. /\ Sorted(side, best, levels[side][best].orders) /\ levels[side][best].orders # <<>>
      /\ best \in Price
  BY <1>1 DEF LevelsOK, MapOK
<1>3. /\ In(o, levels[side][best].orders)
      /\ \A x : In(x, levels[side][best].orders) /\ x # o => o.seq < x.seq
  BY <1>2, SortedHead
<1>4. o \in Legacy!Resting /\ o.side = side /\ o.price = best
  BY <1>1, <1>3, InLevel
<1>5. ASSUME NEW x \in Legacy!Resting, x.side = side, x # o
      PROVE  Legacy!Book!Ahead(o, x)
  <2>1. Found(x)
    BY <1>5, RestingIs
  <2>2. CASE x.price = best
    BY <1>3, <1>4, <1>5, <2>1, <2>2 DEF Found, Legacy!Book!Ahead
  <2>3. CASE x.price # best
    BY <1>1, <1>4, <1>5, <2>1, <2>3 DEF Found, Legacy!Book!Ahead, Legacy!Better,
                                        Legacy!Book!BetterPrice
  <2>. QED  BY <2>2, <2>3
<1>6. Legacy!Book!IsFirst(o)
  BY <1>4, <1>5 DEF Legacy!Book!IsFirst, Legacy!Book!Resting
<1>. QED  BY <1>1, <1>2, <1>3, <1>4, <1>6

\* When match_* goes on, the incoming order meets that head.
LEMMA CrossingIs ==
    ASSUME LegacyInv, legacyIncoming # NoOrder, Legacy!Crossing,
           NEW side, side = Opposite(legacyIncoming.side),
           NEW best, best = Legacy!Best(side), NEW o, o = Head(levels[side][best].orders)
    PROVE  /\ side \in Sides /\ best \in DOMAIN levels[side] /\ best \in Price
           /\ Sorted(side, best, levels[side][best].orders) /\ levels[side][best].orders # <<>>
           /\ In(o, levels[side][best].orders)
           /\ o \in Legacy!Resting /\ o.side = side /\ o.price = best
           /\ Legacy!Book!Meets(o)
<1>1. legacyIncoming \in Orders
  BY DEF LegacyInv, Youngest
<1>2. side \in Sides /\ side = Legacy!Opposite(legacyIncoming.side)
      /\ side = Legacy!Book!Opposite(legacyIncoming.side)
  BY <1>1, OrderFields DEF Opposite, Legacy!Opposite, Legacy!Book!Opposite, Sides
<1>3. /\ legacyIncoming.quantity > 0 /\ best # -1
      /\ Legacy!Crosses(legacyIncoming.side, legacyIncoming.price, best)
  BY <1>2 DEF Legacy!Crossing, Legacy!NULL_PRICE
<1>4. DOMAIN levels[side] # {}
  BY <1>2, <1>3, BestIs DEF LegacyInv
<1>5. /\ best \in DOMAIN levels[side] /\ best \in Price
      /\ Sorted(side, best, levels[side][best].orders) /\ levels[side][best].orders # <<>>
      /\ In(o, levels[side][best].orders)
      /\ o \in Legacy!Resting /\ o.side = side /\ o.price = best
      /\ Legacy!Book!IsFirst(o)
  BY <1>2, <1>4, FirstIs DEF LegacyInv
<1>6. Legacy!Book!Meets(o)
  BY <1>2, <1>3, <1>5 DEF Legacy!Book!Meets, Legacy!Crosses, Legacy!Book!Crosses
<1>. QED  BY <1>2, <1>5, <1>6

\* When it does not, the incoming order meets nothing.
LEMMA NotCrossingIs ==
    ASSUME LegacyInv, legacyIncoming # NoOrder, legacyIncoming.quantity > 0, ~ Legacy!Crossing
    PROVE  \A o \in Legacy!Book!Resting(Legacy!Book!Opposite(legacyIncoming.side)) :
              ~ Legacy!Book!Crosses(legacyIncoming.side, legacyIncoming.price, o.price)
<1>1. legacyIncoming \in Orders
  BY DEF LegacyInv, Youngest
<1>2. PICK side \in Sides : /\ side = Legacy!Opposite(legacyIncoming.side)
                            /\ side = Legacy!Book!Opposite(legacyIncoming.side)
                            /\ side # legacyIncoming.side
  BY <1>1, OrderFields DEF Legacy!Opposite, Legacy!Book!Opposite, Sides
<1>3. PICK best : best = Legacy!Best(side)
  OBVIOUS
<1>4. best # -1 => ~ Legacy!Crosses(legacyIncoming.side, legacyIncoming.price, best)
  BY <1>2, <1>3 DEF Legacy!Crossing, Legacy!NULL_PRICE
<1>5. ASSUME NEW o \in Legacy!Resting, o.side = side
      PROVE  ~ Legacy!Book!Crosses(legacyIncoming.side, legacyIncoming.price, o.price)
  <2>1. Found(o)
    BY <1>5, RestingIs DEF LegacyInv
  <2>2. /\ best \in DOMAIN levels[side] /\ best # -1
        /\ o.price = best \/ Legacy!Better(side, best, o.price)
    BY <1>3, <1>5, <2>1, BestIs DEF Found, LegacyInv
  <2>3. best \in Nat /\ o.price \in Nat /\ legacyIncoming.price \in Nat
    <3>1. best \in Price /\ o.price \in Price
      BY <1>5, <2>1, <2>2 DEF Found, LegacyInv, LevelsOK, MapOK
    <3>. QED  BY <1>1, <3>1, OrderFields, BitmapAssumption DEF Price
  <2>4. ~ Legacy!Crosses(legacyIncoming.side, legacyIncoming.price, best)
    BY <1>4, <2>2
  <2>5. legacyIncoming.side \in Sides
    BY <1>1, OrderFields
  <2>6. CASE side = "buy"
    <3>1. legacyIncoming.side = "sell"
      BY <1>2, <2>5, <2>6 DEF Sides
    <3>. QED  BY <2>2, <2>3, <2>4, <2>6, <3>1
              DEF Legacy!Better, Legacy!Crosses, Legacy!Book!Crosses
  <2>7. CASE side = "sell"
    <3>1. legacyIncoming.side = "buy"
      BY <1>2, <2>5, <2>7 DEF Sides
    <3>. QED  BY <2>2, <2>3, <2>4, <2>7, <3>1
              DEF Legacy!Better, Legacy!Crosses, Legacy!Book!Crosses
  <2>. QED  BY <2>6, <2>7 DEF Sides
<1>. QED  BY <1>2, <1>5 DEF Legacy!Book!Resting

-----------------------------------------------------------------------------
(* The steps.                                                              *)

\* The quantities of a trade.
LEMMA LegacyFilled ==
    ASSUME NEW a \in Orders, NEW b \in Orders, a.quantity > 0, b.quantity > 0,
           NEW q, q = Legacy!Smaller(a.quantity, b.quantity)
    PROVE  /\ q \in Nat /\ q > 0 /\ q <= a.quantity /\ q <= b.quantity
           /\ q = Legacy!Book!Smaller(a.quantity, b.quantity)
           /\ [a EXCEPT !.quantity = @ - q] \in Orders
           /\ [b EXCEPT !.quantity = @ - q] \in Orders
<1>1. /\ a.quantity \in Nat /\ a.quantity <= MaxQty
      /\ b.quantity \in Nat /\ b.quantity <= MaxQty
  BY OrderBookAssumption DEF Orders, Quantity
<1>2. q \in Nat /\ q > 0 /\ q <= a.quantity /\ q <= b.quantity
  BY <1>1 DEF Legacy!Smaller
<1>3. a.quantity - q \in Quantity /\ b.quantity - q \in Quantity
  BY <1>1, <1>2, OrderBookAssumption DEF Quantity
<1>. QED  BY <1>2, <1>3 DEF Orders, Legacy!Smaller, Legacy!Book!Smaller

\* A trade with the first order of the other side.
LEMMA LegacyFill ==
    ASSUME LegacyInv, Legacy!Fill
    PROVE  LegacyInv' /\ \E o \in Legacy!Resting : Legacy!Book!Match(o)
<1>1. PICK side : side = Legacy!Opposite(legacyIncoming.side)
  OBVIOUS
<1>2. PICK best : best = Legacy!Best(side)
  OBVIOUS
<1>3. PICK s : s = levels[side][best].orders
  OBVIOUS
<1>4. PICK o : o = Head(s)
  OBVIOUS
<1>5. PICK t : t = legacyIncoming
  OBVIOUS
<1>6. PICK q : q = Legacy!Smaller(t.quantity, o.quantity)
  OBVIOUS
<1>7. PICK left : left = [o EXCEPT !.quantity = @ - q]
  OBVIOUS
<1>8. PICK rest : rest = (IF o.quantity = q THEN <<>> ELSE <<left>>) \o Tail(s)
  OBVIOUS
<1>9. /\ t # NoOrder /\ Legacy!Crossing /\ o.user # t.user
      /\ legacyIncoming' = [t EXCEPT !.quantity = @ - q]
      /\ levels' = [levels EXCEPT ![side] =
                       Legacy!SetLevel(@, best, rest, levels[side][best].quantity - q)]
      /\ locations' = IF o.quantity = q THEN Legacy!Erase(locations, o.seq) ELSE locations
      /\ legacyOut' = Legacy!Trade(t, o, best, q)
      /\ legacyCounter' = legacyCounter
  BY <1>1, <1>2, <1>3, <1>4, <1>5, <1>6, <1>7, <1>8 DEF Legacy!Fill
<1>10. /\ side \in Sides /\ best \in DOMAIN levels[side] /\ best \in Price
       /\ Sorted(side, best, s) /\ s # <<>> /\ In(o, s)
       /\ o \in Legacy!Resting /\ o.side = side /\ o.price = best
       /\ Legacy!Book!Meets(o)
  <2>1. side = Opposite(legacyIncoming.side)
    BY <1>1 DEF Opposite, Legacy!Opposite
  <2>2. legacyIncoming # NoOrder /\ Legacy!Crossing
    BY <1>5, <1>9
  <2>3. o = Head(levels[side][best].orders)
    BY <1>3, <1>4
  <2>4. /\ side \in Sides /\ best \in DOMAIN levels[side] /\ best \in Price
        /\ Sorted(side, best, levels[side][best].orders) /\ levels[side][best].orders # <<>>
        /\ In(o, levels[side][best].orders)
        /\ o \in Legacy!Resting /\ o.side = side /\ o.price = best
        /\ Legacy!Book!Meets(o)
    BY <1>2, <2>1, <2>2, <2>3, CrossingIs
  <2>. QED  BY <1>3, <2>4
<1>11. o \in Orders /\ o.quantity > 0 /\ t \in Orders /\ t.quantity > 0
  BY <1>5, <1>9, <1>10, RestingOrder DEF LegacyInv, Youngest, Legacy!Crossing
<1>12. /\ q \in Nat /\ q > 0 /\ q <= t.quantity /\ q <= o.quantity
       /\ q = Legacy!Book!Smaller(t.quantity, o.quantity)
       /\ [t EXCEPT !.quantity = @ - q] \in Orders /\ left \in Orders
  BY <1>6, <1>7, <1>11, LegacyFilled
<1>13. /\ left.seq = o.seq /\ left.side = o.side /\ left.price = o.price
       /\ left.quantity = o.quantity - q /\ o.quantity \in Nat
       /\ (left.quantity = 0) <=> (o.quantity = q)
  BY <1>7, <1>11, <1>12, OrderFields DEF Orders
<1>14. Tail(s) \in Seq(Orders)
  BY <1>10, SortedTail DEF Sorted
<1>15. /\ Sorted(side, best, rest)
       /\ \A x : In(x, rest)
            <=> (In(x, s) /\ x # o) \/ (o.quantity # q /\ x = left)
  <2>1. CASE o.quantity = q
    <3>1. rest = Tail(s)
      BY <1>8, <1>14, <2>1, ConcatEmptySeq
    <3>. QED  BY <1>4, <1>10, <2>1, <3>1, SortedTail
  <2>2. CASE o.quantity # q
    <3>1. rest = <<left>> \o Tail(s)
      BY <1>8, <2>2
    <3>2. left.quantity > 0
      BY <1>12, <1>13, <2>2
    <3>3. /\ Sorted(side, best, <<left>> \o Tail(s))
          /\ \A x : In(x, <<left>> \o Tail(s)) <=> In(x, Tail(s)) \/ x = left
      BY <1>4, <1>10, <1>12, <1>13, <3>2, SortedFill
    <3>4. \A x : In(x, Tail(s)) <=> In(x, s) /\ x # o
      BY <1>4, <1>10, SortedTail
    <3>. QED  BY <2>2, <3>1, <3>3, <3>4
  <2>. QED  BY <2>1, <2>2
<1>16. /\ LevelsOK'
       /\ \A x : x \in Legacy!Resting'
             <=> (x \in Legacy!Resting /\ x # o) \/ (o.quantity # q /\ x = left)
  <2>1. levels[side][best].quantity - q \in Int
    <3>1. levels[side][best] \in LevelSet
      BY <1>10 DEF LegacyInv, LevelsOK, MapOK
    <3>2. levels[side][best].quantity \in Int
      BY <3>1 DEF LevelSet
    <3>. QED  BY <1>12, <3>2
  <2>2. /\ LevelsOK'
        /\ \A x : x \in Legacy!Resting'
             <=> \/ x \in Legacy!Resting /\ ~ (x.side = side /\ x.price = best)
                 \/ In(x, rest)
    <3>1. /\ DOMAIN levels' = Sides
          /\ levels'[side] = Legacy!SetLevel(levels[side], best, rest,
                                            levels[side][best].quantity - q)
          /\ \A d \in Sides \ {side} : levels'[d] = levels[d]
      BY <1>9, <1>10 DEF LegacyInv, LevelsOK
    <3>. QED  BY <1>10, <1>15, <2>1, <3>1, Update DEF LegacyInv
  <2>3. \A x : x \in Legacy!Resting /\ x.side = side /\ x.price = best <=> In(x, s)
    BY <1>3, <1>10, RestingIs, InLevel DEF LegacyInv, Found
  <2>. QED  BY <1>10, <1>15, <2>2, <2>3
<1>17. IndexOK'
  <2>1. \A x \in Legacy!Resting : x # o => x.seq # o.seq
    BY <1>10, LegacyUnique DEF LegacyInv
  <2>2. /\ \A x \in Legacy!Resting :
              /\ x.seq \in DOMAIN locations
              /\ locations[x.seq] = [side |-> x.side, price |-> x.price]
        /\ \A n \in DOMAIN locations : \E x \in Legacy!Resting : x.seq = n
    BY DEF LegacyInv, IndexOK
  <2>3. CASE o.quantity = q
    <3>1. locations' = [n \in DOMAIN locations \ {o.seq} |-> locations[n]]
      BY <1>9, <2>3 DEF Legacy!Erase, Legacy!Restrict
    <3>2. \A x : x \in Legacy!Resting' <=> x \in Legacy!Resting /\ x # o
      BY <1>16, <2>3
    <3>3. ASSUME NEW x \in Legacy!Resting'
          PROVE  /\ x.seq \in DOMAIN locations'
                 /\ locations'[x.seq] = [side |-> x.side, price |-> x.price]
      BY <2>1, <2>2, <3>1, <3>2
    <3>4. ASSUME NEW n \in DOMAIN locations'
          PROVE  \E x \in Legacy!Resting' : x.seq = n
      BY <2>2, <3>1, <3>2
    <3>. QED  BY <3>3, <3>4 DEF IndexOK
  <2>4. CASE o.quantity # q
    <3>1. locations' = locations
      BY <1>9, <2>4
    <3>2. \A x : x \in Legacy!Resting' <=> (x \in Legacy!Resting /\ x # o) \/ x = left
      BY <1>16, <2>4
    <3>3. ASSUME NEW x \in Legacy!Resting'
          PROVE  /\ x.seq \in DOMAIN locations'
                 /\ locations'[x.seq] = [side |-> x.side, price |-> x.price]
      BY <1>10, <1>13, <2>2, <3>1, <3>2
    <3>4. ASSUME NEW n \in DOMAIN locations'
          PROVE  \E x \in Legacy!Resting' : x.seq = n
      BY <1>10, <1>13, <2>2, <3>1, <3>2
    <3>. QED  BY <3>3, <3>4 DEF IndexOK
  <2>. QED  BY <2>3, <2>4
<1>18. Youngest'
  <2>1. legacyIncoming' \in Orders /\ legacyIncoming'.seq = t.seq
    BY <1>9, <1>11, <1>12 DEF Orders
  <2>2. /\ legacyCounter \in Nat /\ t.seq = legacyCounter
        /\ \A x \in Legacy!Resting : x.seq < t.seq
    BY <1>5, <1>9 DEF LegacyInv, Youngest
  <2>3. \A x \in Legacy!Resting' : \E y \in Legacy!Resting : x.seq = y.seq
    BY <1>10, <1>13, <1>16
  <2>4. \A x \in Legacy!Resting' : x.seq < t.seq /\ x.seq <= legacyCounter
    <3>1. \A x \in Legacy!Resting : x.seq < t.seq /\ x.seq <= legacyCounter
      BY <2>2 DEF LegacyInv, Youngest
    <3>. QED  BY <2>3, <3>1
  <2>. QED  BY <1>9, <2>1, <2>2, <2>4 DEF Youngest
<1>19. Legacy!Book!Match(o)
  <2>1. Legacy!Resting' = (Legacy!Resting \ {o}) \union (IF left.quantity = 0 THEN {} ELSE {left})
    BY <1>13, <1>16
  <2>2. legacyOut' = Legacy!Book!Trade(t, o, q)
    BY <1>9, <1>10 DEF Legacy!Trade, Legacy!Book!Trade
  <2>. QED  BY <1>5, <1>7, <1>9, <1>10, <1>12, <2>1, <2>2 DEF Legacy!Book!Match
<1>. QED  BY <1>10, <1>16, <1>17, <1>18, <1>19 DEF LegacyInv

\* A step that leaves the map and the index alone.
LEMMA LegacyQuiet ==
    ASSUME UNCHANGED <<levels, locations>>
    PROVE  /\ Legacy!Resting' = Legacy!Resting
           /\ LevelsOK => LevelsOK'
           /\ IndexOK => IndexOK'
<1>1. Legacy!Resting' = Legacy!Resting
  BY DEF Legacy!Resting
<1>. QED  BY <1>1 DEF LevelsOK, IndexOK

\* The rest of the order is rejected at an order of its own user.
LEMMA LegacySelfTradeStop ==
    ASSUME LegacyInv, Legacy!SelfTradeStop
    PROVE  LegacyInv' /\ \E o \in Legacy!Resting : Legacy!Book!SelfTradeStop(o)
<1>1. PICK side : side = Opposite(legacyIncoming.side)
  OBVIOUS
<1>2. PICK o : o = Head(levels[side][Legacy!Best(side)].orders)
  OBVIOUS
<1>3. /\ legacyIncoming # NoOrder /\ Legacy!Crossing /\ o.user = legacyIncoming.user
      /\ legacyIncoming' = [legacyIncoming EXCEPT !.quantity = 0]
      /\ legacyOut' = Legacy!Rejected(legacyIncoming)
      /\ UNCHANGED <<levels, locations>> /\ legacyCounter' = legacyCounter
  BY <1>1, <1>2 DEF Legacy!SelfTradeStop, Opposite, Legacy!Opposite
<1>4. o \in Legacy!Resting /\ Legacy!Book!Meets(o)
  BY <1>1, <1>2, <1>3, CrossingIs
<1>5. Legacy!Resting' = Legacy!Resting /\ LevelsOK' /\ IndexOK'
  BY <1>3, LegacyQuiet DEF LegacyInv
<1>6. legacyIncoming' \in Orders /\ legacyIncoming'.seq = legacyIncoming.seq
  <2>1. legacyIncoming \in Orders
    BY <1>3 DEF LegacyInv, Youngest
  <2>2. 0 \in Quantity
    BY OrderBookAssumption DEF Quantity
  <2>. QED  BY <1>3, <2>1, <2>2 DEF Orders
<1>7. Youngest'
  BY <1>3, <1>5, <1>6 DEF LegacyInv, Youngest
<1>8. Legacy!Book!SelfTradeStop(o)
  BY <1>3, <1>4, <1>5 DEF Legacy!Book!SelfTradeStop, Legacy!Rejected, Legacy!Book!Rejected
<1>. QED  BY <1>4, <1>5, <1>7, <1>8 DEF LegacyInv

\* add_order: the rest of the order joins the list of its price.
LEMMA LegacyRest ==
    ASSUME LegacyInv, Legacy!Rest
    PROVE  LegacyInv' /\ Legacy!Book!Rest
<1>1. PICK t : t = legacyIncoming
  OBVIOUS
<1>2. PICK level : level = Legacy!LevelAt(t.side, t.price)
  OBVIOUS
<1>3. PICK s : s = Append(level.orders, t)
  OBVIOUS
<1>4. /\ t # NoOrder /\ t.quantity > 0 /\ ~ Legacy!Crossing
      /\ levels' = [levels EXCEPT ![t.side] =
                       Legacy!SetLevel(@, t.price, s, level.quantity + t.quantity)]
      /\ locations' = Legacy!Put(locations, t.seq, [side |-> t.side, price |-> t.price])
      /\ legacyIncoming' = NoOrder /\ legacyOut' = Legacy!Nothing
      /\ legacyCounter' = legacyCounter
  BY <1>1, <1>2, <1>3 DEF Legacy!Rest
<1>5. /\ t \in Orders /\ t.seq = legacyCounter /\ \A x \in Legacy!Resting : x.seq < t.seq
      /\ t.side \in Sides /\ t.price \in Price /\ t.quantity \in Nat
  BY <1>1, <1>4, OrderFields DEF LegacyInv, Youngest
<1>6. /\ Sorted(t.side, t.price, level.orders) /\ level.quantity \in Int
      /\ \A x : In(x, level.orders)
                  <=> x \in Legacy!Resting /\ x.side = t.side /\ x.price = t.price
  <2>1. CASE t.price \in DOMAIN levels[t.side]
    <3>1. level = levels[t.side][t.price]
      BY <1>2, <2>1 DEF Legacy!LevelAt
    <3>2. Sorted(t.side, t.price, level.orders)
      BY <1>5, <2>1, <3>1 DEF LegacyInv, LevelsOK
    <3>3. level \in LevelSet
      BY <1>5, <2>1, <3>1 DEF LegacyInv, LevelsOK, MapOK
    <3>4. level.quantity \in Int
      BY <3>3 DEF LevelSet
    <3>5. \A x : In(x, level.orders)
                  <=> x \in Legacy!Resting /\ x.side = t.side /\ x.price = t.price
      BY <1>5, <2>1, <3>1, RestingIs, InLevel DEF LegacyInv, Found
    <3>. QED  BY <3>2, <3>4, <3>5
  <2>2. CASE t.price \notin DOMAIN levels[t.side]
    <3>1. level.orders = <<>> /\ level.quantity = 0
      BY <1>2, <2>2 DEF Legacy!LevelAt
    <3>2. /\ level.orders \in Seq(Orders) /\ Len(level.orders) = 0
          /\ 1 .. Len(level.orders) = {}
      BY <3>1
    <3>3. \A x : ~ In(x, level.orders)
      BY <3>2 DEF In
    <3>4. Sorted(t.side, t.price, level.orders)
      BY <3>2 DEF Sorted
    <3>5. \A x \in Legacy!Resting : ~ (x.side = t.side /\ x.price = t.price)
      BY <2>2, RestingIs DEF LegacyInv, Found
    <3>. QED  BY <3>1, <3>3, <3>4, <3>5
  <2>. QED  BY <2>1, <2>2
<1>7. /\ Sorted(t.side, t.price, s)
      /\ \A x : In(x, s) <=> In(x, level.orders) \/ x = t
  BY <1>3, <1>4, <1>5, <1>6, SortedAppend
<1>8. /\ LevelsOK'
      /\ \A x : x \in Legacy!Resting' <=> x \in Legacy!Resting \/ x = t
  <2>1. level.quantity + t.quantity \in Int
    BY <1>5, <1>6
  <2>2. /\ DOMAIN levels' = Sides
        /\ levels'[t.side] = Legacy!SetLevel(levels[t.side], t.price, s,
                                             level.quantity + t.quantity)
        /\ \A d \in Sides \ {t.side} : levels'[d] = levels[d]
    BY <1>4, <1>5 DEF LegacyInv, LevelsOK
  <2>3. /\ LevelsOK'
        /\ \A x : x \in Legacy!Resting'
             <=> \/ x \in Legacy!Resting /\ ~ (x.side = t.side /\ x.price = t.price)
                 \/ In(x, s)
    BY <1>5, <1>7, <2>1, <2>2, Update DEF LegacyInv
  <2>. QED  BY <1>6, <1>7, <2>3
<1>9. IndexOK'
  <2>1. locations' = [n \in DOMAIN locations \union {t.seq} |->
                        IF n = t.seq THEN [side |-> t.side, price |-> t.price]
                        ELSE locations[n]]
    BY <1>4 DEF Legacy!Put
  <2>2. /\ \A x \in Legacy!Resting :
              /\ x.seq \in DOMAIN locations
              /\ locations[x.seq] = [side |-> x.side, price |-> x.price]
        /\ \A n \in DOMAIN locations : \E x \in Legacy!Resting : x.seq = n
    BY DEF LegacyInv, IndexOK
  <2>3. \A x \in Legacy!Resting : x.seq # t.seq
    <3>1. \A x \in Legacy!Resting : x.seq \in Nat /\ t.seq \in Nat
      BY <1>5, RestingOrder, OrderFields DEF LegacyInv
    <3>. QED  BY <1>5, <3>1
  <2>4. ASSUME NEW x \in Legacy!Resting'
        PROVE  /\ x.seq \in DOMAIN locations'
               /\ locations'[x.seq] = [side |-> x.side, price |-> x.price]
    BY <1>8, <2>1, <2>2, <2>3
  <2>5. ASSUME NEW n \in DOMAIN locations'  PROVE \E x \in Legacy!Resting' : x.seq = n
    BY <1>8, <2>1, <2>2
  <2>. QED  BY <2>4, <2>5 DEF IndexOK
<1>10. Youngest'
  <2>1. legacyCounter \in Nat /\ \A x \in Legacy!Resting : x.seq <= legacyCounter
    BY DEF LegacyInv, Youngest
  <2>. QED  BY <1>4, <1>5, <1>8, <2>1 DEF Youngest
<1>11. Legacy!Book!Rest
  <2>1. Legacy!Resting' = Legacy!Resting \union {t}
    BY <1>8
  <2>. QED  BY <1>1, <1>4, <2>1, NotCrossingIs
            DEF Legacy!Book!Rest, Legacy!Nothing, Legacy!Book!Nothing
<1>. QED  BY <1>8, <1>9, <1>10, <1>11 DEF LegacyInv

\* A cancel finds the order that rests with its number, or none.
LEMMA NodeIs ==
    ASSUME LegacyInv, NEW n
    PROVE  /\ n \in DOMAIN locations <=> \E o \in Legacy!Resting : o.seq = n
           /\ \A o \in Legacy!Resting : o.seq = n =>
                 /\ locations[n].side = o.side /\ locations[n].price = o.price
                 /\ o.side \in Sides /\ o.price \in DOMAIN levels[o.side]
                 /\ Legacy!NodeAt(n) \in 1 .. Len(levels[o.side][o.price].orders)
                 /\ Legacy!OrderAt(n) = o
                 /\ levels[o.side][o.price].orders[Legacy!NodeAt(n)] = o
<1>1. n \in DOMAIN locations <=> \E o \in Legacy!Resting : o.seq = n
  BY DEF LegacyInv, IndexOK
<1>2. ASSUME NEW o \in Legacy!Resting, o.seq = n
      PROVE  /\ locations[n].side = o.side /\ locations[n].price = o.price
             /\ o.side \in Sides /\ o.price \in DOMAIN levels[o.side]
             /\ Legacy!NodeAt(n) \in 1 .. Len(levels[o.side][o.price].orders)
             /\ Legacy!OrderAt(n) = o
             /\ levels[o.side][o.price].orders[Legacy!NodeAt(n)] = o
  <2>1. locations[n] = [side |-> o.side, price |-> o.price]
    BY <1>2 DEF LegacyInv, IndexOK
  <2>2. locations[n].side = o.side /\ locations[n].price = o.price
    BY <2>1
  <2>3. PICK s : s = levels[o.side][o.price].orders
    OBVIOUS
  <2>4. o.side \in Sides /\ o.price \in DOMAIN levels[o.side] /\ In(o, s)
    BY <2>3, RestingIs DEF LegacyInv, Found
  <2>5. Sorted(o.side, o.price, s) /\ DOMAIN s = 1 .. Len(s)
    <3>1. Sorted(o.side, o.price, s)
      BY <2>3, <2>4 DEF LegacyInv, LevelsOK
    <3>. QED  BY <3>1, LenProperties DEF Sorted
  <2>6. Legacy!NodeAt(n) = CHOOSE i \in DOMAIN s : s[i].seq = n
    BY <2>2, <2>3 DEF Legacy!NodeAt
  <2>7. PICK k \in 1 .. Len(s) : s[k] = o
    BY <2>4 DEF In
  <2>8. Legacy!NodeAt(n) \in DOMAIN s /\ s[Legacy!NodeAt(n)].seq = n
    BY <1>2, <2>5, <2>6, <2>7
  <2>9. Legacy!NodeAt(n) = k
    BY <1>2, <2>5, <2>7, <2>8, SortedUnique
  <2>10. Legacy!OrderAt(n) = s[Legacy!NodeAt(n)]
    BY <2>2, <2>3 DEF Legacy!OrderAt
  <2>. QED  BY <2>2, <2>3, <2>4, <2>7, <2>9, <2>10
<1>. QED  BY <1>1, <1>2

\* cancel_order takes out the order it names.
LEMMA LegacyCancel ==
    ASSUME LegacyInv, NEW n, NEW u, Legacy!Cancel(n, u)
    PROVE  LegacyInv' /\ \E o \in Legacy!Resting : Legacy!Book!Cancel(o)
<1>1. /\ legacyIncoming = NoOrder /\ n \in DOMAIN locations
      /\ legacyCounter' = legacyCounter /\ legacyIncoming' = legacyIncoming
  BY DEF Legacy!Cancel, Legacy!Cancellable
<1>2. PICK o \in Legacy!Resting : o.seq = n
  BY <1>1, NodeIs
<1>3. PICK s : s = levels[o.side][o.price].orders
  OBVIOUS
<1>4. PICK k : k = Legacy!NodeAt(n)
  OBVIOUS
<1>5. /\ locations[n].side = o.side /\ locations[n].price = o.price
      /\ o.side \in Sides /\ o.price \in DOMAIN levels[o.side]
      /\ k \in 1 .. Len(s) /\ Legacy!OrderAt(n) = o /\ s[k] = o
  BY <1>2, <1>3, <1>4, NodeIs
<1>6. /\ levels' = [levels EXCEPT ![o.side] =
                       Legacy!SetLevel(@, o.price, Legacy!RemoveAt(s, k),
                                       levels[o.side][o.price].quantity - o.quantity)]
      /\ locations' = Legacy!Erase(locations, n)
      /\ legacyOut' = Legacy!Cancelled(o)
  BY <1>3, <1>4, <1>5 DEF Legacy!Cancel
<1>7. Sorted(o.side, o.price, s)
  BY <1>3, <1>5 DEF LegacyInv, LevelsOK
<1>8. /\ Sorted(o.side, o.price, Legacy!RemoveAt(s, k))
      /\ \A x : In(x, Legacy!RemoveAt(s, k)) <=> In(x, s) /\ x # o
  <2>1. Legacy!RemoveAt(s, k) = RemoveAt(s, k)
    BY DEF Legacy!RemoveAt, RemoveAt
  <2>. QED  BY <1>5, <1>7, <2>1, SortedRemove
<1>9. /\ LevelsOK'
      /\ \A x : x \in Legacy!Resting' <=> x \in Legacy!Resting /\ x # o
  <2>1. o.price \in Price /\ levels[o.side][o.price].quantity - o.quantity \in Int
    <3>1. levels[o.side][o.price] \in LevelSet /\ o.price \in Price
      BY <1>5 DEF LegacyInv, LevelsOK, MapOK
    <3>2. o.quantity \in Nat
      BY <1>2, RestingOrder, OrderFields DEF LegacyInv
    <3>3. levels[o.side][o.price].quantity \in Int
      BY <3>1 DEF LevelSet
    <3>. QED  BY <3>1, <3>2, <3>3
  <2>2. /\ DOMAIN levels' = Sides
        /\ levels'[o.side] = Legacy!SetLevel(levels[o.side], o.price, Legacy!RemoveAt(s, k),
                                             levels[o.side][o.price].quantity - o.quantity)
        /\ \A d \in Sides \ {o.side} : levels'[d] = levels[d]
    BY <1>5, <1>6 DEF LegacyInv, LevelsOK
  <2>3. /\ LevelsOK'
        /\ \A x : x \in Legacy!Resting'
             <=> \/ x \in Legacy!Resting /\ ~ (x.side = o.side /\ x.price = o.price)
                 \/ In(x, Legacy!RemoveAt(s, k))
    BY <1>5, <1>8, <2>1, <2>2, Update DEF LegacyInv
  <2>4. \A x : x \in Legacy!Resting /\ x.side = o.side /\ x.price = o.price <=> In(x, s)
    BY <1>3, <1>5, RestingIs, InLevel DEF LegacyInv, Found
  <2>. QED  BY <1>8, <2>3, <2>4
<1>10. IndexOK'
  <2>1. locations' = [i \in DOMAIN locations \ {n} |-> locations[i]]
    BY <1>6 DEF Legacy!Erase, Legacy!Restrict
  <2>2. /\ \A x \in Legacy!Resting :
              /\ x.seq \in DOMAIN locations
              /\ locations[x.seq] = [side |-> x.side, price |-> x.price]
        /\ \A i \in DOMAIN locations : \E x \in Legacy!Resting : x.seq = i
    BY DEF LegacyInv, IndexOK
  <2>3. \A x \in Legacy!Resting : x # o => x.seq # n
    BY <1>2, LegacyUnique DEF LegacyInv
  <2>4. ASSUME NEW x \in Legacy!Resting'
        PROVE  /\ x.seq \in DOMAIN locations'
               /\ locations'[x.seq] = [side |-> x.side, price |-> x.price]
    BY <1>9, <2>1, <2>2, <2>3
  <2>5. ASSUME NEW i \in DOMAIN locations'  PROVE \E x \in Legacy!Resting' : x.seq = i
    BY <1>2, <1>9, <2>1, <2>2
  <2>. QED  BY <2>4, <2>5 DEF IndexOK
<1>11. Youngest'
  BY <1>1, <1>9 DEF LegacyInv, Youngest
<1>12. Legacy!Book!Cancel(o)
  <2>1. Legacy!Resting' = Legacy!Resting \ {o}
    BY <1>9
  <2>. QED  BY <1>1, <1>6, <2>1 DEF Legacy!Book!Cancel, Legacy!Cancelled, Legacy!Book!Cancelled
<1>. QED  BY <1>9, <1>10, <1>11, <1>12 DEF LegacyInv

\* A cancel that finds no order of its user.
LEMMA LegacyCancelMiss ==
    ASSUME LegacyInv, NEW n, NEW u, Legacy!CancelMiss(n, u)
    PROVE  LegacyInv' /\ Legacy!Book!CancelMiss(n, u)
<1>1. /\ legacyIncoming = NoOrder /\ ~ Legacy!Cancellable(n, u)
      /\ legacyOut' = Legacy!NotCancelled(n, u)
      /\ UNCHANGED <<levels, locations>> /\ legacyCounter' = legacyCounter
      /\ legacyIncoming' = legacyIncoming
  BY DEF Legacy!CancelMiss
<1>2. Legacy!Resting' = Legacy!Resting /\ LevelsOK' /\ IndexOK'
  BY <1>1, LegacyQuiet DEF LegacyInv
<1>3. ~ \E o \in Legacy!Resting : o.seq = n /\ o.user = u
  BY <1>1, NodeIs DEF Legacy!Cancellable
<1>4. Youngest'
  BY <1>1, <1>2 DEF LegacyInv, Youngest
<1>. QED  BY <1>1, <1>2, <1>3, <1>4
          DEF LegacyInv, Legacy!Book!CancelMiss, Legacy!NotCancelled, Legacy!Book!NotCancelled

\* The order gets the next number.
LEMMA LegacySubmit ==
    ASSUME LegacyInv, NEW u \in Users, NEW side \in Sides, NEW p \in 0 .. MaxPrice,
           NEW q \in Quantity, Legacy!Submit(u, side, p, q)
    PROVE  LegacyInv' /\ Legacy!Book!Submit(u, side, p, q)
<1>1. /\ legacyIncoming = NoOrder /\ legacyCounter < MaxSeq /\ p < MaxPrice
      /\ legacyCounter' = legacyCounter + 1
      /\ legacyIncoming' = [seq |-> legacyCounter + 1, user |-> u, side |-> side,
                            price |-> p, quantity |-> q]
      /\ legacyOut' = Legacy!Nothing
      /\ UNCHANGED <<levels, locations>>
  BY DEF Legacy!Submit, Legacy!CanProcess
<1>2. Legacy!Resting' = Legacy!Resting /\ LevelsOK' /\ IndexOK'
  BY <1>1, LegacyQuiet DEF LegacyInv
<1>3. legacyCounter \in Nat /\ \A o \in Legacy!Resting : o.seq <= legacyCounter
  BY DEF LegacyInv, Youngest
<1>4. legacyIncoming' \in Orders /\ legacyIncoming'.seq = legacyCounter'
  <2>1. p \in Price /\ legacyCounter + 1 \in Nat \ {0}
    BY <1>1, <1>3, BitmapAssumption DEF Price
  <2>. QED  BY <1>1, <2>1 DEF Orders
<1>5. \A o \in Legacy!Resting : o.seq <= legacyCounter' /\ o.seq < legacyCounter'
  <2>1. \A o \in Legacy!Resting : o.seq \in Nat
    BY RestingOrder, OrderFields DEF LegacyInv
  <2>. QED  BY <1>1, <1>3, <2>1
<1>6. Youngest'
  BY <1>1, <1>2, <1>3, <1>4, <1>5 DEF Youngest
<1>7. Legacy!Book!Submit(u, side, p, q)
  BY <1>1, <1>2 DEF Legacy!Book!Submit, Legacy!Nothing, Legacy!Book!Nothing
<1>. QED  BY <1>2, <1>6, <1>7 DEF LegacyInv

\* An order that can_process_order does not admit.
LEMMA LegacyRefuse ==
    ASSUME LegacyInv, NEW p, Legacy!Refuse(p)
    PROVE  LegacyInv' /\ Legacy!Book!Refuse
<1>1. /\ legacyIncoming = NoOrder /\ legacyOut' = Legacy!Refused
      /\ UNCHANGED <<levels, locations>> /\ legacyCounter' = legacyCounter
      /\ legacyIncoming' = legacyIncoming
  BY DEF Legacy!Refuse
<1>2. Legacy!Resting' = Legacy!Resting /\ LevelsOK' /\ IndexOK'
  BY <1>1, LegacyQuiet DEF LegacyInv
<1>. QED  BY <1>1, <1>2
          DEF LegacyInv, Youngest, Legacy!Book!Refuse, Legacy!Refused, Legacy!Book!Refused

\* Nothing is left of the order.
LEMMA LegacyFinish ==
    ASSUME LegacyInv, Legacy!Finish
    PROVE  LegacyInv' /\ Legacy!Book!Finish
<1>1. /\ legacyIncoming # NoOrder /\ legacyIncoming.quantity = 0
      /\ legacyIncoming' = NoOrder /\ legacyOut' = Legacy!Nothing
      /\ UNCHANGED <<levels, locations>> /\ legacyCounter' = legacyCounter
  BY DEF Legacy!Finish
<1>2. Legacy!Resting' = Legacy!Resting /\ LevelsOK' /\ IndexOK'
  BY <1>1, LegacyQuiet DEF LegacyInv
<1>. QED  BY <1>1, <1>2
          DEF LegacyInv, Youngest, Legacy!Book!Finish, Legacy!Nothing, Legacy!Book!Nothing

-----------------------------------------------------------------------------
(* The two engines driven with the same calls.  What each engine is called *)
(* with are the arguments that its theorems ask for: until id 0 is         *)
(* cancelled, the ids of OrderBook lead to the slots of their orders.      *)

\* The ids that OrderBook gave: one per order, ...
IdsGiven == ids \in Seq(Slots) /\ Len(ids) = counter

\* ... with the slot it rests in.
IdsOK ==
    /\ IdsGiven
    /\ \A s \in Slots : Active(s) => ids[nodes[s].seq] = s
    /\ incoming # NoOrder => ids[counter] = pool_idx

\* OrderBookLegacy is a call behind, and both count the same orders.
Due == IF asked.call = "order" /\ asked.price < MaxPrice THEN 1 ELSE 0
CallsOK ==
    /\ counter = legacyCounter + Due
    /\ incoming # NoOrder => asked # NoCall
    /\ asked # NoCall => legacyIncoming = NoOrder
    /\ \/ asked = NoCall
       \/ \E u \in Users, side \in Sides, p \in 0 .. MaxPrice, q \in Quantity :
             asked = Order(u, side, p, q)
       \/ \E n \in 0 .. MaxSeq, u \in Users : asked = CancelOf(n, u)

\* The id of an order number is one that a client may send.
LEMMA IdOfIs ==
    ASSUME IdsGiven, NEW n \in 0 .. MaxSeq
    PROVE  /\ IdOf(n) \in Ids
           /\ IdOf(n) = <<n, IdOf(n)[2]>> /\ IdOf(n)[1] = n
           /\ n \in DOMAIN ids => IdOf(n)[2] = ids[n]
<1>1. PICK s : s = (IF n \in DOMAIN ids THEN ids[n] ELSE 0)
  OBVIOUS
<1>2. IdOf(n) = <<n, s>>
  BY <1>1 DEF IdOf
<1>3. s \in 0 .. MaxOrders
  <2>1. n \in DOMAIN ids => ids[n] \in Slots
    BY LenProperties, ElementOfSeq DEF IdsGiven
  <2>. QED  BY <1>1, <2>1, OrderBookAssumption DEF Slots
<1>. QED  BY <1>1, <1>2, <1>3 DEF Ids

\* Until id 0 is cancelled, it leads to the order with that number or to none.
LEMMA IdOfNames ==
    ASSUME BookInv, IdsOK, NEW n \in 0 .. MaxSeq
    PROVE  Named(IdOf(n)) = n
<1>1. nodes \in [Slots -> Node] /\ counter \in Nat /\ \A s \in Slots : nodes[s].seq <= counter
  BY OrderBookAssumption DEF BookInv, TypeOK, SeqsOK
<1>2. IdOf(n)[1] = n /\ (n \in DOMAIN ids => IdOf(n)[2] = ids[n])
  BY IdOfIs DEF IdsOK
<1>3. ASSUME NEW s \in Slots, s # IdOf(n)[2], nodes[s].seq = n, n # 0
      PROVE  FALSE
  <2>1. n \in 1 .. counter
    BY <1>1, <1>3
  <2>2. n \in DOMAIN ids
    BY <2>1, LenProperties DEF IdsOK, IdsGiven
  <2>3. ids[n] = s
    BY <1>3 DEF IdsOK, Active
  <2>. QED  BY <1>2, <1>3, <2>2, <2>3
<1>. QED  BY <1>2, <1>3 DEF Named

\* The call of the script is one of the calls that OrderBook is proved for.
LEMMA EngineStep ==
    ASSUME IdsGiven, ParityNext
    PROVE  Next \/ UNCHANGED vars
<1>1. ASSUME NEW u \in Users, NEW side \in Sides, NEW p \in 0 .. MaxPrice,
             NEW q \in Quantity, CallOrder(u, side, p, q)
      PROVE  Next
  BY <1>1 DEF CallOrder, Next
<1>2. ASSUME NEW n \in 0 .. MaxSeq, NEW u \in Users, CallCancel(n, u)
      PROVE  Next
  <2>1. PICK id \in Ids : id = IdOf(n)
    BY IdOfIs
  <2>2. Cancel(id, u) \/ CancelMiss(id, u)
    BY <1>2, <2>1 DEF CallCancel
  <2>. QED  BY <2>2 DEF Next
<1>3. CASE Proceed
  BY <1>3 DEF Proceed, Next
<1>4. CASE LegacyCall
  BY <1>4 DEF LegacyCall
<1>5. CASE LegacyProceed
  BY <1>5 DEF LegacyProceed
<1>. QED  BY <1>1, <1>2, <1>3, <1>4, <1>5 DEF ParityNext

\* An accepted order gets an id.
LEMMA IdsGivenStep ==
    ASSUME TypeOK, IdsGiven, [ParityNext]_parityVars
    PROVE  IdsGiven'
<1>1. ASSUME NEW u \in Users, NEW side \in Sides, NEW p \in 0 .. MaxPrice,
             NEW q \in Quantity, CallOrder(u, side, p, q)
      PROVE  IdsGiven'
  <2>1. CASE Submit(u, side, p, q)
    <3>1. /\ p < MaxPrice /\ pool_idx' = free[Len(free)] /\ free # <<>>
          /\ counter' = counter + 1 /\ ids' = Append(ids, pool_idx')
      BY <1>1, <2>1 DEF CallOrder, Submit, CanProcess
    <3>2. pool_idx' \in Slots
      BY <3>1, LenProperties, ElementOfSeq, EmptySeq DEF TypeOK
    <3>. QED  BY <3>1, <3>2, AppendProperties DEF IdsGiven
  <2>2. CASE Refuse(p)
    <3>1. ~ (p < MaxPrice)
      BY <1>1, <2>2 DEF CallOrder, Refuse, CanProcess
    <3>. QED  BY <1>1, <2>2, <3>1 DEF CallOrder, Refuse, IdsGiven
  <2>. QED  BY <1>1, <2>1, <2>2 DEF CallOrder
<1>2. ASSUME NEW n \in 0 .. MaxSeq, NEW u \in Users, CallCancel(n, u)
      PROVE  IdsGiven'
  BY <1>2 DEF CallCancel, Cancel, CancelMiss, IdsGiven
<1>3. CASE Proceed
  BY <1>3 DEF Proceed, Fill, SelfTradeStop, Rest, Finish, IdsGiven
<1>4. CASE LegacyCall \/ LegacyProceed \/ UNCHANGED parityVars
  BY <1>4 DEF LegacyCall, LegacyProceed, parityVars, vars, IdsGiven
<1>. QED  BY <1>1, <1>2, <1>3, <1>4 DEF ParityNext

\* A step that gives no id and after which an order rests where it did, or in
\* the slot reserved for it.
LEMMA IdsKept ==
    ASSUME IdsOK, UNCHANGED <<ids, counter>>,
           incoming' # NoOrder => incoming # NoOrder /\ pool_idx' = pool_idx,
           \A s \in Slots : Active(s)' =>
              \/ Active(s) /\ nodes'[s].seq = nodes[s].seq
              \/ incoming # NoOrder /\ s = pool_idx /\ nodes'[s].seq = counter
    PROVE  IdsOK'
<1>1. \A s \in Slots : Active(s)' => ids'[nodes'[s].seq] = s
  BY DEF IdsOK
<1>. QED  BY <1>1 DEF IdsOK, IdsGiven

\* The ids stay right.
LEMMA IdsStep ==
    ASSUME BookInv, IdsOK, [ParityNext]_parityVars
    PROVE  IdsOK'
<1>1. nodes \in [Slots -> Node] /\ counter \in Nat
  BY OrderBookAssumption DEF BookInv, TypeOK
<1>2. ASSUME NEW u \in Users, NEW side \in Sides, NEW p \in 0 .. MaxPrice,
             NEW q \in Quantity, CallOrder(u, side, p, q)
      PROVE  IdsOK'
  <2>1. CASE Submit(u, side, p, q)
    <3>1. /\ p < MaxPrice /\ pool_idx' = free[Len(free)] /\ free # <<>>
          /\ counter' = counter + 1 /\ incoming = NoOrder
          /\ ids' = Append(ids, pool_idx') /\ nodes' = nodes
      BY <1>2, <2>1 DEF CallOrder, Submit, CanProcess
    <3>2. pool_idx' \in Slots
      BY <3>1, LenProperties, ElementOfSeq, EmptySeq DEF BookInv, TypeOK
    <3>3. /\ ids' \in Seq(Slots) /\ Len(ids') = counter'
          /\ ids'[counter'] = pool_idx'
          /\ \A i \in 1 .. counter : ids'[i] = ids[i]
      BY <3>1, <3>2, AppendProperties DEF IdsOK, IdsGiven
    <3>4. ASSUME NEW s \in Slots, Active(s)'
          PROVE  ids'[nodes'[s].seq] = s
      <4>1. Active(s) /\ nodes[s].seq \in Nat
        BY <1>1, <3>1, <3>4 DEF Active, Node
      <4>2. nodes[s].seq \in 1 .. counter
        <5>1. nodes[s].seq <= counter
          BY DEF BookInv, SeqsOK
        <5>. QED  BY <1>1, <4>1, <5>1 DEF Active
      <4>. QED  BY <3>1, <3>3, <4>1, <4>2 DEF IdsOK
    <3>. QED  BY <3>3, <3>4 DEF IdsOK, IdsGiven
  <2>2. CASE Refuse(p)
    <3>1. ~ (p < MaxPrice)
      BY <1>2, <2>2 DEF CallOrder, Refuse, CanProcess
    <3>2. /\ ids' = ids /\ counter' = counter /\ incoming' = incoming
          /\ pool_idx' = pool_idx /\ nodes' = nodes
      BY <1>2, <2>2, <3>1 DEF CallOrder, Refuse, bookVars
    <3>. QED  BY <3>2, IdsKept DEF Active
  <2>. QED  BY <1>2, <2>1, <2>2 DEF CallOrder
<1>3. ASSUME NEW n \in 0 .. MaxSeq, NEW u \in Users, CallCancel(n, u)
      PROVE  IdsOK'
  <2>1. PICK id : id = IdOf(n)
    OBVIOUS
  <2>2. CASE Cancel(id, u)
    <3>1. PICK s : s = id[2]
      OBVIOUS
    <3>2. /\ nodes' = [i \in Slots |->
                          IF i = s THEN [nodes[s] EXCEPT !.seq = 0]
                          ELSE [nodes[i] EXCEPT
                                  !.next = IF i = nodes[s].prev THEN nodes[s].next ELSE @,
                                  !.prev = IF i = nodes[s].next THEN nodes[s].prev ELSE @]]
          /\ counter' = counter /\ incoming' = incoming /\ pool_idx' = pool_idx
      BY <2>2, <3>1 DEF Cancel
    <3>3. \A i \in Slots : nodes'[i].seq = nodes[i].seq \/ nodes'[i].seq = 0
      BY <1>1, <3>2 DEF Node
    <3>4. \A i \in Slots : Active(i)' => Active(i) /\ nodes'[i].seq = nodes[i].seq
      BY <3>3 DEF Active
    <3>. QED  BY <1>3, <3>2, <3>4, IdsKept DEF CallCancel
  <2>3. CASE CancelMiss(id, u)
    BY <1>3, <2>3, IdsKept DEF CallCancel, CancelMiss, bookVars, Active
  <2>. QED  BY <1>3, <2>1, <2>2, <2>3 DEF CallCancel
<1>4. CASE Proceed
  <2>1. ASSUME NEW s \in Slots, Fill(s)
        PROVE  IdsOK'
    <3>0. PICK q, gone, next : /\ q = Smaller(incoming.quantity, nodes[s].quantity)
                               /\ gone = (nodes[s].quantity = q) /\ next = nodes[s].next
      OBVIOUS
    <3>1. nodes' = [i \in Slots |->
                      IF i = s
                      THEN [nodes[s] EXCEPT !.quantity = @ - q,
                                            !.seq = IF gone THEN 0 ELSE @,
                                            !.prev = IF gone /\ i = next THEN NULL_IDX
                                                     ELSE nodes[i].prev]
                      ELSE [nodes[i] EXCEPT !.prev = IF gone /\ i = next THEN NULL_IDX
                                                     ELSE nodes[i].prev]]
      BY <2>1, <3>0 DEF Fill
    <3>2. incoming # NoOrder /\ counter' = counter /\ pool_idx' = pool_idx /\ ids' = ids
      BY <1>4, <2>1 DEF Fill, AtHead, Proceed
    <3>3. \A i \in Slots : nodes'[i].seq = nodes[i].seq \/ nodes'[i].seq = 0
      BY <1>1, <3>1 DEF Node
    <3>4. \A i \in Slots : Active(i)' => Active(i) /\ nodes'[i].seq = nodes[i].seq
      BY <3>3 DEF Active
    <3>. QED  BY <3>2, <3>4, IdsKept
  <2>2. ASSUME NEW s \in Slots, SelfTradeStop(s)
        PROVE  IdsOK'
    BY <1>4, <2>2, IdsKept DEF SelfTradeStop, AtHead, bookVars, Active, Proceed
  <2>3. CASE Rest
    <3>1. PICK tail, after :
             /\ nodes' = [i \in Slots |->
                            IF i = pool_idx
                            THEN [seq |-> incoming.seq, user |-> incoming.user,
                                  side |-> incoming.side, price |-> incoming.price,
                                  quantity |-> incoming.quantity,
                                  prev |-> tail, next |-> after]
                            ELSE IF i = tail
                            THEN [nodes[i] EXCEPT !.next = pool_idx]
                            ELSE nodes[i]]
      BY <2>3 DEF Rest
    <3>2. incoming # NoOrder /\ counter' = counter /\ incoming' = NoOrder /\ ids' = ids
      BY <1>4, <2>3 DEF Rest, Proceed
    <3>3. incoming.seq = counter
      BY <3>2 DEF BookInv, SeqsOK
    <3>4. \A i \in Slots : IF i = pool_idx THEN nodes'[i].seq = counter
                           ELSE nodes'[i].seq = nodes[i].seq
      BY <1>1, <3>1, <3>3 DEF Node
    <3>5. \A i \in Slots : Active(i)' =>
             \/ Active(i) /\ nodes'[i].seq = nodes[i].seq
             \/ i = pool_idx /\ nodes'[i].seq = counter
      BY <3>4 DEF Active
    <3>. QED  BY <3>2, <3>5, IdsKept
  <2>4. CASE Finish
    BY <1>4, <2>4, IdsKept DEF Finish, Active, Proceed
  <2>. QED  BY <1>4, <2>1, <2>2, <2>3, <2>4 DEF Proceed
<1>5. CASE LegacyCall \/ LegacyProceed \/ UNCHANGED parityVars
  <2>1. UNCHANGED <<ids, counter, incoming, pool_idx, nodes>>
    BY <1>5 DEF LegacyCall, LegacyProceed, parityVars, vars
  <2>. QED  BY <2>1, IdsKept DEF Active
<1>. QED  BY <1>2, <1>3, <1>4, <1>5 DEF ParityNext

\* A script of calls keeps the engines one call apart at most.
LEMMA CallsStep ==
    ASSUME TypeOK, LegacyInv, CallsOK, [ParityNext]_parityVars
    PROVE  CallsOK'
<1>1. legacyCounter \in Nat /\ counter \in Nat
  BY OrderBookAssumption DEF LegacyInv, Youngest, TypeOK
<1>2. /\ NoCall.call = "none" /\ \A u, side, p, q : Order(u, side, p, q).call = "order"
      /\ \A n, u : CancelOf(n, u).call = "cancel"
      /\ \A u, side, p, q : Order(u, side, p, q).price = p
  BY DEF NoCall, Order, CancelOf
<1>3. asked = NoCall => counter = legacyCounter
  BY <1>1, <1>2 DEF CallsOK, Due
<1>4. ASSUME NEW u \in Users, NEW side \in Sides, NEW p \in 0 .. MaxPrice,
             NEW q \in Quantity, CallOrder(u, side, p, q)
      PROVE  CallsOK'
  <2>1. /\ asked' = Order(u, side, p, q) /\ legacyCounter' = legacyCounter
        /\ legacyIncoming' = NoOrder /\ counter = legacyCounter
    BY <1>3, <1>4 DEF CallOrder, Idle, legacyVars
  <2>2. counter' = IF p < MaxPrice THEN counter + 1 ELSE counter
    BY <1>4 DEF CallOrder, Submit, Refuse, CanProcess
  <2>3. Due' = IF p < MaxPrice THEN 1 ELSE 0
    BY <1>2, <2>1 DEF Due
  <2>4. asked' # NoCall
    BY <1>2, <2>1
  <2>. QED  BY <1>1, <2>1, <2>2, <2>3, <2>4 DEF CallsOK
<1>5. ASSUME NEW n \in 0 .. MaxSeq, NEW u \in Users, CallCancel(n, u)
      PROVE  CallsOK'
  <2>1. /\ asked' = CancelOf(n, u) /\ legacyCounter' = legacyCounter
        /\ legacyIncoming' = NoOrder /\ counter = legacyCounter
        /\ counter' = counter
    BY <1>3, <1>5 DEF CallCancel, Idle, legacyVars, Cancel, CancelMiss
  <2>2. Due' = 0 /\ asked' # NoCall
    BY <1>2, <2>1 DEF Due
  <2>. QED  BY <1>1, <2>1, <2>2 DEF CallsOK
<1>6. CASE Proceed
  <2>1. /\ asked' = asked /\ legacyCounter' = legacyCounter /\ legacyIncoming' = legacyIncoming
        /\ counter' = counter /\ incoming # NoOrder
    BY <1>6 DEF Proceed, legacyVars, Fill, SelfTradeStop, AtHead, Rest, Finish
  <2>. QED  BY <2>1 DEF CallsOK, Due
<1>7. CASE LegacyCall
  <2>1. /\ asked' = NoCall /\ counter' = counter /\ incoming' = NoOrder /\ asked # NoCall
        /\ legacyIncoming = NoOrder
    BY <1>7 DEF LegacyCall, vars, CallsOK
  <2>2. Due' = 0
    BY <1>2, <2>1 DEF Due
  <2>3. legacyCounter' = legacyCounter + Due
    <3>1. CASE asked.call = "order"
      BY <1>1, <1>7, <3>1 DEF LegacyCall, Due, Legacy!Submit, Legacy!Refuse, Legacy!CanProcess
    <3>2. CASE asked.call # "order"
      BY <1>1, <1>7, <3>2 DEF LegacyCall, Due, Legacy!Cancel, Legacy!CancelMiss
    <3>. QED  BY <3>1, <3>2
  <2>. QED  BY <1>1, <2>1, <2>2, <2>3 DEF CallsOK
<1>8. CASE LegacyProceed
  <2>1. legacyIncoming # NoOrder
    BY <1>8 DEF LegacyProceed, Legacy!Fill, Legacy!SelfTradeStop, Legacy!Rest, Legacy!Finish
  <2>2. /\ asked = NoCall /\ asked' = asked /\ counter' = counter /\ incoming' = incoming
        /\ legacyCounter' = legacyCounter
    BY <1>8, <2>1 DEF CallsOK, LegacyProceed, vars, Legacy!Fill, Legacy!SelfTradeStop,
                      Legacy!Rest, Legacy!Finish
  <2>. QED  BY <2>2 DEF CallsOK, Due
<1>9. CASE UNCHANGED parityVars
  BY <1>9 DEF parityVars, vars, legacyVars, CallsOK, Due
<1>. QED  BY <1>4, <1>5, <1>6, <1>7, <1>8, <1>9 DEF ParityNext

\* can_process_order looks at the price alone.
LEMMA LegacyAccepts == \A p : Legacy!Book!Accepts(p, -1) <=> Legacy!CanProcess(p)
BY DEF Legacy!Book!Accepts, Legacy!Book!Unbounded, Legacy!CanProcess

\* What OrderBookLegacy does is a step of its abstract book.
LEMMA LegacyStep ==
    ASSUME LegacyInv, CallsOK, [ParityNext]_parityVars
    PROVE  LegacyInv' /\ [Legacy!Book!Next]_(Legacy!Book!vars)
<1>1. /\ NoCall.call = "none" /\ \A u, side, p, q : Order(u, side, p, q).call = "order"
      /\ \A n, u : CancelOf(n, u).call = "cancel"
  BY DEF NoCall, Order, CancelOf
<1>2. CASE LegacyCall
  <2>1. CASE asked.call = "order"
    <3>1. PICK u \in Users, side \in Sides, p \in 0 .. MaxPrice, q \in Quantity :
             asked = Order(u, side, p, q)
      BY <1>1, <1>2, <2>1 DEF LegacyCall, CallsOK
    <3>2. asked.user = u /\ asked.side = side /\ asked.price = p /\ asked.quantity = q
      BY <3>1 DEF Order
    <3>3. Legacy!Submit(u, side, p, q) \/ Legacy!Refuse(p)
      BY <1>2, <2>1, <3>2 DEF LegacyCall
    <3>4. /\ LegacyInv'
          /\ \/ Legacy!Book!Accepts(p, -1) /\ Legacy!Book!Submit(u, side, p, q)
             \/ ~ Legacy!Book!Accepts(p, -1) /\ Legacy!Book!Refuse
      BY <3>3, LegacySubmit, LegacyRefuse, LegacyAccepts
         DEF Legacy!Submit, Legacy!Refuse
    <3>. QED  BY <3>4 DEF Legacy!Book!Next, Legacy!Book!NextWithin, Sides, Legacy!Book!Sides,
                          Quantity
  <2>2. CASE asked.call = "cancel"
    <3>1. PICK n \in 0 .. MaxSeq, u \in Users : asked = CancelOf(n, u)
      BY <1>1, <1>2, <2>2 DEF LegacyCall, CallsOK
    <3>2. asked.seq = n /\ asked.user = u /\ asked.call # "order"
      BY <2>2, <3>1 DEF CancelOf
    <3>3. Legacy!Cancel(n, u) \/ Legacy!CancelMiss(n, u)
      BY <1>2, <3>2 DEF LegacyCall
    <3>4. /\ LegacyInv'
          /\ \/ \E o \in Legacy!Resting : Legacy!Book!Cancel(o)
             \/ Legacy!Book!CancelMiss(n, u)
      BY <3>3, LegacyCancel, LegacyCancelMiss
    <3>. QED  BY <3>4 DEF Legacy!Book!Next, Legacy!Book!NextWithin
  <2>. QED  BY <1>1, <1>2, <2>1, <2>2 DEF LegacyCall, CallsOK
<1>3. CASE LegacyProceed
  <2>1. CASE Legacy!Fill
    BY <2>1, LegacyFill DEF Legacy!Book!Next, Legacy!Book!NextWithin
  <2>2. CASE Legacy!SelfTradeStop
    BY <2>2, LegacySelfTradeStop DEF Legacy!Book!Next, Legacy!Book!NextWithin
  <2>3. CASE Legacy!Rest
    BY <2>3, LegacyRest DEF Legacy!Book!Next, Legacy!Book!NextWithin
  <2>4. CASE Legacy!Finish
    BY <2>4, LegacyFinish DEF Legacy!Book!Next, Legacy!Book!NextWithin
  <2>. QED  BY <1>3, <2>1, <2>2, <2>3, <2>4 DEF LegacyProceed
<1>4. CASE UNCHANGED legacyVars
  <2>1. Legacy!Resting' = Legacy!Resting /\ LevelsOK' /\ IndexOK'
    BY <1>4, LegacyQuiet DEF LegacyInv, legacyVars
  <2>2. UNCHANGED Legacy!Book!vars
    BY <1>4, <2>1 DEF legacyVars, Legacy!Book!vars
  <2>3. Youngest'
    BY <1>4, <2>1 DEF LegacyInv, Youngest, legacyVars
  <2>. QED  BY <2>1, <2>2, <2>3 DEF LegacyInv
<1>5. CASE Proceed
  BY <1>4, <1>5 DEF Proceed
<1>6. ASSUME NEW u \in Users, NEW side \in Sides, NEW p \in 0 .. MaxPrice,
             NEW q \in Quantity, CallOrder(u, side, p, q)
      PROVE  UNCHANGED legacyVars
  BY <1>6 DEF CallOrder
<1>7. ASSUME NEW n \in 0 .. MaxSeq, NEW u \in Users, CallCancel(n, u)
      PROVE  UNCHANGED legacyVars
  BY <1>7 DEF CallCancel, legacyVars
<1>8. CASE UNCHANGED parityVars
  BY <1>4, <1>8 DEF parityVars
<1>. QED  BY <1>2, <1>3, <1>4, <1>5, <1>6, <1>7, <1>8 DEF ParityNext

-----------------------------------------------------------------------------
(* The index and the refinement.                                           *)

\* The invariant of the pair: what holds whatever is cancelled, and what holds
\* until id 0 is.
CallsInv == TypeInv /\ IdsGiven /\ LegacyInv /\ CallsOK
PairInv == RefInv /\ IdsOK
ParityInv == CallsInv /\ (zeroCancelled \/ PairInv)

\* It holds at the start ...
LEMMA ParityInitInv == ParityInit => ParityInv /\ Legacy!Book!Init
<1>. SUFFICES ASSUME ParityInit  PROVE ParityInv /\ Legacy!Book!Init
  OBVIOUS
<1>1. Init /\ Legacy!Init /\ ids = <<>> /\ asked = NoCall
  BY DEF ParityInit
<1>2. RefInv /\ TypeInv
  BY <1>1, InitInv, EmptyBitmapCorrect
     DEF RefInv, Init, Unique, Active, TypeInv, BookInv, Indexed, Partitioned
<1>3. IdsOK
  BY <1>1 DEF IdsOK, IdsGiven, Init, Active
<1>4. /\ levels = [side \in Legacy!Sides |-> <<>>] /\ locations = <<>>
      /\ legacyCounter = 0 /\ legacyIncoming = NoOrder /\ legacyOut = Legacy!Nothing
  BY <1>1 DEF Legacy!Init
<1>5. Legacy!Sides = Sides
  BY DEF Legacy!Sides, Sides
<1>6. \A side \in Sides : levels[side] = <<>> /\ DOMAIN levels[side] = {}
  BY <1>4, <1>5
<1>7. LevelsOK
  <2>1. <<>> \in [{} -> LevelSet]
    <3>1. <<>> = [i \in {} |-> CHOOSE x \in LevelSet : TRUE]
      OBVIOUS
    <3>. QED  BY <3>1
  <2>2. ASSUME NEW side \in Sides  PROVE MapOK(levels[side])
    BY <1>6, <2>1 DEF MapOK
  <2>. QED  BY <1>4, <1>5, <1>6, <2>2 DEF LevelsOK
<1>8. Legacy!Resting = {}
  BY <1>4, <1>5, <1>6 DEF Legacy!Resting
<1>9. LegacyInv
  BY <1>4, <1>7, <1>8 DEF LegacyInv, IndexOK, Youngest
<1>10. CallsOK
  BY <1>1, <1>4 DEF CallsOK, Due, NoCall, Init
<1>11. Legacy!Book!Init
  BY <1>4, <1>8 DEF Legacy!Book!Init, Legacy!Nothing, Legacy!Book!Nothing
<1>. QED  BY <1>2, <1>3, <1>9, <1>10, <1>11
          DEF ParityInv, CallsInv, PairInv, IdsOK

\* ... and after every step.
LEMMA ParityStep ==
    ParityInv /\ [ParityNext]_parityVars
       => ParityInv' /\ [Legacy!Book!Next]_(Legacy!Book!vars)
<1>. SUFFICES ASSUME ParityInv, [ParityNext]_parityVars
              PROVE  ParityInv' /\ [Legacy!Book!Next]_(Legacy!Book!vars)
  OBVIOUS
<1>1. TypeInv /\ TypeOK /\ IdsGiven /\ LegacyInv /\ CallsOK
  BY DEF ParityInv, CallsInv, TypeInv
<1>2. [Next]_vars
  BY <1>1, EngineStep DEF parityVars
<1>3. TypeInv' /\ TypeOK'
  BY <1>1, <1>2, TypeStep DEF TypeInv
<1>4. IdsGiven' /\ CallsOK' /\ LegacyInv' /\ [Legacy!Book!Next]_(Legacy!Book!vars)
  BY <1>1, IdsGivenStep, CallsStep, LegacyStep
<1>5. ASSUME ~ zeroCancelled'  PROVE PairInv'
  <2>1. ~ zeroCancelled
    BY <1>2, <1>5, ZeroStays DEF vars
  <2>2. RefInv /\ BookInv /\ IdsOK
    BY <2>1 DEF ParityInv, PairInv, RefInv
  <2>3. BookInv'
    BY <1>2, <1>3, <1>5, <2>2, BookInvStep
  <2>4. Unique'
    BY <1>2, <1>5, <2>2, StepRefines
  <2>5. IdsOK'
    BY <2>2, IdsStep
  <2>. QED  BY <2>3, <2>4, <2>5 DEF PairInv, RefInv
<1>. QED  BY <1>3, <1>4, <1>5 DEF ParityInv, CallsInv

\* The index of OrderBookLegacy leads to every resting order and to nothing
\* else, and no level of its map is empty, for any prices, users and
\* quantities.
THEOREM LegacyIndexCorrect == ParitySpec => []LegacyIndexExact
<1>1. ParityInv => LegacyIndexExact
  BY IndexIs DEF ParityInv, CallsInv, LegacyInv
<1>. QED  BY <1>1, ParityInitInv, ParityStep, PTL DEF ParitySpec

\* OrderBookLegacy, driven as OrderBook is, implements the abstract book: best
\* price first, the oldest order of it first, no trade of a user with itself,
\* and a cancel takes out the order it names or nothing.
THEOREM LegacyRefines == ParitySpec => LegacyImplementsLimitBook
BY ParityInitInv, ParityStep, PTL
   DEF ParitySpec, LegacyImplementsLimitBook, Legacy!ImplementsLimitBook, Legacy!Book!Spec

-----------------------------------------------------------------------------
(* The two engines answer alike.  A book is the set of its orders, the     *)
(* order being matched and the counter; what a call or a step makes of one *)
(* book, and reports, is determined.  While OrderBook answers a call,      *)
(* OrderBookLegacy has the book that OrderBook had, and the books that     *)
(* OrderBook went through since are those that it will go through.         *)

MeetsAt(x, o) ==
    /\ x.incoming.quantity > 0
    /\ o \in x.book /\ o.side = Book!Opposite(x.incoming.side)
    /\ \A y \in x.book : y.side = o.side /\ y # o => Book!Ahead(o, y)
    /\ Book!Crosses(x.incoming.side, x.incoming.price, o.price)

TradesWith(x, o, y, r) ==
    LET q    == Book!Smaller(x.incoming.quantity, o.quantity)
        left == [o EXCEPT !.quantity = @ - q]
    IN  /\ y.book = (x.book \ {o}) \union (IF left.quantity = 0 THEN {} ELSE {left})
        /\ y.incoming = [x.incoming EXCEPT !.quantity = @ - q]
        /\ r = Book!Trade(x.incoming, o, q)

StopsAt(x, y, r) ==
    /\ y.book = x.book
    /\ y.incoming = [x.incoming EXCEPT !.quantity = 0]
    /\ r = Book!Rejected(x.incoming)

Ends(x, y, r) ==
    /\ y.book = IF x.incoming.quantity > 0 THEN x.book \union {x.incoming} ELSE x.book
    /\ y.incoming = NoOrder
    /\ r = Book!Nothing

\* Matching an order goes on from book x to book y, and r is reported.
Goes(x, y, r) ==
    /\ x.incoming # NoOrder /\ y.counter = x.counter
    /\ \/ \E o \in x.book : MeetsAt(x, o) /\ (IF o.user = x.incoming.user
                                              THEN StopsAt(x, y, r) ELSE TradesWith(x, o, y, r))
       \/ (~ \E o \in x.book : MeetsAt(x, o)) /\ Ends(x, y, r)

\* A call c begins on book x and leaves y, and r is reported.
Names(o, c) == o.seq = c.seq /\ o.user = c.user
Called(x, c, y, r) ==
    /\ x.incoming = NoOrder
    /\ IF c.call = "order"
       THEN /\ y.book = x.book
            /\ IF c.price < MaxPrice
               THEN /\ y.incoming = [seq |-> x.counter + 1, user |-> c.user, side |-> c.side,
                                     price |-> c.price, quantity |-> c.quantity]
                    /\ y.counter = x.counter + 1
                    /\ r = Book!Nothing
               ELSE /\ y.incoming = NoOrder /\ y.counter = x.counter
                    /\ r = Book!Refused
       ELSE /\ y.incoming = NoOrder /\ y.counter = x.counter
            /\ \/ \E o \in x.book : /\ Names(o, c)
                                    /\ y.book = x.book \ {o} /\ r = Book!Cancelled(o)
               \/ /\ ~ \E o \in x.book : Names(o, c)
                  /\ y.book = x.book /\ r = Book!NotCancelled(c.seq, c.user)

\* The books that either engine may have.
NodeOrders == [seq : Nat, user : Users \union {NoUser}, side : Sides,
               price : Price, quantity : Quantity]
Books == [book : SUBSET NodeOrders, incoming : Orders \union {NoOrder}, counter : Nat]

\* Only one order can be met.
LEMMA MetOnce ==
    ASSUME NEW x \in Books, NEW a, NEW b, MeetsAt(x, a), MeetsAt(x, b)
    PROVE  a = b
<1>1. a \in NodeOrders /\ b \in NodeOrders /\ a.side = b.side
  BY DEF MeetsAt, Books
<1>2. a.seq \in Nat /\ b.seq \in Nat /\ a.price \in Nat /\ b.price \in Nat
  BY <1>1, BitmapAssumption DEF NodeOrders, Price
<1>3. a # b => Book!Ahead(a, b) /\ Book!Ahead(b, a)
  BY <1>1 DEF MeetsAt
<1>. QED  BY <1>1, <1>2, <1>3 DEF Book!Ahead, Book!BetterPrice

\* What matching does next is determined.
LEMMA GoesOneWay ==
    ASSUME NEW x \in Books, NEW y \in Books, NEW z \in Books, NEW r, NEW w,
           Goes(x, y, r), Goes(x, z, w)
    PROVE  y = z /\ r = w
<1>1. y.counter = z.counter
  BY DEF Goes
<1>2. CASE \E o \in x.book : MeetsAt(x, o)
  <2>1. PICK o \in x.book : MeetsAt(x, o)
    BY <1>2
  <2>2. \A a \in x.book : MeetsAt(x, a) => a = o
    BY <2>1, MetOnce
  <2>3. CASE o.user = x.incoming.user
    <3>1. StopsAt(x, y, r) /\ StopsAt(x, z, w)
      BY <1>2, <2>2, <2>3 DEF Goes
    <3>2. y.book = z.book /\ y.incoming = z.incoming /\ r = w
      BY <3>1 DEF StopsAt
    <3>. QED  BY <1>1, <3>2 DEF Books
  <2>4. CASE o.user # x.incoming.user
    <3>1. TradesWith(x, o, y, r) /\ TradesWith(x, o, z, w)
      BY <1>2, <2>2, <2>4 DEF Goes
    <3>2. y.book = z.book /\ y.incoming = z.incoming /\ r = w
      BY <3>1 DEF TradesWith
    <3>. QED  BY <1>1, <3>2 DEF Books
  <2>. QED  BY <2>3, <2>4
<1>3. CASE ~ \E o \in x.book : MeetsAt(x, o)
  <2>1. Ends(x, y, r) /\ Ends(x, z, w)
    BY <1>3 DEF Goes
  <2>2. y.book = z.book /\ y.incoming = z.incoming /\ r = w
    BY <2>1 DEF Ends
  <2>. QED  BY <1>1, <2>2 DEF Books
<1>. QED  BY <1>2, <1>3

\* What a call begins with is determined, since numbers tell orders apart.
LEMMA CalledOneWay ==
    ASSUME NEW x \in Books, NEW y \in Books, NEW z \in Books, NEW c, NEW r, NEW w,
           \A a, b \in x.book : a.seq = b.seq => a = b,
           Called(x, c, y, r), Called(x, c, z, w)
    PROVE  y = z /\ r = w
<1>1. y.incoming = z.incoming /\ y.counter = z.counter
  BY DEF Called
<1>2. y.book = z.book /\ r = w
  <2>1. CASE c.call = "order"
    BY <2>1 DEF Called
  <2>2. CASE c.call # "order" /\ \E o \in x.book : Names(o, c)
    <3>1. PICK o \in x.book : Names(o, c)
      BY <2>2
    <3>2. \A a \in x.book : Names(a, c) => a = o
      BY <3>1 DEF Names
    <3>. QED  BY <2>2, <3>2 DEF Called
  <2>3. CASE c.call # "order" /\ ~ \E o \in x.book : Names(o, c)
    BY <2>3 DEF Called
  <2>. QED  BY <2>1, <2>2, <2>3
<1>. QED  BY <1>1, <1>2 DEF Books

\* The two books.
Here == [book |-> Resting, incoming |-> incoming, counter |-> counter]
There == [book |-> Legacy!Resting, incoming |-> legacyIncoming, counter |-> legacyCounter]

\* They are such books, and numbers tell the orders of the second apart.
LEMMA HereIs == BookInv => Here \in Books
<1>. SUFFICES ASSUME BookInv  PROVE Here \in Books
  OBVIOUS
<1>1. nodes \in [Slots -> Node] /\ counter \in Nat /\ incoming \in Orders \union {NoOrder}
  BY OrderBookAssumption DEF BookInv, TypeOK
<1>2. \A s \in Slots : OrderAt(s) \in NodeOrders
  BY <1>1 DEF Node, OrderAt, NodeOrders
<1>3. Resting \subseteq NodeOrders
  BY <1>2 DEF Resting
<1>. QED  BY <1>1, <1>3 DEF Books, Here

\* The book of OrderBookLegacy.
LEMMA ThereIs ==
    LevelsOK /\ IndexOK /\ Youngest =>
        There \in Books /\ \A a, b \in There.book : a.seq = b.seq => a = b
<1>. SUFFICES ASSUME LevelsOK, IndexOK, Youngest
              PROVE  There \in Books /\ \A a, b \in There.book : a.seq = b.seq => a = b
  OBVIOUS
<1>1. \A o \in Legacy!Resting : o \in Orders
  BY RestingOrder
<1>2. Orders \subseteq NodeOrders
  BY DEF Orders, NodeOrders
<1>3. There \in Books
  BY <1>1, <1>2 DEF Youngest, Books, There
<1>. QED  BY <1>3, LegacyUnique DEF There

\* The same after a step.
LEMMA HereIsNext == BookInv' => (Here \in Books)'
BY HereIs, PTL

\* The same after a step.
LEMMA ThereIsNext ==
    (LevelsOK /\ IndexOK /\ Youngest)' =>
        (There \in Books /\ \A a, b \in There.book : a.seq = b.seq => a = b)'
BY ThereIs, PTL

\* OrderBook goes on as its abstract book does.
LEMMA EngineGoes ==
    ASSUME RefInv, (\E s \in Slots : Fill(s) \/ SelfTradeStop(s)) \/ Rest \/ Finish
    PROVE  Goes(Here, Here', out')
<1>1. /\ Here.book = Resting /\ Here.incoming = incoming /\ Here.counter = counter
      /\ Here'.book = Resting' /\ Here'.incoming = incoming' /\ Here'.counter = counter'
  BY DEF Here
<1>2. ASSUME NEW o \in Resting, Book!Meets(o)
      PROVE  MeetsAt(Here, o)
  BY <1>1, <1>2 DEF MeetsAt, Book!Meets, Book!IsFirst, Book!Resting, Resting
<1>3. ASSUME NEW s \in Slots, Fill(s)
      PROVE  Goes(Here, Here', out')
  <2>1. Book!Match(OrderAt(s)) /\ OrderAt(s) \in Resting
    BY <1>3, FillStep
  <2>2. PICK o \in Resting : Book!Match(o)
    BY <2>1
  <2>3. MeetsAt(Here, o) /\ o.user # incoming.user /\ incoming # NoOrder
    BY <1>2, <2>2 DEF Book!Match, Book!Meets
  <2>4. TradesWith(Here, o, Here', out') /\ counter' = counter
    BY <1>1, <2>2 DEF Book!Match, TradesWith, Resting
  <2>. QED  BY <1>1, <2>3, <2>4 DEF Goes
<1>4. ASSUME NEW s \in Slots, SelfTradeStop(s)
      PROVE  Goes(Here, Here', out')
  <2>1. Book!SelfTradeStop(OrderAt(s)) /\ OrderAt(s) \in Resting
    BY <1>4, SelfTradeStopStep
  <2>2. PICK o \in Resting : Book!SelfTradeStop(o)
    BY <2>1
  <2>3. MeetsAt(Here, o) /\ o.user = incoming.user /\ incoming # NoOrder
    BY <1>2, <2>2 DEF Book!SelfTradeStop, Book!Meets
  <2>4. StopsAt(Here, Here', out') /\ counter' = counter
    BY <1>1, <2>2 DEF Book!SelfTradeStop, StopsAt, Resting
  <2>. QED  BY <1>1, <2>3, <2>4 DEF Goes
<1>5. CASE Rest
  <2>1. Book!Rest
    BY <1>5, RestStep
  <2>2. ~ \E o \in Resting : MeetsAt(Here, o)
    BY <1>1, <2>1 DEF Book!Rest, MeetsAt, Book!Resting, Resting
  <2>3. Ends(Here, Here', out') /\ counter' = counter /\ incoming # NoOrder
    BY <1>1, <2>1 DEF Book!Rest, Ends, Resting
  <2>. QED  BY <1>1, <2>2, <2>3 DEF Goes
<1>6. CASE Finish
  <2>1. Resting' = Resting
    BY <1>6, SameResting DEF Finish
  <2>2. ~ \E o \in Resting : MeetsAt(Here, o)
    BY <1>1, <1>6 DEF Finish, MeetsAt
  <2>3. Ends(Here, Here', out') /\ counter' = counter /\ incoming # NoOrder
    BY <1>1, <1>6, <2>1 DEF Finish, Ends, Nothing, Book!Nothing
  <2>. QED  BY <1>1, <2>2, <2>3 DEF Goes
<1>. QED  BY <1>3, <1>4, <1>5, <1>6

\* So does OrderBookLegacy.
LEMMA LegacyGoes ==
    ASSUME LegacyInv, Legacy!Fill \/ Legacy!SelfTradeStop \/ Legacy!Rest \/ Legacy!Finish
    PROVE  Goes(There, There', legacyOut')
<1>1. /\ There.book = Legacy!Resting /\ There.incoming = legacyIncoming
      /\ There.counter = legacyCounter
      /\ There'.book = Legacy!Resting' /\ There'.incoming = legacyIncoming'
      /\ There'.counter = legacyCounter'
  BY DEF There
<1>2. ASSUME NEW o \in Legacy!Resting, Legacy!Book!Meets(o)
      PROVE  MeetsAt(There, o)
  BY <1>1, <1>2 DEF MeetsAt, Legacy!Book!Meets, Legacy!Book!IsFirst, Legacy!Book!Resting,
                    Book!Opposite, Legacy!Book!Opposite, Book!Ahead, Legacy!Book!Ahead,
                    Book!BetterPrice, Legacy!Book!BetterPrice, Book!Crosses, Legacy!Book!Crosses
<1>3. CASE Legacy!Fill
  <2>1. PICK o \in Legacy!Resting : Legacy!Book!Match(o)
    BY <1>3, LegacyFill
  <2>2. MeetsAt(There, o) /\ o.user # legacyIncoming.user /\ legacyIncoming # NoOrder
    BY <1>2, <2>1 DEF Legacy!Book!Match, Legacy!Book!Meets
  <2>3. TradesWith(There, o, There', legacyOut') /\ legacyCounter' = legacyCounter
    BY <1>1, <2>1 DEF Legacy!Book!Match, TradesWith, Book!Smaller, Legacy!Book!Smaller,
                      Book!Trade, Legacy!Book!Trade
  <2>. QED  BY <1>1, <2>2, <2>3 DEF Goes
<1>4. CASE Legacy!SelfTradeStop
  <2>1. PICK o \in Legacy!Resting : Legacy!Book!SelfTradeStop(o)
    BY <1>4, LegacySelfTradeStop
  <2>2. MeetsAt(There, o) /\ o.user = legacyIncoming.user /\ legacyIncoming # NoOrder
    BY <1>2, <2>1 DEF Legacy!Book!SelfTradeStop, Legacy!Book!Meets
  <2>3. StopsAt(There, There', legacyOut') /\ legacyCounter' = legacyCounter
    BY <1>1, <2>1 DEF Legacy!Book!SelfTradeStop, StopsAt, Book!Rejected, Legacy!Book!Rejected
  <2>. QED  BY <1>1, <2>2, <2>3 DEF Goes
<1>5. CASE Legacy!Rest
  <2>1. Legacy!Book!Rest
    BY <1>5, LegacyRest
  <2>2. ~ \E o \in Legacy!Resting : MeetsAt(There, o)
    BY <1>1, <2>1 DEF Legacy!Book!Rest, MeetsAt, Legacy!Book!Resting,
                      Book!Opposite, Legacy!Book!Opposite, Book!Crosses, Legacy!Book!Crosses
  <2>3. Ends(There, There', legacyOut') /\ legacyCounter' = legacyCounter
        /\ legacyIncoming # NoOrder
    BY <1>1, <2>1 DEF Legacy!Book!Rest, Ends, Book!Nothing, Legacy!Book!Nothing
  <2>. QED  BY <1>1, <2>2, <2>3 DEF Goes
<1>6. CASE Legacy!Finish
  <2>1. Legacy!Book!Finish
    BY <1>6, LegacyFinish
  <2>2. ~ \E o \in Legacy!Resting : MeetsAt(There, o)
    BY <1>1, <2>1 DEF Legacy!Book!Finish, MeetsAt
  <2>3. Ends(There, There', legacyOut') /\ legacyCounter' = legacyCounter
        /\ legacyIncoming # NoOrder
    BY <1>1, <2>1 DEF Legacy!Book!Finish, Ends, Book!Nothing, Legacy!Book!Nothing
  <2>. QED  BY <1>1, <2>2, <2>3 DEF Goes
<1>. QED  BY <1>3, <1>4, <1>5, <1>6

\* A call to OrderBook begins as one to its abstract book does.
LEMMA EngineCalled ==
    ASSUME RefInv, IdsOK, ~ zeroCancelled', asked = NoCall,
           \/ \E u \in Users, side \in Sides, p \in 0 .. MaxPrice, q \in Quantity :
                 CallOrder(u, side, p, q)
           \/ \E n \in 0 .. MaxSeq, u \in Users : CallCancel(n, u)
    PROVE  Called(Here, asked', Here', out')
<1>1. /\ Here.book = Resting /\ Here.incoming = incoming /\ Here.counter = counter
      /\ Here'.book = Resting' /\ Here'.incoming = incoming' /\ Here'.counter = counter'
  BY DEF Here
<1>2. ASSUME NEW u \in Users, NEW side \in Sides, NEW p \in 0 .. MaxPrice,
             NEW q \in Quantity, CallOrder(u, side, p, q)
      PROVE  Called(Here, asked', Here', out')
  <2>1. /\ asked' = Order(u, side, p, q) /\ incoming = NoOrder /\ free # <<>>
        /\ Submit(u, side, p, q) \/ Refuse(p)
    BY <1>2 DEF CallOrder, Idle
  <2>2. /\ asked'.call = "order" /\ asked'.user = u /\ asked'.side = side
        /\ asked'.price = p /\ asked'.quantity = q
    BY <2>1 DEF Order
  <2>3. Resting' = Resting
    BY <2>1, SameResting DEF Submit, Refuse, bookVars
  <2>4. CASE p < MaxPrice
    <3>1. Submit(u, side, p, q)
      BY <2>1, <2>4 DEF Refuse, CanProcess
    <3>. QED  BY <1>1, <2>1, <2>2, <2>3, <2>4, <3>1 DEF Submit, Called, Nothing, Book!Nothing
  <2>5. CASE ~ (p < MaxPrice)
    <3>1. Refuse(p)
      BY <2>1, <2>5 DEF Submit, CanProcess
    <3>. QED  BY <1>1, <2>1, <2>2, <2>3, <2>5, <3>1 DEF Refuse, Called, Refused, Book!Refused
  <2>. QED  BY <2>4, <2>5
<1>3. ASSUME NEW n \in 0 .. MaxSeq, NEW u \in Users, CallCancel(n, u)
      PROVE  Called(Here, asked', Here', out')
  <2>1. PICK id \in Ids : id = IdOf(n) /\ id[1] = n
    BY IdOfIs DEF IdsOK
  <2>2. asked' = CancelOf(n, u) /\ (Cancel(id, u) \/ CancelMiss(id, u))
    BY <1>3, <2>1 DEF CallCancel
  <2>3. asked'.call # "order" /\ asked'.seq = n /\ asked'.user = u
    BY <2>2 DEF CancelOf
  <2>4. CASE Cancel(id, u)
    <3>1. id # <<0, 0>>
      BY <2>4 DEF Cancel
    <3>2. OrderAt(id[2]) \in Resting /\ Book!Cancel(OrderAt(id[2]))
      BY <2>4, <3>1, CancelStep
    <3>3. PICK s : s = id[2]
      OBVIOUS
    <3>4. nodes[s].seq = n /\ nodes[s].user = u
      <4>1. id = <<nodes[s].seq, s>>
        BY <2>4, <3>1, <3>3, CancelNamed
      <4>2. id[1] = nodes[s].seq
        BY <4>1
      <4>. QED  BY <2>1, <2>4, <3>3, <4>2 DEF Cancel, Cancellable
    <3>5. Names(OrderAt(s), asked')
      BY <2>3, <3>4 DEF Names, OrderAt
    <3>6. PICK o \in Resting : Names(o, asked') /\ Book!Cancel(o)
      BY <3>2, <3>3, <3>5
    <3>7. /\ incoming = NoOrder /\ incoming' = NoOrder /\ counter' = counter
          /\ Resting' = Resting \ {o} /\ out' = Book!Cancelled(o)
      BY <3>6 DEF Book!Cancel, Resting
    <3>. QED  BY <1>1, <2>3, <3>6, <3>7 DEF Called
  <2>5. CASE CancelMiss(id, u)
    <3>1. Book!CancelMiss(Named(id), u)
      BY <2>5, CancelMissStep
    <3>2. Named(id) = n
      BY <2>1, IdOfNames DEF RefInv
    <3>3. PICK k : k = n
      OBVIOUS
    <3>4. Book!CancelMiss(k, u)
      BY <3>1, <3>2, <3>3
    <3>5. ~ \E o \in Resting : Names(o, asked')
      BY <2>3, <3>3, <3>4 DEF Book!CancelMiss, Names, Resting
    <3>6. /\ incoming = NoOrder /\ incoming' = NoOrder /\ counter' = counter
          /\ Resting' = Resting /\ out' = Book!NotCancelled(n, u)
      BY <3>3, <3>4 DEF Book!CancelMiss, Resting
    <3>. QED  BY <1>1, <2>3, <3>5, <3>6 DEF Called
  <2>. QED  BY <2>2, <2>4, <2>5
<1>. QED  BY <1>2, <1>3

\* So does the same call to OrderBookLegacy.
LEMMA LegacyCalled ==
    ASSUME LegacyInv, CallsOK, LegacyCall
    PROVE  Called(There, asked, There', legacyOut')
<1>1. /\ There.book = Legacy!Resting /\ There.incoming = legacyIncoming
      /\ There.counter = legacyCounter
      /\ There'.book = Legacy!Resting' /\ There'.incoming = legacyIncoming'
      /\ There'.counter = legacyCounter'
  BY DEF There
<1>2. CASE asked.call = "order"
  <2>1. PICK u \in Users, side \in Sides, p \in 0 .. MaxPrice, q \in Quantity :
           asked = Order(u, side, p, q)
    BY <1>2 DEF LegacyCall, CallsOK, NoCall, CancelOf
  <2>2. asked.user = u /\ asked.side = side /\ asked.price = p /\ asked.quantity = q
    BY <2>1 DEF Order
  <2>3. Legacy!Submit(u, side, p, q) \/ Legacy!Refuse(p)
    BY <1>2, <2>2 DEF LegacyCall
  <2>4. CASE Legacy!Submit(u, side, p, q)
    <3>1. Legacy!Book!Submit(u, side, p, q) /\ p < MaxPrice
      BY <2>4, LegacySubmit DEF Legacy!Submit, Legacy!CanProcess
    <3>. QED  BY <1>1, <1>2, <2>2, <3>1
              DEF Legacy!Book!Submit, Called, Book!Nothing, Legacy!Book!Nothing
  <2>5. CASE Legacy!Refuse(p)
    <3>1. Legacy!Book!Refuse /\ ~ (p < MaxPrice)
      BY <2>5, LegacyRefuse DEF Legacy!Refuse, Legacy!CanProcess
    <3>. QED  BY <1>1, <1>2, <2>2, <3>1
              DEF Legacy!Book!Refuse, Called, Book!Refused, Legacy!Book!Refused
  <2>. QED  BY <2>3, <2>4, <2>5
<1>3. CASE asked.call # "order"
  <2>1. PICK n \in 0 .. MaxSeq, u \in Users : asked = CancelOf(n, u)
    BY <1>3 DEF LegacyCall, CallsOK, Order
  <2>2. asked.seq = n /\ asked.user = u
    BY <2>1 DEF CancelOf
  <2>3. Legacy!Cancel(n, u) \/ Legacy!CancelMiss(n, u)
    BY <1>3, <2>2 DEF LegacyCall
  <2>4. CASE Legacy!Cancel(n, u)
    <3>1. PICK o \in Legacy!Resting : o.seq = n
      BY <2>4, NodeIs DEF Legacy!Cancel, Legacy!Cancellable
    <3>2. Legacy!OrderAt(n) = o /\ o.user = u
      BY <2>4, <3>1, NodeIs DEF Legacy!Cancel, Legacy!Cancellable
    <3>3. PICK x \in Legacy!Resting : Legacy!Book!Cancel(x)
      BY <2>4, LegacyCancel
    <3>4. x = o
      <4>1. Legacy!Cancelled(o) = Legacy!Book!Cancelled(x)
        BY <2>4, <3>2, <3>3 DEF Legacy!Cancel, Legacy!Book!Cancel
      <4>. QED  BY <4>1 DEF Legacy!Cancelled, Legacy!Book!Cancelled
    <3>. QED  BY <1>1, <1>3, <2>2, <3>1, <3>2, <3>3, <3>4
              DEF Legacy!Book!Cancel, Called, Names, Book!Cancelled, Legacy!Book!Cancelled
  <2>5. CASE Legacy!CancelMiss(n, u)
    <3>1. Legacy!Book!CancelMiss(n, u)
      BY <2>5, LegacyCancelMiss
    <3>. QED  BY <1>1, <1>3, <2>2, <3>1
              DEF Legacy!Book!CancelMiss, Called, Names, Book!NotCancelled, Legacy!Book!NotCancelled
  <2>. QED  BY <2>3, <2>4, <2>5
<1>. QED  BY <1>2, <1>3

\* The books that OrderBook went through while it answered this call, from
\* the one after the call began to the one it has: st, one per report.
Path(st) ==
    /\ \A i \in 1 .. Len(reports) : st[i] \in Books
    /\ \A i \in 1 .. Len(reports) - 1 : Goes(st[i], st[i + 1], reports[i + 1])
    /\ st[Len(reports)] = Here

\* OrderBookLegacy has still to answer the call on the book OrderBook had ...
CallDue ==
    \E st : /\ Path(st) /\ Len(reports) > 0
            /\ Called(There, asked, st[1], reports[1])

\* ... or has come some way through the same books, with the same reports.
Following ==
    \E st : /\ Path(st) /\ Len(legacyReports) \in 1 .. Len(reports)
            /\ There = st[Len(legacyReports)]
            /\ \A i \in 1 .. Len(legacyReports) : legacyReports[i] = reports[i]

\* No call was made yet.
Untouched == Here = There /\ reports = <<>> /\ legacyReports = <<>>

\* The books and reports of the two, at any time.
Reported ==
    /\ \E S : reports \in Seq(S) /\ legacyReports \in Seq(S)
    /\ IF asked # NoCall THEN CallDue ELSE Following \/ Untouched

\* Between two calls both have come to the same end.
LEMMA BothIdle ==
    ASSUME Reported, Idle
    PROVE  Here = There /\ legacyReports = reports
<1>1. incoming = NoOrder /\ legacyIncoming = NoOrder /\ asked = NoCall
  BY DEF Idle
<1>2. CASE Untouched
  BY <1>2 DEF Untouched
<1>3. CASE Following
  <2>1. PICK S : reports \in Seq(S) /\ legacyReports \in Seq(S)
    BY DEF Reported
  <2>2. PICK st : /\ Path(st) /\ Len(legacyReports) \in 1 .. Len(reports)
                  /\ There = st[Len(legacyReports)]
                  /\ \A i \in 1 .. Len(legacyReports) : legacyReports[i] = reports[i]
    BY <1>3 DEF Following
  <2>3. Len(reports) \in Nat /\ Len(legacyReports) \in Nat
    BY <2>1, LenProperties
  <2>4. Len(legacyReports) = Len(reports)
    <3>. SUFFICES ASSUME Len(legacyReports) # Len(reports)  PROVE FALSE
      OBVIOUS
    <3>1. Len(legacyReports) \in 1 .. Len(reports) - 1
      BY <2>2, <2>3
    <3>2. st[Len(legacyReports)].incoming # NoOrder
      BY <2>2, <3>1 DEF Path, Goes
    <3>. QED  BY <1>1, <2>2, <3>2 DEF There
  <2>5. legacyReports = reports
    BY <2>1, <2>2, <2>4, SeqEqual
  <2>. QED  BY <2>2, <2>4, <2>5 DEF Path
<1>. QED  BY <1>1, <1>2, <1>3 DEF Reported

\* A call to OrderBook.
LEMMA ReportedCall ==
    ASSUME BookInv', Reported, Idle, Called(Here, asked', Here', out'),
           reports' = <<out'>>, legacyReports' = <<>>, asked' # NoCall, UNCHANGED There
    PROVE  Reported'
<1>1. Here = There
  BY BothIdle
<1>2. Here' \in Books
  BY HereIsNext
<1>3. Len(reports') = 1 /\ reports'[1] = out'
  OBVIOUS
<1>. DEFINE st == [i \in {1} |-> Here']
<1>4. st[1] = Here'
  OBVIOUS
<1>. HIDE DEF st
<1>5. /\ \A i \in 1 .. Len(reports') : st[i] \in Books
      /\ \A i \in 1 .. Len(reports') - 1 : Goes(st[i], st[i + 1], reports'[i + 1])
      /\ st[Len(reports')] = Here'
  BY <1>2, <1>3, <1>4
<1>6. Called(There', asked', st[1], reports'[1])
  BY <1>1, <1>3, <1>4
<1>7. \E S : reports' \in Seq(S) /\ legacyReports' \in Seq(S)
  <2>1. reports' \in Seq({out'}) /\ legacyReports' \in Seq({out'})
    OBVIOUS
  <2>. QED  BY <2>1
<1>8. CallDue'
  BY <1>3, <1>5, <1>6 DEF CallDue, Path
<1>. QED  BY <1>7, <1>8 DEF Reported

\* OrderBook goes on: one more book on the way.
LEMMA ReportedProceed ==
    ASSUME CallsInv, PairInv, BookInv', Reported, Proceed
    PROVE  Reported'
<1>1. /\ asked' = asked /\ legacyReports' = legacyReports /\ reports' = Append(reports, out')
      /\ UNCHANGED There /\ incoming # NoOrder
  <2>1. /\ asked' = asked /\ legacyReports' = legacyReports
        /\ reports' = Append(reports, out') /\ UNCHANGED legacyVars
    BY DEF Proceed
  <2>2. incoming # NoOrder
    BY DEF Proceed, Fill, SelfTradeStop, AtHead, Rest, Finish
  <2>3. UNCHANGED There
    BY <2>1 DEF legacyVars, There, Legacy!Resting
  <2>. QED  BY <2>1, <2>2, <2>3
<1>2. asked # NoCall
  BY <1>1 DEF CallsInv, CallsOK
<1>3. Goes(Here, Here', out') /\ Here' \in Books
  BY EngineGoes, HereIsNext DEF Proceed, PairInv
<1>4. PICK S : reports \in Seq(S) /\ legacyReports \in Seq(S)
  BY DEF Reported
<1>5. PICK st : Path(st) /\ Len(reports) > 0 /\ Called(There, asked, st[1], reports[1])
  BY <1>2 DEF Reported, CallDue
<1>6. PICK n : n = Len(reports)
  OBVIOUS
<1>7. n \in Nat /\ n > 0
  BY <1>4, <1>5, <1>6, LenProperties
<1>8. /\ Len(reports') = n + 1 /\ reports'[n + 1] = out'
      /\ \A i \in 1 .. n : reports'[i] = reports[i]
  BY <1>1, <1>4, <1>6, AppendProperties
<1>. DEFINE t == [i \in 1 .. n + 1 |-> IF i = n + 1 THEN Here' ELSE st[i]]
<1>9. t[n + 1] = Here' /\ \A i \in 1 .. n : t[i] = st[i]
  BY <1>7
<1>. HIDE DEF t
<1>10. /\ \A i \in 1 .. Len(reports') : t[i] \in Books
       /\ t[Len(reports')] = Here'
  <2>1. \A i \in 1 .. n + 1 : i \in 1 .. n \/ i = n + 1
    BY <1>7
  <2>2. \A i \in 1 .. n : st[i] \in Books
    BY <1>5, <1>6 DEF Path
  <2>. QED  BY <1>3, <1>8, <1>9, <2>1, <2>2
<1>11. ASSUME NEW i \in 1 .. Len(reports') - 1
       PROVE  Goes(t[i], t[i + 1], reports'[i + 1])
  <2>1. i \in 1 .. n /\ ((i \in 1 .. n - 1 /\ i + 1 \in 1 .. n) \/ i = n)
    BY <1>7, <1>8
  <2>2. CASE i = n
    <3>1. st[n] = Here
      BY <1>5, <1>6 DEF Path
    <3>2. t[i] = Here /\ t[i + 1] = Here' /\ reports'[i + 1] = out'
      BY <1>8, <1>9, <2>1, <2>2, <3>1
    <3>. QED  BY <1>3, <3>2
  <2>3. CASE i \in 1 .. n - 1 /\ i + 1 \in 1 .. n
    <3>1. Goes(st[i], st[i + 1], reports[i + 1])
      BY <1>5, <1>6, <2>3 DEF Path
    <3>2. t[i] = st[i] /\ t[i + 1] = st[i + 1] /\ reports'[i + 1] = reports[i + 1]
      BY <1>8, <1>9, <2>1, <2>3
    <3>. QED  BY <3>1, <3>2
  <2>. QED  BY <2>1, <2>2, <2>3
<1>12. Called(There', asked', t[1], reports'[1])
  <2>1. 1 \in 1 .. n
    BY <1>7
  <2>. QED  BY <1>1, <1>5, <1>8, <1>9, <2>1
<1>13. CallDue'
  <2>1. Len(reports') > 0
    BY <1>7, <1>8
  <2>. QED  BY <1>10, <1>11, <1>12, <2>1 DEF CallDue, Path
<1>14. \E R : reports' \in Seq(R) /\ legacyReports' \in Seq(R)
  <2>. DEFINE R == S \union {out'}
  <2>1. reports \in Seq(R) /\ legacyReports \in Seq(R) /\ out' \in R
    BY <1>4, SeqMonotonic
  <2>. HIDE DEF R
  <2>2. reports' \in Seq(R) /\ legacyReports' \in Seq(R)
    BY <1>1, <2>1, AppendProperties
  <2>. QED  BY <2>2
<1>. QED  BY <1>1, <1>2, <1>13, <1>14 DEF Reported

\* OrderBookLegacy begins to answer: as OrderBook did.
LEMMA ReportedLegacyCall ==
    ASSUME CallsInv, CallsInv', Reported, LegacyCall
    PROVE  Reported'
<1>1. /\ asked # NoCall /\ asked' = NoCall /\ legacyReports' = <<legacyOut'>>
      /\ reports' = reports /\ UNCHANGED Here
  BY DEF LegacyCall, Here, Resting, vars, OrderAt, Active
<1>2. Called(There, asked, There', legacyOut')
  BY LegacyCalled DEF CallsInv
<1>3. There \in Books /\ \A a, b \in There.book : a.seq = b.seq => a = b
  BY ThereIs DEF CallsInv, LegacyInv
<1>4. There' \in Books
  BY ThereIsNext DEF CallsInv, LegacyInv
<1>5. PICK S : reports \in Seq(S) /\ legacyReports \in Seq(S)
  BY DEF Reported
<1>6. PICK st : Path(st) /\ Len(reports) > 0 /\ Called(There, asked, st[1], reports[1])
  BY <1>1 DEF Reported, CallDue
<1>7. Len(reports) \in Nat /\ 1 \in 1 .. Len(reports)
  BY <1>5, <1>6, LenProperties
<1>8. st[1] \in Books
  BY <1>6, <1>7 DEF Path
<1>9. There' = st[1] /\ legacyOut' = reports[1]
  BY <1>2, <1>3, <1>4, <1>6, <1>8, CalledOneWay
<1>10. Len(legacyReports') = 1 /\ legacyReports'[1] = legacyOut'
  BY <1>1
<1>11. Path(st)'
  BY <1>1, <1>6 DEF Path
<1>12. Following'
  BY <1>1, <1>7, <1>9, <1>10, <1>11 DEF Following
<1>13. \E R : reports' \in Seq(R) /\ legacyReports' \in Seq(R)
  <2>1. legacyOut' \in S
    BY <1>5, <1>7, <1>9, ElementOfSeq
  <2>2. reports' \in Seq(S) /\ legacyReports' \in Seq(S)
    BY <1>1, <1>5, <2>1
  <2>. QED  BY <2>2
<1>. QED  BY <1>1, <1>12, <1>13 DEF Reported

\* OrderBookLegacy goes on: to the next book of those that OrderBook had.
LEMMA ReportedLegacyProceed ==
    ASSUME CallsInv, CallsInv', Reported, LegacyProceed
    PROVE  Reported'
<1>1. /\ asked' = asked /\ legacyReports' = Append(legacyReports, legacyOut')
      /\ reports' = reports /\ UNCHANGED Here /\ legacyIncoming # NoOrder
  BY DEF LegacyProceed, Here, Resting, vars, OrderAt, Active, Legacy!Fill,
         Legacy!SelfTradeStop, Legacy!Rest, Legacy!Finish
<1>2. asked = NoCall /\ incoming = NoOrder
  BY <1>1 DEF CallsInv, CallsOK
<1>3. Goes(There, There', legacyOut')
  BY LegacyGoes DEF LegacyProceed, CallsInv
<1>4. There \in Books
  BY ThereIs DEF CallsInv, LegacyInv
<1>5. There' \in Books
  BY ThereIsNext DEF CallsInv, LegacyInv
<1>6. PICK S : reports \in Seq(S) /\ legacyReports \in Seq(S)
  BY DEF Reported
<1>7. Following
  <2>1. ~ Untouched
    BY <1>1, <1>2 DEF Untouched, Here, There
  <2>. QED  BY <1>2, <2>1 DEF Reported
<1>8. PICK st : /\ Path(st) /\ Len(legacyReports) \in 1 .. Len(reports)
                /\ There = st[Len(legacyReports)]
                /\ \A i \in 1 .. Len(legacyReports) : legacyReports[i] = reports[i]
  BY <1>7 DEF Following
<1>9. PICK k : k = Len(legacyReports)
  OBVIOUS
<1>10. Len(reports) \in Nat /\ k \in Nat /\ k \in 1 .. Len(reports)
  BY <1>6, <1>8, <1>9, LenProperties
<1>11. k # Len(reports)
  <2>1. st[Len(reports)] = Here
    BY <1>8 DEF Path
  <2>2. Here.incoming = NoOrder /\ There.incoming # NoOrder
    BY <1>1, <1>2 DEF Here, There
  <2>. QED  BY <1>8, <1>9, <2>1, <2>2
<1>12. k \in 1 .. Len(reports) - 1 /\ k + 1 \in 1 .. Len(reports)
  BY <1>10, <1>11
<1>13. Goes(There, st[k + 1], reports[k + 1]) /\ st[k + 1] \in Books
  BY <1>8, <1>9, <1>12 DEF Path
<1>14. There' = st[k + 1] /\ legacyOut' = reports[k + 1]
  BY <1>3, <1>4, <1>5, <1>13, GoesOneWay
<1>15. /\ Len(legacyReports') = k + 1 /\ legacyReports'[k + 1] = legacyOut'
       /\ \A i \in 1 .. k : legacyReports'[i] = legacyReports[i]
  BY <1>1, <1>6, <1>9, AppendProperties
<1>16. \A i \in 1 .. Len(legacyReports') : legacyReports'[i] = reports'[i]
  <2>1. \A i \in 1 .. k + 1 : i \in 1 .. k \/ i = k + 1
    BY <1>10
  <2>. QED  BY <1>1, <1>8, <1>9, <1>14, <1>15, <2>1
<1>17. Path(st)'
  BY <1>1, <1>8 DEF Path
<1>18. Following'
  BY <1>1, <1>12, <1>14, <1>15, <1>16, <1>17 DEF Following
<1>19. \E R : reports' \in Seq(R) /\ legacyReports' \in Seq(R)
  <2>1. legacyOut' \in S
    BY <1>6, <1>12, <1>14, ElementOfSeq
  <2>2. reports' \in Seq(S) /\ legacyReports' \in Seq(S)
    BY <1>1, <1>6, <2>1, AppendProperties
  <2>. QED  BY <2>2
<1>. QED  BY <1>1, <1>2, <1>18, <1>19 DEF Reported

\* Every step keeps the two on the same way.
LEMMA ReportedStep ==
    ASSUME CallsInv, PairInv, CallsInv', PairInv', ~ zeroCancelled', Reported,
           [ParityNext]_parityVars
    PROVE  Reported'
<1>1. BookInv'
  BY DEF PairInv, RefInv
<1>2. UNCHANGED legacyVars => UNCHANGED There
  BY DEF There, legacyVars, Legacy!Resting
<1>3. ASSUME NEW u \in Users, NEW side \in Sides, NEW p \in 0 .. MaxPrice,
             NEW q \in Quantity, CallOrder(u, side, p, q)
      PROVE  Reported'
  <2>1. /\ Idle /\ asked = NoCall /\ asked' # NoCall
        /\ reports' = <<out'>> /\ legacyReports' = <<>> /\ UNCHANGED There
    BY <1>2, <1>3 DEF CallOrder, Idle, Order, NoCall
  <2>2. Called(Here, asked', Here', out')
    BY <1>3, <2>1, EngineCalled DEF PairInv
  <2>. QED  BY <1>1, <2>1, <2>2, ReportedCall
<1>4. ASSUME NEW n \in 0 .. MaxSeq, NEW u \in Users, CallCancel(n, u)
      PROVE  Reported'
  <2>1. /\ Idle /\ asked = NoCall /\ asked' # NoCall
        /\ reports' = <<out'>> /\ legacyReports' = <<>> /\ UNCHANGED There
    BY <1>2, <1>4 DEF CallCancel, Idle, CancelOf, NoCall
  <2>2. Called(Here, asked', Here', out')
    BY <1>4, <2>1, EngineCalled DEF PairInv
  <2>. QED  BY <1>1, <2>1, <2>2, ReportedCall
<1>5. CASE Proceed
  BY <1>1, <1>5, ReportedProceed
<1>6. CASE LegacyCall
  BY <1>6, ReportedLegacyCall
<1>7. CASE LegacyProceed
  BY <1>7, ReportedLegacyProceed
<1>8. CASE UNCHANGED parityVars
  <2>1. UNCHANGED <<Here, There, asked, reports, legacyReports>>
    BY <1>2, <1>8 DEF parityVars, vars, Here, Resting, OrderAt, Active
  <2>2. \A st : Path(st)' = Path(st)
    BY <2>1 DEF Path
  <2>3. (CallDue => CallDue') /\ (Following => Following') /\ (Untouched => Untouched')
    BY <2>1, <2>2 DEF CallDue, Following, Untouched
  <2>. QED  BY <2>1, <2>3 DEF Reported
<1>. QED  BY <1>3, <1>4, <1>5, <1>6, <1>7, <1>8 DEF ParityNext

\* Before the first call nothing was reported.
LEMMA ReportedInit == ParityInit => Reported
<1>. SUFFICES ASSUME ParityInit  PROVE Reported
  OBVIOUS
<1>1. /\ asked = NoCall /\ reports = <<>> /\ legacyReports = <<>>
      /\ \A s \in Slots : ~ Active(s)
  BY DEF ParityInit, Init, Active
<1>2. Here = There
  <2>1. Resting = {}
    BY <1>1 DEF Resting
  <2>2. /\ Legacy!Resting = {} /\ legacyIncoming = NoOrder /\ legacyCounter = 0
    BY ParityInitInv DEF Legacy!Book!Init
  <2>3. incoming = NoOrder /\ counter = 0
    BY DEF ParityInit, Init
  <2>. QED  BY <2>1, <2>2, <2>3 DEF Here, There
<1>3. \E S : reports \in Seq(S) /\ legacyReports \in Seq(S)
  <2>1. reports \in Seq({}) /\ legacyReports \in Seq({})
    BY <1>1
  <2>. QED  BY <2>1
<1>. QED  BY <1>1, <1>2, <1>3 DEF Reported, Untouched

\* The steps of OrderBook are those of its own specification.
LEMMA SameCalls == ParitySpec => Spec
<1>1. [ParityNext]_parityVars /\ ParityInv => [Next]_vars
  BY EngineStep DEF ParityInv, CallsInv, parityVars
<1>2. ParityInit => Init
  BY DEF ParityInit
<1>. QED  BY <1>1, <1>2, ParityInitInv, ParityStep, PTL DEF ParitySpec, Spec

\* Until the owner of a freed slot 0 cancels id 0, on which the engines differ,
\* they report the same trades, rejections and cancelled orders of the same
\* calls, in the same order, and the same orders rest in both: for any prices,
\* users and quantities and any number of calls.
THEOREM EnginesReportAlike == ParitySpec => []ReportsAgree
<1>1. ParityInv /\ [ParityNext]_parityVars => ParityInv'
  BY ParityStep
<1>2. /\ ParityInv /\ ParityInv'
      /\ zeroCancelled => zeroCancelled'
      /\ zeroCancelled \/ Reported
      /\ [ParityNext]_parityVars
      => (zeroCancelled \/ Reported)'
  BY ReportedStep DEF ParityInv
<1>3. zeroCancelled \/ Reported => ReportsAgree
  <2>. SUFFICES ASSUME Reported, Idle
                PROVE  /\ legacyReports = reports
                       /\ Legacy!Resting = {OrderAt(s) : s \in {t \in Slots : Active(t)}}
    BY DEF ReportsAgree, SameReports, SameOrders
  <2>1. Here = There /\ legacyReports = reports
    BY BothIdle
  <2>2. Here.book = Resting /\ There.book = Legacy!Resting
    BY DEF Here, There
  <2>. QED  BY <2>1, <2>2 DEF Resting
<1>4. ParityInit => ParityInv /\ Reported
  BY ParityInitInv, ReportedInit
<1>5. [Next]_vars => (zeroCancelled => zeroCancelled')
  BY ZeroStays DEF vars
<1>. QED  BY <1>1, <1>2, <1>3, <1>4, <1>5, SameCalls, PTL DEF ParitySpec, Spec

-----------------------------------------------------------------------------
(* What holds of LimitBook holds of OrderBookLegacy.                       *)

LegacyFacts == INSTANCE LimitBookProofs WITH book <- Legacy!Resting, Capacity <- -1,
    counter <- legacyCounter, incoming <- legacyIncoming, out <- legacyOut

\* LimitBook's assumption holds of the engine's constants.
LEMMA LegacyAssumption == LegacyFacts!LimitBookAssumption
BY OrderBookAssumption, BitmapAssumption
   DEF Orders, LegacyFacts!Orders, Sides, LegacyFacts!Sides, Price, Quantity,
       LegacyFacts!Unbounded

\* The two instances of LimitBook are the same book.
LEMMA SameLegacyStep ==
    /\ Legacy!Book!Init => LegacyFacts!Init
    /\ [Legacy!Book!Next]_(Legacy!Book!vars) => [LegacyFacts!Next]_(LegacyFacts!vars)
    /\ LegacyFacts!NotCrossed => Legacy!Book!NotCrossed
<1>1. Legacy!Book!Init => LegacyFacts!Init
  BY DEF Legacy!Book!Init, LegacyFacts!Init, Legacy!Book!Nothing, LegacyFacts!Nothing
<1>0. \A p : Legacy!Book!Accepts(p, -1) <=> LegacyFacts!Accepts(p, -1)
  BY DEF Legacy!Book!Accepts, LegacyFacts!Accepts, Legacy!Book!Unbounded,
         LegacyFacts!Unbounded
<1>2. [Legacy!Book!Next]_(Legacy!Book!vars) => [LegacyFacts!Next]_(LegacyFacts!vars)
  BY <1>0
     DEF Legacy!Book!Next, LegacyFacts!Next, Legacy!Book!vars, LegacyFacts!vars,
         Legacy!Book!NextWithin, LegacyFacts!NextWithin,
         Legacy!Book!Sides, LegacyFacts!Sides, Legacy!Book!Nothing,
         LegacyFacts!Nothing, Legacy!Book!Submit, LegacyFacts!Submit,
         Legacy!Book!Refuse, LegacyFacts!Refuse, Legacy!Book!Refused,
         LegacyFacts!Refused, Legacy!Book!Match, LegacyFacts!Match, Legacy!Book!Meets,
         LegacyFacts!Meets, Legacy!Book!IsFirst, LegacyFacts!IsFirst,
         Legacy!Book!Resting, LegacyFacts!Resting, Legacy!Book!Ahead,
         LegacyFacts!Ahead, Legacy!Book!BetterPrice, LegacyFacts!BetterPrice,
         Legacy!Book!Crosses, LegacyFacts!Crosses, Legacy!Book!Opposite,
         LegacyFacts!Opposite, Legacy!Book!Trade, LegacyFacts!Trade,
         Legacy!Book!Smaller, LegacyFacts!Smaller, Legacy!Book!SelfTradeStop,
         LegacyFacts!SelfTradeStop, Legacy!Book!Rejected, LegacyFacts!Rejected,
         Legacy!Book!Cancel, LegacyFacts!Cancel, Legacy!Book!Cancelled,
         LegacyFacts!Cancelled, Legacy!Book!CancelMiss, LegacyFacts!CancelMiss,
         Legacy!Book!NotCancelled, LegacyFacts!NotCancelled, Legacy!Book!Rest,
         LegacyFacts!Rest, Legacy!Book!Finish, LegacyFacts!Finish
<1>3. LegacyFacts!NotCrossed => Legacy!Book!NotCrossed
  BY DEF LegacyFacts!NotCrossed, Legacy!Book!NotCrossed, Legacy!Book!Resting, LegacyFacts!Resting
<1>. QED  BY <1>1, <1>2, <1>3

\* No buy order rests in OrderBookLegacy at or above the price of a resting
\* sell order, although match_* stops at an order of the same user.
THEOREM LegacyNotCrossed == ParitySpec => []Legacy!Book!NotCrossed
<1>1. LegacyFacts!Spec => []LegacyFacts!NotCrossed
  BY LegacyAssumption, LegacyFacts!NeverCrossed, PTL
<1>. QED  BY <1>1, SameLegacyStep, LegacyRefines, PTL
          DEF LegacyImplementsLimitBook, Legacy!ImplementsLimitBook, Legacy!Book!Spec,
              LegacyFacts!Spec

-----------------------------------------------------------------------------
(* The totals of the levels.                                               *)

Amounts == [o \in Orders |-> o.quantity]
RestingAt(side, p) == {o \in Legacy!Resting : o.side = side /\ o.price = p}

\* total_quantity of a level of OrderBookLegacy is that of its orders.
LegacyTotals ==
    \A side \in Sides : \A p \in DOMAIN levels[side] :
        levels[side][p].quantity = SumFunctionOnSet(Amounts, RestingAt(side, p)) % QtyMod

\* The orders that rest at a price are those of its level.
LEMMA RestingAtIs ==
    ASSUME LevelsOK, NEW side \in Sides, NEW p
    PROVE  /\ p \in DOMAIN levels[side] =>
                 \A o : o \in RestingAt(side, p) <=> In(o, levels[side][p].orders)
           /\ p \notin DOMAIN levels[side] => RestingAt(side, p) = {}
           /\ IsFiniteSet(RestingAt(side, p)) /\ RestingAt(side, p) \subseteq Orders
           /\ \A o \in RestingAt(side, p) : Amounts[o] = o.quantity /\ Amounts[o] \in Int
<1>1. p \in DOMAIN levels[side] =>
         \A o : o \in RestingAt(side, p) <=> In(o, levels[side][p].orders)
  BY RestingIs, InLevel DEF RestingAt, Found
<1>2. p \notin DOMAIN levels[side] => RestingAt(side, p) = {}
  BY RestingIs DEF RestingAt, Found
<1>3. RestingAt(side, p) \subseteq Orders
  BY RestingOrder DEF RestingAt
<1>4. \A o \in RestingAt(side, p) : Amounts[o] = o.quantity /\ Amounts[o] \in Int
  <2>1. \A o \in Orders : Amounts[o] = o.quantity /\ o.quantity \in Nat
    BY OrderFields DEF Amounts
  <2>. QED  BY <1>3, <2>1
<1>5. IsFiniteSet(RestingAt(side, p))
  <2>1. CASE p \notin DOMAIN levels[side]
    BY <1>2, <2>1, FS_EmptySet
  <2>2. CASE p \in DOMAIN levels[side]
    <3>1. PICK s : s = levels[side][p].orders
      OBVIOUS
    <3>2. PICK S : S = RestingAt(side, p)
      OBVIOUS
    <3>3. s \in Seq(Orders) /\ Len(s) \in Nat
      BY <2>2, <3>1, LenProperties DEF LevelsOK, Sorted
    <3>4. \A o : o \in S <=> \E i \in 1 .. Len(s) : s[i] = o
      BY <1>1, <2>2, <3>1, <3>2 DEF In
    <3>5. s \in Surjection(1 .. Len(s), S)
      <4>1. s \in [1 .. Len(s) -> S]
        BY <3>3, <3>4
      <4>. QED  BY <3>4, <4>1 DEF Surjection
    <3>6. IsFiniteSet(1 .. Len(s))
      BY <3>3, FS_Interval
    <3>. QED  BY <3>2, <3>5, <3>6, FS_Surjection
  <2>. QED  BY <2>1, <2>2
<1>. QED  BY <1>1, <1>2, <1>3, <1>4, <1>5

\* The total that a level gets.
LEMMA SetLevelTotal ==
    ASSUME NEW m, NEW p, NEW s, NEW q, s # <<>>
    PROVE  Legacy!SetLevel(m, p, s, q)[p].quantity = q % QtyMod
BY DEF Legacy!SetLevel, Legacy!Put

\* A level that changes has to get the total of the orders that it then has.
LEMMA TotalsKept ==
    ASSUME LevelsOK, LegacyTotals, NEW side \in Sides, NEW p \in Price,
           NEW s \in Seq(Orders), NEW q \in Int,
           DOMAIN levels' = Sides,
           levels'[side] = Legacy!SetLevel(levels[side], p, s, q),
           \A d \in Sides \ {side} : levels'[d] = levels[d],
           \A o : (o.side = side /\ o.price = p)
                     \/ (o \in Legacy!Resting' <=> o \in Legacy!Resting),
           s # <<>> => q % QtyMod = SumFunctionOnSet(Amounts, RestingAt(side, p)') % QtyMod
    PROVE  LegacyTotals'
<1>1. PICK n : n = Legacy!SetLevel(levels[side], p, s, q)
  OBVIOUS
<1>2. /\ p \in DOMAIN n <=> s # <<>>
      /\ \A k : k # p => (k \in DOMAIN n <=> k \in DOMAIN levels[side])
      /\ \A k \in DOMAIN levels[side] : k # p => n[k] = levels[side][k]
  <2>1. MapOK(levels[side])
    BY DEF LevelsOK
  <2>. QED  BY <1>1, <2>1, SetLevelIs
<1>3. levels'[side] = n
  BY <1>1
<1>4. ASSUME NEW d \in Sides, NEW k \in DOMAIN levels'[d], d = side, k = p
      PROVE  levels'[d][k].quantity = SumFunctionOnSet(Amounts, RestingAt(d, k)') % QtyMod
  <2>1. s # <<>>
    BY <1>2, <1>3, <1>4
  <2>2. n[p].quantity = q % QtyMod
    BY <1>1, <2>1, SetLevelTotal
  <2>. QED  BY <1>3, <1>4, <2>1, <2>2
<1>5. ASSUME NEW d \in Sides, NEW k \in DOMAIN levels'[d], d # side \/ k # p
      PROVE  levels'[d][k].quantity = SumFunctionOnSet(Amounts, RestingAt(d, k)') % QtyMod
  <2>1. k \in DOMAIN levels[d] /\ levels'[d][k] = levels[d][k]
    BY <1>2, <1>3, <1>5
  <2>2. RestingAt(d, k)' = RestingAt(d, k)
    BY <1>5 DEF RestingAt
  <2>. QED  BY <2>1, <2>2 DEF LegacyTotals
<1>. QED  BY <1>4, <1>5 DEF LegacyTotals

\* A trade takes its quantity off the total.
LEMMA SumTraded ==
    ASSUME NEW S, IsFiniteSet(S), S \subseteq Orders, NEW o \in S, NEW left \in Orders,
           left \notin S \ {o}, NEW q \in Nat, left.quantity = o.quantity - q,
           NEW T, T = (S \ {o}) \union (IF left.quantity = 0 THEN {} ELSE {left})
    PROVE  /\ SumFunctionOnSet(Amounts, S) \in Int
           /\ SumFunctionOnSet(Amounts, T) = SumFunctionOnSet(Amounts, S) - q
<1>1. \A x \in Orders : Amounts[x] = x.quantity /\ Amounts[x] \in Int
  BY OrderFields DEF Amounts
<1>2. PICK R : R = S \ {o}
  OBVIOUS
<1>3. IsFiniteSet(R) /\ R \subseteq Orders /\ left \notin R
  BY <1>2, FS_RemoveElement
<1>4. SumFunctionOnSet(Amounts, S) = Amounts[o] + SumFunctionOnSet(Amounts, R)
  <2>1. \A x \in S : Amounts[x] \in Int
    BY <1>1
  <2>. QED  BY <1>2, <2>1, SumRemove
<1>5. SumFunctionOnSet(Amounts, R) \in Int
  <2>1. \A x \in R : Amounts[x] \in Int
    BY <1>1, <1>3
  <2>. QED  BY <1>3, <2>1, SumInt
<1>6. SumFunctionOnSet(Amounts, R \union {left}) = SumFunctionOnSet(Amounts, R) + Amounts[left]
  <2>1. \A x \in R \union {left} : Amounts[x] \in Int
    BY <1>1, <1>3
  <2>. QED  BY <1>3, <2>1, SumAdd
<1>7. /\ Amounts[o] \in Int /\ Amounts[left] = Amounts[o] - q
      /\ left.quantity = Amounts[left]
  BY <1>1
<1>8. PICK a, b : a = SumFunctionOnSet(Amounts, R) /\ b = SumFunctionOnSet(Amounts, S)
  OBVIOUS
<1>9. a \in Int /\ b = Amounts[o] + a /\ b \in Int
  BY <1>4, <1>5, <1>7, <1>8
<1>10. CASE left.quantity = 0
  <2>1. T = R
    BY <1>2, <1>10
  <2>2. a = b - q
    BY <1>7, <1>9, <1>10
  <2>. QED  BY <1>8, <1>9, <2>1, <2>2
<1>11. CASE left.quantity # 0
  <2>1. T = R \union {left}
    BY <1>2, <1>11
  <2>2. a + Amounts[left] = b - q
    BY <1>7, <1>9
  <2>. QED  BY <1>6, <1>8, <1>9, <2>1, <2>2
<1>. QED  BY <1>10, <1>11

\* Only one order can be met.
LEMMA MeetsOnce ==
    ASSUME LevelsOK, NEW a \in Legacy!Resting, NEW b \in Legacy!Resting,
           Legacy!Book!Meets(a), Legacy!Book!Meets(b)
    PROVE  a = b
<1>1. a \in Orders /\ b \in Orders
  BY RestingOrder
<1>2. a.seq \in Nat /\ b.seq \in Nat /\ a.price \in Nat /\ b.price \in Nat
  BY <1>1, OrderFields, BitmapAssumption DEF Price
<1>3. a.side = b.side /\ (a # b => Legacy!Book!Ahead(a, b) /\ Legacy!Book!Ahead(b, a))
  BY DEF Legacy!Book!Meets, Legacy!Book!IsFirst, Legacy!Book!Resting
<1>. QED  BY <1>2, <1>3 DEF Legacy!Book!Ahead, Legacy!Book!BetterPrice

\* A level's total after an amount is taken off it or added to it.
LEMMA TotalMoved ==
    ASSUME NEW total \in Int, NEW sum \in Int, total = sum % QtyMod, NEW q \in Int
    PROVE  (total + q) % QtyMod = (sum + q) % QtyMod
BY ModAdd, OrderBookAssumption

\* A trade.
LEMMA TotalsFill ==
    ASSUME LegacyInv, LegacyTotals, Legacy!Fill
    PROVE  LegacyTotals'
<1>1. PICK o \in Legacy!Resting : Legacy!Book!Match(o)
  BY LegacyFill
<1>2. PICK side : side = Opposite(legacyIncoming.side)
  OBVIOUS
<1>3. PICK best : best = Legacy!Best(side)
  OBVIOUS
<1>4. PICK s : s = levels[side][best].orders
  OBVIOUS
<1>5. legacyIncoming # NoOrder /\ Legacy!Crossing /\ side = Legacy!Opposite(legacyIncoming.side)
  BY <1>2 DEF Legacy!Fill, Opposite, Legacy!Opposite
<1>6. /\ side \in Sides /\ best \in DOMAIN levels[side] /\ best \in Price
      /\ Sorted(side, best, s) /\ s # <<>> /\ Head(s) \in Legacy!Resting
      /\ Head(s).side = side /\ Head(s).price = best /\ Legacy!Book!Meets(Head(s))
  BY <1>2, <1>3, <1>4, <1>5, CrossingIs
<1>7. o = Head(s)
  BY <1>1, <1>6, MeetsOnce DEF LegacyInv, Legacy!Book!Match
<1>8. PICK q : q = Legacy!Smaller(legacyIncoming.quantity, o.quantity)
  OBVIOUS
<1>9. PICK left : left = [o EXCEPT !.quantity = @ - q]
  OBVIOUS
<1>10. PICK rest : rest = (IF o.quantity = q THEN <<>> ELSE <<left>>) \o Tail(s)
  OBVIOUS
<1>11. levels' = [levels EXCEPT ![side] =
                     Legacy!SetLevel(@, best, rest, levels[side][best].quantity - q)]
  BY <1>3, <1>4, <1>5, <1>7, <1>8, <1>9, <1>10 DEF Legacy!Fill
<1>12. o \in Orders /\ o.quantity > 0
       /\ legacyIncoming \in Orders /\ legacyIncoming.quantity > 0
  BY <1>5, RestingOrder DEF LegacyInv, Youngest, Legacy!Crossing
<1>13. /\ q \in Nat /\ left \in Orders
       /\ q = Legacy!Book!Smaller(legacyIncoming.quantity, o.quantity)
  BY <1>8, <1>9, <1>12, LegacyFilled
<1>14. /\ left.seq = o.seq /\ left.side = o.side /\ left.price = o.price
       /\ left.quantity = o.quantity - q
  BY <1>9, <1>12 DEF Orders
<1>15. Legacy!Resting' = (Legacy!Resting \ {o})
                            \union (IF left.quantity = 0 THEN {} ELSE {left})
  BY <1>1, <1>9, <1>13 DEF Legacy!Book!Match
<1>16. PICK S, T : S = RestingAt(side, best) /\ T = RestingAt(side, best)'
  OBVIOUS
<1>17. o \in S /\ IsFiniteSet(S) /\ S \subseteq Orders
  <2>1. o \in S
    BY <1>6, <1>7, <1>16 DEF RestingAt
  <2>. QED  BY <1>6, <1>16, <2>1, RestingAtIs DEF LegacyInv
<1>18. left \notin S \ {o}
  <2>1. \A x \in S : x.seq = o.seq => x = o
    BY <1>16, LegacyUnique DEF LegacyInv, RestingAt
  <2>. QED  BY <1>14, <2>1
<1>19. T = (S \ {o}) \union (IF left.quantity = 0 THEN {} ELSE {left})
  BY <1>6, <1>7, <1>14, <1>15, <1>16 DEF RestingAt
<1>20. /\ SumFunctionOnSet(Amounts, S) \in Int
       /\ SumFunctionOnSet(Amounts, T) = SumFunctionOnSet(Amounts, S) - q
  BY <1>13, <1>14, <1>17, <1>18, <1>19, SumTraded
<1>21. PICK total : total = levels[side][best].quantity
  OBVIOUS
<1>22. total \in Int /\ total = SumFunctionOnSet(Amounts, S) % QtyMod
  <2>1. levels[side][best] \in LevelSet
    BY <1>6 DEF LegacyInv, LevelsOK, MapOK
  <2>. QED  BY <1>6, <1>16, <1>21, <2>1 DEF LevelSet, LegacyTotals
<1>23. (total - q) % QtyMod = SumFunctionOnSet(Amounts, T) % QtyMod
  <2>1. PICK sum : sum = SumFunctionOnSet(Amounts, S)
    OBVIOUS
  <2>2. -q \in Int /\ total + (-q) = total - q /\ sum + (-q) = sum - q /\ sum \in Int
    BY <1>13, <1>20, <1>22, <2>1
  <2>3. (total + (-q)) % QtyMod = (sum + (-q)) % QtyMod
    BY <1>22, <2>1, <2>2, TotalMoved
  <2>. QED  BY <1>20, <2>1, <2>2, <2>3
<1>24. rest \in Seq(Orders)
  <2>1. Tail(s) \in Seq(Orders)
    BY <1>6, SortedTail DEF Sorted
  <2>2. <<>> \in Seq(Orders) /\ <<left>> \in Seq(Orders)
    BY <1>13
  <2>. QED  BY <1>10, <2>1, <2>2, ConcatProperties
<1>25. \A x : (x.side = side /\ x.price = best) \/ (x \in Legacy!Resting' <=> x \in Legacy!Resting)
  BY <1>6, <1>7, <1>14, <1>15
<1>26. /\ DOMAIN levels' = Sides
       /\ levels'[side] = Legacy!SetLevel(levels[side], best, rest, total - q)
       /\ \A d \in Sides \ {side} : levels'[d] = levels[d]
  BY <1>6, <1>11, <1>21 DEF LegacyInv, LevelsOK
<1>27. total - q \in Int
  BY <1>13, <1>22
<1>28. rest # <<>> => (total - q) % QtyMod
                         = SumFunctionOnSet(Amounts, RestingAt(side, best)') % QtyMod
  BY <1>16, <1>23
<1>. QED  BY <1>6, <1>24, <1>25, <1>26, <1>27, <1>28, TotalsKept DEF LegacyInv

\* An order that rests adds to the total.
LEMMA TotalsRest ==
    ASSUME LegacyInv, LegacyTotals, Legacy!Rest
    PROVE  LegacyTotals'
<1>1. PICK t : t = legacyIncoming
  OBVIOUS
<1>2. PICK level : level = Legacy!LevelAt(t.side, t.price)
  OBVIOUS
<1>3. PICK s : s = Append(level.orders, t)
  OBVIOUS
<1>4. /\ t # NoOrder
      /\ levels' = [levels EXCEPT ![t.side] =
                       Legacy!SetLevel(@, t.price, s, level.quantity + t.quantity)]
  BY <1>1, <1>2, <1>3 DEF Legacy!Rest
<1>5. /\ t \in Orders /\ t \notin Legacy!Resting
      /\ t.side \in Sides /\ t.price \in Price /\ t.quantity \in Nat
  <2>1. t \in Orders /\ \A x \in Legacy!Resting : x.seq < t.seq
    BY <1>1, <1>4 DEF LegacyInv, Youngest
  <2>2. t.seq \in Nat /\ t.side \in Sides /\ t.price \in Price /\ t.quantity \in Nat
    BY <2>1, OrderFields
  <2>. QED  BY <2>1, <2>2
<1>6. Legacy!Resting' = Legacy!Resting \union {t}
  BY <1>1, LegacyRest DEF Legacy!Book!Rest
<1>7. PICK S, T : S = RestingAt(t.side, t.price) /\ T = RestingAt(t.side, t.price)'
  OBVIOUS
<1>8. T = S \union {t} /\ t \notin S
  BY <1>5, <1>6, <1>7 DEF RestingAt
<1>9. /\ IsFiniteSet(S) /\ S \subseteq Orders
      /\ \A o \in S : Amounts[o] \in Int
  BY <1>5, <1>7, RestingAtIs DEF LegacyInv
<1>10. Amounts[t] = t.quantity /\ Amounts[t] \in Int
  BY <1>5 DEF Amounts
<1>11. SumFunctionOnSet(Amounts, S) \in Int
  BY <1>9, SumInt
<1>12. SumFunctionOnSet(Amounts, T) = SumFunctionOnSet(Amounts, S) + t.quantity
  <2>1. \A x \in S \union {t} : Amounts[x] \in Int
    BY <1>9, <1>10
  <2>. QED  BY <1>8, <1>9, <1>10, <2>1, SumAdd
<1>13. /\ level.quantity \in Int /\ level.orders \in Seq(Orders)
       /\ level.quantity = SumFunctionOnSet(Amounts, S) % QtyMod
  <2>1. CASE t.price \in DOMAIN levels[t.side]
    <3>1. level = levels[t.side][t.price]
      BY <1>2, <2>1 DEF Legacy!LevelAt
    <3>2. level \in LevelSet
      BY <1>5, <2>1, <3>1 DEF LegacyInv, LevelsOK, MapOK
    <3>. QED  BY <1>5, <1>7, <2>1, <3>1, <3>2 DEF LevelSet, LegacyTotals
  <2>2. CASE t.price \notin DOMAIN levels[t.side]
    <3>1. level.orders = <<>> /\ level.quantity = 0
      BY <1>2, <2>2 DEF Legacy!LevelAt
    <3>2. S = {}
      BY <1>5, <1>7, <2>2, RestingAtIs DEF LegacyInv
    <3>3. SumFunctionOnSet(Amounts, S) = 0
      BY <3>2, SumEmpty
    <3>4. 0 % QtyMod = 0
      BY OrderBookAssumption
    <3>. QED  BY <3>1, <3>3, <3>4
  <2>. QED  BY <2>1, <2>2
<1>14. PICK q : q = level.quantity + t.quantity
  OBVIOUS
<1>15. q \in Int /\ q % QtyMod = SumFunctionOnSet(Amounts, T) % QtyMod
  <2>1. PICK sum : sum = SumFunctionOnSet(Amounts, S)
    OBVIOUS
  <2>2. sum \in Int /\ level.quantity \in Int /\ t.quantity \in Int
    BY <1>10, <1>11, <1>13, <2>1
  <2>3. level.quantity = sum % QtyMod
    BY <1>13, <2>1
  <2>4. (level.quantity + t.quantity) % QtyMod = (sum + t.quantity) % QtyMod
    BY <2>2, <2>3, TotalMoved
  <2>. QED  BY <1>10, <1>12, <1>13, <1>14, <2>1, <2>4
<1>16. s \in Seq(Orders)
  BY <1>3, <1>5, <1>13, AppendProperties
<1>17. \A x : (x.side = t.side /\ x.price = t.price)
                 \/ (x \in Legacy!Resting' <=> x \in Legacy!Resting)
  BY <1>6
<1>18. /\ DOMAIN levels' = Sides
       /\ levels'[t.side] = Legacy!SetLevel(levels[t.side], t.price, s, q)
       /\ \A d \in Sides \ {t.side} : levels'[d] = levels[d]
  BY <1>4, <1>5, <1>14 DEF LegacyInv, LevelsOK
<1>. QED  BY <1>5, <1>7, <1>15, <1>16, <1>17, <1>18, TotalsKept DEF LegacyInv

\* A cancelled order takes its quantity with it.
LEMMA TotalsCancel ==
    ASSUME LegacyInv, LegacyTotals, NEW n, NEW u, Legacy!Cancel(n, u)
    PROVE  LegacyTotals'
<1>1. PICK o \in Legacy!Resting : o.seq = n
  <2>1. n \in DOMAIN locations
    BY DEF Legacy!Cancel, Legacy!Cancellable
  <2>. QED  BY <2>1, NodeIs
<1>2. PICK s : s = levels[o.side][o.price].orders
  OBVIOUS
<1>3. PICK k : k = Legacy!NodeAt(n)
  OBVIOUS
<1>4. /\ locations[n].side = o.side /\ locations[n].price = o.price
      /\ o.side \in Sides /\ o.price \in DOMAIN levels[o.side]
      /\ k \in 1 .. Len(s) /\ Legacy!OrderAt(n) = o /\ s[k] = o
  BY <1>1, <1>2, <1>3, NodeIs
<1>5. PICK rest : rest = Legacy!RemoveAt(s, k)
  OBVIOUS
<1>6. PICK total : total = levels[o.side][o.price].quantity
  OBVIOUS
<1>7. levels' = [levels EXCEPT ![o.side] =
                    Legacy!SetLevel(@, o.price, rest, total - o.quantity)]
  BY <1>2, <1>3, <1>4, <1>5, <1>6 DEF Legacy!Cancel
<1>8. rest \in Seq(Orders)
  <2>1. Sorted(o.side, o.price, s)
    BY <1>2, <1>4 DEF LegacyInv, LevelsOK
  <2>2. rest = RemoveAt(s, k)
    BY <1>5 DEF Legacy!RemoveAt, RemoveAt
  <2>3. Sorted(o.side, o.price, rest)
    BY <1>4, <2>1, <2>2, SortedRemove
  <2>. QED  BY <2>3 DEF Sorted
<1>9. PICK x \in Legacy!Resting : Legacy!Book!Cancel(x)
  BY LegacyCancel
<1>10. x = o
  <2>1. legacyOut' = Legacy!Book!Cancelled(x)
    BY <1>9 DEF Legacy!Book!Cancel
  <2>2. legacyOut' = Legacy!Cancelled(o)
    BY <1>4 DEF Legacy!Cancel
  <2>. QED  BY <2>1, <2>2 DEF Legacy!Cancelled, Legacy!Book!Cancelled
<1>11. Legacy!Resting' = Legacy!Resting \ {o}
  BY <1>9, <1>10 DEF Legacy!Book!Cancel
<1>12. PICK S, T : S = RestingAt(o.side, o.price) /\ T = RestingAt(o.side, o.price)'
  OBVIOUS
<1>13. o \in S /\ T = S \ {o}
  BY <1>11, <1>12 DEF RestingAt
<1>14. /\ IsFiniteSet(S)
       /\ \A y \in S : Amounts[y] = y.quantity /\ Amounts[y] \in Int
  BY <1>4, <1>12, RestingAtIs DEF LegacyInv
<1>15. SumFunctionOnSet(Amounts, S) = o.quantity + SumFunctionOnSet(Amounts, T)
  BY <1>13, <1>14, SumRemove
<1>16. SumFunctionOnSet(Amounts, S) \in Int /\ SumFunctionOnSet(Amounts, T) \in Int
  <2>1. IsFiniteSet(T) /\ \A y \in T : Amounts[y] \in Int
    BY <1>13, <1>14, FS_RemoveElement
  <2>. QED  BY <1>14, <2>1, SumInt
<1>17. o.quantity \in Int /\ o.price \in Price
  BY RestingOrder, OrderFields DEF LegacyInv
<1>18. total \in Int /\ total = SumFunctionOnSet(Amounts, S) % QtyMod
  <2>1. levels[o.side][o.price] \in LevelSet
    BY <1>4 DEF LegacyInv, LevelsOK, MapOK
  <2>. QED  BY <1>4, <1>6, <1>12, <2>1 DEF LevelSet, LegacyTotals
<1>19. PICK q : q = total - o.quantity
  OBVIOUS
<1>20. q \in Int /\ q % QtyMod = SumFunctionOnSet(Amounts, T) % QtyMod
  <2>1. PICK a, b : a = SumFunctionOnSet(Amounts, S) /\ b = SumFunctionOnSet(Amounts, T)
    OBVIOUS
  <2>2. PICK d : d = -o.quantity
    OBVIOUS
  <2>3. d \in Int /\ q = total + d /\ b = a + d /\ a \in Int /\ q \in Int
    BY <1>15, <1>16, <1>17, <1>18, <1>19, <2>1, <2>2
  <2>4. (total + d) % QtyMod = (a + d) % QtyMod
    BY <1>18, <2>1, <2>3, TotalMoved
  <2>. QED  BY <2>1, <2>3, <2>4
<1>21. \A y : (y.side = o.side /\ y.price = o.price)
                 \/ (y \in Legacy!Resting' <=> y \in Legacy!Resting)
  BY <1>11
<1>22. /\ DOMAIN levels' = Sides
       /\ levels'[o.side] = Legacy!SetLevel(levels[o.side], o.price, rest, q)
       /\ \A d \in Sides \ {o.side} : levels'[d] = levels[d]
  BY <1>4, <1>7, <1>19 DEF LegacyInv, LevelsOK
<1>. QED  BY <1>4, <1>8, <1>12, <1>17, <1>20, <1>21, <1>22, TotalsKept DEF LegacyInv

\* No other step changes a level.
LEMMA TotalsStep ==
    ASSUME LegacyInv, LegacyTotals, [ParityNext]_parityVars
    PROVE  LegacyTotals'
<1>1. CASE levels' = levels
  <2>1. Legacy!Resting' = Legacy!Resting
    BY <1>1 DEF Legacy!Resting
  <2>. QED  BY <1>1, <2>1 DEF LegacyTotals, RestingAt
<1>2. CASE LegacyCall
  <2>1. CASE \E n, u : Legacy!Cancel(n, u)
    BY <2>1, TotalsCancel
  <2>2. CASE levels' = levels
    BY <1>1, <2>2
  <2>. QED  BY <1>2, <2>1, <2>2
            DEF LegacyCall, Legacy!Submit, Legacy!Refuse, Legacy!CancelMiss
<1>3. CASE LegacyProceed
  BY <1>1, <1>3, TotalsFill, TotalsRest
     DEF LegacyProceed, Legacy!SelfTradeStop, Legacy!Finish
<1>4. CASE ParityNext /\ ~ LegacyCall /\ ~ LegacyProceed
  <2>1. UNCHANGED legacyVars \/ levels' = levels
    BY <1>4 DEF ParityNext, CallOrder, CallCancel, Proceed, legacyVars
  <2>. QED  BY <1>1, <2>1 DEF legacyVars
<1>. QED  BY <1>1, <1>2, <1>3, <1>4 DEF parityVars, legacyVars

\* The total of every level of OrderBookLegacy is that of its orders.
THEOREM LegacyTotalsExact == ParitySpec => []LegacyTotals
<1>1. ParityInit => ParityInv /\ LegacyTotals
  <2>. SUFFICES ASSUME ParityInit  PROVE ParityInv /\ LegacyTotals
    OBVIOUS
  <2>1. levels = [side \in Legacy!Sides |-> <<>>]
    BY DEF ParityInit, Legacy!Init
  <2>2. \A side \in Sides : DOMAIN levels[side] = {}
    BY <2>1 DEF Legacy!Sides, Sides
  <2>. QED  BY <2>2, ParityInitInv DEF LegacyTotals
<1>2. ParityInv /\ LegacyTotals /\ [ParityNext]_parityVars => ParityInv' /\ LegacyTotals'
  BY ParityStep, TotalsStep DEF ParityInv, CallsInv
<1>. QED  BY <1>1, <1>2, PTL DEF ParitySpec

-----------------------------------------------------------------------------
(* The snapshots of the two engines, when the same orders rest in both.    *)

\* At each price the same orders rest.
LEMMA SameAt ==
    ASSUME Legacy!Resting = Resting, NEW side \in Sides
    PROVE  /\ OrdersOf(side) = {o \in Legacy!Resting : o.side = side}
           /\ \A p : RestingAt(side, p) = {OrderAt(s) : s \in At(side, p)}
           /\ \A s : s \in SlotsOf(side) => OrderAt(s) \in OrdersOf(side)
<1>1. \A s : /\ OrderAt(s).side = nodes[s].side /\ OrderAt(s).price = nodes[s].price
             /\ OrderAt(s).seq = nodes[s].seq /\ OrderAt(s).quantity = nodes[s].quantity
  BY DEF OrderAt
<1>2. Resting = {OrderAt(s) : s \in {t \in Slots : Active(t)}}
  BY DEF Resting
<1>3. OrdersOf(side) = {o \in Legacy!Resting : o.side = side}
  BY <1>1, <1>2 DEF OrdersOf
<1>4. ASSUME NEW p  PROVE RestingAt(side, p) = {OrderAt(s) : s \in At(side, p)}
  BY <1>1, <1>2 DEF RestingAt, At
<1>5. \A s : s \in SlotsOf(side) => OrderAt(s) \in OrdersOf(side)
  BY DEF SlotsOf, OrdersOf
<1>. QED  BY <1>3, <1>4, <1>5

\* The levels of OrderBookLegacy are the prices with orders.
LEMMA SamePrices ==
    ASSUME LegacyInv, Legacy!Resting = Resting, NEW side \in Sides
    PROVE  DOMAIN levels[side] = PricesWith(side)
<1>1. DOMAIN levels[side] \subseteq Price
  BY DEF LegacyInv, LevelsOK, MapOK
<1>2. ASSUME NEW p \in DOMAIN levels[side]  PROVE At(side, p) # {}
  <2>1. Sorted(side, p, levels[side][p].orders) /\ levels[side][p].orders # <<>>
    BY DEF LegacyInv, LevelsOK, MapOK
  <2>2. In(Head(levels[side][p].orders), levels[side][p].orders)
    BY <2>1, SortedHead
  <2>3. Head(levels[side][p].orders) \in RestingAt(side, p)
    BY <2>2, RestingAtIs DEF LegacyInv
  <2>4. RestingAt(side, p) = {OrderAt(s) : s \in At(side, p)}
    BY SameAt
  <2>. QED  BY <2>3, <2>4
<1>3. ASSUME NEW p, At(side, p) # {}  PROVE p \in DOMAIN levels[side]
  <2>1. RestingAt(side, p) # {}
    BY <1>3, SameAt
  <2>. QED  BY <2>1, RestingAtIs DEF LegacyInv
<1>. QED  BY <1>1, <1>2, <1>3 DEF PricesWith

\* An iterator meets them in the order of the scan of the bitmap.
LEMMA SameScan ==
    ASSUME BookInv, LegacyInv, Legacy!Resting = Resting, NEW side \in Sides
    PROVE  Legacy!PricesOf(side) = PricesFound(side)
<1>1. PICK P : P = PricesWith(side)
  OBVIOUS
<1>2. PICK R : R = PriceRel(side)
  OBVIOUS
<1>3. PICK s, t : s = PricesFound(side) /\ t = Legacy!PricesOf(side)
  OBVIOUS
<1>4. P \subseteq Int /\ IsFiniteSet(P)
  <2>1. Price \subseteq Int /\ IsFiniteSet(Price)
    BY BitmapAssumption, FS_Interval DEF Price
  <2>. QED  BY <1>1, <2>1, FS_Subset DEF PricesWith
<1>5. OneWay(P, R)
  BY <1>2, <1>4, PriceLinear DEF Linear
<1>6. Listed(s, P, R)
  BY <1>1, <1>2, <1>3, PricesScanned
<1>7. PICK n : n = Cardinality(P)
  OBVIOUS
<1>8. Len(s) = n /\ s \in [1 .. n -> P]
  BY <1>4, <1>5, <1>6, <1>7, ListedLen
<1>9. \A p, q \in P : <<p, q>> \in R <=> Legacy!Better(side, p, q)
  BY <1>2, <1>4 DEF PriceRel, Legacy!Better
<1>10. \A i, j \in DOMAIN s : i < j => Legacy!Better(side, s[i], s[j])
  <2>1. \A i, j \in DOMAIN s : i < j => <<s[i], s[j]>> \in R
    BY <1>6, <1>8 DEF Listed
  <2>. QED  BY <1>8, <1>9, <2>1
<1>11. DOMAIN levels[side] = P
  BY <1>1, SamePrices
<1>12. /\ t \in [1 .. n -> P]
       /\ \A i, j \in DOMAIN t : i < j => Legacy!Better(side, t[i], t[j])
  <2>1. \E seq \in [1 .. Cardinality(DOMAIN levels[side]) -> DOMAIN levels[side]] :
           \A i, j \in DOMAIN seq : i < j => Legacy!Better(side, seq[i], seq[j])
    BY <1>7, <1>8, <1>10, <1>11
  <2>2. /\ t \in [1 .. Cardinality(DOMAIN levels[side]) -> DOMAIN levels[side]]
        /\ \A i, j \in DOMAIN t : i < j => Legacy!Better(side, t[i], t[j])
    <3>0. Legacy!Cardinality(DOMAIN levels[side]) = Cardinality(DOMAIN levels[side])
      BY DEF Legacy!Cardinality, Cardinality
    <3>1. t = CHOOSE seq \in [1 .. Legacy!Cardinality(DOMAIN levels[side])
                                      -> DOMAIN levels[side]] :
                \A i, j \in DOMAIN seq : i < j => Legacy!Better(side, seq[i], seq[j])
      BY <1>3 DEF Legacy!PricesOf
    <3>. QED  BY <2>1, <3>0, <3>1
  <2>. QED  BY <1>7, <1>11, <2>2
<1>13. \A i, j \in DOMAIN t : i < j => <<t[i], t[j]>> \in R
  <2>1. \A i \in DOMAIN t : t[i] \in P
    BY <1>12
  <2>. QED  BY <1>9, <1>12, <2>1
<1>14. Listed(t, P, R)
  BY <1>4, <1>5, <1>7, <1>12, <1>13, InOrderListed
<1>. QED  BY <1>3, <1>5, <1>6, <1>14, ListedOnce

\* Which of two orders of a side is ahead.
LEMMA AheadIs ==
    ASSUME BookInv, NEW side \in Sides
    PROVE  /\ OneWay(OrdersOf(side), AheadRel(side))
           /\ \A x, y \in OrdersOf(side) :
                 /\ x.side = side /\ x.price \in Nat /\ x.seq \in Nat
                 /\ <<x, y>> \in AheadRel(side)
                      <=> \/ IF side = "buy" THEN x.price > y.price ELSE x.price < y.price
                          \/ x.price = y.price /\ x.seq < y.seq
<1>1. ASSUME NEW x \in OrdersOf(side)
      PROVE  x.side = side /\ x.price \in Nat /\ x.seq \in Nat
  <2>1. PICK s \in SlotsOf(side) : x = OrderAt(s)
    BY SlotFacts
  <2>2. nodes[s].price \in Nat /\ nodes[s].seq \in Nat /\ nodes[s].side = side
    BY SlotFacts DEF SlotsOf
  <2>. QED  BY <2>1, <2>2 DEF OrderAt
<1>2. \A x, y \in OrdersOf(side) :
         <<x, y>> \in AheadRel(side)
            <=> \/ IF side = "buy" THEN x.price > y.price ELSE x.price < y.price
                \/ x.price = y.price /\ x.seq < y.seq
  BY <1>1 DEF AheadRel, Book!Ahead, Book!BetterPrice
<1>3. OneWay(OrdersOf(side), AheadRel(side))
  <2>. SUFFICES ASSUME NEW x \in OrdersOf(side), NEW y \in OrdersOf(side),
                       <<x, y>> \in AheadRel(side), <<y, x>> \in AheadRel(side)
                PROVE  FALSE
    BY DEF OneWay
  <2>1. x.price \in Nat /\ x.seq \in Nat /\ y.price \in Nat /\ y.seq \in Nat
    BY <1>1
  <2>2. \/ IF side = "buy" THEN x.price > y.price ELSE x.price < y.price
        \/ x.price = y.price /\ x.seq < y.seq
    BY <1>2
  <2>3. \/ IF side = "buy" THEN y.price > x.price ELSE y.price < x.price
        \/ y.price = x.price /\ y.seq < x.seq
    BY <1>2
  <2>. QED  BY <2>1, <2>2, <2>3
<1>. QED  BY <1>1, <1>2, <1>3

\* The list of a level is the list of the pool's nodes at that price.
LEMMA SameList ==
    ASSUME BookInv, LegacyInv, Legacy!Resting = Resting, NEW side \in Sides,
           NEW p \in DOMAIN levels[side]
    PROVE  /\ Listed(levels[side][p].orders, RestingAt(side, p), AheadRel(side))
           /\ Len(levels[side][p].orders) = Cardinality(At(side, p))
<1>1. PICK s : s = levels[side][p].orders
  OBVIOUS
<1>2. PICK S, R : S = RestingAt(side, p) /\ R = AheadRel(side)
  OBVIOUS
<1>3. PICK A, c : A = At(side, p) /\ c = Chain(lists[side][p].head)
  OBVIOUS
<1>4. p \in Price /\ Sorted(side, p, s)
  BY <1>1 DEF LegacyInv, LevelsOK, MapOK
<1>5. S \subseteq OrdersOf(side) /\ \A x \in S : x.price = p
  BY <1>2, SameAt DEF RestingAt
<1>6. \A x, y \in S : x.seq < y.seq => <<x, y>> \in R
  BY <1>2, <1>5, AheadIs
<1>7. OneWay(S, R)
  BY <1>2, <1>5, AheadIs DEF OneWay
<1>8. \A x : x \in S <=> In(x, s)
  BY <1>1, <1>2, RestingAtIs DEF LegacyInv
<1>9. Listed(s, S, R)
  <2>1. s \in Seq(Orders) /\ Len(s) \in Nat
    BY <1>4, LenProperties DEF Sorted
  <2>2. \A i \in 1 .. Len(s) : s[i] \in S
    BY <1>8 DEF In
  <2>3. s \in Seq(S)
    BY <2>1, <2>2
  <2>4. \A i, j \in 1 .. Len(s) : i < j => <<s[i], s[j]>> \in R
    BY <1>4, <1>6, <2>2 DEF Sorted
  <2>. QED  BY <1>8, <2>3, <2>4 DEF Listed, In
<1>10. Listed(c, A, SeqRel)
  BY <1>3, <1>4, ChainListed DEF BookInv
<1>11. PICK g : g = [x \in A |-> OrderAt(x)]
  OBVIOUS
<1>12. S = Images(g, A)
  BY <1>2, <1>3, <1>11, SameAt DEF Images
<1>13. \A x, y \in A : <<x, y>> \in SeqRel => <<g[x], g[y]>> \in R
  <2>. SUFFICES ASSUME NEW x \in A, NEW y \in A, <<x, y>> \in SeqRel
                PROVE  <<g[x], g[y]>> \in R
    OBVIOUS
  <2>1. g[x] \in S /\ g[y] \in S
    BY <1>12 DEF Images
  <2>2. g[x].seq = nodes[x].seq /\ g[y].seq = nodes[y].seq
    BY <1>11 DEF OrderAt
  <2>3. nodes[x].seq < nodes[y].seq
    BY DEF SeqRel
  <2>. QED  BY <1>6, <2>1, <2>2, <2>3
<1>14. Listed(Through(g, c), S, R)
  BY <1>10, <1>12, <1>13, ListedMap
<1>15. s = Through(g, c)
  BY <1>7, <1>9, <1>14, ListedOnce
<1>16. Len(c) = Cardinality(A)
  <2>1. IsFiniteSet(A)
    BY <1>3, <1>4, FiniteLevels
  <2>2. OneWay(A, SeqRel)
    <3>1. \A x \in A : nodes[x].seq \in Nat
      BY <1>3, <1>4, Neighbours DEF BookInv
    <3>. QED  BY <3>1 DEF OneWay, SeqRel
  <2>. QED  BY <1>10, <2>1, <2>2, ListedLen
<1>17. Len(s) = Len(c)
  <2>1. Len(c) \in Nat
    <3>1. c \in Seq(A)
      BY <1>10 DEF Listed
    <3>. QED  BY <3>1
  <2>. QED  BY <1>15, <2>1 DEF Through
<1>. QED  BY <1>1, <1>2, <1>3, <1>9, <1>16, <1>17

\* The totals are those of the pool's lists.
LEMMA SameQuantity ==
    ASSUME BookInv, Totalled, LegacyInv, LegacyTotals, Legacy!Resting = Resting,
           NEW side \in Sides, NEW p \in DOMAIN levels[side]
    PROVE  levels[side][p].quantity = lists[side][p].quantity
<1>1. PICK A, S : A = At(side, p) /\ S = RestingAt(side, p)
  OBVIOUS
<1>2. p \in Price
  BY DEF LegacyInv, LevelsOK, MapOK
<1>3. IsFiniteSet(A) /\ A \subseteq Slots /\ \A s \in A : nodes[s].quantity \in Int
  <2>1. IsFiniteSet(A)
    BY <1>1, <1>2, FiniteLevels
  <2>3. A \subseteq Slots
    BY <1>1 DEF At
  <2>2. \A s \in Slots : nodes[s].quantity \in Int
    BY OrderBookAssumption DEF BookInv, TypeOK, Node, Quantity
  <2>. QED  BY <2>1, <2>2, <2>3
<1>4. IsFiniteSet(S) /\ \A o \in S : Amounts[o] = o.quantity /\ Amounts[o] \in Int
  BY <1>1, RestingAtIs DEF LegacyInv
<1>5. PICK b : b = [s \in A |-> OrderAt(s)]
  OBVIOUS
<1>6. b \in [A -> S] /\ \A z \in S : \E x \in A : z = b[x]
  BY <1>1, <1>5, SameAt
<1>7. \A x, y \in A : b[x] = b[y] => x = y
  <2>. SUFFICES ASSUME NEW x \in A, NEW y \in A, b[x] = b[y]  PROVE x = y
    OBVIOUS
  <2>1. nodes[x].price = nodes[y].price /\ nodes[x].seq = nodes[y].seq
    BY <1>5 DEF OrderAt
  <2>2. x \in SlotsOf(side) /\ y \in SlotsOf(side)
    BY <1>1 DEF At, SlotsOf
  <2>. QED  BY <2>1, <2>2, SlotFacts
<1>8. \A x \in A : Quantities[x] \in Int /\ Quantities[x] = Amounts[b[x]]
  BY <1>3, <1>4, <1>5, <1>6 DEF Quantities, OrderAt
<1>9. SumFunctionOnSet(Quantities, A) = SumFunctionOnSet(Amounts, S)
  BY <1>3, <1>4, <1>6, <1>7, <1>8, SumRename
<1>10. lists[side][p].quantity = SumFunctionOnSet(Quantities, A) % QtyMod
  BY <1>1, <1>2 DEF Totalled
<1>11. levels[side][p].quantity = SumFunctionOnSet(Amounts, S) % QtyMod
  BY <1>1 DEF LegacyTotals
<1>. QED  BY <1>9, <1>10, <1>11

\* Ranked lists the orders of the side, first come first.
LEMMA RankedListed ==
    ASSUME BookInv, NEW side \in Sides
    PROVE  Listed(Ranked(side), OrdersOf(side), AheadRel(side))
<1>1. PICK S, R, Q : S = SlotsOf(side) /\ R = SlotRel(side) /\ Q = AheadRel(side)
  OBVIOUS
<1>2. PICK t : Listed(t, S, R)
  <2>1. IsFiniteSet(S) /\ Linear(S, R)
    BY <1>1, SlotFacts, SlotsLinear
  <2>. QED  BY <2>1, ListedExists
<1>3. Ranked(side) = [k \in 1 .. Len(t) |-> OrderAt(t[k])]
  BY <1>1, <1>2, RankedIs
<1>4. PICK g : g = [s \in S |-> OrderAt(s)]
  OBVIOUS
<1>5. \A x, y \in S : <<x, y>> \in R => <<g[x], g[y]>> \in Q
  BY <1>1, <1>4, SlotFacts DEF SlotRel, AheadRel
<1>6. Listed(Through(g, t), Images(g, S), Q)
  BY <1>2, <1>5, ListedMap
<1>7. Images(g, S) = OrdersOf(side)
  BY <1>1, <1>4, SlotFacts DEF Images
<1>8. Through(g, t) = Ranked(side)
  <2>1. \A k \in 1 .. Len(t) : t[k] \in S
    <3>1. t \in Seq(S)
      BY <1>2 DEF Listed
    <3>. QED  BY <3>1
  <2>. QED  BY <1>3, <1>4, <2>1 DEF Through
<1>. QED  BY <1>1, <1>6, <1>7, <1>8

\* What the two engines' modules share.
LEMMA SameOperators ==
    /\ \A s, limit : Legacy!Prefix(s, limit) = Prefix(s, limit)
    /\ \A ls : Legacy!FlattenSeq(ls) = FlattenSeq(ls)
<1>1. \A s, limit : Legacy!Prefix(s, limit) = Prefix(s, limit)
  BY DEF Legacy!Prefix, Prefix, Legacy!Smaller, Smaller
<1>2. \A ls : Legacy!FlattenSeq(ls) = FlattenSeq(ls)
  BY DEF Legacy!FlattenSeq, FlattenSeq
<1>. QED  BY <1>1, <1>2

\* depth_of returns what bid_depth and ask_depth do.
LEMMA DepthSame ==
    ASSUME BookInv, Totalled, LegacyInv, LegacyTotals, Legacy!Resting = Resting,
           NEW side \in Sides, NEW limit \in Nat
    PROVE  Legacy!Depth(side, limit) = Depth(side, limit)
<1>0. PICK ps, n, m :
        /\ ps = PricesFound(side) /\ n = Len(ps) /\ m = Smaller(limit, n)
        /\ n \in Nat /\ m \in 0 .. n
        /\ \A k \in 1 .. n : ps[k] \in Price
        /\ Depth(side, limit) = [k \in 1 .. m |->
                                   [price    |-> ps[k],
                                    quantity |-> lists[side][ps[k]].quantity,
                                    orders   |-> lists[side][ps[k]].count]]
  BY DepthIs
<1>1. ps = PricesFound(side)
  BY <1>0
<1>2. n = Len(ps)
  BY <1>0
<1>3. m = Smaller(limit, n)
  BY <1>0
<1>4. /\ n \in Nat /\ m \in 0 .. n
      /\ \A k \in 1 .. n : ps[k] \in Price
      /\ Depth(side, limit) = [k \in 1 .. m |->
                                 [price    |-> ps[k],
                                  quantity |-> lists[side][ps[k]].quantity,
                                  orders   |-> lists[side][ps[k]].count]]
  BY <1>0
<1>5. Listed(ps, PricesWith(side), PriceRel(side)) /\ ps = Legacy!PricesOf(side)
  BY <1>1, PricesScanned, SameScan
<1>6. ps \in [1 .. n -> Price]
  <2>1. ps \in Seq(PricesWith(side))
    BY <1>5 DEF Listed
  <2>. QED  BY <1>2, <1>4, <2>1
<1>7. PICK pf : pf = Legacy!Prefix(ps, limit)
  OBVIOUS
<1>8. pf = [k \in 1 .. m |-> ps[k]]
  <2>1. Prefix(ps, limit) = [k \in 1 .. Smaller(limit, n) |-> ps[k]]
    BY <1>4, <1>6, PrefixPrices
  <2>. QED  BY <1>3, <1>7, <2>1, SameOperators
<1>9. Len(pf) = m /\ \A k \in 1 .. m : pf[k] = ps[k]
  BY <1>4, <1>8
<1>10. Legacy!Depth(side, limit) = [k \in 1 .. Len(pf) |->
                                      [price    |-> pf[k],
                                       quantity |-> levels[side][pf[k]].quantity,
                                       orders   |-> Len(levels[side][pf[k]].orders)]]
  BY <1>5, <1>7 DEF Legacy!Depth
<1>11. ASSUME NEW k \in 1 .. m
       PROVE  /\ levels[side][ps[k]].quantity = lists[side][ps[k]].quantity
              /\ Len(levels[side][ps[k]].orders) = lists[side][ps[k]].count
  <2>1. k \in 1 .. n
    BY <1>4
  <2>2. ps[k] \in DOMAIN levels[side]
    <3>1. ps \in Seq(PricesWith(side))
      BY <1>5 DEF Listed
    <3>2. ps[k] \in PricesWith(side)
      BY <1>2, <2>1, <3>1
    <3>. QED  BY <3>2, SamePrices
  <2>3. Len(levels[side][ps[k]].orders) = Cardinality(At(side, ps[k]))
    BY <2>2, SameList
  <2>4. lists[side][ps[k]].count = Cardinality(At(side, ps[k]))
    BY <1>4, <2>1 DEF BookInv, Counted
  <2>. QED  BY <2>2, <2>3, <2>4, SameQuantity
<1>12. Legacy!Depth(side, limit) = [k \in 1 .. m |->
                                      [price    |-> ps[k],
                                       quantity |-> lists[side][ps[k]].quantity,
                                       orders   |-> lists[side][ps[k]].count]]
  <2>1. \A k \in 1 .. m :
           /\ pf[k] = ps[k]
           /\ levels[side][pf[k]].quantity = lists[side][ps[k]].quantity
           /\ Len(levels[side][pf[k]].orders) = lists[side][ps[k]].count
    BY <1>9, <1>11
  <2>2. 1 .. Len(pf) = 1 .. m
    BY <1>9
  <2>. HIDE <1>4, <1>9, <1>11
  <2>. QED  BY <1>10, <2>1, <2>2
<1>. QED  BY <1>4, <1>12

\* orders_of returns what bid_orders and ask_orders do.
LEMMA OrdersSame ==
    ASSUME BookInv, LegacyInv, Legacy!Resting = Resting,
           NEW side \in Sides, NEW limit \in Nat
    PROVE  Legacy!OrdersFound(side, limit) = OrdersFound(side, limit)
<1>1. PICK ps : ps = PricesFound(side)
  OBVIOUS
<1>2. PICK n : n = Len(ps)
  OBVIOUS
<1>3. PICK R : R = AheadRel(side)
  OBVIOUS
<1>4. Listed(ps, PricesWith(side), PriceRel(side)) /\ ps = Legacy!PricesOf(side)
  BY <1>1, PricesScanned, SameScan
<1>5. n \in Nat /\ \A k \in 1 .. n : ps[k] \in DOMAIN levels[side]
  <2>1. ps \in Seq(PricesWith(side))
    BY <1>4 DEF Listed
  <2>2. n \in Nat /\ \A k \in 1 .. n : ps[k] \in PricesWith(side)
    BY <1>2, <2>1
  <2>. QED  BY <2>2, SamePrices
<1>6. PICK ls : ls = [k \in 1 .. n |-> levels[side][ps[k]].orders]
  OBVIOUS
<1>7. PICK A : A = [k \in 1 .. n |-> RestingAt(side, ps[k])]
  OBVIOUS
<1>8. Len(ls) = n /\ (n = 0 => ls = <<>>)
  BY <1>5, <1>6
<1>9. \A k \in 1 .. n : Listed(ls[k], A[k], R)
  BY <1>3, <1>5, <1>6, <1>7, SameList
<1>10. \A k \in 1 .. n : \A x \in A[k] : x \in OrdersOf(side) /\ x.price = ps[k]
  BY <1>7, SameAt DEF RestingAt
<1>11. ASSUME NEW i \in 1 .. n, NEW j \in 1 .. n, i < j, NEW x \in A[i], NEW y \in A[j]
       PROVE  <<x, y>> \in R
  <2>1. <<ps[i], ps[j]>> \in PriceRel(side)
    BY <1>2, <1>4, <1>11 DEF Listed
  <2>2. IF side = "buy" THEN ps[i] > ps[j] ELSE ps[i] < ps[j]
    BY <2>1 DEF PriceRel
  <2>3. /\ x \in OrdersOf(side) /\ x.price = ps[i]
        /\ y \in OrdersOf(side) /\ y.price = ps[j]
    BY <1>10
  <2>. QED  BY <1>3, <2>2, <2>3, AheadIs
<1>12. Listed(FlattenSeq(ls), UNION {A[k] : k \in 1 .. n}, R)
  <2>1. \A i, j \in 1 .. n : i < j => \A x \in A[i], y \in A[j] : <<x, y>> \in R
    BY <1>11
  <2>. QED  BY <1>5, <1>8, <1>9, <2>1, FlattenListed
<1>13. UNION {A[k] : k \in 1 .. n} = OrdersOf(side)
  <2>1. ASSUME NEW x \in OrdersOf(side)  PROVE \E k \in 1 .. n : x \in A[k]
    <3>1. x \in Legacy!Resting /\ x.side = side
      BY SameAt
    <3>2. x \in RestingAt(side, x.price)
      BY <3>1 DEF RestingAt
    <3>3. x.price \in DOMAIN levels[side]
      BY <3>2, RestingAtIs DEF LegacyInv
    <3>4. x.price \in PricesWith(side)
      BY <3>3, SamePrices
    <3>5. PICK k \in 1 .. n : ps[k] = x.price
      BY <1>2, <1>4, <3>4 DEF Listed
    <3>. QED  BY <1>7, <3>2, <3>5
  <2>. QED  BY <1>10, <2>1
<1>14. FlattenSeq(ls) = Ranked(side)
  <2>1. OneWay(OrdersOf(side), R)
    BY <1>3, AheadIs
  <2>2. Listed(Ranked(side), OrdersOf(side), R)
    BY <1>3, RankedListed
  <2>. QED  BY <1>12, <1>13, <2>1, <2>2, ListedOnce
<1>15. Legacy!OrdersFound(side, limit) = Legacy!Prefix(Legacy!FlattenSeq(ls), limit)
  BY <1>2, <1>4, <1>6 DEF Legacy!OrdersFound
<1>. QED  BY <1>14, <1>15, SameOperators, OrdersExact

\* Until id 0 is cancelled the two engines, asked after the same calls, return
\* the same depths and the same order snapshots for every limit, although one
\* scans a bitmap and walks linked nodes and the other a map of lists.
THEOREM EnginesShowAlike == ParitySpec => []SnapshotsAgree
<1>1. ParityInv /\ LegacyTotals /\ TotalsExact /\ ReportsAgree => SnapshotsAgree
  <2>. SUFFICES ASSUME ParityInv, LegacyTotals, TotalsExact, ReportsAgree, Idle,
                       ~ zeroCancelled,
                       NEW side \in Sides, NEW limit \in 0 .. MaxOrders
                PROVE  /\ Legacy!Depth(side, limit) = Depth(side, limit)
                       /\ Legacy!OrdersFound(side, limit) = OrdersFound(side, limit)
    BY DEF SnapshotsAgree
  <2>1. limit \in Nat
    BY OrderBookAssumption
  <2>2. Legacy!Resting = Resting
    BY DEF ReportsAgree, SameOrders, Resting
  <2>3. BookInv /\ LegacyInv /\ Totalled
    BY DEF ParityInv, CallsInv, PairInv, RefInv, TotalsExact
  <2>. QED  BY <2>1, <2>2, <2>3, DepthSame, OrdersSame
<1>. QED  BY <1>1, LegacyTotalsExact, TotalsCorrect, EnginesReportAlike, SameCalls,
             ParityInitInv, ParityStep, PTL DEF ParitySpec
=============================================================================

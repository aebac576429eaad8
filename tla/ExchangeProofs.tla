--------------------------- MODULE ExchangeProofs ---------------------------
(***************************************************************************)
(* No step of the server gives an account more than its trades account     *)
(* for, and only a fault makes it lose anything.                           *)
(*                                                                         *)
(* What is accounted to an account is the sum of eight parts: what it owns,*)
(* less what its logged trades gained it; what its order holds with the    *)
(* I/O thread, while being matched, after self-trade prevention rejected   *)
(* it, in the ring and in the book; and what the worker owes it by each of *)
(* the two vectors, less what the trades logged there gain it.  A step     *)
(* moves an amount from one part to another; a fault drops a part that is  *)
(* not negative.  A cancel of id 0 alone pays what no part held: what is    *)
(* said of an account's worth holds until one is accepted.                 *)
(***************************************************************************)
EXTENDS Exchange, LimitBookProofs, SumTheorems, SequenceTheorems

-----------------------------------------------------------------------------
(* What one task of the database worker credits and gains.                 *)

Due(unit, t, u) == IF unit = "cash" THEN CashDue(t, u) ELSE SharesDue(t, u)
LogGain(unit, t, u) == IF t.type = "log" THEN Gain(unit, t, u) ELSE 0

\* A settlement pays the seller, and gives the buyer the shares and what its
\* limit exceeds the price by.
LEMMA SettleDue ==
    ASSUME NEW t, t.type = "settle", NEW u
    PROVE  /\ CashDue(t, u) = (IF u = t.seller THEN t.price * t.quantity ELSE 0)
                            + (IF u = t.buyer /\ t.limit > t.price
                               THEN (t.limit - t.price) * t.quantity ELSE 0)
           /\ SharesDue(t, u) = (IF u = t.buyer THEN t.quantity ELSE 0)
           /\ Credited(t) = {t.buyer}
  BY Zenon DEF CashDue, SharesDue, Credited

\* A refund of cash gives no shares.
LEMMA RefundCashDue ==
    ASSUME NEW t, t.type = "refund_cash", NEW u
    PROVE  /\ CashDue(t, u) = (IF u = t.user THEN t.price * t.quantity ELSE 0)
           /\ SharesDue(t, u) = 0
           /\ Credited(t) = {}
  BY Zenon DEF CashDue, SharesDue, Credited

\* A refund of shares gives no cash.
LEMMA RefundSharesDue ==
    ASSUME NEW t, t.type = "refund_shares", NEW u
    PROVE  /\ CashDue(t, u) = 0
           /\ SharesDue(t, u) = (IF u = t.user THEN t.quantity ELSE 0)
           /\ Credited(t) = {t.user}
  BY Zenon DEF CashDue, SharesDue, Credited

\* A log entry gives nothing.
LEMMA LogDue ==
    ASSUME NEW t, t.type = "log", NEW u
    PROVE  CashDue(t, u) = 0 /\ SharesDue(t, u) = 0 /\ Credited(t) = {}
  BY Zenon DEF CashDue, SharesDue, Credited

\* A task has one of four types, and fields in range.
LEMMA DbTaskKinds ==
    ASSUME NEW t \in DbTasks
    PROVE  \/ /\ t.type = "settle" /\ t.buyer \in Users /\ t.seller \in Users
              /\ t.quantity \in Nat /\ t.price \in Nat /\ t.limit \in Nat
           \/ /\ t.type = "refund_cash" /\ t.user \in Users
              /\ t.quantity \in Nat /\ t.price \in Nat
           \/ /\ t.type = "refund_shares" /\ t.user \in Users /\ t.quantity \in Nat
           \/ /\ t.type = "log" /\ t.buyer \in Users /\ t.seller \in Users
              /\ t.quantity \in Nat /\ t.price \in Nat
  BY DEF DbTasks, LogTasks

\* A product of two quantities.
LEMMA Product == \A a, b \in Nat : a * b \in Nat
  OBVIOUS

\* No task takes anything, and gains are whole numbers.
LEMMA DueNat ==
    ASSUME NEW t \in DbTasks, NEW unit, NEW u
    PROVE  /\ CashDue(t, u) \in Nat /\ SharesDue(t, u) \in Nat
           /\ Due(unit, t, u) \in Nat /\ LogGain(unit, t, u) \in Int
           /\ Credited(t) \subseteq Users
<1>1. CASE t.type = "settle"
  <2>1. t.quantity \in Nat /\ t.price \in Nat /\ t.limit \in Nat /\ t.buyer \in Users
    BY <1>1, DbTaskKinds
  <2>2. t.price * t.quantity \in Nat /\ (t.limit > t.price => (t.limit - t.price) * t.quantity \in Nat)
    <3>1. t.limit > t.price => t.limit - t.price \in Nat
      BY <2>1
    <3>. QED  BY <2>1, <3>1, Product
  <2>. QED  BY <1>1, <2>1, <2>2, SettleDue DEF Due, LogGain
<1>2. CASE t.type = "refund_cash"
  <2>1. t.price * t.quantity \in Nat
    BY <1>2, DbTaskKinds, Product
  <2>. QED  BY <1>2, <2>1, RefundCashDue DEF Due, LogGain
<1>3. CASE t.type = "refund_shares"
  BY <1>3, DbTaskKinds, RefundSharesDue DEF Due, LogGain
<1>4. CASE t.type = "log"
  <2>1. t.price * t.quantity \in Nat /\ t.quantity \in Nat
    BY <1>4, DbTaskKinds, Product
  <2>2. Gain(unit, t, u) \in Int
    BY <2>1 DEF Gain
  <2>. QED  BY <1>4, <2>2, LogDue DEF Due, LogGain
<1>. QED  BY <1>1, <1>2, <1>3, <1>4, DbTaskKinds
-----------------------------------------------------------------------------
(* What a sequence of tasks credits, gains or holds.                       *)

DueAt(unit, s, u) == [i \in 1 .. Len(s) |-> Due(unit, s[i], u)]
GainAt(unit, s, u) == [i \in 1 .. Len(s) |-> LogGain(unit, s[i], u)]

\* The elements and the domain of a sequence.
LEMMA SeqFacts ==
    ASSUME NEW S, NEW s \in Seq(S)
    PROVE  /\ Len(s) \in Nat /\ DOMAIN s = 1 .. Len(s)
           /\ \A i \in 1 .. Len(s) : s[i] \in S
           /\ IsFiniteSet(1 .. Len(s))
<1>1. Len(s) \in Nat /\ DOMAIN s = 1 .. Len(s) /\ s \in [1 .. Len(s) -> S]
  BY LenProperties
<1>2. IsFiniteSet(1 .. Len(s))
  BY <1>1, FS_Interval
<1>. QED  BY <1>1, <1>2

\* What a batch credits and gains, as sums over its positions.
LEMMA BatchSums ==
    ASSUME NEW s \in Seq(DbTasks), NEW unit \in Units, NEW u
    PROVE  /\ Dues(unit, s, u) = SumFunctionOnSet(DueAt(unit, s, u), 1 .. Len(s))
           /\ Gains(unit, s, u) = SumFunctionOnSet(GainAt(unit, s, u), 1 .. Len(s))
<1>1. DOMAIN s = 1 .. Len(s)
  BY SeqFacts
<1>2. ASSUME unit = "cash"
      PROVE  Dues(unit, s, u) = SumFunctionOnSet(DueAt(unit, s, u), 1 .. Len(s))
  <2>1. DueAt(unit, s, u) = [i \in DOMAIN s |-> CashDue(s[i], u)]
    BY <1>1, <1>2 DEF DueAt, Due
  <2>. QED  BY <1>1, <1>2, <2>1 DEF Dues, CashDues, SumFunction
<1>3. ASSUME unit = "shares"
      PROVE  Dues(unit, s, u) = SumFunctionOnSet(DueAt(unit, s, u), 1 .. Len(s))
  <2>1. DueAt(unit, s, u) = [i \in DOMAIN s |-> SharesDue(s[i], u)]
    BY <1>1, <1>3 DEF DueAt, Due
  <2>. QED  BY <1>1, <1>3, <2>1 DEF Dues, SharesDues, SumFunction
<1>4. GainAt(unit, s, u)
        = [i \in DOMAIN s |-> IF s[i].type = "log" THEN Gain(unit, s[i], u) ELSE 0]
  BY <1>1 DEF GainAt, LogGain
<1>5. Gains(unit, s, u) = SumFunctionOnSet(GainAt(unit, s, u), 1 .. Len(s))
  BY <1>1, <1>4 DEF Gains, SumFunction
<1>. QED  BY <1>2, <1>3, <1>5 DEF Units

\* Their terms, and their ranges.
LEMMA BatchTypes ==
    ASSUME NEW s \in Seq(DbTasks), NEW unit \in Units, NEW u
    PROVE  /\ \A i \in 1 .. Len(s) : /\ DueAt(unit, s, u)[i] = Due(unit, s[i], u)
                                     /\ DueAt(unit, s, u)[i] \in Nat
                                     /\ GainAt(unit, s, u)[i] = LogGain(unit, s[i], u)
                                     /\ GainAt(unit, s, u)[i] \in Int
           /\ Dues(unit, s, u) \in Nat /\ Gains(unit, s, u) \in Int
<1>1. \A i \in 1 .. Len(s) : s[i] \in DbTasks
  BY SeqFacts
<1>2. \A i \in 1 .. Len(s) : /\ DueAt(unit, s, u)[i] = Due(unit, s[i], u)
                             /\ GainAt(unit, s, u)[i] = LogGain(unit, s[i], u)
  BY DEF DueAt, GainAt
<1>3. \A i \in 1 .. Len(s) : DueAt(unit, s, u)[i] \in Nat /\ GainAt(unit, s, u)[i] \in Int
  BY <1>1, <1>2, DueNat
<1>4. IsFiniteSet(1 .. Len(s))
  BY SeqFacts
<1>5. SumFunctionOnSet(DueAt(unit, s, u), 1 .. Len(s)) \in Nat
  BY <1>3, <1>4, SumNat
<1>6. SumFunctionOnSet(GainAt(unit, s, u), 1 .. Len(s)) \in Int
  BY <1>3, <1>4, SumInt
<1>. QED  BY <1>2, <1>3, <1>5, <1>6, BatchSums

\* An empty batch.
LEMMA BatchEmpty ==
    ASSUME NEW unit \in Units, NEW u
    PROVE  Dues(unit, <<>>, u) = 0 /\ Gains(unit, <<>>, u) = 0
<1>1. PICK s : s = <<>>
  OBVIOUS
<1>2. s \in Seq(DbTasks) /\ 1 .. Len(s) = {}
  BY <1>1, EmptySeq
<1>3. /\ Dues(unit, s, u) = SumFunctionOnSet(DueAt(unit, s, u), {})
      /\ Gains(unit, s, u) = SumFunctionOnSet(GainAt(unit, s, u), {})
  BY <1>2, BatchSums, Zenon
<1>4. Dues(unit, s, u) = 0 /\ Gains(unit, s, u) = 0
  BY <1>3, SumEmpty
<1>. QED  BY <1>1, <1>4

\* One task more.
LEMMA BatchAppend ==
    ASSUME NEW s \in Seq(DbTasks), NEW t \in DbTasks, NEW unit \in Units, NEW u
    PROVE  /\ Append(s, t) \in Seq(DbTasks)
           /\ Dues(unit, Append(s, t), u) = Dues(unit, s, u) + Due(unit, t, u)
           /\ Gains(unit, Append(s, t), u) = Gains(unit, s, u) + LogGain(unit, t, u)
<1>1. PICK r, n : r = Append(s, t) /\ n = Len(s)
  OBVIOUS
<1>2. r \in Seq(DbTasks) /\ n \in Nat /\ Len(r) = n + 1 /\ r[n + 1] = t
      /\ \A i \in 1 .. n : r[i] = s[i]
  BY <1>1, AppendProperties, SeqFacts
<1>a. \A i \in 1 .. n : /\ DueAt(unit, s, u)[i] = Due(unit, s[i], u)
                        /\ DueAt(unit, s, u)[i] \in Nat
                        /\ GainAt(unit, s, u)[i] = LogGain(unit, s[i], u)
                        /\ GainAt(unit, s, u)[i] \in Int
  BY <1>1, BatchTypes
<1>b. \A i \in 1 .. n + 1 : /\ DueAt(unit, r, u)[i] = Due(unit, r[i], u)
                            /\ DueAt(unit, r, u)[i] \in Nat
                            /\ GainAt(unit, r, u)[i] = LogGain(unit, r[i], u)
                            /\ GainAt(unit, r, u)[i] \in Int
  BY <1>2, BatchTypes
<1>c. n + 1 \in 1 .. n + 1 /\ \A i \in 1 .. n : i \in 1 .. n + 1
  BY <1>2
<1>3. /\ \A i \in 1 .. n : DueAt(unit, s, u)[i] \in Int /\ DueAt(unit, r, u)[i] = DueAt(unit, s, u)[i]
      /\ \A i \in 1 .. n : GainAt(unit, s, u)[i] \in Int /\ GainAt(unit, r, u)[i] = GainAt(unit, s, u)[i]
      /\ DueAt(unit, r, u)[n + 1] \in Int /\ GainAt(unit, r, u)[n + 1] \in Int
      /\ DueAt(unit, r, u)[n + 1] = Due(unit, t, u) /\ GainAt(unit, r, u)[n + 1] = LogGain(unit, t, u)
  BY <1>2, <1>a, <1>b, <1>c
<1>4. SumFunctionOnSet(DueAt(unit, r, u), 1 .. n + 1)
        = SumFunctionOnSet(DueAt(unit, s, u), 1 .. n) + Due(unit, t, u)
  BY <1>2, <1>3, SumAppend
<1>5. SumFunctionOnSet(GainAt(unit, r, u), 1 .. n + 1)
        = SumFunctionOnSet(GainAt(unit, s, u), 1 .. n) + LogGain(unit, t, u)
  BY <1>2, <1>3, SumAppend
<1>. QED  BY <1>1, <1>2, <1>4, <1>5, BatchSums, ZenonT(40)

\* One batch after another.
LEMMA GainsConcat ==
    ASSUME NEW s \in Seq(DbTasks), NEW r \in Seq(DbTasks), NEW unit \in Units, NEW u
    PROVE  Gains(unit, s \o r, u) = Gains(unit, s, u) + Gains(unit, r, u)
<1>1. PICK h, m, n : h = s \o r /\ m = Len(s) /\ n = Len(r)
  OBVIOUS
<1>2. h \in Seq(DbTasks) /\ m \in Nat /\ n \in Nat /\ Len(h) = m + n
  BY <1>1, ConcatProperties, SeqFacts
<1>3. \A i \in 1 .. m : h[i] = s[i]
  BY <1>1, <1>2, ConcatProperties
<1>4. ASSUME NEW i \in 1 .. n  PROVE h[i + m] = r[i] /\ i + m \in 1 .. m + n
  <2>1. i + m \in 1 .. m + n /\ i + m > m /\ (i + m) - m = i
    BY <1>2
  <2>. QED  BY <1>1, <1>2, <2>1, ConcatProperties
<1>a. \A i \in 1 .. m : GainAt(unit, s, u)[i] = LogGain(unit, s[i], u) /\ GainAt(unit, s, u)[i] \in Int
  BY <1>1, BatchTypes
<1>b. \A i \in 1 .. n : GainAt(unit, r, u)[i] = LogGain(unit, r[i], u) /\ GainAt(unit, r, u)[i] \in Int
  BY <1>1, BatchTypes
<1>c. \A i \in 1 .. m + n : GainAt(unit, h, u)[i] = LogGain(unit, h[i], u)
  <2>1. \A i \in 1 .. Len(h) : GainAt(unit, h, u)[i] = LogGain(unit, h[i], u)
    BY <1>2, BatchTypes
  <2>. QED  BY <1>2, <2>1
<1>d. \A i \in 1 .. m : i \in 1 .. m + n
  BY <1>2
<1>5. /\ \A i \in 1 .. m : GainAt(unit, s, u)[i] \in Int /\ GainAt(unit, h, u)[i] = GainAt(unit, s, u)[i]
      /\ \A i \in 1 .. n : GainAt(unit, r, u)[i] \in Int /\ GainAt(unit, h, u)[i + m] = GainAt(unit, r, u)[i]
  BY <1>3, <1>4, <1>a, <1>b, <1>c, <1>d
<1>6. PICK fh, fs, fr : /\ fh = GainAt(unit, h, u) /\ fs = GainAt(unit, s, u)
                        /\ fr = GainAt(unit, r, u)
  OBVIOUS
<1>7. SumFunctionOnSet(fh, 1 .. m + n) = SumFunctionOnSet(fs, 1 .. m) + SumFunctionOnSet(fr, 1 .. n)
  <2>1. m \in Nat /\ n \in Nat
    BY <1>2
  <2>2. /\ \A i \in 1 .. m : fs[i] \in Int /\ fh[i] = fs[i]
        /\ \A i \in 1 .. n : fr[i] \in Int /\ fh[i + m] = fr[i]
    BY <1>5, <1>6
  <2>. QED  BY ONLY <2>1, <2>2, SumConcat
<1>8. Gains(unit, h, u) = SumFunctionOnSet(fh, 1 .. m + n)
  BY <1>2, <1>6, BatchSums
<1>9. /\ Gains(unit, s, u) = SumFunctionOnSet(fs, 1 .. m)
      /\ Gains(unit, r, u) = SumFunctionOnSet(fr, 1 .. n)
  BY <1>1, <1>6, BatchSums
<1>. QED  BY <1>1, <1>7, <1>8, <1>9
-----------------------------------------------------------------------------
(* The rows that a batch inserts into trades.                              *)

\* One step of the recursion of Logged, and the function it defines.
LogBody(s, g, n) ==
    IF n = 0 THEN <<>>
    ELSE IF s[n].type = "log" THEN Append(g[n - 1], s[n])
    ELSE g[n - 1]
LogRec(s) == CHOOSE g : g = [n \in 0 .. Len(s) |-> LogBody(s, g, n)]

\* Logged is that function at the length of the batch.
LEMMA LoggedUnfold == ASSUME NEW s PROVE Logged(s) = LogRec(s)[Len(s)]
  BY DEF Logged, LogRec, LogBody

\* The recursion defines a function, by induction on the length.
LEMMA LogRecAt ==
    ASSUME NEW s, Len(s) \in Nat
    PROVE  \A n \in 0 .. Len(s) : LogRec(s)[n] = LogBody(s, LogRec(s), n)
<1>. DEFINE Has(n) == \E g : g = [k \in 0 .. n |-> LogBody(s, g, k)]
            G == {n \in 0 .. Len(s) : Has(n)}
<1>1. 0 \in G
  <2>. DEFINE g == [k \in 0 .. 0 |-> <<>>]
  <2>1. g = [k \in 0 .. 0 |-> LogBody(s, g, k)]
    BY DEF LogBody
  <2>2. Has(0)
    <3>. HIDE DEF g
    <3>. QED  BY <2>1
  <2>. HIDE DEF Has
  <2>. QED  BY <2>2
<1>2. ASSUME NEW n \in 0 .. Len(s) - 1, n \in G  PROVE n + 1 \in G
  <2>1. PICK g : g = [k \in 0 .. n |-> LogBody(s, g, k)]
    BY <1>2
  <2>. DEFINE h == [k \in 0 .. n + 1 |-> IF k \in 0 .. n THEN g[k] ELSE LogBody(s, g, k)]
  <2>2. ASSUME NEW k \in 0 .. n + 1  PROVE LogBody(s, h, k) = LogBody(s, g, k)
    <3>1. k # 0 => h[k - 1] = g[k - 1]
      OBVIOUS
    <3>. HIDE DEF h
    <3>. QED  BY <3>1 DEF LogBody
  <2>3. ASSUME NEW k \in 0 .. n + 1  PROVE h[k] = LogBody(s, h, k)
    <3>1. k \in 0 .. n => g[k] = LogBody(s, g, k)
      BY <2>1
    <3>2. h[k] = (IF k \in 0 .. n THEN g[k] ELSE LogBody(s, g, k))
      OBVIOUS
    <3>. HIDE DEF h
    <3>. QED  BY <2>2, <3>1, <3>2
  <2>4. h = [k \in 0 .. n + 1 |-> h[k]]
    OBVIOUS
  <2>5. h = [k \in 0 .. n + 1 |-> LogBody(s, h, k)]
    <3>. HIDE DEF h
    <3>. QED  BY <2>3, <2>4
  <2>6. Has(n + 1)
    <3>. HIDE DEF h
    <3>. QED  BY <2>5
  <2>. HIDE DEF Has
  <2>. QED  BY <2>6
<1>3. Len(s) \in G
  <2>. HIDE DEF G
  <2>. QED  BY <1>1, <1>2, IntervalInduction
<1>4. \E g : g = [n \in 0 .. Len(s) |-> LogBody(s, g, n)]
  BY <1>3
<1>5. LogRec(s) = [n \in 0 .. Len(s) |-> LogBody(s, LogRec(s), n)]
  BY <1>4 DEF LogRec
<1>6. ASSUME NEW g, g = [n \in 0 .. Len(s) |-> LogBody(s, g, n)], NEW n \in 0 .. Len(s)
      PROVE  g[n] = LogBody(s, g, n)
  BY <1>6
<1>. QED  BY <1>5, <1>6

\* The log entries of a batch gain an account what the batch does.
LEMMA LoggedGains ==
    ASSUME NEW s \in Seq(DbTasks), NEW unit \in Units, NEW u
    PROVE  Logged(s) \in Seq(LogTasks) /\ Gains(unit, Logged(s), u) = Gains(unit, s, u)
<1>. DEFINE Good(n) == /\ LogRec(s)[n] \in Seq(LogTasks)
                       /\ Gains(unit, LogRec(s)[n], u)
                            = SumFunctionOnSet(GainAt(unit, s, u), 1 .. n)
            G == {n \in 0 .. Len(s) : Good(n)}
<1>1. Len(s) \in Nat /\ \A i \in 1 .. Len(s) : s[i] \in DbTasks
  BY SeqFacts
<1>2. 0 \in G
  <2>1. LogRec(s)[0] = <<>>
    BY <1>1, LogRecAt DEF LogBody
  <2>2. <<>> \in Seq(LogTasks)
    BY EmptySeq
  <2>3. Gains(unit, <<>>, u) = 0
    BY BatchEmpty
  <2>4. 1 .. 0 = {}
    OBVIOUS
  <2>5. SumFunctionOnSet(GainAt(unit, s, u), {}) = 0
    BY SumEmpty
  <2>6. Good(0)
    BY <2>1, <2>2, <2>3, <2>4, <2>5, Zenon
  <2>. HIDE DEF Good
  <2>. QED  BY <1>1, <2>6
<1>3. ASSUME NEW n \in 0 .. Len(s) - 1, n \in G  PROVE n + 1 \in G
  <2>1. PICK l, r, t : l = LogRec(s)[n] /\ r = LogRec(s)[n + 1] /\ t = s[n + 1]
    OBVIOUS
  <2>2. n \in Nat /\ n + 1 \in 1 .. Len(s) /\ n + 1 \in 0 .. Len(s) /\ n \in 0 .. Len(s)
    BY <1>1
  <2>3. t \in DbTasks /\ l \in Seq(LogTasks) /\ l \in Seq(DbTasks)
    <3>1. Seq(LogTasks) \subseteq Seq(DbTasks)
      BY SMT DEF DbTasks
    <3>. QED  BY <1>1, <1>3, <2>1, <2>2, <3>1
  <2>4. r = IF t.type = "log" THEN Append(l, t) ELSE l
    <3>1. r = LogBody(s, LogRec(s), n + 1)
      BY <1>1, <2>1, <2>2, LogRecAt
    <3>2. n + 1 # 0 /\ (n + 1) - 1 = n
      BY <2>2
    <3>. QED  BY <2>1, <3>1, <3>2 DEF LogBody
  <2>5. SumFunctionOnSet(GainAt(unit, s, u), 1 .. n + 1)
          = SumFunctionOnSet(GainAt(unit, s, u), 1 .. n) + LogGain(unit, t, u)
    <3>1. PICK f : f = GainAt(unit, s, u)
      OBVIOUS
    <3>2. f[n + 1] = LogGain(unit, t, u) /\ f[n + 1] \in Int /\ \A i \in 1 .. n : f[i] \in Int
      BY <2>1, <2>2, <3>1, BatchTypes
    <3>3. SumFunctionOnSet(f, 1 .. n + 1) = SumFunctionOnSet(f, 1 .. n) + f[n + 1]
      BY <2>2, <3>2, SumAppend
    <3>. QED  BY <3>1, <3>2, <3>3
  <2>6. Gains(unit, l, u) = SumFunctionOnSet(GainAt(unit, s, u), 1 .. n) /\ Gains(unit, l, u) \in Int
    BY <1>3, <2>1, <2>3, BatchTypes
  <2>7. CASE t.type = "log"
    <3>1. t \in LogTasks
      BY <2>3, <2>7 DEF DbTasks
    <3>2. r = Append(l, t) /\ r \in Seq(LogTasks)
      BY <2>3, <2>4, <2>7, <3>1, AppendProperties
    <3>3. Gains(unit, r, u) = Gains(unit, l, u) + LogGain(unit, t, u)
      BY <2>3, <3>2, BatchAppend
    <3>. QED  BY <2>1, <2>2, <2>5, <2>6, <3>2, <3>3
  <2>8. CASE t.type # "log"
    <3>1. r = l /\ LogGain(unit, t, u) = 0
      BY <2>4, <2>8 DEF LogGain
    <3>2. SumFunctionOnSet(GainAt(unit, s, u), 1 .. n + 1)
            = SumFunctionOnSet(GainAt(unit, s, u), 1 .. n)
      BY <2>5, <2>6, <3>1
    <3>. QED  BY <2>1, <2>2, <2>3, <2>6, <3>1, <3>2
  <2>. QED  BY <2>7, <2>8
<1>4. Len(s) \in G
  <2>. HIDE DEF G
  <2>. QED  BY <1>1, <1>2, <1>3, IntervalInduction
<1>. QED  BY <1>4, LoggedUnfold, BatchSums
-----------------------------------------------------------------------------
(* What orders hold in the ring and in the book.                           *)

RingAt(unit, q, u) == [i \in 1 .. Len(q) |-> TaskHolds(unit, q[i], u)]
RingSum(unit, q, u) == SumFunctionOnSet(RingAt(unit, q, u), 1 .. Len(q))
BookAt(unit, b, u) == [o \in b |-> Holds(unit, o, u)]
BookSum(unit, b, u) == SumFunctionOnSet(BookAt(unit, b, u), b)

\* A task is an order, a cancel or a switch, with fields in range.
LEMMA TaskKinds ==
    ASSUME NEW t \in Tasks
    PROVE  \/ /\ t.type = "order" /\ t.company \in Companies /\ t.user \in Users
              /\ t.side \in Sides /\ t.price \in 0 .. MaxPrice /\ t.quantity \in 0 .. MaxQty
           \/ /\ t.type = "cancel" /\ t.company \in Companies /\ t.mode \in Modes
              /\ t.seq \in Nat /\ t.user \in Users
           \/ t.type = "switch" /\ t.mode \in Modes
  BY DEF Tasks

\* What an order holds is not negative.
LEMMA HoldsNat ==
    ASSUME NEW o, o.price \in Nat, o.quantity \in Nat, NEW unit, NEW u
    PROVE  Holds(unit, o, u) \in Nat
<1>1. o.price * o.quantity \in Nat
  BY Product
<1>. QED  BY <1>1 DEF Holds

\* An order of the book has a price and a quantity.
LEMMA OrderNat ==
    ASSUME NEW o \in Orders
    PROVE  o.price \in Nat /\ o.quantity \in Nat /\ o.user \in Users /\ o.side \in Sides
           /\ o.seq \in Nat
  BY LimitBookAssumption DEF Orders

\* What an order of the book, or a task, holds is not negative.
LEMMA OrderHolds ==
    ASSUME NEW o \in Orders, NEW unit, NEW u
    PROVE  Holds(unit, o, u) \in Nat
  BY OrderNat, HoldsNat

\* What an order of the book, or a task, holds is not negative.
LEMMA TaskHoldsNat ==
    ASSUME NEW t \in Tasks, NEW unit, NEW u
    PROVE  TaskHolds(unit, t, u) \in Nat
<1>1. CASE t.type = "order"
  <2>1. t.price \in Nat /\ t.quantity \in Nat
    BY <1>1, TaskKinds, LimitBookAssumption
  <2>. QED  BY <1>1, <2>1, HoldsNat DEF TaskHolds
<1>. QED  BY <1>1 DEF TaskHolds

\* The terms of the sum over the ring, and its range.
LEMMA RingTypes ==
    ASSUME NEW q \in Seq(Tasks), NEW unit, NEW u
    PROVE  /\ \A i \in 1 .. Len(q) : /\ RingAt(unit, q, u)[i] = TaskHolds(unit, q[i], u)
                                     /\ RingAt(unit, q, u)[i] \in Nat
           /\ RingSum(unit, q, u) \in Nat
<1>1. \A i \in 1 .. Len(q) : q[i] \in Tasks
  BY SeqFacts
<1>2. \A i \in 1 .. Len(q) : /\ RingAt(unit, q, u)[i] = TaskHolds(unit, q[i], u)
                             /\ RingAt(unit, q, u)[i] \in Nat
  BY <1>1, TaskHoldsNat DEF RingAt
<1>3. IsFiniteSet(1 .. Len(q))
  BY SeqFacts
<1>4. RingSum(unit, q, u) \in Nat
  BY <1>2, <1>3, SumNat DEF RingSum
<1>. QED  BY <1>2, <1>4

\* An empty ring holds nothing.
LEMMA RingEmpty == ASSUME NEW unit, NEW u PROVE RingSum(unit, <<>>, u) = 0
<1>1. PICK q : q = <<>>
  OBVIOUS
<1>2. 1 .. Len(q) = {}
  BY <1>1, EmptySeq
<1>3. RingSum(unit, q, u) = SumFunctionOnSet(RingAt(unit, q, u), {})
  BY <1>2 DEF RingSum
<1>. QED  BY <1>1, <1>3, SumEmpty

\* One task more in the ring.
LEMMA RingAppend ==
    ASSUME NEW q \in Seq(Tasks), NEW t \in Tasks, NEW unit, NEW u
    PROVE  RingSum(unit, Append(q, t), u) = RingSum(unit, q, u) + TaskHolds(unit, t, u)
<1>1. PICK r, n, f, g : /\ r = Append(q, t) /\ n = Len(q)
                        /\ f = RingAt(unit, q, u) /\ g = RingAt(unit, r, u)
  OBVIOUS
<1>2. r \in Seq(Tasks) /\ n \in Nat /\ Len(r) = n + 1 /\ r[n + 1] = t
      /\ \A i \in 1 .. n : r[i] = q[i]
  BY <1>1, AppendProperties, SeqFacts
<1>3. \A i \in 1 .. n : f[i] = TaskHolds(unit, q[i], u) /\ f[i] \in Nat
  BY <1>1, RingTypes
<1>4. \A i \in 1 .. n + 1 : g[i] = TaskHolds(unit, r[i], u) /\ g[i] \in Nat
  <2>1. \A i \in 1 .. Len(r) : g[i] = TaskHolds(unit, r[i], u) /\ g[i] \in Nat
    <3>1. r \in Seq(Tasks) /\ g = RingAt(unit, r, u)
      BY <1>1, <1>2
    <3>. QED  BY ONLY <3>1, RingTypes
  <2>. QED  BY <1>2, <2>1
<1>5. n + 1 \in 1 .. n + 1 /\ \A i \in 1 .. n : i \in 1 .. n + 1
  BY <1>2
<1>6. /\ \A i \in 1 .. n : f[i] \in Int /\ g[i] = f[i]
      /\ g[n + 1] = TaskHolds(unit, t, u) /\ g[n + 1] \in Int
  BY <1>2, <1>3, <1>4, <1>5
<1>7. SumFunctionOnSet(g, 1 .. n + 1) = SumFunctionOnSet(f, 1 .. n) + g[n + 1]
  BY <1>2, <1>6, SumAppend
<1>. QED  BY <1>1, <1>2, <1>6, <1>7 DEF RingSum

\* The ring without its first task.
LEMMA RingTail ==
    ASSUME NEW q \in Seq(Tasks), q # <<>>, NEW unit, NEW u
    PROVE  RingSum(unit, q, u) = TaskHolds(unit, Head(q), u) + RingSum(unit, Tail(q), u)
<1>1. PICK r, n, f, g : /\ r = Tail(q) /\ n = Len(q)
                        /\ f = RingAt(unit, q, u) /\ g = RingAt(unit, r, u)
  OBVIOUS
<1>2. /\ r \in Seq(Tasks) /\ n \in Nat \ {0} /\ Len(r) = n - 1 /\ Head(q) = q[1]
      /\ \A i \in 1 .. n - 1 : r[i] = q[i + 1]
  <2>1. n \in Nat /\ n # 0
    BY <1>1, SeqFacts, EmptySeq
  <2>. QED  BY <1>1, <2>1, HeadTailProperties
<1>3. \A i \in 1 .. n : f[i] = TaskHolds(unit, q[i], u) /\ f[i] \in Int
  BY <1>1, RingTypes
<1>4. \A i \in 1 .. n - 1 : g[i] = TaskHolds(unit, r[i], u)
  <2>1. \A i \in 1 .. Len(r) : g[i] = TaskHolds(unit, r[i], u)
    <3>1. r \in Seq(Tasks) /\ g = RingAt(unit, r, u)
      BY <1>1, <1>2
    <3>. QED  BY ONLY <3>1, RingTypes
  <2>. QED  BY <1>2, <2>1
<1>5. \A i \in 1 .. n - 1 : i + 1 \in 1 .. n
  BY <1>2
<1>6. \A i \in 1 .. n - 1 : g[i] = f[i + 1]
  BY <1>2, <1>3, <1>4, <1>5
<1>7. SumFunctionOnSet(f, 1 .. n) = f[1] + SumFunctionOnSet(g, 1 .. n - 1)
  BY <1>2, <1>3, <1>6, SumTail
<1>8. f[1] = TaskHolds(unit, Head(q), u)
  BY <1>2, <1>3
<1>. QED  BY <1>1, <1>2, <1>7, <1>8 DEF RingSum

\* The sum over the book is not negative.
LEMMA BookNat ==
    ASSUME NEW b \in SUBSET Orders, IsFiniteSet(b), NEW unit, NEW u
    PROVE  BookSum(unit, b, u) \in Nat
<1>1. \A o \in b : BookAt(unit, b, u)[o] \in Nat
  BY OrderHolds DEF BookAt
<1>. QED  BY <1>1, SumNat DEF BookSum

\* One order more in the book.
LEMMA BookAdd ==
    ASSUME NEW b \in SUBSET Orders, IsFiniteSet(b), NEW o \in Orders, o \notin b,
           NEW unit, NEW u
    PROVE  BookSum(unit, b \union {o}, u) = BookSum(unit, b, u) + Holds(unit, o, u)
<1>1. PICK f, g, d : /\ d = b \union {o}
                     /\ f = BookAt(unit, b, u) /\ g = BookAt(unit, d, u)
  OBVIOUS
<1>2. /\ \A x \in d : g[x] = Holds(unit, x, u) /\ g[x] \in Int
      /\ \A x \in b : f[x] = Holds(unit, x, u)
  BY <1>1, OrderHolds DEF BookAt
<1>3. SumFunctionOnSet(g, b \union {o}) = SumFunctionOnSet(g, b) + g[o]
  BY <1>1, <1>2, SumAdd
<1>4. SumFunctionOnSet(g, b) = SumFunctionOnSet(f, b)
  BY <1>1, <1>2, SumSame
<1>. QED  BY <1>1, <1>2, <1>3, <1>4 DEF BookSum

\* One order less in the book.
LEMMA BookRemove ==
    ASSUME NEW b \in SUBSET Orders, IsFiniteSet(b), NEW o \in b, NEW unit, NEW u
    PROVE  /\ IsFiniteSet(b \ {o})
           /\ BookSum(unit, b \ {o}, u) = BookSum(unit, b, u) - Holds(unit, o, u)
<1>1. PICK d : d = b \ {o}
  OBVIOUS
<1>2. d \in SUBSET Orders /\ o \notin d /\ d \union {o} = b /\ o \in Orders
  BY <1>1
<1>3. IsFiniteSet(d)
  BY <1>1, FS_Subset
<1>4. BookSum(unit, b, u) = BookSum(unit, d, u) + Holds(unit, o, u)
  BY <1>2, <1>3, BookAdd
<1>5. BookSum(unit, d, u) \in Nat /\ Holds(unit, o, u) \in Nat
  BY <1>2, <1>3, BookNat, OrderHolds
<1>. QED  BY <1>1, <1>3, <1>4, <1>5

\* An empty book holds nothing.
LEMMA BookEmpty == ASSUME NEW unit, NEW u PROVE BookSum(unit, {}, u) = 0
  BY SumEmpty DEF BookSum
-----------------------------------------------------------------------------
(* The invariant about the states.                                         *)

\* Orders have an arrival number of their own.
Distinct ==
    /\ \A a, b \in book : a.seq = b.seq => a = b
    /\ \A o \in book : o.seq <= counter
    /\ incoming # NoOrder => /\ incoming.seq <= counter
                             /\ \A o \in book : o.seq # incoming.seq

\* What self-trade prevention rejected is all that is left of the order.
Stopped == out.kind = "rejected" =>
    out.order \in Orders /\ incoming # NoOrder /\ incoming.quantity = 0

\* What the worker owes an account by a vector is at least what the trades
\* logged there gain it.
Credit(unit, tasks, u) == Dues(unit, tasks, u) - Gains(unit, tasks, u)
Solvent ==
    /\ \A unit \in Units, u \in Accounts : Credit(unit, front, u) >= 0
    /\ \A unit \in Units, u \in Accounts : Credit(unit, back, u) >= 0

States == ExchangeTypeOK /\ IsFiniteSet(book) /\ NotCrossed /\ Distinct /\ Stopped

\* The parts of what is accounted to an account.
Purse(unit, u) == (IF unit = "cash" THEN cash[u] ELSE shares[u]) - Gains(unit, trades, u)
Pending(unit, u) == IF pending = NoTask THEN 0 ELSE TaskHolds(unit, pending, u)
Incoming(unit, u) == IF incoming = NoOrder THEN 0 ELSE Holds(unit, incoming, u)
Leftover(unit, u) == IF out.kind = "rejected" THEN Holds(unit, out.order, u) ELSE 0
InFront(unit, u) == Credit(unit, front, u)
InBack(unit, u) == Credit(unit, back, u)
Worth(unit, u) ==
    Purse(unit, u) + Pending(unit, u) + Incoming(unit, u) + Leftover(unit, u)
  + InRing(unit, u) + InBook(unit, u) + InFront(unit, u) + InBack(unit, u)
Initial(unit) == IF unit = "cash" THEN InitialCash ELSE InitialShares

\* The ring and the book, as the sums of the lemmas above.
LEMMA RingBookSums ==
    ASSUME States, NEW unit, NEW u
    PROVE  /\ InRing(unit, u) = RingSum(unit, engine_queue, u)
           /\ InBook(unit, u) = BookSum(unit, book, u)
<1>1. DOMAIN engine_queue = 1 .. Len(engine_queue)
  BY SeqFacts DEF States, ExchangeTypeOK
<1>2. RingAt(unit, engine_queue, u)
        = [i \in DOMAIN engine_queue |-> TaskHolds(unit, engine_queue[i], u)]
  BY <1>1 DEF RingAt
<1>3. InRing(unit, u) = RingSum(unit, engine_queue, u)
  BY <1>1, <1>2 DEF InRing, RingSum, SumFunction
<1>4. InBook(unit, u) = BookSum(unit, book, u)
  BY DEF InBook, BookSum, BookAt, SumFunction
<1>. QED  BY <1>3, <1>4

\* The parts are numbers, and those that a fault may drop are not negative.
LEMMA Parts ==
    ASSUME States, NEW unit \in Units, NEW u \in Accounts
    PROVE  /\ Purse(unit, u) \in Int
           /\ Pending(unit, u) \in Nat /\ Incoming(unit, u) \in Nat /\ Leftover(unit, u) \in Nat
           /\ InRing(unit, u) \in Nat /\ InBook(unit, u) \in Nat
           /\ InFront(unit, u) \in Int /\ InBack(unit, u) \in Int
<1>1. /\ pending \in Tasks \union {NoTask} /\ engine_queue \in Seq(Tasks)
      /\ incoming \in Orders \union {NoOrder} /\ book \in SUBSET Orders /\ IsFiniteSet(book)
      /\ out.kind = "rejected" => out.order \in Orders
      /\ front \in Seq(DbTasks) /\ back \in Seq(DbTasks) /\ trades \in Seq(LogTasks)
      /\ cash \in [Accounts -> Nat] /\ u \in DOMAIN shares /\ shares[u] \in Nat
  BY DEF States, ExchangeTypeOK, TypeOK, Stopped
<1>2. trades \in Seq(DbTasks)
  <2>1. Seq(LogTasks) \subseteq Seq(DbTasks)
    BY SMT DEF DbTasks
  <2>. QED  BY <1>1, <2>1
<1>3. Purse(unit, u) \in Int
  <2>1. Gains(unit, trades, u) \in Int
    BY <1>2, BatchTypes
  <2>. QED  BY <1>1, <2>1 DEF Purse
<1>4. Pending(unit, u) \in Nat
  BY <1>1, TaskHoldsNat DEF Pending
<1>5. Incoming(unit, u) \in Nat /\ Leftover(unit, u) \in Nat
  BY <1>1, OrderHolds DEF Incoming, Leftover
<1>6. InRing(unit, u) \in Nat /\ InBook(unit, u) \in Nat
  BY <1>1, RingBookSums, RingTypes, BookNat
<1>7. InFront(unit, u) \in Int /\ InBack(unit, u) \in Int
  <2>1. /\ Dues(unit, front, u) \in Nat /\ Gains(unit, front, u) \in Int
        /\ Dues(unit, back, u) \in Nat /\ Gains(unit, back, u) \in Int
    BY <1>1, BatchTypes
  <2>. QED  BY <2>1 DEF InFront, InBack, Credit
<1>. QED  BY <1>3, <1>4, <1>5, <1>6, <1>7

Numbers ==
    \A unit \in Units, u \in Accounts :
        /\ Purse(unit, u) \in Int
        /\ Pending(unit, u) \in Nat /\ Incoming(unit, u) \in Nat /\ Leftover(unit, u) \in Nat
        /\ InRing(unit, u) \in Nat /\ InBook(unit, u) \in Nat
        /\ InFront(unit, u) \in Int /\ InBack(unit, u) \in Int

\* The same of the next state.
LEMMA NumbersNext == States' => Numbers'
<1>1. States => Numbers
  BY Parts DEF Numbers
<1>. QED  BY <1>1, PTL

\* The parts after a step are numbers too.
LEMMA PartsNext ==
    ASSUME States', NEW unit \in Units, NEW u \in Accounts
    PROVE  /\ Purse(unit, u)' \in Int
           /\ Pending(unit, u)' \in Nat /\ Incoming(unit, u)' \in Nat
           /\ Leftover(unit, u)' \in Nat
           /\ InRing(unit, u)' \in Nat /\ InBook(unit, u)' \in Nat
           /\ InFront(unit, u)' \in Int /\ InBack(unit, u)' \in Int
  BY NumbersNext DEF Numbers

\* They add up to what the account is short of.
LEMMA ShortIs ==
    ASSUME States, NEW unit \in Units, NEW u \in Accounts
    PROVE  /\ Worth(unit, u) \in Int /\ Initial(unit) \in Int
           /\ Short(unit, u) = Initial(unit) - Worth(unit, u)
           /\ Total(unit, u) \in Int /\ Earned(unit, u) \in Int
<1>1. /\ front \in Seq(DbTasks) /\ back \in Seq(DbTasks) /\ trades \in Seq(LogTasks)
      /\ cash \in [Accounts -> Nat] /\ u \in DOMAIN shares /\ shares[u] \in Nat
  BY DEF States, ExchangeTypeOK
<1>2. trades \in Seq(DbTasks)
  <2>1. Seq(LogTasks) \subseteq Seq(DbTasks)
    BY SMT DEF DbTasks
  <2>. QED  BY <1>1, <2>1
<1>3. PICK ow, gt, df, gf, db, gb, pe, inc, re, ri, bo :
          /\ ow = (IF unit = "cash" THEN cash[u] ELSE shares[u]) /\ gt = Gains(unit, trades, u)
          /\ df = Dues(unit, front, u) /\ gf = Gains(unit, front, u)
          /\ db = Dues(unit, back, u) /\ gb = Gains(unit, back, u)
          /\ pe = Pending(unit, u) /\ inc = Incoming(unit, u) /\ re = Leftover(unit, u)
          /\ ri = InRing(unit, u) /\ bo = InBook(unit, u)
  OBVIOUS
<1>4. /\ ow \in Nat /\ gt \in Int /\ df \in Nat /\ gf \in Int /\ db \in Nat /\ gb \in Int
      /\ pe \in Nat /\ inc \in Nat /\ re \in Nat /\ ri \in Nat /\ bo \in Nat
  <2>1. ow \in Nat
    BY <1>1, <1>3
  <2>2. gt \in Int /\ df \in Nat /\ gf \in Int /\ db \in Nat /\ gb \in Int
    BY <1>1, <1>2, <1>3, BatchTypes
  <2>3. pe \in Nat /\ inc \in Nat /\ re \in Nat /\ ri \in Nat /\ bo \in Nat
    BY <1>3, Parts
  <2>. QED  BY <2>1, <2>2, <2>3
<1>5. Initial(unit) \in Int
  BY WalletAssumption DEF Initial
<1>6. Worth(unit, u) = (ow - gt) + pe + inc + re + ri + bo + (df - gf) + (db - gb)
  BY <1>3 DEF Worth, Purse, InFront, InBack, Credit
<1>7. Total(unit, u) = ow + (pe + inc + re) + ri + bo + df + db
  BY <1>3 DEF Total, AtHand, Pending, Incoming, Leftover
<1>8. Earned(unit, u) = Initial(unit) + gt + gf + gb
  BY <1>3 DEF Earned, Initial
<1>. QED  BY <1>4, <1>5, <1>6, <1>7, <1>8 DEF Short

\* What every account is short of, as a formula of the state.
Shortfall ==
    \A unit \in Units, u \in Accounts :
        /\ Worth(unit, u) \in Int /\ Initial(unit) \in Int
        /\ Short(unit, u) = Initial(unit) - Worth(unit, u)
        /\ Total(unit, u) \in Int /\ Earned(unit, u) \in Int

\* It holds before a step and after it.
LEMMA ShortfallNext == (States => Shortfall) /\ (States' => Shortfall')
<1>1. States => Shortfall
  BY ShortIs DEF Shortfall
<1>. QED  BY <1>1, PTL
-----------------------------------------------------------------------------
(* The steps, by what they do.                                             *)

\* What a request takes from an account is what its task holds.
Taken(task) ==
    \/ /\ UNCHANGED walletVars
       /\ \A unit \in Units, u \in Accounts : TaskHolds(unit, task, u) = 0
    \/ /\ task.type = "order" /\ task.side = "buy" /\ task.user \in Accounts
       /\ ReserveCash(task.user, task.price * task.quantity)
    \/ /\ task.type = "order" /\ task.side = "sell" /\ task.user \in Accounts
       /\ ReserveShares(task.user, task.quantity)
Requested == \E task \in Tasks : Handle(task) /\ Taken(task)

Popped(task) ==
    \/ DropTask(task) \/ AcceptOrder(task) \/ RejectOrder(task)
    \/ \E o \in book : CancelOrder(task, o)
    \/ CancelZero(task) \/ CancelNothing(task) \/ SwitchEngine(task)

\* What an order's reservation takes is what its task holds.
LEMMA ReserveTakes ==
    ASSUME NEW c, NEW u \in Accounts, NEW side \in Sides, NEW p \in 0 .. MaxPrice,
           NEW q \in 0 .. MaxQty, Reserve(c, u, side, p, q)
    PROVE  Taken(OrderTask(c, u, side, p, q))
<1>1. CASE side = "buy"
  BY <1>1 DEF Reserve, Taken, OrderTask
<1>2. CASE side = "sell" /\ c = Listed
  BY <1>2 DEF Reserve, Taken, OrderTask
<1>3. CASE side = "sell" /\ c # Listed
  <2>1. q = 0 /\ UNCHANGED walletVars
    BY <1>3 DEF Reserve
  <2>2. \A unit \in Units, v \in Accounts : TaskHolds(unit, OrderTask(c, u, side, p, q), v) = 0
    BY <1>3, <2>1 DEF TaskHolds, Holds, OrderTask
  <2>. QED  BY <2>1, <2>2 DEF Taken
<1>. QED  BY <1>1, <1>2, <1>3 DEF Sides

\* A price that the I/O thread may read is a price.
LEMMA PriceReadType ==
    ASSUME TypeOK, NEW side, NEW p \in PriceRead(side)
    PROVE  p \in 0 .. MaxPrice
  BY LimitBookAssumption DEF PriceRead, Resting, TypeOK, Orders

\* An order's task.
LEMMA OrderIsTask ==
    ASSUME NEW c \in Companies, NEW u \in Users, NEW side \in Sides, NEW p \in 0 .. MaxPrice,
           NEW q \in 0 .. MaxQty
    PROVE  OrderTask(c, u, side, p, q) \in Tasks
  BY DEF Tasks, OrderTask

\* Each kind of request puts a task into the I/O thread's hand, for which it
\* has taken what the task holds.
LEMMA Requests ==
    ASSUME ExchangeTypeOK,
           \/ \E c \in Companies, u \in Accounts, side \in Sides, p \in 0 .. MaxPrice - 1,
                 q \in 0 .. MaxQty : LimitOrder(c, u, side, p, q)
           \/ \E c \in Companies, u \in StressIds, side \in Sides, p \in 0 .. MaxPrice - 1,
                 q \in 0 .. MaxQty : StressOrder(c, u, side, p, q)
           \/ \E u \in Accounts, side \in Sides, q \in 0 .. MaxQty : MarketOrder(u, side, q)
           \/ \E c \in Companies, m \in {mode} \union SwitchTo, n \in 0 .. MaxSeq,
                 u \in Accounts : CancelRequest(c, m, n, u)
           \/ \E m \in SwitchTo : SwitchRequest(m)
    PROVE  Requested
<1>0. Accounts \subseteq Users /\ StressIds \subseteq Users /\ Listed \in Companies
      /\ SwitchTo \subseteq Modes /\ \A u \in StressIds : u \notin Accounts
  BY ExchangeAssumption
<1>a. 0 .. MaxPrice - 1 \subseteq 0 .. MaxPrice
  BY LimitBookAssumption
<1>1. ASSUME NEW c \in Companies, NEW u \in Accounts, NEW side \in Sides,
             NEW p \in 0 .. MaxPrice - 1, NEW q \in 0 .. MaxQty, LimitOrder(c, u, side, p, q)
      PROVE  Requested
  <2>1. OrderTask(c, u, side, p, q) \in Tasks
    BY <1>0, <1>a, OrderIsTask
  <2>2. Taken(OrderTask(c, u, side, p, q))
    BY <1>1, <1>a, ReserveTakes DEF LimitOrder
  <2>. QED  BY <1>1, <2>1, <2>2 DEF LimitOrder, Requested
<1>2. ASSUME NEW c \in Companies, NEW u \in StressIds, NEW side \in Sides,
             NEW p \in 0 .. MaxPrice - 1, NEW q \in 0 .. MaxQty, StressOrder(c, u, side, p, q)
      PROVE  Requested
  <2>1. OrderTask(c, u, side, p, q) \in Tasks
    BY <1>0, <1>a, OrderIsTask
  <2>2. \A unit \in Units, v \in Accounts : TaskHolds(unit, OrderTask(c, u, side, p, q), v) = 0
    BY <1>0 DEF TaskHolds, Holds, OrderTask
  <2>. QED  BY <1>2, <2>1, <2>2 DEF StressOrder, Requested, Taken
<1>3. ASSUME NEW u \in Accounts, NEW side \in Sides, NEW q \in 0 .. MaxQty,
             MarketOrder(u, side, q)
      PROVE  Requested
  <2>1. PICK p \in PriceRead(Opposite(side)) :
             Reserve(Listed, u, side, p, q) /\ Handle(OrderTask(Listed, u, side, p, q))
    BY <1>3 DEF MarketOrder
  <2>2. p \in 0 .. MaxPrice
    BY PriceReadType DEF ExchangeTypeOK
  <2>3. OrderTask(Listed, u, side, p, q) \in Tasks
    BY <1>0, <2>2, OrderIsTask
  <2>4. Taken(OrderTask(Listed, u, side, p, q))
    BY <2>1, <2>2, ReserveTakes
  <2>. QED  BY <2>1, <2>3, <2>4 DEF Requested
<1>4. ASSUME NEW c \in Companies, NEW m \in {mode} \union SwitchTo, NEW n \in 0 .. MaxSeq,
             NEW u \in Accounts, CancelRequest(c, m, n, u)
      PROVE  Requested
  <2>1. CancelTask(c, m, n, u) \in Tasks
    <3>1. m \in Modes /\ n \in Nat /\ u \in Users
      BY <1>0, LimitBookAssumption DEF ExchangeTypeOK
    <3>. QED  BY <3>1 DEF Tasks, CancelTask
  <2>2. \A unit \in Units, v \in Accounts : TaskHolds(unit, CancelTask(c, m, n, u), v) = 0
    BY DEF TaskHolds, CancelTask
  <2>. QED  BY <1>4, <2>1, <2>2 DEF CancelRequest, Requested, Taken
<1>5. ASSUME NEW m \in SwitchTo, SwitchRequest(m)
      PROVE  Requested
  <2>1. SwitchTask(m) \in Tasks
    BY <1>0 DEF Tasks, SwitchTask
  <2>2. \A unit \in Units, v \in Accounts : TaskHolds(unit, SwitchTask(m), v) = 0
    BY DEF TaskHolds, SwitchTask
  <2>. QED  BY <1>5, <2>1, <2>2 DEF SwitchRequest, Requested, Taken
<1>. QED  BY <1>1, <1>2, <1>3, <1>4, <1>5

\* The first task of the ring.
LEMMA HeadIs ==
    ASSUME ExchangeTypeOK, NEW i \in {1} \intersect DOMAIN engine_queue
    PROVE  engine_queue[i] \in Tasks
  BY SeqFacts DEF ExchangeTypeOK

\* Every step of the server.
LEMMA Cases ==
    ASSUME ExchangeTypeOK, [ExchangeNext]_exchangeVars
    PROVE  \/ Requested \/ Push
           \/ \E task \in Tasks : Popped(task)
           \/ \E o \in book : Fill(o) \/ StopAtOwn(o)
           \/ RestOrder \/ FinishOrder
           \/ Swap \/ Commit \/ CommitFails \/ Crash
           \/ UNCHANGED exchangeVars
<1>1. ASSUME EngineStep
      PROVE  \/ \E task \in Tasks : Popped(task)
             \/ \E o \in book : Fill(o) \/ StopAtOwn(o)
             \/ RestOrder \/ FinishOrder
  BY <1>1, HeadIs DEF EngineStep, Popped
<1>. QED  BY <1>1, Requests DEF ExchangeNext
-----------------------------------------------------------------------------
(* The book.                                                               *)

Emptied == book' = {} /\ incoming' = NoOrder /\ counter' = 0

\* A step of the server is a step of the book, leaves it alone, or makes a new one.
LEMMA Drives ==
    ASSUME ExchangeTypeOK, [ExchangeNext]_exchangeVars
    PROVE  \/ [NextWithin(Room)]_vars
           \/ UNCHANGED <<book, incoming, counter>>
           \/ Emptied
<1>. DEFINE Goal == \/ [NextWithin(Room)]_vars
                    \/ UNCHANGED <<book, incoming, counter>>
                    \/ Emptied
<1>1. ASSUME NEW task \in Tasks, AcceptOrder(task)  PROVE Goal
  <2>1. /\ task.user \in Users /\ task.side \in Sides /\ task.price \in 0 .. MaxPrice
        /\ task.quantity \in 0 .. MaxQty
    BY <1>1, TaskKinds DEF AcceptOrder
  <2>2. Submit(task.user, task.side, task.price, task.quantity)
    BY <1>1 DEF AcceptOrder
  <2>3. Accepts(task.price, Room)
    BY <1>1 DEF AcceptOrder, CanProcess
  <2>. QED  BY <2>1, <2>2, <2>3 DEF NextWithin
<1>2. ASSUME NEW task \in Tasks, Popped(task)  PROVE Goal
  <2>1. ASSUME \/ DropTask(task) \/ RejectOrder(task)
               \/ CancelZero(task) \/ CancelNothing(task)
        PROVE  Goal
    BY <2>1 DEF DropTask, RejectOrder, CancelZero, CancelNothing, Refuse, vars
  <2>2. ASSUME NEW o \in book, CancelOrder(task, o)  PROVE Goal
    BY <2>2 DEF CancelOrder, NextWithin
  <2>3. ASSUME SwitchEngine(task)  PROVE Goal
    BY <2>3 DEF SwitchEngine, Pop, Emptied
  <2>. HIDE DEF Goal
  <2>. QED  BY <1>1, <1>2, <2>1, <2>2, <2>3 DEF Popped
<1>3. ASSUME NEW o \in book, Fill(o) \/ StopAtOwn(o)  PROVE Goal
  BY <1>3 DEF Fill, StopAtOwn, NextWithin
<1>4. ASSUME RestOrder \/ FinishOrder  PROVE Goal
  BY <1>4 DEF RestOrder, FinishOrder, NextWithin
<1>5. ASSUME Requested \/ Push \/ Swap \/ Commit \/ CommitFails \/ UNCHANGED exchangeVars
      PROVE  Goal
  BY <1>5 DEF Requested, Handle, Push, Swap, Commit, CommitFails, exchangeVars, engineVars, vars
<1>6. ASSUME Crash  PROVE Goal
  BY <1>6 DEF Crash, Emptied
<1>. QED
  <2>. HIDE DEF Goal
  <2>1. Goal
    BY <1>2, <1>3, <1>4, <1>5, <1>6, Cases
  <2>. QED  BY <2>1 DEF Goal

\* Types, and that the book is not crossed, from the proofs about any book.
LEMMA BookTypes ==
    ASSUME ExchangeTypeOK, NotCrossed, [ExchangeNext]_exchangeVars
    PROVE  TypeOK' /\ NotCrossed'
<1>1. TypeOK
  BY DEF ExchangeTypeOK
<1>2. CASE [NextWithin(Room)]_vars
  BY <1>1, <1>2, TypeStep, NotCrossedStep
<1>3. CASE UNCHANGED <<book, incoming, counter>>
  BY <1>1, <1>3 DEF TypeOK, NotCrossed, Resting
<1>4. CASE Emptied
  BY <1>4, LimitBookAssumption DEF Emptied, TypeOK, NotCrossed, Resting
<1>. QED  BY <1>2, <1>3, <1>4, Drives

\* Arrival numbers stay distinct.
LEMMA DistinctStep ==
    ASSUME States, [ExchangeNext]_exchangeVars
    PROVE  Distinct'
<1>1. /\ book \subseteq Orders /\ incoming \in Orders \union {NoOrder} /\ counter \in Nat
      /\ Distinct /\ \A o \in Orders : o.seq \in Nat
  BY OrderNat DEF States, ExchangeTypeOK, TypeOK
<1>2. ASSUME NEW u \in Users, NEW side \in Sides, NEW p \in 0 .. MaxPrice,
             NEW q \in 0 .. MaxQty, Submit(u, side, p, q)
      PROVE  Distinct'
  <2>1. counter' = counter + 1 /\ incoming'.seq = counter + 1 /\ book' = book
    BY <1>2 DEF Submit
  <2>. QED  BY <1>1, <2>1 DEF Distinct
<1>3. ASSUME NEW o \in book, Match(o)
      PROVE  Distinct'
  <2>. DEFINE q == Smaller(incoming.quantity, o.quantity)
              left == [o EXCEPT !.quantity = @ - q]
  <2>1. /\ book' = (book \ {o}) \union (IF left.quantity = 0 THEN {} ELSE {left})
        /\ incoming' = [incoming EXCEPT !.quantity = @ - q] /\ counter' = counter
        /\ incoming # NoOrder
    BY <1>3 DEF Match, Meets
  <2>2. left.seq = o.seq /\ incoming'.seq = incoming.seq
    BY <1>1, <2>1 DEF Orders
  <2>3. \A x \in book' : x \in book \ {o} \/ x = left
    BY <2>1
  <2>. HIDE DEF left
  <2>. QED  BY <1>1, <2>1, <2>2, <2>3 DEF Distinct
<1>4. ASSUME NEW o \in book, SelfTradeStop(o)
      PROVE  Distinct'
  <2>1. /\ incoming # NoOrder /\ incoming' = [incoming EXCEPT !.quantity = 0]
        /\ book' = book /\ counter' = counter
    BY <1>4 DEF SelfTradeStop, Meets
  <2>2. incoming'.seq = incoming.seq
    BY <1>1, <2>1 DEF Orders
  <2>. QED  BY <1>1, <2>1, <2>2 DEF Distinct
<1>5. CASE Rest
  <2>1. book' = book \union {incoming} /\ incoming' = NoOrder /\ counter' = counter
        /\ incoming # NoOrder
    BY <1>5 DEF Rest
  <2>. QED  BY <1>1, <2>1 DEF Distinct
<1>6. CASE book' \subseteq book /\ incoming' \in {incoming, NoOrder} /\ counter' = counter
  BY <1>1, <1>6 DEF Distinct
<1>7. CASE Emptied
  BY <1>7 DEF Emptied, Distinct
<1>8. CASE [NextWithin(Room)]_vars
  <2>1. CASE Finish \/ Refuse \/ UNCHANGED vars
    BY <1>6, <2>1 DEF Finish, Refuse, vars
  <2>2. ASSUME NEW o \in book, Cancel(o)  PROVE Distinct'
    BY <1>6, <2>2 DEF Cancel
  <2>3. ASSUME NEW n, NEW u, CancelMiss(n, u)  PROVE Distinct'
    BY <1>6, <2>3 DEF CancelMiss
  <2>. QED  BY <1>2, <1>3, <1>4, <1>5, <1>8, <2>1, <2>2, <2>3 DEF NextWithin
<1>9. CASE UNCHANGED <<book, incoming, counter>>
  BY <1>6, <1>9
<1>. QED  BY <1>7, <1>8, <1>9, Drives DEF States

\* The book stays finite.
LEMMA FiniteStep ==
    ASSUME States, [ExchangeNext]_exchangeVars
    PROVE  IsFiniteSet(book')
<1>1. IsFiniteSet(book)
  BY DEF States
<1>2. \A x : IsFiniteSet(book \union {x})
  BY <1>1, FS_AddElement
<1>3. \A d \in SUBSET book : IsFiniteSet(d)
  BY <1>1, FS_Subset
<1>4. ASSUME NEW o \in book, Match(o)  PROVE IsFiniteSet(book')
  <2>1. PICK left : book' = (book \ {o}) \union (IF left.quantity = 0 THEN {} ELSE {left})
    BY <1>4 DEF Match
  <2>2. IsFiniteSet(book \ {o})
    BY <1>3
  <2>3. IsFiniteSet((book \ {o}) \union {left}) /\ (book \ {o}) \union {} = book \ {o}
    BY <2>2, FS_AddElement
  <2>. QED  BY <2>1, <2>2, <2>3
<1>5. CASE Rest
  BY <1>2, <1>5 DEF Rest
<1>6. CASE book' \subseteq book
  BY <1>3, <1>6
<1>7. CASE [NextWithin(Room)]_vars
  BY <1>4, <1>5, <1>6, <1>7 DEF NextWithin, Submit, SelfTradeStop, Cancel, Finish, Refuse, CancelMiss, vars
<1>. QED  BY <1>6, <1>7, Drives DEF States, Emptied

\* Only the step that reports a rejection changes what is left of a rejected order.
LEMMA StoppedStep ==
    ASSUME States, [ExchangeNext]_exchangeVars
    PROVE  Stopped'
<1>0. Stopped /\ incoming \in Orders \union {NoOrder}
  BY DEF States, ExchangeTypeOK, TypeOK
<1>1. CASE UNCHANGED <<out, incoming>>
  BY <1>0, <1>1 DEF Stopped
<1>2. CASE out'.kind # "rejected"
  BY <1>2 DEF Stopped
<1>3. ASSUME NEW o \in book, StopAtOwn(o)  PROVE Stopped'
  <2>1. /\ incoming # NoOrder /\ out' = Rejected(incoming)
        /\ incoming' = [incoming EXCEPT !.quantity = 0]
    BY <1>3 DEF StopAtOwn, SelfTradeStop, Meets
  <2>2. incoming \in Orders /\ incoming' \in Orders /\ incoming'.quantity = 0
    BY <1>0, <2>1, LimitBookAssumption DEF Orders
  <2>. QED  BY <2>1, <2>2, LimitBookAssumption DEF Stopped, Rejected
<1>4. ASSUME NEW o \in book, Fill(o)  PROVE Stopped'
  BY <1>2, <1>4 DEF Fill, Match, Trade
<1>5. CASE RestOrder \/ FinishOrder \/ Crash
  BY <1>2, <1>5 DEF RestOrder, Rest, FinishOrder, Finish, Crash, Nothing
<1>6. ASSUME NEW task \in Tasks, Popped(task)  PROVE Stopped'
  <2>1. CASE AcceptOrder(task) \/ RejectOrder(task) \/ CancelZero(task) \/ CancelNothing(task)
    BY <1>2, <2>1 DEF AcceptOrder, Submit, RejectOrder, Refuse, CancelZero, CancelNothing,
                      Nothing, Refused, Cancelled, NotCancelled
  <2>2. ASSUME NEW o \in book, CancelOrder(task, o)  PROVE Stopped'
    BY <1>2, <2>2 DEF CancelOrder, Cancel, Cancelled
  <2>3. CASE DropTask(task) \/ SwitchEngine(task)
    BY <1>1, <2>3 DEF DropTask, SwitchEngine, vars
  <2>. QED  BY <1>6, <2>1, <2>2, <2>3 DEF Popped
<1>7. CASE Requested \/ Push \/ Swap \/ Commit \/ CommitFails \/ UNCHANGED exchangeVars
  BY <1>1, <1>7 DEF Requested, Handle, Push, Swap, Commit, CommitFails, exchangeVars,
                    engineVars, vars
<1>. QED  BY <1>3, <1>4, <1>5, <1>6, <1>7, Cases DEF States
-----------------------------------------------------------------------------
(* The types of the wallets, the ring and the two vectors.                 *)

\* A refund credits what the order held, and gains nothing.
LEMMA RefundIs ==
    ASSUME NEW o, o.user \in Users, o.side \in Sides, o.price \in Nat, o.quantity \in Nat
    PROVE  /\ Refund(o) \in DbTasks
           /\ \A unit \in Units : \A u :
                 /\ Due(unit, Refund(o), u) = Holds(unit, o, u)
                 /\ LogGain(unit, Refund(o), u) = 0
<1>1. CASE o.side = "buy"
  <2>1. Refund(o) = RefundCash(o.user, o.quantity, o.price)
    BY <1>1 DEF Refund
  <2>2. PICK t : t = RefundCash(o.user, o.quantity, o.price)
    OBVIOUS
  <2>3. /\ t \in DbTasks /\ t.type = "refund_cash" /\ t.user = o.user
        /\ t.quantity = o.quantity /\ t.price = o.price
    BY <2>2 DEF RefundCash, DbTasks
  <2>4. ASSUME NEW unit \in Units, NEW u
        PROVE  Due(unit, t, u) = Holds(unit, o, u) /\ LogGain(unit, t, u) = 0
    BY <1>1, <2>3, RefundCashDue DEF Due, Holds, LogGain, Units
  <2>. QED  BY <2>1, <2>2, <2>3, <2>4
<1>2. CASE o.side = "sell"
  <2>1. Refund(o) = RefundShares(o.user, o.quantity)
    BY <1>2 DEF Refund
  <2>2. PICK t : t = RefundShares(o.user, o.quantity)
    OBVIOUS
  <2>3. /\ t \in DbTasks /\ t.type = "refund_shares" /\ t.user = o.user
        /\ t.quantity = o.quantity
    BY <2>2 DEF RefundShares, DbTasks
  <2>4. ASSUME NEW unit \in Units, NEW u
        PROVE  Due(unit, t, u) = Holds(unit, o, u) /\ LogGain(unit, t, u) = 0
    BY <1>2, <2>3, RefundSharesDue DEF Due, Holds, LogGain, Units
  <2>. QED  BY <2>1, <2>2, <2>3, <2>4
<1>. QED  BY <1>1, <1>2 DEF Sides

\* An order of the book can be refunded.
LEMMA RefundOrder ==
    ASSUME NEW o \in Orders
    PROVE  /\ Refund(o) \in DbTasks
           /\ \A unit \in Units : \A u :
                 /\ Due(unit, Refund(o), u) = Holds(unit, o, u)
                 /\ LogGain(unit, Refund(o), u) = 0
  BY OrderNat, RefundIs

\* What slot 0 held last is an order.
LEMMA FreedOrder ==
    ASSUME States, NEW task, CancelZero(task)
    PROVE  slot0 \in Orders
  BY DEF States, ExchangeTypeOK, CancelZero, NamesFreed

\* The task of an order can be refunded.
LEMMA RefundTask ==
    ASSUME NEW t \in Tasks, t.type = "order"
    PROVE  /\ Refund(t) \in DbTasks
           /\ \A unit \in Units : \A u :
                 /\ Due(unit, Refund(t), u) = TaskHolds(unit, t, u)
                 /\ LogGain(unit, Refund(t), u) = 0
<1>1. t.user \in Users /\ t.side \in Sides /\ t.price \in Nat /\ t.quantity \in Nat
  BY TaskKinds, LimitBookAssumption
<1>. QED  BY <1>1, RefundIs DEF TaskHolds

\* A fill reports the two sides of the trade, at the resting price.
LEMMA TradeIs ==
    ASSUME States, NEW o \in book, Match(o)
    PROVE  /\ out'.quantity = Smaller(incoming.quantity, o.quantity)
           /\ out'.quantity \in Nat /\ out'.price = o.price
           /\ out'.price \in Nat /\ out'.buyer_limit_price \in Nat
           /\ out'.buyer \in Users /\ out'.seller \in Users
           /\ incoming.side = "buy" => /\ out'.buyer = incoming.user /\ out'.seller = o.user
                                       /\ out'.buyer_limit_price = incoming.price
                                       /\ o.price <= incoming.price
           /\ incoming.side = "sell" => /\ out'.buyer = o.user /\ out'.seller = incoming.user
                                        /\ out'.buyer_limit_price = o.price
<1>1. incoming \in Orders /\ incoming.quantity > 0 /\ o \in Orders /\ o.quantity > 0
  BY DEF Match, Meets, States, ExchangeTypeOK, TypeOK
<1>2. /\ out' = Trade(incoming, o, Smaller(incoming.quantity, o.quantity))
      /\ Crosses(incoming.side, incoming.price, o.price)
  BY DEF Match, Meets
<1>3. incoming.quantity \in Nat /\ o.quantity \in Nat
  BY <1>1, OrderNat
<1>4. Smaller(incoming.quantity, o.quantity) \in Nat
  BY <1>3 DEF Smaller
<1>5. /\ incoming.price \in Nat /\ o.price \in Nat /\ incoming.user \in Users /\ o.user \in Users
      /\ incoming.side \in Sides
  BY <1>1, OrderNat
<1>. QED  BY <1>2, <1>4, <1>5 DEF Trade, Crosses, Sides

\* The two tasks of a fill.
LEMMA FillTasks ==
    ASSUME NEW b \in Users, NEW s \in Users, NEW q \in Nat, NEW p \in Nat, NEW l \in Nat
    PROVE  Settle(b, s, q, p, l) \in DbTasks /\ LogTrade(b, s, q, p) \in DbTasks
  BY DEF Settle, LogTrade, DbTasks, LogTasks

\* What the steps do to the two vectors, by type.
LEMMA VectorTypes ==
    ASSUME States, [ExchangeNext]_exchangeVars
    PROVE  front' \in Seq(DbTasks) /\ back' \in Seq(DbTasks)
<1>0. /\ front \in Seq(DbTasks) /\ back \in Seq(DbTasks) /\ <<>> \in Seq(DbTasks)
      /\ book \subseteq Orders
  BY EmptySeq DEF States, ExchangeTypeOK, TypeOK
<1>1. ASSUME NEW task \in Tasks, Popped(task)  PROVE front' \in Seq(DbTasks) /\ back' = back
  <2>1. CASE RejectOrder(task)
    <3>1. Refund(task) \in DbTasks
      BY <2>1, RefundTask DEF RejectOrder
    <3>. QED  BY <1>0, <2>1, <3>1, AppendProperties DEF RejectOrder, dbVars
  <2>2. ASSUME NEW o \in book, CancelOrder(task, o)  PROVE front' \in Seq(DbTasks) /\ back' = back
    <3>1. o \in Orders
      BY <1>0
    <3>2. Refund(o) \in DbTasks
      BY <3>1, RefundOrder
    <3>. QED  BY <1>0, <2>2, <3>2, AppendProperties DEF CancelOrder, dbVars
  <2>3. CASE DropTask(task) \/ AcceptOrder(task) \/ CancelNothing(task) \/ SwitchEngine(task)
    BY <1>0, <2>3 DEF DropTask, AcceptOrder, CancelNothing, SwitchEngine, dbVars
  <2>4. CASE CancelZero(task)
    <3>1. Refund(slot0) \in DbTasks
      BY <2>4, FreedOrder, RefundOrder
    <3>. QED  BY <1>0, <2>4, <3>1, AppendProperties DEF CancelZero, dbVars
  <2>. QED  BY <1>1, <2>1, <2>2, <2>3, <2>4 DEF Popped
<1>2. ASSUME NEW o \in book, Fill(o)  PROVE front' \in Seq(DbTasks) /\ back' = back
  <2>1. PICK a, b : /\ a = Settle(out'.buyer, out'.seller, out'.quantity,
                                  out'.price, out'.buyer_limit_price)
                    /\ b = LogTrade(out'.buyer, out'.seller, out'.quantity, out'.price)
    OBVIOUS
  <2>2. /\ out'.buyer \in Users /\ out'.seller \in Users /\ out'.quantity \in Nat
        /\ out'.price \in Nat /\ out'.buyer_limit_price \in Nat
    BY <1>2, TradeIs DEF Fill
  <2>3. a \in DbTasks /\ b \in DbTasks
    BY <2>1, <2>2, FillTasks
  <2>4. Append(Append(front, a), b) \in Seq(DbTasks)
    BY <1>0, <2>3, AppendProperties
  <2>5. front' \in {front, Append(Append(front, a), b)} /\ back' = back
    BY <1>2, <2>1 DEF Fill, dbVars
  <2>. QED  BY <1>0, <2>4, <2>5
<1>3. CASE FinishOrder
  <2>1. CASE out.kind = "rejected"
    <3>1. out.order \in Orders
      BY <2>1 DEF States, Stopped
    <3>2. Refund(out.order) \in DbTasks
      BY <3>1, RefundOrder
    <3>. QED  BY <1>0, <1>3, <2>1, <3>2, AppendProperties DEF FinishOrder, dbVars
  <2>. QED  BY <1>0, <1>3, <2>1 DEF FinishOrder, dbVars
<1>4. CASE Requested \/ Push \/ RestOrder \/ UNCHANGED exchangeVars
  BY <1>0, <1>4 DEF Requested, Handle, Push, RestOrder, exchangeVars, dbVars,
                    Taken, ReserveCash, ReserveShares, walletVars
<1>5. ASSUME NEW o \in book, StopAtOwn(o)  PROVE front' = front /\ back' = back
  BY <1>5 DEF StopAtOwn, dbVars
<1>6. CASE Swap \/ Commit \/ CommitFails \/ Crash
  BY <1>0, <1>6 DEF Swap, Commit, CommitFails, Crash
<1>. QED  BY <1>0, <1>1, <1>2, <1>3, <1>4, <1>5, <1>6, Cases DEF States

\* What is being pushed, the ring and the mode, by type.
LEMMA RingTypesStep ==
    ASSUME ExchangeTypeOK, [ExchangeNext]_exchangeVars
    PROVE  /\ pending' \in Tasks \union {NoTask}
           /\ engine_queue' \in Seq(Tasks) /\ Len(engine_queue') <= QueueSize
           /\ mode' \in Modes /\ listening' \in BOOLEAN
<1>. DEFINE Goal == /\ pending' \in Tasks \union {NoTask}
                    /\ engine_queue' \in Seq(Tasks) /\ Len(engine_queue') <= QueueSize
                    /\ mode' \in Modes /\ listening' \in BOOLEAN
<1>0. /\ pending \in Tasks \union {NoTask} /\ engine_queue \in Seq(Tasks)
      /\ Len(engine_queue) <= QueueSize /\ Len(engine_queue) \in Nat
      /\ mode \in Modes /\ listening \in BOOLEAN
  BY SeqFacts DEF ExchangeTypeOK
<1>1. ASSUME Requested  PROVE Goal
  BY <1>0, <1>1 DEF Requested, Handle, engineVars
<1>2. ASSUME Push  PROVE Goal
  <2>1. pending \in Tasks /\ Len(engine_queue) < QueueSize
    BY <1>0, <1>2 DEF Push
  <2>2. /\ Append(engine_queue, pending) \in Seq(Tasks)
        /\ Len(Append(engine_queue, pending)) = Len(engine_queue) + 1
    BY <1>0, <2>1, AppendProperties
  <2>. QED  BY <1>0, <1>2, <2>1, <2>2, ExchangeAssumption DEF Push
<1>3. ASSUME NEW task \in Tasks, Popped(task)  PROVE Goal
  <2>1. Pop(task) /\ pending' = pending
    BY <1>3 DEF Popped, DropTask, AcceptOrder, RejectOrder, CancelOrder, CancelZero, CancelNothing,
                SwitchEngine, ioVars
  <2>2. engine_queue # <<>> /\ engine_queue' = Tail(engine_queue)
    BY <2>1 DEF Pop
  <2>3. engine_queue' \in Seq(Tasks) /\ Len(engine_queue') = Len(engine_queue) - 1
    BY <1>0, <2>2, HeadTailProperties
  <2>4. mode' \in Modes /\ listening' \in BOOLEAN
    <3>1. CASE SwitchEngine(task)
      BY <1>0, <3>1, TaskKinds DEF SwitchEngine
    <3>. QED  BY <1>0, <1>3, <3>1 DEF Popped, DropTask, AcceptOrder, RejectOrder, CancelOrder,
                                      CancelZero, CancelNothing
  <2>5. Len(engine_queue') <= QueueSize
    BY <1>0, <2>3, ExchangeAssumption
  <2>. QED  BY <1>0, <2>1, <2>3, <2>4, <2>5
<1>4. ASSUME \/ \E o \in book : Fill(o) \/ StopAtOwn(o)
             \/ RestOrder \/ FinishOrder \/ Swap \/ Commit \/ CommitFails
             \/ UNCHANGED exchangeVars
      PROVE  Goal
  BY <1>0, <1>4 DEF Fill, StopAtOwn, RestOrder, FinishOrder, Swap, Commit, CommitFails,
                    exchangeVars, ioVars, engineVars
<1>5. ASSUME Crash  PROVE Goal
  <2>1. <<>> \in Seq(Tasks) /\ Len(<<>>) = 0
    BY EmptySeq
  <2>. QED  BY <1>5, <2>1, ExchangeAssumption DEF Crash, Modes
<1>. QED
  <2>. HIDE DEF Goal
  <2>1. Goal
    BY <1>1, <1>2, <1>3, <1>4, <1>5, Cases
  <2>. QED  BY <2>1 DEF Goal

\* Balances stay whole numbers that are not negative.
LEMMA WalletTypes ==
    ASSUME States, [ExchangeNext]_exchangeVars
    PROVE  /\ cash' \in [Accounts -> Nat]
           /\ Accounts \subseteq DOMAIN shares' /\ DOMAIN shares' \subseteq Users
           /\ \A u \in DOMAIN shares' : shares'[u] \in Nat
           /\ trades' \in Seq(LogTasks)
<1>. DEFINE Goal == /\ cash' \in [Accounts -> Nat]
                    /\ Accounts \subseteq DOMAIN shares' /\ DOMAIN shares' \subseteq Users
                    /\ \A u \in DOMAIN shares' : shares'[u] \in Nat
                    /\ trades' \in Seq(LogTasks)
<1>0. /\ cash \in [Accounts -> Nat] /\ Accounts \subseteq DOMAIN shares
      /\ DOMAIN shares \subseteq Users /\ \A u \in DOMAIN shares : shares[u] \in Nat
      /\ trades \in Seq(LogTasks) /\ back \in Seq(DbTasks)
  BY DEF States, ExchangeTypeOK
<1>1. ASSUME UNCHANGED walletVars  PROVE Goal
  BY <1>0, <1>1 DEF walletVars
<1>2. ASSUME NEW u \in Accounts, NEW c \in Nat, ReserveCash(u, c)  PROVE Goal
  <2>1. cash[u] \in Nat /\ cash[u] >= c /\ cash' = [cash EXCEPT ![u] = cash[u] - c]
    BY <1>0, <1>2 DEF ReserveCash
  <2>2. cash[u] - c \in Nat
    BY <2>1
  <2>3. cash' \in [Accounts -> Nat]
    BY <1>0, <2>1, <2>2
  <2>. QED  BY <1>0, <1>2, <2>3 DEF ReserveCash
<1>3. ASSUME NEW u \in Accounts, NEW q \in Nat, ReserveShares(u, q)  PROVE Goal
  <2>1. shares[u] \in Nat /\ shares[u] >= q /\ shares' = [shares EXCEPT ![u] = shares[u] - q]
    BY <1>0, <1>3 DEF ReserveShares
  <2>2. shares[u] - q \in Nat
    BY <2>1
  <2>3. DOMAIN shares' = DOMAIN shares /\ \A v \in DOMAIN shares' : shares'[v] \in Nat
    BY <1>0, <2>1, <2>2
  <2>. QED  BY <1>0, <1>3, <2>3 DEF ReserveShares
<1>4. ASSUME Requested  PROVE Goal
  <2>1. PICK task \in Tasks : Taken(task)
    BY <1>4 DEF Requested
  <2>2. task.type = "order" => task.quantity \in Nat /\ task.price \in Nat
    BY TaskKinds, LimitBookAssumption
  <2>3. task.type = "order" => task.price * task.quantity \in Nat
    BY <2>2, Product
  <2>. HIDE DEF Goal
  <2>. QED  BY <1>1, <1>2, <1>3, <2>1, <2>2, <2>3 DEF Taken
<1>5. ASSUME Commit  PROVE Goal
  <2>. DEFINE owners == DOMAIN shares \union UNION {Credited(back[i]) : i \in DOMAIN back}
  <2>1. /\ cash' = [u \in Accounts |-> cash[u] + CashDues(back, u)]
        /\ shares' = [u \in owners |-> (IF u \in DOMAIN shares THEN shares[u] ELSE 0)
                                     + SharesDues(back, u)]
        /\ trades' = trades \o Logged(back)
    BY <1>5 DEF Commit, ApplyBatch
  <2>2. \A u : CashDues(back, u) \in Nat /\ SharesDues(back, u) \in Nat
    <3>1. \A u : Dues("cash", back, u) \in Nat /\ Dues("shares", back, u) \in Nat
      BY <1>0, BatchTypes DEF Units
    <3>. QED  BY <3>1 DEF Dues
  <2>3. cash' \in [Accounts -> Nat]
    BY <1>0, <2>1, <2>2
  <2>4. \A i \in DOMAIN back : Credited(back[i]) \subseteq Users
    BY <1>0, SeqFacts, DueNat
  <2>5. DOMAIN shares \subseteq owners /\ owners \subseteq Users
    BY <1>0, <2>4
  <2>. HIDE DEF owners
  <2>6. DOMAIN shares' = owners /\ \A u \in owners : shares'[u] \in Nat
    BY <1>0, <2>1, <2>2
  <2>7. Logged(back) \in Seq(LogTasks)
    BY <1>0, LoggedGains DEF Units
  <2>8. trades' \in Seq(LogTasks)
    BY <1>0, <2>1, <2>7, ConcatProperties
  <2>. QED  BY <1>0, <2>3, <2>5, <2>6, <2>8
<1>6. ASSUME \/ Push \/ \E task \in Tasks : Popped(task)
             \/ \E o \in book : Fill(o) \/ StopAtOwn(o)
             \/ RestOrder \/ FinishOrder \/ Swap \/ CommitFails \/ Crash
             \/ UNCHANGED exchangeVars
      PROVE  UNCHANGED walletVars
  BY <1>6 DEF Push, Popped, DropTask, AcceptOrder, RejectOrder, CancelOrder, CancelZero, CancelNothing,
              SwitchEngine, Fill, StopAtOwn, RestOrder, FinishOrder, Swap, CommitFails, Crash,
              exchangeVars, dbVars
<1>. QED
  <2>. HIDE DEF Goal
  <2>1. Goal
    BY <1>1, <1>4, <1>5, <1>6, Cases DEF States
  <2>. QED  BY <2>1 DEF Goal

\* A step leaves what slot 0 holds alone, or puts an order into it.
LEMMA SlotTypes ==
    ASSUME States, [ExchangeNext]_exchangeVars
    PROVE  slot0' \in Orders \union {NoOrder} /\ zeroCancelled' \in BOOLEAN
<1>0. /\ slot0 \in Orders \union {NoOrder} /\ zeroCancelled \in BOOLEAN
      /\ incoming \in Orders \union {NoOrder}
  BY DEF States, ExchangeTypeOK, TypeOK
<1>1. ASSUME NEW o \in book, Fill(o)
      PROVE  slot0' \in Orders \union {NoOrder} /\ zeroCancelled' = zeroCancelled
  <2>1. CASE slot0 = o
    <3>1. PICK q : q = out'.quantity
      OBVIOUS
    <3>2. q = Smaller(incoming.quantity, o.quantity) /\ q \in Nat
      BY <1>1, <3>1, TradeIs DEF Fill
    <3>3. o \in Orders /\ o.quantity \in 0 .. MaxQty
      BY DEF States, ExchangeTypeOK, TypeOK, Orders
    <3>4. incoming.quantity \in Nat
      BY <1>1, <1>0, OrderNat DEF Fill, Match, Meets
    <3>5. o.quantity - q \in 0 .. MaxQty
      BY <3>2, <3>3, <3>4, LimitBookAssumption DEF Smaller
    <3>6. [o EXCEPT !.quantity = @ - q] \in Orders
      BY <3>3, <3>5 DEF Orders
    <3>. QED  BY <1>1, <2>1, <3>1, <3>6 DEF Fill
  <2>. QED  BY <1>0, <1>1, <2>1 DEF Fill
<1>2. ASSUME RestOrder
      PROVE  slot0' \in Orders \union {NoOrder} /\ zeroCancelled' = zeroCancelled
  BY <1>0, <1>2 DEF RestOrder
<1>3. ASSUME NEW task \in Tasks, Popped(task)
      PROVE  slot0' \in {slot0, NoOrder} /\ zeroCancelled' \in {zeroCancelled, TRUE}
  BY <1>3 DEF Popped, DropTask, AcceptOrder, RejectOrder, CancelOrder, CancelZero, CancelNothing,
              SwitchEngine, slotVars
<1>4. ASSUME \/ Requested \/ Push \/ FinishOrder \/ \E o \in book : StopAtOwn(o)
             \/ Swap \/ Commit \/ CommitFails \/ Crash \/ UNCHANGED exchangeVars
      PROVE  slot0' \in {slot0, NoOrder} /\ zeroCancelled' = zeroCancelled
  BY <1>4 DEF Requested, Handle, Push, FinishOrder, StopAtOwn, Swap, Commit, CommitFails, Crash,
              exchangeVars, engineVars, slotVars
<1>. QED  BY <1>0, <1>1, <1>2, <1>3, <1>4, Cases DEF States

\* A cancel of id 0 is not undone.
LEMMA ZeroStays ==
    ASSUME States, [ExchangeNext]_exchangeVars, zeroCancelled
    PROVE  zeroCancelled'
<1>1. ASSUME NEW task \in Tasks, Popped(task)  PROVE FALSE
  BY <1>1 DEF Popped, DropTask, AcceptOrder, RejectOrder, CancelOrder, CancelZero, CancelNothing,
              SwitchEngine, Pop
<1>2. ASSUME \/ Requested \/ Push \/ \E o \in book : Fill(o) \/ StopAtOwn(o)
             \/ RestOrder \/ FinishOrder
             \/ Swap \/ Commit \/ CommitFails \/ Crash \/ UNCHANGED exchangeVars
      PROVE  zeroCancelled' = zeroCancelled
  BY <1>2 DEF Requested, Handle, Push, Fill, StopAtOwn, RestOrder, FinishOrder, Swap, Commit,
              CommitFails, Crash, exchangeVars, engineVars, slotVars
<1>. QED  BY <1>1, <1>2, Cases DEF States

\* The invariant about the states is inductive.
LEMMA StatesStep ==
    ASSUME States, [ExchangeNext]_exchangeVars
    PROVE  States'
<1>1. ExchangeTypeOK /\ NotCrossed
  BY DEF States
<1>2. ExchangeTypeOK'
  BY <1>1, BookTypes, VectorTypes, RingTypesStep, WalletTypes, SlotTypes DEF ExchangeTypeOK
<1>. QED  BY <1>1, <1>2, BookTypes, DistinctStep, FiniteStep, StoppedStep DEF States
-----------------------------------------------------------------------------
(* What a fill moves.                                                      *)

\* What q of an order holds of u.
Part(unit, o, q, u) ==
    IF o.user # u THEN 0
    ELSE IF unit = "cash" THEN IF o.side = "buy" THEN o.price * q ELSE 0
    ELSE IF o.side = "sell" THEN q ELSE 0

\* Multiplication distributes over subtraction.
LEMMA Distribute ==
    \A a, b, c \in Nat : /\ a * (b - c) = a * b - a * c /\ (b - c) * a = a * b - a * c
                         /\ a * b \in Nat /\ a * c \in Nat /\ a * b = b * a /\ a * 0 = 0
  OBVIOUS

\* An order that q of is filled holds so much less.
LEMMA HoldsLess ==
    ASSUME NEW o \in Orders, NEW q \in Nat, q <= o.quantity, NEW x,
           x = [o EXCEPT !.quantity = @ - q], NEW unit \in Units, NEW u
    PROVE  /\ Holds(unit, x, u) = Holds(unit, o, u) - Part(unit, o, q, u)
           /\ Part(unit, o, q, u) \in Nat
           /\ x.quantity = o.quantity - q
           /\ x.quantity = 0 => Holds(unit, x, u) = 0
<1>1. /\ x.user = o.user /\ x.side = o.side /\ x.price = o.price
      /\ x.quantity = o.quantity - q
  BY DEF Orders
<1>2. o.price \in Nat /\ o.quantity \in Nat
  BY OrderNat
<1>3. /\ o.price * x.quantity = o.price * o.quantity - o.price * q
      /\ o.price * q \in Nat /\ o.price * o.quantity \in Nat
      /\ x.quantity = 0 => o.price * x.quantity = 0
  BY <1>1, <1>2, Distribute
<1>4. Part(unit, o, q, u) \in Nat
  BY <1>3 DEF Part
<1>5. x.quantity = 0 => Holds(unit, x, u) = 0
  BY <1>1, <1>3 DEF Holds
<1>6. Holds(unit, x, u) = Holds(unit, o, u) - Part(unit, o, q, u)
  BY <1>1, <1>2, <1>3 DEF Holds, Part
<1>. QED  BY <1>1, <1>4, <1>5, <1>6

\* What the two tasks of a fill credit, less what the trade gains.
Settled(unit, b, s, q, l, u) ==
    IF u = b THEN (IF unit = "cash" THEN l * q ELSE 0)
    ELSE IF u = s THEN (IF unit = "cash" THEN 0 ELSE q)
    ELSE 0

\* The buyer is owed what its limit reserved, less the price it paid; the
\* seller gave its shares and is owed the price.
LEMMA FillCredits ==
    ASSUME NEW b \in Users, NEW s \in Users, b # s, NEW q \in Nat, NEW p \in Nat,
           NEW l \in Nat, p <= l, NEW unit \in Units, NEW u
    PROVE  /\ Due(unit, Settle(b, s, q, p, l), u) - LogGain(unit, LogTrade(b, s, q, p), u)
                = Settled(unit, b, s, q, l, u)
           /\ LogGain(unit, Settle(b, s, q, p, l), u) = 0
           /\ Due(unit, LogTrade(b, s, q, p), u) = 0
           /\ Settled(unit, b, s, q, l, u) \in Nat
<1>1. PICK t, g : t = Settle(b, s, q, p, l) /\ g = LogTrade(b, s, q, p)
  OBVIOUS
<1>2. /\ t.type = "settle" /\ t.buyer = b /\ t.seller = s /\ t.quantity = q /\ t.price = p
      /\ t.limit = l
      /\ g.type = "log" /\ g.buyer = b /\ g.seller = s /\ g.quantity = q /\ g.price = p
  BY <1>1 DEF Settle, LogTrade
<1>3. LogGain(unit, t, u) = 0
  BY <1>2 DEF LogGain
<1>4. Due(unit, g, u) = 0
  BY <1>2, LogDue DEF Due
<1>5. /\ p * q \in Nat /\ l * q \in Nat /\ (l - p) * q = l * q - p * q
      /\ l = p => l * q = p * q
  BY Distribute
<1>6. LogGain(unit, g, u) = Gain(unit, g, u)
  BY <1>2 DEF LogGain
<1>7. CASE unit = "cash"
  <2>1. Due(unit, t, u) = (IF u = s THEN p * q ELSE 0)
                        + (IF u = b /\ l > p THEN (l - p) * q ELSE 0)
    BY <1>2, <1>7, SettleDue DEF Due
  <2>2. Gain(unit, g, u) = (IF u = s THEN p * q ELSE 0) - (IF u = b THEN p * q ELSE 0)
    BY <1>2, <1>7 DEF Gain
  <2>3. Due(unit, t, u) - Gain(unit, g, u) = Settled(unit, b, s, q, l, u)
    <3>1. CASE u = b
      BY <1>5, <1>7, <2>1, <2>2, <3>1 DEF Settled
    <3>2. CASE u = s
      BY <1>5, <1>7, <2>1, <2>2, <3>2 DEF Settled
    <3>3. CASE u # b /\ u # s
      BY <2>1, <2>2, <3>3 DEF Settled
    <3>. QED  BY <3>1, <3>2, <3>3
  <2>4. Settled(unit, b, s, q, l, u) \in Nat
    BY <1>5, <1>7 DEF Settled
  <2>. QED  BY <1>1, <1>3, <1>4, <1>6, <2>3, <2>4
<1>8. CASE unit = "shares"
  <2>1. Due(unit, t, u) = (IF u = b THEN q ELSE 0)
    BY <1>2, <1>8, SettleDue DEF Due
  <2>2. Gain(unit, g, u) = (IF u = b THEN q ELSE 0) - (IF u = s THEN q ELSE 0)
    BY <1>2, <1>8 DEF Gain
  <2>3. Due(unit, t, u) - Gain(unit, g, u) = Settled(unit, b, s, q, l, u)
    BY <1>8, <2>1, <2>2 DEF Settled
  <2>4. Settled(unit, b, s, q, l, u) \in Nat
    BY <1>8 DEF Settled
  <2>. QED  BY <1>1, <1>3, <1>4, <1>6, <2>3, <2>4
<1>. QED  BY <1>7, <1>8 DEF Units

-----------------------------------------------------------------------------
(* What the steps do to the parts.                                         *)

\* A part changes only with the variable it is about.
LEMMA Untouched ==
    ASSUME States, States', NEW unit \in Units, NEW u \in Accounts
    PROVE  /\ UNCHANGED walletVars => Purse(unit, u)' = Purse(unit, u)
           /\ UNCHANGED pending => Pending(unit, u)' = Pending(unit, u)
           /\ UNCHANGED incoming => Incoming(unit, u)' = Incoming(unit, u)
           /\ UNCHANGED out => Leftover(unit, u)' = Leftover(unit, u)
           /\ UNCHANGED engine_queue => InRing(unit, u)' = InRing(unit, u)
           /\ UNCHANGED book => InBook(unit, u)' = InBook(unit, u)
           /\ UNCHANGED front => InFront(unit, u)' = InFront(unit, u)
           /\ UNCHANGED back => InBack(unit, u)' = InBack(unit, u)
<1>1. UNCHANGED walletVars => Purse(unit, u)' = Purse(unit, u)
  BY DEF walletVars, Purse
<1>2. /\ UNCHANGED pending => Pending(unit, u)' = Pending(unit, u)
      /\ UNCHANGED incoming => Incoming(unit, u)' = Incoming(unit, u)
      /\ UNCHANGED out => Leftover(unit, u)' = Leftover(unit, u)
  BY DEF Pending, Incoming, Leftover
<1>3. /\ UNCHANGED engine_queue => InRing(unit, u)' = InRing(unit, u)
      /\ UNCHANGED book => InBook(unit, u)' = InBook(unit, u)
  BY DEF InRing, InBook
<1>4. /\ UNCHANGED front => InFront(unit, u)' = InFront(unit, u)
      /\ UNCHANGED back => InBack(unit, u)' = InBack(unit, u)
  BY DEF InFront, InBack
<1>. QED  BY <1>1, <1>2, <1>3, <1>4

\* The sums over the next ring, book and vectors.
LEMMA NextSums ==
    ASSUME States', NEW unit, NEW u
    PROVE  /\ InRing(unit, u)' = RingSum(unit, engine_queue', u)
           /\ InBook(unit, u)' = BookSum(unit, book', u)
           /\ InFront(unit, u)' = Dues(unit, front', u) - Gains(unit, front', u)
           /\ InBack(unit, u)' = Dues(unit, back', u) - Gains(unit, back', u)
           /\ engine_queue' \in Seq(Tasks) /\ book' \in SUBSET Orders
           /\ front' \in Seq(DbTasks) /\ back' \in Seq(DbTasks)
<1>1. PICK q, b : q = engine_queue' /\ b = book'
  OBVIOUS
<1>2. q \in Seq(Tasks) /\ b \in SUBSET Orders
      /\ front' \in Seq(DbTasks) /\ back' \in Seq(DbTasks)
  BY <1>1 DEF States, ExchangeTypeOK, TypeOK
<1>3. DOMAIN q = 1 .. Len(q)
  BY <1>2, SeqFacts
<1>4. InRing(unit, u)' = RingSum(unit, q, u)
  <2>1. RingAt(unit, q, u) = [i \in DOMAIN q |-> TaskHolds(unit, q[i], u)]
    BY <1>3 DEF RingAt
  <2>2. InRing(unit, u)' = SumFunctionOnSet(RingAt(unit, q, u), DOMAIN RingAt(unit, q, u))
    BY <1>1, <2>1 DEF InRing, SumFunction
  <2>3. DOMAIN RingAt(unit, q, u) = 1 .. Len(q)
    BY DEF RingAt
  <2>. QED  BY <2>2, <2>3 DEF RingSum
<1>5. InBook(unit, u)' = BookSum(unit, b, u)
  BY <1>1 DEF InBook, BookSum, BookAt, SumFunction
<1>6. /\ InFront(unit, u)' = Dues(unit, front', u) - Gains(unit, front', u)
      /\ InBack(unit, u)' = Dues(unit, back', u) - Gains(unit, back', u)
  BY DEF InFront, InBack, Credit
<1>. QED  BY <1>1, <1>2, <1>4, <1>5, <1>6
\* The engine thread takes the first task out of the ring.
LEMMA PopMoves ==
    ASSUME States, States', NEW task, Pop(task), NEW unit \in Units, NEW u \in Accounts
    PROVE  /\ InRing(unit, u)' = InRing(unit, u) - TaskHolds(unit, task, u)
           /\ TaskHolds(unit, task, u) \in Nat
           /\ Incoming(unit, u) = 0 /\ Leftover(unit, u) = 0 /\ task \in Tasks
<1>1. PICK q : q = engine_queue
  OBVIOUS
<1>2. q \in Seq(Tasks) /\ q # <<>> /\ task = Head(q) /\ engine_queue' = Tail(q)
  BY <1>1 DEF Pop, States, ExchangeTypeOK
<1>3. RingSum(unit, q, u) = TaskHolds(unit, task, u) + RingSum(unit, Tail(q), u)
  BY <1>2, RingTail
<1>4. InRing(unit, u) = RingSum(unit, q, u) /\ InRing(unit, u)' = RingSum(unit, Tail(q), u)
  BY <1>1, <1>2, RingBookSums, NextSums
<1>5. Incoming(unit, u) = 0 /\ Leftover(unit, u) = 0
  BY DEF Pop, Incoming, Leftover, States, Stopped
<1>6. task \in Tasks
  BY <1>2, HeadTailProperties
<1>7. TaskHolds(unit, task, u) \in Nat /\ RingSum(unit, Tail(q), u) \in Nat
  BY <1>2, <1>6, TaskHoldsNat, RingTypes, HeadTailProperties
<1>. QED  BY <1>3, <1>4, <1>5, <1>6, <1>7

\* The engine thread appends a task for the worker.
LEMMA FrontMoves ==
    ASSUME States, States', NEW t \in DbTasks, front' = Append(front, t),
           NEW unit \in Units, NEW u \in Accounts
    PROVE  InFront(unit, u)' = InFront(unit, u) + Due(unit, t, u) - LogGain(unit, t, u)
<1>1. PICK f : f = front
  OBVIOUS
<1>2. f \in Seq(DbTasks) /\ front' = Append(f, t)
  BY <1>1 DEF States, ExchangeTypeOK
<1>3. /\ Dues(unit, Append(f, t), u) = Dues(unit, f, u) + Due(unit, t, u)
      /\ Gains(unit, Append(f, t), u) = Gains(unit, f, u) + LogGain(unit, t, u)
      /\ Dues(unit, f, u) \in Nat /\ Gains(unit, f, u) \in Int
      /\ Due(unit, t, u) \in Nat /\ LogGain(unit, t, u) \in Int
  BY <1>2, BatchAppend, BatchTypes, DueNat
<1>4. InFront(unit, u)' = Dues(unit, Append(f, t), u) - Gains(unit, Append(f, t), u)
  BY <1>2, NextSums
<1>5. InFront(unit, u) = Dues(unit, f, u) - Gains(unit, f, u)
  BY <1>1 DEF InFront, Credit
<1>. QED  BY <1>3, <1>4, <1>5

\* A request takes from the account what its task holds.
LEMMA RequestKeeps ==
    ASSUME States, States', Requested, NEW unit \in Units, NEW u \in Accounts
    PROVE  Worth(unit, u)' = Worth(unit, u)
<1>1. PICK task \in Tasks : Handle(task) /\ Taken(task)
  BY DEF Requested
<1>2. Pending(unit, u) = 0 /\ Pending(unit, u)' = TaskHolds(unit, task, u)
      /\ TaskHolds(unit, task, u) \in Nat
  BY <1>1, TaskHoldsNat, NoTaskAssumption DEF Handle, Pending
<1>3. UNCHANGED <<incoming, out, engine_queue, book, front, back>>
  BY <1>1 DEF Handle, engineVars, vars
<1>4. Purse(unit, u)' = Purse(unit, u) - TaskHolds(unit, task, u)
  <2>1. CASE UNCHANGED walletVars /\ \A n \in Units, v \in Accounts : TaskHolds(n, task, v) = 0
    <3>1. Purse(unit, u)' = Purse(unit, u) /\ Purse(unit, u) \in Int
      BY <2>1, Untouched, Parts
    <3>. QED  BY <2>1, <3>1
  <2>2. /\ u \in DOMAIN shares /\ cash \in [Accounts -> Nat] /\ shares[u] \in Nat
        /\ Gains(unit, trades, u) \in Int
    <3>1. trades \in Seq(LogTasks)
      BY DEF States, ExchangeTypeOK
    <3>2. trades \in Seq(DbTasks)
      <4>1. Seq(LogTasks) \subseteq Seq(DbTasks)
        BY SMT DEF DbTasks
      <4>. QED  BY <3>1, <4>1
    <3>. QED  BY <3>2, BatchTypes DEF States, ExchangeTypeOK
  <2>3. CASE /\ task.type = "order" /\ task.side = "buy" /\ task.user \in Accounts
             /\ ReserveCash(task.user, task.price * task.quantity)
    <3>1. PICK c, v : c = task.price * task.quantity /\ v = task.user
      OBVIOUS
    <3>2. cash' = [cash EXCEPT ![v] = cash[v] - c] /\ shares' = shares /\ trades' = trades
      BY <2>3, <3>1 DEF ReserveCash
    <3>3. TaskHolds(unit, task, u) = IF v = u /\ unit = "cash" THEN c ELSE 0
      BY <2>3, <3>1 DEF TaskHolds, Holds
    <3>4. c \in Nat
      BY <2>3, <3>1, TaskKinds, LimitBookAssumption, Product
    <3>5. cash'[u] = IF v = u THEN cash[u] - c ELSE cash[u]
      BY <2>2, <3>2
    <3>6. Purse(unit, u)' = (IF unit = "cash" THEN cash'[u] ELSE shares[u]) - Gains(unit, trades, u)
      BY <3>2 DEF Purse
    <3>. QED  BY <2>2, <3>3, <3>4, <3>5, <3>6 DEF Purse
  <2>4. CASE /\ task.type = "order" /\ task.side = "sell" /\ task.user \in Accounts
             /\ ReserveShares(task.user, task.quantity)
    <3>1. PICK c, v : c = task.quantity /\ v = task.user
      OBVIOUS
    <3>2. shares' = [shares EXCEPT ![v] = shares[v] - c] /\ cash' = cash /\ trades' = trades
      BY <2>4, <3>1 DEF ReserveShares
    <3>3. TaskHolds(unit, task, u) = IF v = u /\ unit = "shares" THEN c ELSE 0
      BY <2>4, <3>1 DEF TaskHolds, Holds, Units
    <3>4. c \in Nat
      BY <2>4, <3>1, TaskKinds, LimitBookAssumption
    <3>5. shares'[u] = IF v = u THEN shares[u] - c ELSE shares[u]
      BY <2>2, <3>2
    <3>6. Purse(unit, u)' = (IF unit = "cash" THEN cash[u] ELSE shares'[u]) - Gains(unit, trades, u)
      BY <3>2 DEF Purse
    <3>. QED  BY <2>2, <3>3, <3>4, <3>5, <3>6 DEF Purse, Units
  <2>. QED  BY <1>1, <2>1, <2>3, <2>4 DEF Taken
<1>5. Purse(unit, u) \in Int
  BY Parts
<1>. QED  BY <1>2, <1>3, <1>4, <1>5, Untouched, Parts DEF Worth

\* The task moves from the I/O thread to the ring.
LEMMA PushKeeps ==
    ASSUME States, States', Push, NEW unit \in Units, NEW u \in Accounts
    PROVE  Worth(unit, u)' = Worth(unit, u)
<1>1. PICK q, t : q = engine_queue /\ t = pending
  OBVIOUS
<1>2. /\ q \in Seq(Tasks) /\ t \in Tasks /\ t # NoTask /\ engine_queue' = Append(q, t)
      /\ pending' = NoTask
      /\ UNCHANGED <<incoming, out, book, front, back, walletVars>>
  BY <1>1 DEF Push, States, ExchangeTypeOK, vars, dbVars
<1>3. RingSum(unit, Append(q, t), u) = RingSum(unit, q, u) + TaskHolds(unit, t, u)
  BY <1>2, RingAppend
<1>4. InRing(unit, u) = RingSum(unit, q, u) /\ InRing(unit, u)' = RingSum(unit, Append(q, t), u)
  BY <1>1, <1>2, RingBookSums, NextSums
<1>5. Pending(unit, u) = TaskHolds(unit, t, u) /\ Pending(unit, u)' = 0
  BY <1>1, <1>2 DEF Pending
<1>. QED  BY <1>2, <1>3, <1>4, <1>5, Untouched, Parts DEF Worth

\* Accepting or rejecting an order, cancelling one, or finding nothing to
\* cancel, loses nothing.
LEMMA PoppedKeeps ==
    ASSUME States, States', NEW task \in Tasks, NEW unit \in Units, NEW u \in Accounts,
           \/ AcceptOrder(task) \/ RejectOrder(task)
           \/ \E o \in book : CancelOrder(task, o)
           \/ CancelNothing(task)
           \/ SwitchEngine(task) /\ mode' = mode
    PROVE  Worth(unit, u)' = Worth(unit, u)
<1>1. CASE AcceptOrder(task)
  <2>1. /\ Pop(task) /\ task.type = "order"
        /\ incoming' = [seq |-> counter + 1, user |-> task.user, side |-> task.side,
                        price |-> task.price, quantity |-> task.quantity]
        /\ out' = Nothing /\ book' = book
        /\ UNCHANGED <<pending, front, back, walletVars>>
    BY <1>1 DEF AcceptOrder, Submit, ioVars, dbVars
  <2>2. incoming' # NoOrder
    <3>1. incoming' \in Orders
      <4>1. /\ task.user \in Users /\ task.side \in Sides /\ task.price \in 0 .. MaxPrice
            /\ task.quantity \in 0 .. MaxQty
        BY <2>1, TaskKinds
      <4>2. task.price < MaxPrice
        BY <1>1 DEF AcceptOrder, CanProcess, Accepts
      <4>3. counter + 1 \in Nat \ {0}
        BY LimitBookAssumption DEF States, ExchangeTypeOK, TypeOK
      <4>. QED  BY <2>1, <4>1, <4>2, <4>3, LimitBookAssumption DEF Orders
    <3>. QED  BY <3>1, LimitBookAssumption
  <2>3. Incoming(unit, u)' = TaskHolds(unit, task, u)
    BY <2>1, <2>2 DEF Incoming, TaskHolds, Holds
  <2>4. Leftover(unit, u)' = 0
    BY <2>1 DEF Leftover, Nothing
  <2>. QED  BY <2>1, <2>3, <2>4, PopMoves, Untouched, Parts DEF Worth
<1>2. CASE RejectOrder(task)
  <2>1. /\ Pop(task) /\ task.type = "order" /\ front' = Append(front, Refund(task))
        /\ out' = Refused /\ UNCHANGED <<book, incoming, pending, back, walletVars>>
    BY <1>2 DEF RejectOrder, Refuse, ioVars, dbVars
  <2>2. PICK r : r = Refund(task)
    OBVIOUS
  <2>3. /\ r \in DbTasks /\ Due(unit, r, u) = TaskHolds(unit, task, u)
        /\ LogGain(unit, r, u) = 0
    BY <2>1, <2>2, RefundTask
  <2>4. InFront(unit, u)' = InFront(unit, u) + Due(unit, r, u) - LogGain(unit, r, u)
    BY <2>1, <2>2, <2>3, FrontMoves
  <2>5. Leftover(unit, u)' = 0
    BY <2>1 DEF Leftover, Refused
  <2>. QED  BY <2>1, <2>3, <2>4, <2>5, PopMoves, Untouched, Parts DEF Worth
<1>3. ASSUME NEW o \in book, CancelOrder(task, o)
      PROVE  Worth(unit, u)' = Worth(unit, u)
  <2>1. /\ Pop(task) /\ task.type = "cancel" /\ front' = Append(front, Refund(o))
        /\ out' = Cancelled(o) /\ book' = book \ {o}
        /\ UNCHANGED <<incoming, pending, back, walletVars>>
    BY <1>3 DEF CancelOrder, Cancel, ioVars, dbVars
  <2>2. PICK r, b : r = Refund(o) /\ b = book
    OBVIOUS
  <2>3. o \in Orders /\ b \in SUBSET Orders /\ IsFiniteSet(b) /\ o \in b
    BY <2>2 DEF States, ExchangeTypeOK, TypeOK
  <2>4. r \in DbTasks /\ Due(unit, r, u) = Holds(unit, o, u) /\ LogGain(unit, r, u) = 0
    BY <2>2, <2>3, RefundOrder
  <2>5. InFront(unit, u)' = InFront(unit, u) + Due(unit, r, u) - LogGain(unit, r, u)
    BY <2>1, <2>2, <2>4, FrontMoves
  <2>6. BookSum(unit, b \ {o}, u) = BookSum(unit, b, u) - Holds(unit, o, u)
    BY <2>3, BookRemove, ZenonT(40)
  <2>7. InBook(unit, u) = BookSum(unit, b, u) /\ InBook(unit, u)' = BookSum(unit, b \ {o}, u)
    BY <2>1, <2>2, RingBookSums, NextSums
  <2>8. Leftover(unit, u)' = 0 /\ TaskHolds(unit, task, u) = 0 /\ Holds(unit, o, u) \in Nat
    BY <2>1, <2>3, OrderHolds DEF Leftover, Cancelled, TaskHolds
  <2>. QED  BY <2>1, <2>4, <2>5, <2>6, <2>7, <2>8, PopMoves, Untouched, Parts, SMTT(30) DEF Worth
<1>4. CASE CancelNothing(task)
  <2>1. /\ Pop(task) /\ task.type = "cancel" /\ out' = NotCancelled(task.seq, task.user)
        /\ UNCHANGED <<book, incoming, pending, front, back, walletVars>>
    BY <1>4 DEF CancelNothing, ioVars, dbVars
  <2>2. Leftover(unit, u)' = 0 /\ TaskHolds(unit, task, u) = 0
    BY <2>1 DEF Leftover, NotCancelled, TaskHolds
  <2>. QED  BY <2>1, <2>2, PopMoves, Untouched, Parts DEF Worth
<1>5. CASE SwitchEngine(task) /\ mode' = mode
  <2>1. /\ Pop(task) /\ task.type = "switch"
        /\ UNCHANGED <<book, incoming, out, pending, front, back, walletVars>>
    BY <1>5 DEF SwitchEngine, ioVars, dbVars
  <2>2. TaskHolds(unit, task, u) = 0
    BY <2>1 DEF TaskHolds
  <2>. QED  BY <2>1, <2>2, PopMoves, Untouched, Parts DEF Worth
<1>. QED  BY <1>1, <1>2, <1>3, <1>4, <1>5
\* What a fill takes from the two orders.
LEMMA FillMoves ==
    ASSUME States, States', NEW o \in book, Fill(o), NEW unit \in Units, NEW u \in Accounts,
           NEW q, q = Smaller(incoming.quantity, o.quantity)
    PROVE  /\ Incoming(unit, u)' = Incoming(unit, u) - Part(unit, incoming, q, u)
           /\ InBook(unit, u)' = InBook(unit, u) - Part(unit, o, q, u)
           /\ Leftover(unit, u) = 0 /\ Leftover(unit, u)' = 0
           /\ Part(unit, incoming, q, u) + Part(unit, o, q, u)
                = Settled(unit, out'.buyer, out'.seller, q, out'.buyer_limit_price, u)
           /\ Part(unit, incoming, q, u) \in Nat /\ Part(unit, o, q, u) \in Nat
<1>1. PICK b, t, x, left :
          /\ b = book /\ t = incoming /\ x = incoming'
          /\ left = [o EXCEPT !.quantity = @ - q]
  OBVIOUS
<1>2. /\ b \in SUBSET Orders /\ IsFiniteSet(b) /\ o \in b /\ o \in Orders /\ o.quantity > 0
      /\ t \in Orders /\ t # NoOrder /\ t.quantity > 0
      /\ x = [t EXCEPT !.quantity = @ - q] /\ x \in Orders
      /\ book' = (b \ {o}) \union (IF left.quantity = 0 THEN {} ELSE {left})
      /\ book' \in SUBSET Orders
      /\ t.user # o.user /\ o.side = Opposite(t.side)
      /\ out' = Trade(t, o, q)
  <2>1. incoming # NoOrder /\ x = [t EXCEPT !.quantity = @ - q]
    BY <1>1 DEF Fill, Match, Meets
  <2>2. t \in Orders
    BY <1>1, <2>1 DEF States, ExchangeTypeOK, TypeOK
  <2>3. x \in Orders \union {NoOrder} /\ book' \in SUBSET Orders
    BY <1>1 DEF States, ExchangeTypeOK, TypeOK
  <2>4. x # NoOrder
    <3>1. t.quantity \in 0 .. MaxQty /\ o.quantity \in 0 .. MaxQty
      BY <2>2 DEF Orders, States, ExchangeTypeOK, TypeOK
    <3>2. t.quantity - q \in 0 .. MaxQty
      BY <1>1, <3>1, LimitBookAssumption DEF Smaller
    <3>3. x \in Orders
      BY <2>1, <2>2, <3>2 DEF Orders
    <3>. QED  BY <3>3, LimitBookAssumption
  <2>. QED  BY <1>1, <2>1, <2>2, <2>3, <2>4 DEF States, ExchangeTypeOK, TypeOK, Fill, Match, Meets
<1>3. q \in Nat /\ q <= t.quantity /\ q <= o.quantity
  BY <1>1, <1>2, OrderNat DEF Smaller
<1>4. /\ Holds(unit, x, u) = Holds(unit, t, u) - Part(unit, t, q, u)
      /\ Part(unit, t, q, u) \in Nat
  BY <1>2, <1>3, HoldsLess
<1>5. /\ Holds(unit, left, u) = Holds(unit, o, u) - Part(unit, o, q, u)
      /\ Part(unit, o, q, u) \in Nat /\ left.quantity = o.quantity - q
      /\ left.quantity = 0 => Holds(unit, left, u) = 0
  BY <1>1, <1>2, <1>3, HoldsLess
<1>6. Incoming(unit, u)' = Incoming(unit, u) - Part(unit, incoming, q, u)
  <2>1. Incoming(unit, u) = Holds(unit, t, u) /\ Incoming(unit, u)' = Holds(unit, x, u)
    BY <1>1, <1>2, LimitBookAssumption DEF Incoming
  <2>. QED  BY <1>1, <1>4, <2>1
<1>7. InBook(unit, u)' = InBook(unit, u) - Part(unit, o, q, u)
  <2>1. PICK c : c = b \ {o}
    OBVIOUS
  <2>2. /\ IsFiniteSet(c) /\ BookSum(unit, c, u) = BookSum(unit, b, u) - Holds(unit, o, u)
        /\ BookSum(unit, b, u) \in Nat /\ Holds(unit, o, u) \in Nat
    <3>0. b \in SUBSET Orders /\ IsFiniteSet(b) /\ o \in b
      BY <1>2
    <3>1. IsFiniteSet(c) /\ BookSum(unit, c, u) = BookSum(unit, b, u) - Holds(unit, o, u)
      BY ONLY <2>1, <3>0, unit \in Units, BookRemove
    <3>2. BookSum(unit, b, u) \in Nat /\ Holds(unit, o, u) \in Nat
      BY <1>2, BookNat, OrderHolds
    <3>. QED  BY <3>1, <3>2
  <2>3. InBook(unit, u) = BookSum(unit, b, u) /\ InBook(unit, u)' = BookSum(unit, book', u)
    BY <1>1, RingBookSums, NextSums
  <2>4. CASE left.quantity = 0
    <3>1. book' = c
      BY <1>2, <2>1, <2>4
    <3>. QED  BY <1>5, <2>2, <2>3, <2>4, <3>1
  <2>5. CASE left.quantity # 0
    <3>1. book' = c \union {left} /\ left \in Orders /\ c \in SUBSET Orders
      BY <1>2, <2>1, <2>5
    <3>2. left \notin c
      <4>1. left.seq = o.seq
        BY <1>1, <1>2 DEF Orders
      <4>2. \A y \in b : y.seq = o.seq => y = o
        BY <1>1 DEF States, Distinct
      <4>. QED  BY <2>1, <4>1, <4>2
    <3>3. BookSum(unit, c \union {left}, u) = BookSum(unit, c, u) + Holds(unit, left, u)
      BY <2>2, <3>1, <3>2, BookAdd
    <3>. QED  BY <1>5, <2>2, <2>3, <3>1, <3>3
  <2>. QED  BY <2>4, <2>5
<1>8. Leftover(unit, u) = 0 /\ Leftover(unit, u)' = 0
  BY <1>1, <1>2 DEF Leftover, Trade, States, Stopped
<1>9. Part(unit, t, q, u) + Part(unit, o, q, u)
        = Settled(unit, out'.buyer, out'.seller, q, out'.buyer_limit_price, u)
  <2>0. t.side \in Sides /\ o.price \in Nat /\ t.price \in Nat
    BY <1>2, OrderNat
  <2>a. o.price * q \in Nat /\ t.price * q \in Nat
    BY <1>3, <2>0, Product
  <2>1. CASE t.side = "buy"
    <3>1. /\ out'.buyer = t.user /\ out'.seller = o.user /\ out'.buyer_limit_price = t.price
          /\ o.side = "sell"
      BY <1>2, <2>1 DEF Trade, Opposite
    <3>. QED  BY <1>2, <1>3, <2>1, <2>a, <3>1 DEF Part, Settled
  <2>2. CASE t.side = "sell"
    <3>1. /\ out'.buyer = o.user /\ out'.seller = t.user /\ out'.buyer_limit_price = o.price
          /\ o.side = "buy"
      BY <1>2, <2>2 DEF Trade, Opposite
    <3>. QED  BY <1>2, <1>3, <2>2, <2>a, <3>1 DEF Part, Settled
  <2>. QED  BY <2>0, <2>1, <2>2 DEF Sides
<1>. QED  BY <1>1, <1>4, <1>5, <1>6, <1>7, <1>8, <1>9

\* What a fill appends for the worker.
LEMMA FillReports ==
    ASSUME States, States', NEW o \in book, Fill(o), listening,
           NEW unit \in Units, NEW u \in Accounts,
           NEW q, q = Smaller(incoming.quantity, o.quantity)
    PROVE  InFront(unit, u)' = InFront(unit, u)
               + Settled(unit, out'.buyer, out'.seller, q, out'.buyer_limit_price, u)
           /\ Settled(unit, out'.buyer, out'.seller, q, out'.buyer_limit_price, u) \in Nat
<1>1. PICK f, b, s, p, l : /\ f = front /\ b = out'.buyer /\ s = out'.seller /\ p = out'.price
                           /\ l = out'.buyer_limit_price
  OBVIOUS
<1>2. /\ b \in Users /\ s \in Users /\ b # s /\ q \in Nat /\ p \in Nat /\ l \in Nat /\ p <= l
      /\ out'.quantity = q
  <2>1. Match(o)
    BY DEF Fill
  <2>2. /\ b \in Users /\ s \in Users /\ p \in Nat /\ l \in Nat /\ q \in Nat /\ out'.quantity = q
    BY <1>1, <2>1, TradeIs
  <2>3. incoming \in Orders /\ incoming.user # o.user /\ incoming.side \in Sides
    <3>1. incoming \in Orders /\ incoming.user # o.user
      BY <2>1 DEF Match, Meets, States, ExchangeTypeOK, TypeOK
    <3>. QED  BY <3>1, OrderNat
  <2>4. CASE incoming.side = "buy"
    BY <1>1, <2>1, <2>2, <2>3, <2>4, TradeIs
  <2>5. CASE incoming.side = "sell"
    <3>1. b = o.user /\ s = incoming.user /\ l = o.price /\ p = o.price
      BY <1>1, <2>1, <2>5, TradeIs
    <3>. QED  BY <2>2, <2>3, <3>1
  <2>. QED  BY <2>2, <2>3, <2>4, <2>5 DEF Sides
<1>3. PICK t, g : t = Settle(b, s, q, p, l) /\ g = LogTrade(b, s, q, p)
  OBVIOUS
<1>4. /\ t \in DbTasks /\ g \in DbTasks
      /\ Due(unit, t, u) - LogGain(unit, g, u) = Settled(unit, b, s, q, l, u)
      /\ LogGain(unit, t, u) = 0 /\ Due(unit, g, u) = 0
      /\ Settled(unit, b, s, q, l, u) \in Nat
      /\ Due(unit, t, u) \in Nat /\ LogGain(unit, g, u) \in Int
  <2>1. t \in DbTasks /\ g \in DbTasks
    BY <1>2, <1>3, FillTasks
  <2>2. /\ Due(unit, t, u) - LogGain(unit, g, u) = Settled(unit, b, s, q, l, u)
        /\ LogGain(unit, t, u) = 0 /\ Due(unit, g, u) = 0
        /\ Settled(unit, b, s, q, l, u) \in Nat
    BY <1>2, <1>3, FillCredits
  <2>. QED  BY <2>1, <2>2, DueNat
<1>5. front' = Append(Append(f, t), g) /\ f \in Seq(DbTasks)
  BY <1>1, <1>2, <1>3 DEF Fill, States, ExchangeTypeOK
<1>6. PICK h : h = Append(f, t)
  OBVIOUS
<1>7. /\ h \in Seq(DbTasks)
      /\ Dues(unit, h, u) = Dues(unit, f, u) + Due(unit, t, u)
      /\ Gains(unit, h, u) = Gains(unit, f, u) + LogGain(unit, t, u)
      /\ Dues(unit, f, u) \in Nat /\ Gains(unit, f, u) \in Int
  BY <1>4, <1>5, <1>6, BatchAppend, BatchTypes
<1>8. /\ Dues(unit, Append(h, g), u) = Dues(unit, h, u) + Due(unit, g, u)
      /\ Gains(unit, Append(h, g), u) = Gains(unit, h, u) + LogGain(unit, g, u)
  BY <1>4, <1>7, BatchAppend
<1>9. InFront(unit, u)' = Dues(unit, Append(h, g), u) - Gains(unit, Append(h, g), u)
  BY <1>5, <1>6, NextSums
<1>10. InFront(unit, u) = Dues(unit, f, u) - Gains(unit, f, u)
  BY <1>1 DEF InFront, Credit
<1>11. InFront(unit, u)' = InFront(unit, u) + Settled(unit, b, s, q, l, u)
  BY <1>4, <1>7, <1>8, <1>9, <1>10
<1>. QED  BY <1>1, <1>4, <1>11

\* A fill moves what both orders held of what was traded into the vector.
LEMMA FillKeeps ==
    ASSUME States, States', NEW o \in book, Fill(o), listening,
           NEW unit \in Units, NEW u \in Accounts
    PROVE  Worth(unit, u)' = Worth(unit, u)
<1>1. PICK q : q = Smaller(incoming.quantity, o.quantity)
  OBVIOUS
<1>2. UNCHANGED <<pending, engine_queue, back, walletVars>>
  BY DEF Fill, ioVars, dbVars
<1>. QED  BY <1>1, <1>2, FillMoves, FillReports, Untouched, Parts DEF Worth

\* A fill that nobody listens to only takes.
LEMMA FillUnheard ==
    ASSUME States, States', NEW o \in book, Fill(o), ~ listening,
           NEW unit \in Units, NEW u \in Accounts
    PROVE  Worth(unit, u)' <= Worth(unit, u)
<1>1. PICK q : q = Smaller(incoming.quantity, o.quantity)
  OBVIOUS
<1>2. UNCHANGED <<pending, engine_queue, front, back, walletVars>>
  BY DEF Fill, ioVars, dbVars
<1>3. /\ Incoming(unit, u)' = Incoming(unit, u) - Part(unit, incoming, q, u)
      /\ InBook(unit, u)' = InBook(unit, u) - Part(unit, o, q, u)
      /\ Leftover(unit, u)' = Leftover(unit, u)
      /\ Part(unit, incoming, q, u) \in Nat /\ Part(unit, o, q, u) \in Nat
  BY <1>1, FillMoves
<1>. QED  BY <1>2, <1>3, Untouched, Parts DEF Worth
\* What self-trade prevention rejects moves to the report.
LEMMA StopKeeps ==
    ASSUME States, States', NEW o \in book, StopAtOwn(o), NEW unit \in Units, NEW u \in Accounts
    PROVE  Worth(unit, u)' = Worth(unit, u)
<1>1. PICK t, x : t = incoming /\ x = incoming'
  OBVIOUS
<1>2. /\ t # NoOrder /\ t.quantity > 0 /\ x = [t EXCEPT !.quantity = 0]
      /\ out' = Rejected(t)
      /\ UNCHANGED <<book, pending, engine_queue, front, back, walletVars>>
  BY <1>1 DEF StopAtOwn, SelfTradeStop, Meets, ioVars, dbVars
<1>3. t \in Orders
  BY <1>1, <1>2 DEF States, ExchangeTypeOK, TypeOK
<1>4. x.quantity = 0 /\ x.price = t.price /\ x.user = t.user /\ x.side = t.side
  BY <1>2, <1>3 DEF Orders
<1>5. Holds(unit, x, u) = 0
  <2>1. x.price * 0 = 0
    BY <1>3, <1>4, OrderNat, Distribute
  <2>. QED  BY <1>4, <2>1 DEF Holds
<1>6. Incoming(unit, u) = Holds(unit, t, u) /\ Incoming(unit, u)' = 0
  BY <1>1, <1>2, <1>5 DEF Incoming
<1>7. Leftover(unit, u) = 0 /\ Leftover(unit, u)' = Holds(unit, t, u)
  BY <1>1, <1>2 DEF Leftover, Rejected, States, Stopped
<1>8. Holds(unit, t, u) \in Nat
  BY <1>3, OrderHolds
<1>. QED  BY <1>2, <1>6, <1>7, <1>8, Untouched, Parts DEF Worth

\* What is left of an order moves into the book.
LEMMA RestKeeps ==
    ASSUME States, States', RestOrder, NEW unit \in Units, NEW u \in Accounts
    PROVE  Worth(unit, u)' = Worth(unit, u)
<1>1. PICK t, b : t = incoming /\ b = book
  OBVIOUS
<1>2. /\ t # NoOrder /\ t.quantity > 0 /\ incoming' = NoOrder /\ out' = Nothing
      /\ book' = b \union {t}
      /\ UNCHANGED <<pending, engine_queue, front, back, walletVars>>
  BY <1>1 DEF RestOrder, Rest, ioVars, dbVars
<1>3. t \in Orders /\ b \in SUBSET Orders /\ IsFiniteSet(b) /\ t \notin b
  BY <1>1, <1>2 DEF States, ExchangeTypeOK, TypeOK, Distinct
<1>4. BookSum(unit, b \union {t}, u) = BookSum(unit, b, u) + Holds(unit, t, u)
  BY <1>3, BookAdd
<1>5. InBook(unit, u) = BookSum(unit, b, u) /\ InBook(unit, u)' = BookSum(unit, b \union {t}, u)
  BY <1>1, <1>2, RingBookSums, NextSums
<1>6. Incoming(unit, u) = Holds(unit, t, u) /\ Incoming(unit, u)' = 0
  BY <1>1, <1>2 DEF Incoming
<1>7. Leftover(unit, u) = 0 /\ Leftover(unit, u)' = 0
  BY <1>1, <1>2 DEF Leftover, Nothing, States, Stopped
<1>8. Holds(unit, t, u) \in Nat
  BY <1>3, OrderHolds
<1>. QED  BY <1>2, <1>4, <1>5, <1>6, <1>7, <1>8, Untouched, Parts DEF Worth

\* What was rejected is refunded.
LEMMA FinishKeeps ==
    ASSUME States, States', FinishOrder, NEW unit \in Units, NEW u \in Accounts
    PROVE  Worth(unit, u)' = Worth(unit, u)
<1>1. /\ incoming # NoOrder /\ incoming.quantity = 0 /\ incoming' = NoOrder /\ out' = Nothing
      /\ UNCHANGED <<book, pending, engine_queue, back, walletVars>>
  BY DEF FinishOrder, Finish, ioVars, dbVars
<1>2. Incoming(unit, u) = 0 /\ Incoming(unit, u)' = 0
  <2>1. PICK t : t = incoming
    OBVIOUS
  <2>2. t \in Orders /\ t.quantity = 0
    BY <1>1, <2>1 DEF States, ExchangeTypeOK, TypeOK
  <2>3. t.price * 0 = 0
    BY <2>2, OrderNat, Distribute
  <2>4. Holds(unit, t, u) = 0
    BY <2>2, <2>3 DEF Holds
  <2>. QED  BY <1>1, <2>1, <2>4 DEF Incoming
<1>3. Leftover(unit, u)' = 0
  BY <1>1 DEF Leftover, Nothing
<1>4. CASE out.kind = "rejected"
  <2>1. PICK o, r : o = out.order /\ r = Refund(o)
    OBVIOUS
  <2>2. o \in Orders /\ front' = Append(front, r)
    BY <1>4, <2>1 DEF States, Stopped, FinishOrder
  <2>3. r \in DbTasks /\ Due(unit, r, u) = Holds(unit, o, u) /\ LogGain(unit, r, u) = 0
    BY <2>1, <2>2, RefundOrder
  <2>4. InFront(unit, u)' = InFront(unit, u) + Due(unit, r, u) - LogGain(unit, r, u)
    BY <2>2, <2>3, FrontMoves
  <2>5. Leftover(unit, u) = Holds(unit, o, u)
    BY <1>4, <2>1 DEF Leftover
  <2>. QED  BY <1>1, <1>2, <1>3, <2>3, <2>4, <2>5, Untouched, Parts DEF Worth
<1>5. CASE out.kind # "rejected"
  <2>1. front' = front /\ Leftover(unit, u) = 0
    BY <1>5 DEF FinishOrder, Leftover
  <2>. QED  BY <1>1, <1>2, <1>3, <2>1, Untouched, Parts DEF Worth
<1>. QED  BY <1>4, <1>5

\* The worker swaps the vectors.
LEMMA SwapKeeps ==
    ASSUME States, States', Swap, NEW unit \in Units, NEW u \in Accounts
    PROVE  /\ Worth(unit, u)' = Worth(unit, u)
           /\ InFront(unit, u)' = 0 /\ InBack(unit, u)' = InFront(unit, u)
<1>1. /\ back = <<>> /\ back' = front /\ front' = <<>>
      /\ UNCHANGED <<pending, incoming, out, engine_queue, book, walletVars>>
  BY DEF Swap, ioVars, engineVars, vars
<1>2. Dues(unit, <<>>, u) = 0 /\ Gains(unit, <<>>, u) = 0
  BY BatchEmpty
<1>3. InBack(unit, u) = 0 /\ InFront(unit, u)' = 0 /\ InBack(unit, u)' = InFront(unit, u)
  BY <1>1, <1>2 DEF InBack, InFront, Credit
<1>. QED  BY <1>1, <1>3, Untouched, Parts DEF Worth

\* The worker applies a batch: what it owed is owned, or in the trades table.
LEMMA CommitKeeps ==
    ASSUME States, States', Commit, NEW unit \in Units, NEW u \in Accounts
    PROVE  Worth(unit, u)' = Worth(unit, u) /\ InBack(unit, u)' = 0
<1>1. PICK b, r, l : b = back /\ r = trades /\ l = Logged(back)
  OBVIOUS
<1>2. /\ cash' = [v \in Accounts |-> cash[v] + CashDues(b, v)]
      /\ shares' = [v \in DOMAIN shares \union UNION {Credited(b[i]) : i \in DOMAIN b} |->
                       (IF v \in DOMAIN shares THEN shares[v] ELSE 0) + SharesDues(b, v)]
      /\ trades' = r \o l /\ back' = <<>>
      /\ UNCHANGED <<pending, incoming, out, engine_queue, book, front>>
  BY <1>1 DEF Commit, ApplyBatch, ioVars, engineVars, vars
<1>3. /\ u \in DOMAIN shares /\ shares[u] \in Nat /\ cash[u] \in Nat /\ b \in Seq(DbTasks)
      /\ r \in Seq(LogTasks)
  BY <1>1 DEF States, ExchangeTypeOK
<1>4. /\ l \in Seq(LogTasks) /\ Gains(unit, l, u) = Gains(unit, b, u)
      /\ Dues(unit, b, u) \in Nat /\ Gains(unit, b, u) \in Int
  BY <1>1, <1>3, LoggedGains, BatchTypes
<1>5. r \in Seq(DbTasks) /\ l \in Seq(DbTasks)
  <2>1. Seq(LogTasks) \subseteq Seq(DbTasks)
    BY SMT DEF DbTasks
  <2>. QED  BY <1>3, <1>4, <2>1
<1>6. /\ Gains(unit, r \o l, u) = Gains(unit, r, u) + Gains(unit, l, u)
      /\ Gains(unit, r, u) \in Int
  BY <1>5, GainsConcat, BatchTypes
<1>7. cash'[u] = cash[u] + CashDues(b, u) /\ shares'[u] = shares[u] + SharesDues(b, u)
  BY <1>2, <1>3
<1>8. /\ Purse(unit, u) = (IF unit = "cash" THEN cash[u] ELSE shares[u]) - Gains(unit, r, u)
      /\ Purse(unit, u)' = (IF unit = "cash" THEN cash'[u] ELSE shares'[u]) - Gains(unit, r \o l, u)
  BY <1>1, <1>2 DEF Purse
<1>9. Purse(unit, u)' = Purse(unit, u) + (Dues(unit, b, u) - Gains(unit, b, u))
  <2>1. CASE unit = "cash"
    <3>1. Dues(unit, b, u) = CashDues(b, u)
      BY <2>1 DEF Dues
    <3>. QED  BY <1>3, <1>4, <1>6, <1>7, <1>8, <2>1, <3>1
  <2>2. CASE unit # "cash"
    <3>1. Dues(unit, b, u) = SharesDues(b, u)
      BY <2>2 DEF Dues
    <3>. QED  BY <1>3, <1>4, <1>6, <1>7, <1>8, <2>2, <3>1
  <2>. QED  BY <2>1, <2>2
<1>10. InBack(unit, u) = Dues(unit, b, u) - Gains(unit, b, u) /\ InBack(unit, u)' = 0
  <2>1. Dues(unit, <<>>, u) = 0 /\ Gains(unit, <<>>, u) = 0
    BY BatchEmpty
  <2>. QED  BY <1>1, <1>2, <2>1 DEF InBack, Credit
<1>11. /\ Pending(unit, u)' = Pending(unit, u) /\ Incoming(unit, u)' = Incoming(unit, u)
       /\ Leftover(unit, u)' = Leftover(unit, u) /\ InRing(unit, u)' = InRing(unit, u)
       /\ InBook(unit, u)' = InBook(unit, u) /\ InFront(unit, u)' = InFront(unit, u)
  BY <1>2, Untouched
<1>12. Purse(unit, u)' = Purse(unit, u) + InBack(unit, u)
  BY <1>9, <1>10
<1>13. Worth(unit, u)' = Worth(unit, u)
  BY <1>10, <1>11, <1>12, Parts DEF Worth
<1>. QED  BY <1>10, <1>13
-----------------------------------------------------------------------------
(* Every step of the server.                                               *)

\* A vector that was emptied owes nothing.
LEMMA Drained ==
    ASSUME NEW unit \in Units, NEW u \in Accounts
    PROVE  /\ front' = <<>> => InFront(unit, u)' = 0
           /\ back' = <<>> => InBack(unit, u)' = 0
<1>1. Dues(unit, <<>>, u) = 0 /\ Gains(unit, <<>>, u) = 0
  BY BatchEmpty
<1>. QED  BY <1>1 DEF InFront, InBack, Credit

\* A refund that is appended is not negative.
LEMMA RefundMoves ==
    ASSUME States, States', NEW o, Refund(o) \in DbTasks, front' = Append(front, Refund(o)),
           NEW unit \in Units, NEW u \in Accounts,
           LogGain(unit, Refund(o), u) = 0
    PROVE  InFront(unit, u)' >= InFront(unit, u)
<1>1. PICK r : r = Refund(o)
  OBVIOUS
<1>2. r \in DbTasks /\ front' = Append(front, r) /\ LogGain(unit, r, u) = 0
  BY <1>1
<1>3. InFront(unit, u)' = InFront(unit, u) + Due(unit, r, u) - LogGain(unit, r, u)
  BY <1>2, FrontMoves
<1>4. Due(unit, r, u) \in Nat
  BY <1>2, DueNat
<1>. QED  BY <1>2, <1>3, <1>4, Parts

\* Popping a task never takes from what the worker owes.
LEMMA PoppedOwes ==
    ASSUME States, States', NEW task \in Tasks, Popped(task),
           NEW unit \in Units, NEW u \in Accounts
    PROVE  InFront(unit, u)' >= InFront(unit, u)
<1>1. CASE UNCHANGED front
  BY <1>1, Untouched, Parts
<1>2. CASE RejectOrder(task)
  <2>1. task.type = "order" /\ front' = Append(front, Refund(task))
    BY <1>2 DEF RejectOrder
  <2>2. Refund(task) \in DbTasks /\ LogGain(unit, Refund(task), u) = 0
    BY <2>1, RefundTask
  <2>. QED  BY <2>1, <2>2, RefundMoves
<1>3. ASSUME NEW o \in book, CancelOrder(task, o)
      PROVE  InFront(unit, u)' >= InFront(unit, u)
  <2>1. front' = Append(front, Refund(o)) /\ o \in Orders
    BY <1>3 DEF CancelOrder, States, ExchangeTypeOK, TypeOK
  <2>2. Refund(o) \in DbTasks /\ LogGain(unit, Refund(o), u) = 0
    BY <2>1, RefundOrder
  <2>. QED  BY <2>1, <2>2, RefundMoves
<1>4. CASE DropTask(task) \/ AcceptOrder(task) \/ CancelNothing(task) \/ SwitchEngine(task)
  BY <1>1, <1>4 DEF DropTask, AcceptOrder, CancelNothing, SwitchEngine
<1>5. CASE CancelZero(task)
  <2>1. front' = Append(front, Refund(slot0)) /\ slot0 \in Orders
    BY <1>5, FreedOrder DEF CancelZero
  <2>2. Refund(slot0) \in DbTasks /\ LogGain(unit, Refund(slot0), u) = 0
    BY <2>1, RefundOrder
  <2>. QED  BY <2>1, <2>2, RefundMoves
<1>. QED  BY <1>2, <1>3, <1>4, <1>5 DEF Popped

\* The worker never owes an account less than nothing.
LEMMA SolventStep ==
    ASSUME States, States', Solvent, [ExchangeNext]_exchangeVars
    PROVE  Solvent'
<1>. SUFFICES ASSUME NEW unit \in Units, NEW u \in Accounts
              PROVE  InFront(unit, u)' >= 0 /\ InBack(unit, u)' >= 0
  BY DEF Solvent, InFront, InBack
<1>. DEFINE Goal == InFront(unit, u)' >= 0 /\ InBack(unit, u)' >= 0
<1>0. /\ InFront(unit, u) >= 0 /\ InBack(unit, u) >= 0
      /\ InFront(unit, u) \in Int /\ InBack(unit, u) \in Int
  BY Parts DEF Solvent, InFront, InBack
<1>1. ASSUME UNCHANGED front, UNCHANGED back  PROVE Goal
  BY <1>0, <1>1, Untouched
<1>2. ASSUME Requested \/ Push \/ RestOrder \/ UNCHANGED exchangeVars  PROVE Goal
  BY <1>1, <1>2 DEF Requested, Handle, Push, RestOrder, exchangeVars, dbVars
<1>3. ASSUME NEW task \in Tasks, Popped(task)  PROVE Goal
  <2>1. UNCHANGED back
    BY <1>3 DEF Popped, DropTask, AcceptOrder, RejectOrder, CancelOrder, CancelZero, CancelNothing,
                SwitchEngine, dbVars
  <2>2. InBack(unit, u)' = InBack(unit, u)
    BY <2>1, Untouched
  <2>3. InFront(unit, u)' >= InFront(unit, u) /\ InFront(unit, u)' \in Int
    BY <1>3, PoppedOwes, PartsNext
  <2>. QED  BY <1>0, <2>2, <2>3
<1>4. ASSUME NEW o \in book, Fill(o)  PROVE Goal
  <2>1. CASE listening
    <3>1. PICK q : q = Smaller(incoming.quantity, o.quantity)
      OBVIOUS
    <3>2. PICK n \in Nat : InFront(unit, u)' = InFront(unit, u) + n
      BY <1>4, <2>1, <3>1, FillReports
    <3>3. InBack(unit, u)' = InBack(unit, u)
      BY <1>4, Untouched DEF Fill, dbVars
    <3>. QED  BY <1>0, <3>2, <3>3
  <2>2. CASE ~ listening
    BY <1>1, <1>4, <2>2 DEF Fill, dbVars
  <2>. QED  BY <2>1, <2>2
<1>5. ASSUME NEW o \in book, StopAtOwn(o)  PROVE Goal
  BY <1>1, <1>5 DEF StopAtOwn, dbVars
<1>6. ASSUME FinishOrder  PROVE Goal
  <2>1. UNCHANGED back
    BY <1>6 DEF FinishOrder, dbVars
  <2>2. CASE out.kind = "rejected"
    <3>1. out.order \in Orders /\ front' = Append(front, Refund(out.order))
      BY <1>6, <2>2 DEF FinishOrder, States, Stopped
    <3>2. Refund(out.order) \in DbTasks /\ LogGain(unit, Refund(out.order), u) = 0
      BY <3>1, RefundOrder
    <3>3. InFront(unit, u)' >= InFront(unit, u) /\ InFront(unit, u)' \in Int
      BY <3>1, <3>2, RefundMoves, PartsNext
    <3>4. InBack(unit, u)' = InBack(unit, u)
      BY <2>1, Untouched
    <3>. QED  BY <1>0, <3>3, <3>4
  <2>3. CASE out.kind # "rejected"
    BY <1>1, <1>6, <2>1, <2>3 DEF FinishOrder
  <2>. QED  BY <2>2, <2>3
<1>7. ASSUME Swap  PROVE Goal
  BY <1>0, <1>7, SwapKeeps
<1>8. ASSUME Commit \/ CommitFails  PROVE Goal
  <2>1. front' = front /\ back' = <<>>
    BY <1>8 DEF Commit, CommitFails
  <2>. QED  BY <1>0, <2>1, Drained, Untouched
<1>9. ASSUME Crash  PROVE Goal
  <2>1. front' = <<>> /\ back' = <<>>
    BY <1>9 DEF Crash
  <2>. QED  BY <2>1, Drained
<1>. QED
  <2>. HIDE DEF Goal
  <2>1. Goal
    BY <1>2, <1>3, <1>4, <1>5, <1>6, <1>7, <1>8, <1>9, Cases DEF States
  <2>. QED  BY <2>1 DEF Goal
\* A step that is not a fault moves what an account has from part to part.
LEMMA KeepsStep ==
    ASSUME States, States', [ExchangeNext]_exchangeVars, ~ Fault,
           NEW unit \in Units, NEW u \in Accounts
    PROVE  Worth(unit, u)' = Worth(unit, u)
<1>. DEFINE Goal == Worth(unit, u)' = Worth(unit, u)
<1>1. ASSUME UNCHANGED exchangeVars  PROVE Goal
  <2>1. UNCHANGED <<walletVars, pending, incoming, out, engine_queue, book, front, back>>
    BY <1>1 DEF exchangeVars, ioVars, engineVars, dbVars, vars
  <2>. QED  BY <2>1, Untouched DEF Worth
<1>2. ASSUME Requested \/ Push \/ RestOrder \/ FinishOrder \/ Swap \/ Commit  PROVE Goal
  BY <1>2, RequestKeeps, PushKeeps, RestKeeps, FinishKeeps, SwapKeeps, CommitKeeps
<1>3. ASSUME NEW task \in Tasks, Popped(task)  PROVE Goal
  <2>1. ~ DropTask(task)
    <3>1. SUFFICES ASSUME DropTask(task)  PROVE FALSE
      OBVIOUS
    <3>2. engine_queue \in Seq(Tasks) /\ engine_queue # <<>> /\ task = Head(engine_queue)
      BY <3>1 DEF DropTask, Pop, States, ExchangeTypeOK
    <3>3. 1 \in DOMAIN engine_queue /\ task = engine_queue[1]
      BY <3>2
    <3>. QED  BY <3>1, <3>3 DEF Fault
  <2>2. mode' = mode /\ ~ CancelZero(task)
    BY DEF Fault, CancelZero
  <2>. QED  BY <1>3, <2>1, <2>2, PoppedKeeps DEF Popped
<1>4. ASSUME NEW o \in book, Fill(o)  PROVE Goal
  <2>1. listening
    BY <1>4 DEF Fault, Fill
  <2>. QED  BY <1>4, <2>1, FillKeeps
<1>5. ASSUME NEW o \in book, StopAtOwn(o)  PROVE Goal
  BY <1>5, StopKeeps
<1>6. ASSUME CommitFails \/ Crash  PROVE Goal
  BY <1>6 DEF Fault
<1>. QED
  <2>. HIDE DEF Goal
  <2>1. Goal
    BY <1>1, <1>2, <1>3, <1>4, <1>5, <1>6, Cases DEF States
  <2>. QED  BY <2>1 DEF Goal

\* A fault drops parts, none of which is negative.
LEMMA FaultLoses ==
    ASSUME States, States', Solvent, Crash \/ CommitFails \/ (\E task \in Tasks : DropTask(task) \/
               (SwitchEngine(task) /\ mode' # mode)),
           NEW unit \in Units, NEW u \in Accounts
    PROVE  Worth(unit, u)' <= Worth(unit, u)
<1>0. /\ InFront(unit, u) >= 0 /\ InBack(unit, u) >= 0
  BY DEF Solvent, InFront, InBack
<1>1. CASE Crash
  <2>1. /\ UNCHANGED walletVars
        /\ pending' = NoTask /\ incoming' = NoOrder /\ out' = Nothing
        /\ engine_queue' = <<>> /\ book' = {} /\ front' = <<>> /\ back' = <<>>
    BY <1>1 DEF Crash
  <2>2. /\ Pending(unit, u)' = 0 /\ Incoming(unit, u)' = 0 /\ Leftover(unit, u)' = 0
    BY <2>1 DEF Pending, Incoming, Leftover, Nothing
  <2>3. InRing(unit, u)' = 0 /\ InBook(unit, u)' = 0
    BY <2>1, NextSums, RingEmpty, BookEmpty
  <2>4. InFront(unit, u)' = 0 /\ InBack(unit, u)' = 0 /\ Purse(unit, u)' = Purse(unit, u)
    BY <2>1, Drained, Untouched
  <2>. QED  BY <1>0, <2>2, <2>3, <2>4, Parts DEF Worth
<1>2. CASE CommitFails
  <2>1. /\ UNCHANGED <<walletVars, pending, incoming, out, engine_queue, book, front>>
        /\ back' = <<>>
    BY <1>2 DEF CommitFails, ioVars, engineVars, vars
  <2>2. InBack(unit, u)' = 0
    BY <2>1, Drained
  <2>. QED  BY <1>0, <2>1, <2>2, Untouched, Parts, SMTT(30) DEF Worth
<1>3. ASSUME NEW task, DropTask(task)
      PROVE  Worth(unit, u)' <= Worth(unit, u)
  <2>1. Pop(task) /\ UNCHANGED <<walletVars, pending, incoming, out, book, front, back>>
    BY <1>3 DEF DropTask, ioVars, vars, dbVars
  <2>. QED  BY <2>1, PopMoves, Untouched, Parts DEF Worth
<1>4. ASSUME NEW task, SwitchEngine(task), mode' # mode
      PROVE  Worth(unit, u)' <= Worth(unit, u)
  <2>1. /\ Pop(task) /\ book' = {}
        /\ UNCHANGED <<walletVars, pending, incoming, out, front, back>>
    BY <1>4 DEF SwitchEngine, ioVars, dbVars
  <2>2. InBook(unit, u)' = 0
    BY <2>1, NextSums, BookEmpty
  <2>. QED  BY <2>1, <2>2, PopMoves, Untouched, Parts DEF Worth
<1>. QED  BY <1>1, <1>2, <1>3, <1>4

\* No step gives an account anything, unless it cancels id 0.
LEMMA NoGain ==
    ASSUME States, States', Solvent, [ExchangeNext]_exchangeVars, ~ zeroCancelled',
           NEW unit \in Units, NEW u \in Accounts
    PROVE  Worth(unit, u)' <= Worth(unit, u)
<1>. DEFINE Goal == Worth(unit, u)' <= Worth(unit, u)
<1>1. ASSUME Worth(unit, u)' = Worth(unit, u)  PROVE Goal
  <2>1. Worth(unit, u) \in Int
    BY ShortIs
  <2>. QED  BY <1>1, <2>1
<1>2. ASSUME ~ Fault  PROVE Goal
  BY <1>1, <1>2, KeepsStep
<1>3. ASSUME Crash \/ CommitFails  PROVE Goal
  BY <1>3, FaultLoses
<1>4. ASSUME NEW task \in Tasks, Popped(task)  PROVE Goal
  <2>1. ASSUME DropTask(task) \/ (SwitchEngine(task) /\ mode' # mode)  PROVE Goal
    BY <2>1, FaultLoses
  <2>2. ASSUME \/ AcceptOrder(task) \/ RejectOrder(task)
               \/ \E o \in book : CancelOrder(task, o)
               \/ CancelNothing(task)
               \/ SwitchEngine(task) /\ mode' = mode
        PROVE  Goal
    BY <1>1, <2>2, PoppedKeeps
  <2>3. ~ CancelZero(task)
    BY DEF CancelZero
  <2>. HIDE DEF Goal
  <2>. QED  BY <1>4, <2>1, <2>2, <2>3 DEF Popped
<1>5. ASSUME NEW o \in book, Fill(o)  PROVE Goal
  <2>1. CASE listening
    BY <1>1, <1>5, <2>1, FillKeeps
  <2>2. CASE ~ listening
    BY <1>5, <2>2, FillUnheard
  <2>. QED  BY <2>1, <2>2
<1>6. ASSUME \/ Requested \/ Push \/ RestOrder \/ FinishOrder \/ Swap \/ Commit
             \/ \E o \in book : StopAtOwn(o)
      PROVE  Goal
  <2>1. Worth(unit, u)' = Worth(unit, u)
    BY <1>6, RequestKeeps, PushKeeps, RestKeeps, FinishKeeps, SwapKeeps, CommitKeeps, StopKeeps
  <2>. QED  BY <1>1, <2>1
<1>7. ASSUME UNCHANGED exchangeVars  PROVE Goal
  <2>1. UNCHANGED <<walletVars, pending, incoming, out, engine_queue, book, front, back>>
    BY <1>7 DEF exchangeVars, ioVars, engineVars, dbVars, vars
  <2>2. Worth(unit, u)' = Worth(unit, u)
    BY <2>1, Untouched DEF Worth
  <2>. QED  BY <1>1, <2>2
<1>. QED
  <2>. HIDE DEF Goal
  <2>1. Goal
    BY <1>3, <1>4, <1>5, <1>6, <1>7, Cases DEF States
  <2>. QED  BY <2>1 DEF Goal
-----------------------------------------------------------------------------
(* The theorems.                                                           *)

\* At the start an account has what it began with, and owes nothing.
LEMMA AtTheStart ==
    ASSUME ExchangeInit
    PROVE  /\ States /\ Solvent
           /\ \A unit \in Units, u \in Accounts : Worth(unit, u) = Initial(unit)
           /\ ~ zeroCancelled
<1>1. /\ book = {} /\ incoming = NoOrder /\ counter = 0 /\ out = Nothing
      /\ pending = NoTask /\ engine_queue = <<>> /\ mode = "CURRENT" /\ listening = TRUE
      /\ front = <<>> /\ back = <<>> /\ trades = <<>>
      /\ cash = [u \in Accounts |-> InitialCash] /\ shares = [u \in Accounts |-> InitialShares]
      /\ slot0 = NoOrder /\ zeroCancelled = FALSE
  BY DEF ExchangeInit, Init, WalletInit
<1>2. ExchangeTypeOK
  <2>1. TypeOK
    BY <1>1, LimitBookAssumption DEF TypeOK
  <2>2. /\ cash \in [Accounts -> Nat] /\ DOMAIN shares = Accounts /\ Accounts \subseteq Users
        /\ \A u \in DOMAIN shares : shares[u] \in Nat
    BY <1>1, WalletAssumption, ExchangeAssumption
  <2>3. /\ trades \in Seq(LogTasks) /\ front \in Seq(DbTasks) /\ back \in Seq(DbTasks)
        /\ engine_queue \in Seq(Tasks) /\ Len(engine_queue) <= QueueSize
    BY <1>1, ExchangeAssumption
  <2>. QED  BY <1>1, <2>1, <2>2, <2>3 DEF ExchangeTypeOK, Modes
<1>3. IsFiniteSet(book) /\ NotCrossed /\ Distinct /\ Stopped
  BY <1>1, FS_EmptySet DEF NotCrossed, Resting, Distinct, Stopped, Nothing
<1>4. States
  BY <1>2, <1>3 DEF States
<1>5. ASSUME NEW unit \in Units, NEW u \in Accounts
      PROVE  /\ InFront(unit, u) = 0 /\ InBack(unit, u) = 0
             /\ Worth(unit, u) = Initial(unit)
  <2>1. Dues(unit, <<>>, u) = 0 /\ Gains(unit, <<>>, u) = 0
    BY BatchEmpty
  <2>2. InFront(unit, u) = 0 /\ InBack(unit, u) = 0
    BY <1>1, <2>1 DEF InFront, InBack, Credit
  <2>3. Initial(unit) \in Int
    BY WalletAssumption DEF Initial
  <2>4. Purse(unit, u) = Initial(unit)
    BY <1>1, <2>1, <2>3 DEF Purse, Initial
  <2>5. Pending(unit, u) = 0 /\ Incoming(unit, u) = 0 /\ Leftover(unit, u) = 0
    BY <1>1 DEF Pending, Incoming, Leftover, Nothing
  <2>6. InRing(unit, u) = 0 /\ InBook(unit, u) = 0
    BY <1>1, <1>4, RingBookSums, RingEmpty, BookEmpty
  <2>. QED  BY <2>2, <2>3, <2>4, <2>5, <2>6 DEF Worth
<1>6. Solvent
  BY <1>5 DEF Solvent, InFront, InBack
<1>. QED  BY <1>1, <1>4, <1>5, <1>6

\* The states of the server: types, an uncrossed book, distinct arrival
\* numbers, and vectors that credit no less than the trades in them gain.
LEMMA Reached == ExchangeSpec => [](States /\ Solvent)
<1>1. ExchangeInit => States /\ Solvent
  BY AtTheStart
<1>2. States /\ Solvent /\ [ExchangeNext]_exchangeVars => (States /\ Solvent)'
  BY StatesStep, SolventStep
<1>. QED  BY <1>1, <1>2, PTL DEF ExchangeSpec

\* The types of the server, for every number of users, companies, prices,
\* quantities and requests, with crashes, failed COMMITs, engine switches, torn
\* reads and cancels of any id: no balance is ever negative, no ring overflows,
\* and what slot 0 held last can be refunded whenever id 0 names it.
THEOREM ExchangeTypeCorrect == ExchangeSpec => []ExchangeTypeOK
<1>1. States /\ Solvent => ExchangeTypeOK
  BY DEF States
<1>. QED  BY <1>1, Reached, PTL

\* Until id 0 is cancelled, the server's book is not crossed, however it is
\* driven and switched.
THEOREM ExchangeNotCrossed == ExchangeSpec => []BookNotCrossed
<1>1. States /\ Solvent => BookNotCrossed
  BY DEF States, BookNotCrossed
<1>. QED  BY <1>1, Reached, PTL

\* Until id 0 is cancelled, nobody ends up with more than its trades account
\* for, whatever is lost.
THEOREM NobodyOverpaid == ExchangeSpec => []NeverOverpaid
<1>. DEFINE Bounded == \A unit \in Units, u \in Accounts : Worth(unit, u) <= Initial(unit)
            Inv == States /\ Solvent /\ (zeroCancelled \/ Bounded)
<1>1. ExchangeInit => Inv
  <2>1. \A unit \in Units : Initial(unit) \in Int
    BY WalletAssumption DEF Initial
  <2>. QED  BY <2>1, AtTheStart
<1>2. ASSUME Inv, [ExchangeNext]_exchangeVars  PROVE Inv'
  <2>1. States' /\ Solvent'
    BY <1>2, StatesStep, SolventStep
  <2>2. ASSUME ~ zeroCancelled', NEW unit \in Units, NEW u \in Accounts
        PROVE  Worth(unit, u)' <= Initial(unit)
    <3>1. Worth(unit, u)' <= Worth(unit, u)
      BY <1>2, <2>1, <2>2, NoGain
    <3>2. Worth(unit, u) <= Initial(unit)
      <4>1. ~ zeroCancelled
        BY <1>2, <2>2, ZeroStays
      <4>. QED  BY <1>2, <4>1
    <3>3. Worth(unit, u) \in Int /\ Worth(unit, u)' \in Int /\ Initial(unit) \in Int
      BY <1>2, <2>1, ShortfallNext DEF Shortfall
    <3>. QED  BY <3>1, <3>2, <3>3
  <2>. QED  BY <2>1, <2>2 DEF Initial
<1>3. Inv => NeverOverpaid
  <2>1. SUFFICES ASSUME Inv, ~ zeroCancelled, NEW unit \in Units, NEW u \in Accounts
                 PROVE  Total(unit, u) <= Earned(unit, u)
    BY DEF NeverOverpaid, NobodyGains
  <2>2. /\ Earned(unit, u) - Total(unit, u) = Initial(unit) - Worth(unit, u)
        /\ Worth(unit, u) \in Int /\ Initial(unit) \in Int
        /\ Total(unit, u) \in Int /\ Earned(unit, u) \in Int
    BY <2>1, ShortIs DEF Short
  <2>. QED  BY <2>1, <2>2
<1>. HIDE DEF Inv
<1>. QED  BY <1>1, <1>2, <1>3, PTL DEF ExchangeSpec

\* What an account is short of changes only by a crash, a failed COMMIT, a
\* change of the engine, a dropped task, a fill that nobody listens to, or a
\* cancel of id 0 that is accepted.
THEOREM LossesAreFaults == ExchangeSpec => OnlyFaultsLose
<1>1. ASSUME States, States', [ExchangeNext]_exchangeVars
      PROVE  [(\E unit \in Units, u \in Accounts : Short(unit, u)' # Short(unit, u)) => Fault]_exchangeVars
  <2>1. SUFFICES ASSUME ~ Fault, NEW unit \in Units, NEW u \in Accounts
                 PROVE  Short(unit, u)' = Short(unit, u)
    OBVIOUS
  <2>2. Worth(unit, u)' = Worth(unit, u)
    BY <1>1, <2>1, KeepsStep
  <2>3. /\ Short(unit, u) = Initial(unit) - Worth(unit, u)
        /\ Short(unit, u)' = Initial(unit) - Worth(unit, u)'
    BY <1>1, ShortfallNext DEF Shortfall, Initial
  <2>. QED  BY <2>2, <2>3
<1>2. ExchangeSpec => []States
  BY Reached, PTL
<1>. QED  BY <1>1, <1>2, PTL DEF ExchangeSpec, OnlyFaultsLose
\* A state whose books balance.
Balanced == \A unit \in Units, u \in Accounts : Worth(unit, u) = Initial(unit)

\* They balance when both exact sums do.
LEMMA BalancedIs == ASSUME States, Balanced PROVE CashExact /\ SharesExact
<1>1. ASSUME NEW unit \in Units, NEW u \in Accounts
      PROVE  Total(unit, u) = Earned(unit, u)
  <2>1. /\ Earned(unit, u) - Total(unit, u) = Initial(unit) - Worth(unit, u)
        /\ Worth(unit, u) \in Int /\ Initial(unit) \in Int
        /\ Total(unit, u) \in Int /\ Earned(unit, u) \in Int
    BY ShortIs DEF Short
  <2>2. Worth(unit, u) = Initial(unit)
    BY DEF Balanced
  <2>. QED  BY <2>1, <2>2
<1>. QED  BY <1>1 DEF CashExact, SharesExact, Units

\* A step that is not a fault keeps them balanced.
LEMMA BalancedStep ==
    ASSUME States, States', Balanced, [ExchangeNext]_exchangeVars, ~ Fault
    PROVE  Balanced'
<1>1. ASSUME NEW unit \in Units, NEW u \in Accounts
      PROVE  Worth(unit, u)' = Initial(unit)
  BY KeepsStep DEF Balanced
<1>. QED  BY <1>1 DEF Balanced, Initial

\* As long as nothing faults, and no cancel of id 0 is accepted, every account's
\* cash and shares balance with its trades in every state, although switch
\* requests, cancels, rejections and self-trade stops keep coming.
THEOREM BooksBalance ==
    ExchangeSpec /\ [][~ Fault]_exchangeVars
        => [](CashExact /\ SharesExact /\ ~ zeroCancelled)
<1>. DEFINE Inv == Balanced /\ ~ zeroCancelled
<1>1. ExchangeInit => States /\ Inv
  BY AtTheStart DEF Balanced
<1>2. ASSUME States, States', Inv, [ExchangeNext]_exchangeVars, [~ Fault]_exchangeVars
      PROVE  Inv'
  <2>1. CASE ~ Fault
    BY <1>2, <2>1, BalancedStep DEF Fault
  <2>2. CASE UNCHANGED exchangeVars
    <3>1. ASSUME NEW unit \in Units, NEW u \in Accounts
          PROVE  Worth(unit, u)' = Worth(unit, u)
      <4>1. UNCHANGED <<walletVars, pending, incoming, out, engine_queue, book, front, back>>
        BY <2>2 DEF exchangeVars, ioVars, engineVars, dbVars, vars
      <4>. QED  BY <1>2, <4>1, Untouched DEF Worth
    <3>2. zeroCancelled' = zeroCancelled
      BY <2>2 DEF exchangeVars, engineVars, slotVars
    <3>. QED  BY <1>2, <3>1, <3>2 DEF Balanced, Initial
  <2>. QED  BY <1>2, <2>1, <2>2
<1>3. States /\ Inv => CashExact /\ SharesExact /\ ~ zeroCancelled
  BY BalancedIs
<1>4. ExchangeSpec => []States
  BY Reached, PTL
<1>. HIDE DEF Inv
<1>. QED  BY <1>1, <1>2, <1>3, <1>4, PTL DEF ExchangeSpec

\* What a server that never changes its engine holds in hand and in its ring.
Harmless(task) == task.type = "switch" => task.mode = "CURRENT"
Undisturbed ==
    /\ mode = "CURRENT" /\ listening
    /\ pending # NoTask => Harmless(pending)
    /\ \A i \in 1 .. Len(engine_queue) : Harmless(engine_queue[i])

\* A request for another mode needs a client that is allowed to ask for one.
LEMMA HarmlessRequest ==
    ASSUME SwitchTo \subseteq {"CURRENT"}, Undisturbed, [ExchangeNext]_exchangeVars
    PROVE  pending' # NoTask => Harmless(pending')
<1>1. ASSUME NEW c, NEW u, NEW side, NEW p, NEW q, Handle(OrderTask(c, u, side, p, q))
      PROVE  Harmless(pending')
  BY <1>1 DEF Handle, OrderTask, Harmless
<1>2. ASSUME NEW c, NEW m, NEW n, NEW u, CancelRequest(c, m, n, u)  PROVE Harmless(pending')
  BY <1>2 DEF CancelRequest, Handle, CancelTask, Harmless
<1>3. ASSUME NEW m \in SwitchTo, SwitchRequest(m)  PROVE Harmless(pending')
  BY <1>3 DEF SwitchRequest, Handle, SwitchTask, Harmless
<1>4. CASE UNCHANGED pending \/ pending' = NoTask
  BY <1>4 DEF Undisturbed
<1>5. CASE EngineStep
  BY <1>4, <1>5 DEF EngineStep, DropTask, AcceptOrder, RejectOrder, CancelOrder, CancelZero, CancelNothing,
                    SwitchEngine, Fill, StopAtOwn, RestOrder, FinishOrder, ioVars
<1>6. CASE Push \/ Swap \/ Commit \/ CommitFails \/ Crash \/ UNCHANGED exchangeVars
  BY <1>4, <1>6 DEF Push, Swap, Commit, CommitFails, Crash, exchangeVars, ioVars
<1>. QED  BY <1>1, <1>2, <1>3, <1>5, <1>6 DEF ExchangeNext, LimitOrder, StressOrder, MarketOrder

\* The tasks of the ring stay harmless, and the engine stays the same.
LEMMA UndisturbedStep ==
    ASSUME SwitchTo \subseteq {"CURRENT"}, States, States', Undisturbed,
           [ExchangeNext]_exchangeVars
    PROVE  Undisturbed'
<1>1. pending' # NoTask => Harmless(pending')
  BY HarmlessRequest
<1>2. PICK q : q = engine_queue
  OBVIOUS
<1>3. q \in Seq(Tasks) /\ \A i \in 1 .. Len(q) : Harmless(q[i])
  BY <1>2 DEF States, ExchangeTypeOK, Undisturbed
<1>4. \A i \in 1 .. Len(engine_queue') : Harmless(engine_queue'[i])
  <2>1. CASE engine_queue' = q \/ engine_queue' = <<>>
    BY <1>3, <2>1
  <2>2. CASE Push
    <3>1. PICK t : t = pending
      OBVIOUS
    <3>2. engine_queue' = Append(q, t) /\ Harmless(t)
      BY <1>2, <2>2, <3>1 DEF Push, Undisturbed
    <3>. QED  BY <1>3, <3>2, AppendProperties
  <2>3. CASE engine_queue # <<>> /\ engine_queue' = Tail(engine_queue)
    BY <1>2, <1>3, <2>3
  <2>4. ASSUME NEW task \in Tasks, Popped(task)
        PROVE  engine_queue # <<>> /\ engine_queue' = Tail(engine_queue)
    BY <2>4 DEF Popped, DropTask, AcceptOrder, RejectOrder, CancelOrder, CancelZero, CancelNothing,
                SwitchEngine, Pop
  <2>5. ASSUME \/ Requested \/ RestOrder \/ FinishOrder
               \/ \E o \in book : Fill(o) \/ StopAtOwn(o)
               \/ Swap \/ Commit \/ CommitFails \/ UNCHANGED exchangeVars
        PROVE  engine_queue' = q
    BY <1>2, <2>5 DEF Requested, Handle, RestOrder, FinishOrder, Fill, StopAtOwn, Swap, Commit,
                      CommitFails, exchangeVars, engineVars
  <2>6. ASSUME Crash  PROVE engine_queue' = <<>>
    BY <2>6 DEF Crash
  <2>. QED  BY <2>1, <2>2, <2>3, <2>4, <2>5, <2>6, Cases DEF States
<1>5. mode' = "CURRENT" /\ listening'
  <2>0. mode = "CURRENT" /\ listening
    BY DEF Undisturbed
  <2>1. ASSUME NEW task, SwitchEngine(task)  PROVE mode' = "CURRENT" /\ listening'
    <3>1. q # <<>> /\ task = q[1] /\ task.type = "switch" /\ mode' = task.mode
      BY <1>2, <1>3, <2>1 DEF SwitchEngine, Pop
    <3>2. 1 \in 1 .. Len(q)
      BY <1>3, <3>1
    <3>3. task.mode = "CURRENT"
      BY <1>3, <3>1, <3>2 DEF Harmless
    <3>. QED  BY <2>0, <2>1, <3>1, <3>3 DEF SwitchEngine
  <2>2. ASSUME NEW task \in Tasks, Popped(task)  PROVE mode' = "CURRENT" /\ listening'
    BY <2>0, <2>1, <2>2 DEF Popped, DropTask, AcceptOrder, RejectOrder, CancelOrder,
                                 CancelZero, CancelNothing
  <2>3. ASSUME \/ Requested \/ Push \/ RestOrder \/ FinishOrder
               \/ \E o \in book : Fill(o) \/ StopAtOwn(o)
               \/ Swap \/ Commit \/ CommitFails \/ UNCHANGED exchangeVars
        PROVE  mode' = mode /\ listening' = listening
    BY <2>3 DEF Requested, Handle, Push, RestOrder, FinishOrder, Fill, StopAtOwn, Swap, Commit,
                CommitFails, exchangeVars, engineVars
  <2>4. ASSUME Crash  PROVE mode' = "CURRENT" /\ listening'
    BY <2>4 DEF Crash
  <2>. QED  BY <2>0, <2>2, <2>3, <2>4, Cases DEF States
<1>. QED  BY <1>1, <1>4, <1>5 DEF Undisturbed

\* Nothing faults in a server that lists every company it is asked for, keeps
\* its engine, does not crash and commits, unless it cancels id 0.
LEMMA NothingFaults ==
    ASSUME MayCrash = FALSE, Companies = {Listed}, States, Undisturbed, Undisturbed',
           ~ zeroCancelled'
    PROVE  ~ Fault
<1>1. ~ Crash /\ ~ CommitFails
  BY DEF Crash, CommitFails
<1>2. mode' = mode /\ listening
  BY DEF Undisturbed
<1>3. ASSUME NEW i \in {1} \intersect DOMAIN engine_queue, DropTask(engine_queue[i])
      PROVE  FALSE
  <2>1. engine_queue[i] \in Tasks
    BY HeadIs DEF States
  <2>2. PICK t : t = engine_queue[i]
    OBVIOUS
  <2>3. t \in Tasks /\ t.type # "switch" /\ t.company # Listed
    BY <1>3, <2>1, <2>2 DEF DropTask
  <2>. QED  BY <2>3 DEF Tasks
<1>. QED  BY <1>1, <1>2, <1>3 DEF Fault

\* Until id 0 is cancelled, the cash and the shares of every account balance in
\* every state of a server that lists every company it is asked for, is only
\* asked for the engine that it runs, does not crash and commits, for every
\* number of users, prices, quantities and requests, and with stress orders and
\* torn reads.
THEOREM BooksBalanceUndisturbed ==
    ASSUME SwitchTo \subseteq {"CURRENT"}, MayCrash = FALSE, Companies = {Listed}
    PROVE  ExchangeSpec => []CashExact /\ []SharesExact
<1>. DEFINE Inv == States /\ (zeroCancelled \/ Balanced) /\ Undisturbed
<1>1. ExchangeInit => Inv
  <2>1. ExchangeInit => Undisturbed
    BY DEF ExchangeInit, Undisturbed
  <2>. QED  BY <2>1, AtTheStart DEF Balanced
<1>2. ASSUME Inv, [ExchangeNext]_exchangeVars  PROVE Inv'
  <2>1. States' /\ Undisturbed'
    BY <1>2, StatesStep, UndisturbedStep
  <2>2. ASSUME ~ zeroCancelled'  PROVE Balanced'
    <3>1. ~ Fault
      BY <1>2, <2>1, <2>2, NothingFaults
    <3>2. ~ zeroCancelled
      BY <1>2, <2>2, ZeroStays
    <3>. QED  BY <1>2, <2>1, <3>1, <3>2, BalancedStep
  <2>. QED  BY <2>1, <2>2
<1>3. Inv => CashExact /\ SharesExact
  BY BalancedIs DEF CashExact, SharesExact
<1>. HIDE DEF Inv
<1>. QED  BY <1>1, <1>2, <1>3, PTL DEF ExchangeSpec
=============================================================================

-------------------------- MODULE SPSCQueueProofs ---------------------------
(***************************************************************************)
(* The ring of any size has no data race on its slots, although each       *)
(* thread sees the index of the other one late, and it implements a        *)
(* bounded FIFO queue.                                                     *)
(***************************************************************************)
EXTENDS SPSCQueue, SequenceTheorems, TLAPS

\* Taking % of a number less than a round away from 0 .. Size - 1.
LEMMA ModSize ==
    ASSUME NEW x \in Int, NEW r \in Slots, x = r \/ x = r + Size \/ x = r - Size
    PROVE  x % Size = r
  BY QueueAssumption, SMTT(30) DEF Slots

\* The successor of a slot, without %.
LEMMA Successor ==
    ASSUME NEW i \in Slots
    PROVE  /\ NextSlot(i) \in Slots
           /\ NextSlot(i) = IF i = Size - 1 THEN 0 ELSE i + 1
<1>. USE QueueAssumption
<1>. DEFINE r == IF i = Size - 1 THEN 0 ELSE i + 1
<1>1. r \in Slots /\ i + 1 \in Int /\ (i + 1 = r \/ i + 1 = r + Size)
  BY DEF Slots
<1>2. (i + 1) % Size = r
  BY <1>1, ModSize
<1>. QED  BY <1>1, <1>2 DEF NextSlot

\* A value an index had since it was last seen lies between that one and the
\* present one.
LEMMA VisibleBetween ==
    ASSUME NEW seen \in Slots, NEW now \in Slots, NEW v \in Visible(seen, now)
    PROVE  v \in Slots /\ Dist(seen, v) + Dist(v, now) = Dist(seen, now)
<1>. USE QueueAssumption
<1>1. Dist(seen, now) \in Slots
      /\ (now - seen = Dist(seen, now) \/ now - seen = Dist(seen, now) - Size)
  BY DEF Slots, Dist
<1>2. (now - seen) % Size = Dist(seen, now)
  BY <1>1, ModSize DEF Slots
<1>3. PICK k \in 0 .. Dist(seen, now) : v = (seen + k) % Size
  BY <1>2 DEF Visible
<1>. DEFINE r == IF seen + k < Size THEN seen + k ELSE seen + k - Size
<1>4. r \in Slots /\ seen + k \in Int /\ (seen + k = r \/ seen + k = r + Size)
  BY <1>1, <1>3 DEF Slots
<1>5. v = r
  BY <1>3, <1>4, ModSize
<1>. QED  BY <1>3, <1>4, <1>5 DEF Slots, Dist

Inv == TypeOK /\ IndicesOrdered

LEMMA InitInv == Init => Inv
<1>. SUFFICES ASSUME Init PROVE Inv
  OBVIOUS
<1>1. TypeOK
  BY QueueAssumption DEF Init, TypeOK, Slots, Items
<1>2. IndicesOrdered
  BY QueueAssumption DEF Init, IndicesOrdered, Dist
<1>. QED  BY <1>1, <1>2 DEF Inv

\* Each step of a thread keeps the order of the indices.
LEMMA NextInv == Inv /\ [Next]_vars => Inv'
<1>. SUFFICES ASSUME Inv, [Next]_vars PROVE Inv'
  OBVIOUS
<1>. USE QueueAssumption DEF Inv
<1>0. head \in Slots /\ tail \in Slots /\ seen_head \in Slots /\ seen_tail \in Slots
  BY DEF TypeOK
<1>1. CASE Call
  <2>1. (task + 1) % ItemMod \in Items
    BY DEF TypeOK, Items
  <2>2. TypeOK'
    BY <1>1, <2>1 DEF Call, TypeOK, consumerVars
  <2>3. IndicesOrdered'
    BY <1>1 DEF Call, IndicesOrdered, Dist, consumerVars
  <2>. QED  BY <2>2, <2>3
<1>2. ASSUME NEW v \in Slots, CheckFull(v)
      PROVE  Inv'
  <2>1. v \in Slots /\ Dist(seen_head, v) + Dist(v, head) = Dist(seen_head, head)
    BY <1>0, <1>2, VisibleBetween DEF CheckFull
  <2>2. NextSlot(tail) = IF tail = Size - 1 THEN 0 ELSE tail + 1
    BY <1>0, Successor
  <2>3. TypeOK'
    BY <1>2, <2>1 DEF CheckFull, TypeOK, consumerVars
  <2>4. /\ seen_head' = v
        /\ head' = head /\ tail' = tail /\ seen_tail' = seen_tail /\ cpc' = cpc
        /\ ppc = "check"
        /\ ppc' = IF NextSlot(tail) = v THEN "check" ELSE "write"
    BY <1>2 DEF CheckFull, Full, consumerVars
  <2>5. Dist(seen_head, head) + Dist(head, seen_tail) + Dist(seen_tail, tail) < Size
    BY <2>4 DEF IndicesOrdered
  <2>6. Dist(v, head) + Dist(head, seen_tail) + Dist(seen_tail, tail) < Size
    BY <1>0, <2>1, <2>5 DEF Dist, Slots
  <2>7. Dist(v, head) + Dist(head, seen_tail) + Dist(seen_tail, tail) = Dist(v, tail)
    BY <1>0, <2>1, <2>6 DEF Dist, Slots
  <2>8. NextSlot(tail) # v => Dist(v, tail) < Size - 1
    BY <1>0, <2>1, <2>2 DEF Dist, Slots
  <2>9. IndicesOrdered'
    <3>1. Dist(v, head) + Dist(head, seen_tail) + Dist(seen_tail, tail)
             < IF ppc' \in {"write", "publish"} THEN Size - 1 ELSE Size
      BY <2>4, <2>6, <2>7, <2>8
    <3>. QED  BY <2>4, <3>1 DEF IndicesOrdered, Dist
  <2>. QED  BY <2>3, <2>9
<1>3. CASE Write
  <2>1. TypeOK'
    BY <1>3 DEF Write, TypeOK, consumerVars
  <2>2. IndicesOrdered'
    BY <1>3 DEF Write, IndicesOrdered, Dist, consumerVars
  <2>. QED  BY <2>1, <2>2
<1>4. CASE Publish
  <2>1. /\ NextSlot(tail) \in Slots
        /\ NextSlot(tail) = IF tail = Size - 1 THEN 0 ELSE tail + 1
    BY <1>0, Successor
  <2>2. TypeOK'
    BY <1>4, <2>1 DEF Publish, TypeOK, consumerVars
  <2>3. /\ tail' = NextSlot(tail)
        /\ head' = head /\ seen_head' = seen_head /\ seen_tail' = seen_tail /\ cpc' = cpc
        /\ ppc = "publish" /\ ppc' = "idle"
    BY <1>4 DEF Publish, consumerVars
  <2>4. Dist(seen_head, head) + Dist(head, seen_tail) + Dist(seen_tail, tail) < Size - 1
    BY <2>3 DEF IndicesOrdered
  <2>5. Dist(seen_tail, NextSlot(tail)) = Dist(seen_tail, tail) + 1
    BY <1>0, <2>1, <2>4 DEF Dist, Slots
  <2>6. Dist(seen_head, head) + Dist(head, seen_tail) + Dist(seen_tail, NextSlot(tail)) < Size
    BY <1>0, <2>4, <2>5 DEF Dist, Slots
  <2>7. IndicesOrdered'
    BY <2>3, <2>6 DEF IndicesOrdered, Dist
  <2>. QED  BY <2>2, <2>7
<1>5. ASSUME NEW v \in Slots, CheckEmpty(v)
      PROVE  Inv'
  <2>1. v \in Slots /\ Dist(seen_tail, v) + Dist(v, tail) = Dist(seen_tail, tail)
    BY <1>0, <1>5, VisibleBetween DEF CheckEmpty
  <2>2. TypeOK'
    BY <1>5, <2>1 DEF CheckEmpty, TypeOK, producerVars
  <2>3. /\ seen_tail' = v
        /\ head' = head /\ tail' = tail /\ seen_head' = seen_head /\ ppc' = ppc
        /\ cpc' = IF head = v THEN "check" ELSE "read"
    BY <1>5 DEF CheckEmpty, Empty, producerVars
  <2>4. Dist(seen_head, head) + Dist(head, seen_tail) + Dist(seen_tail, tail)
           < IF ppc \in {"write", "publish"} THEN Size - 1 ELSE Size
    BY DEF IndicesOrdered
  <2>5. Dist(head, v) = Dist(head, seen_tail) + Dist(seen_tail, v)
    BY <1>0, <2>1, <2>4 DEF Dist, Slots
  <2>6. Dist(seen_head, head) + Dist(head, v) + Dist(v, tail)
           < IF ppc \in {"write", "publish"} THEN Size - 1 ELSE Size
    BY <1>0, <2>1, <2>4, <2>5 DEF Dist, Slots
  <2>7. IndicesOrdered'
    BY <2>3, <2>6 DEF IndicesOrdered, Dist
  <2>. QED  BY <2>2, <2>7
<1>6. CASE Read
  <2>1. TypeOK'
    BY <1>6 DEF Read, TypeOK, producerVars
  <2>2. IndicesOrdered'
    BY <1>6 DEF Read, IndicesOrdered, Dist, producerVars
  <2>. QED  BY <2>1, <2>2
<1>7. CASE Release
  <2>1. /\ NextSlot(head) \in Slots
        /\ NextSlot(head) = IF head = Size - 1 THEN 0 ELSE head + 1
    BY <1>0, Successor
  <2>2. TypeOK'
    BY <1>7, <2>1 DEF Release, TypeOK, producerVars
  <2>3. /\ head' = NextSlot(head)
        /\ tail' = tail /\ seen_head' = seen_head /\ seen_tail' = seen_tail /\ ppc' = ppc
        /\ cpc = "release" /\ cpc' = "check"
    BY <1>7 DEF Release, producerVars
  <2>4. /\ head # seen_tail
        /\ Dist(seen_head, head) + Dist(head, seen_tail) + Dist(seen_tail, tail)
              < IF ppc \in {"write", "publish"} THEN Size - 1 ELSE Size
    BY <2>3 DEF IndicesOrdered
  <2>5. Dist(seen_head, NextSlot(head)) + Dist(NextSlot(head), seen_tail)
           = Dist(seen_head, head) + Dist(head, seen_tail)
    BY <1>0, <2>1, <2>4 DEF Dist, Slots
  <2>6. Dist(seen_head, NextSlot(head)) + Dist(NextSlot(head), seen_tail)
           + Dist(seen_tail, tail)
              < IF ppc \in {"write", "publish"} THEN Size - 1 ELSE Size
    BY <1>0, <2>1, <2>4, <2>5 DEF Dist, Slots
  <2>7. IndicesOrdered'
    BY <2>3, <2>6 DEF IndicesOrdered, Dist
  <2>. QED  BY <2>2, <2>7
<1>8. CASE UNCHANGED vars
  BY <1>8 DEF vars, TypeOK, IndicesOrdered, Dist
<1>. QED  BY <1>1, <1>2, <1>3, <1>4, <1>5, <1>6, <1>7, <1>8 DEF Next

\* The indices of both threads stay in range and in ring order, however late
\* a thread sees the other's stores.
THEOREM RingOrdered == Spec => [](TypeOK /\ IndicesOrdered)
<1>1. Spec => []Inv
  BY InitInv, NextInv, PTL DEF Spec
<1>. QED  BY <1>1, PTL DEF Inv

\* push never writes the slot that pop is moving a task out of.
THEOREM NoRace == Spec => []NoSlotRace
<1>1. Inv => NoSlotRace
  <2>. SUFFICES ASSUME Inv, ppc = "write", cpc = "read", tail = head
                PROVE  FALSE
    BY DEF NoSlotRace
  <2>1. Dist(seen_head, head) + Dist(head, seen_tail) + Dist(seen_tail, head) < Size - 1
        /\ head # seen_tail
    BY DEF Inv, IndicesOrdered
  <2>2. head \in Slots /\ seen_head \in Slots /\ seen_tail \in Slots
    BY DEF Inv, TypeOK
  <2>. QED  BY <2>1, <2>2, QueueAssumption DEF Dist, Slots
<1>2. Spec => []Inv
  BY InitInv, NextInv, PTL DEF Spec
<1>. QED  BY <1>1, <1>2, PTL
-----------------------------------------------------------------------------
(* The ring is a FIFO queue.                                               *)

\* The slot of the k-th task after head h, without %.
Where(h, k) == IF h + k - 1 < Size THEN h + k - 1 ELSE h + k - 1 - Size

\* What lies in buffer b from h to t; the first may have been moved to i.
RingOf(b, h, t, c, i) ==
    [k \in 1 .. Dist(h, t) |-> IF k = 1 /\ c = "release" THEN i ELSE b[Where(h, k)]]

\* The values a slot or the consumer's item may have.
Contents == Items \union {MovedFrom}

LEMMA WhereIs ==
    ASSUME NEW h \in Slots, NEW k \in 1 .. Size
    PROVE  (h + k - 1) % Size = Where(h, k) /\ Where(h, k) \in Slots
<1>. USE QueueAssumption
<1>1. /\ Where(h, k) \in Slots /\ h + k - 1 \in Int
      /\ h + k - 1 = Where(h, k) \/ h + k - 1 = Where(h, k) + Size
  BY DEF Slots, Where
<1>. QED  BY <1>1, ModSize

\* How many slots are from one to another.
LEMMA DistIs ==
    ASSUME NEW h \in Slots, NEW t \in Slots
    PROVE  /\ Dist(h, t) \in 0 .. Size - 1 /\ (t - h) % Size = Dist(h, t)
           /\ Dist(h, t) = 0 <=> h = t
<1>. USE QueueAssumption
<1>1. /\ Dist(h, t) \in Slots /\ t - h \in Int
      /\ t - h = Dist(h, t) \/ t - h = Dist(h, t) - Size
  BY DEF Slots, Dist
<1>2. Dist(h, t) = 0 <=> h = t
  BY DEF Slots, Dist
<1>. QED  BY <1>1, <1>2, ModSize DEF Slots

\* The ring of the specification is that one.
LEMMA RingIs == TypeOK => Ring = RingOf(buffer, head, tail, cpc, item)
<1>. SUFFICES ASSUME TypeOK  PROVE Ring = RingOf(buffer, head, tail, cpc, item)
  OBVIOUS
<1>1. head \in Slots /\ tail \in Slots /\ Size \in Nat
  BY QueueAssumption DEF TypeOK
<1>2. (tail - head) % Size = Dist(head, tail) /\ Dist(head, tail) \in 0 .. Size - 1
  BY <1>1, DistIs
<1>3. \A k \in 1 .. Dist(head, tail) : (head + k - 1) % Size = Where(head, k)
  <2>1. \A k \in 1 .. Dist(head, tail) : k \in 1 .. Size
    BY <1>1, <1>2
  <2>. QED  BY <1>1, <2>1, WhereIs
<1>. QED  BY <1>2, <1>3 DEF Ring, RingOf

\* And it is one after a step.
LEMMA RingNext == TypeOK' => Ring' = RingOf(buffer', head', tail', cpc', item')
<1>1. (TypeOK => Ring = RingOf(buffer, head, tail, cpc, item))'
  BY RingIs, PTL
<1>. QED  BY <1>1

\* What a ring holds, as a sequence.
LEMMA RingType ==
    ASSUME NEW b \in [Slots -> Contents], NEW h \in Slots, NEW t \in Slots, NEW c,
           NEW i \in Contents
    PROVE  /\ RingOf(b, h, t, c, i) \in Seq(Contents)
           /\ Len(RingOf(b, h, t, c, i)) = Dist(h, t)
           /\ DOMAIN RingOf(b, h, t, c, i) = 1 .. Dist(h, t)
           /\ \A k \in 1 .. Dist(h, t) :
                 /\ Where(h, k) \in Slots
                 /\ RingOf(b, h, t, c, i)[k] = IF k = 1 /\ c = "release" THEN i ELSE b[Where(h, k)]
<1>1. PICK n : n = Dist(h, t)
  OBVIOUS
<1>2. n \in Nat /\ n <= Size - 1 /\ Size \in Nat
  BY <1>1, DistIs, QueueAssumption
<1>3. \A k \in 1 .. n : Where(h, k) \in Slots
  <2>1. \A k \in 1 .. n : k \in 1 .. Size
    BY <1>2
  <2>. QED  BY <2>1, WhereIs
<1>4. PICK r : r = RingOf(b, h, t, c, i)
  OBVIOUS
<1>5. r = [k \in 1 .. n |-> IF k = 1 /\ c = "release" THEN i ELSE b[Where(h, k)]]
  BY <1>1, <1>4 DEF RingOf
<1>6. r \in [1 .. n -> Contents]
  BY <1>3, <1>5
<1>7. r \in Seq(Contents) /\ Len(r) = n
  BY <1>2, <1>6, SeqDef, LenProperties
<1>. QED  BY <1>1, <1>3, <1>4, <1>5, <1>7

\* The slots of the tasks are those from the head to the tail.
LEMMA WhereFree ==
    ASSUME NEW h \in Slots, NEW t \in Slots, NEW k \in 1 .. Dist(h, t)
    PROVE  /\ Where(h, k) \in Slots /\ Where(h, k) # t
           /\ k # 1 => Where(h, k) # h
           /\ k = 1 => Where(h, k) = h
  BY DistIs, QueueAssumption DEF Where, Dist, Slots

\* Writing the slot at the tail changes nothing in the ring.
LEMMA RingWritten ==
    ASSUME NEW b \in [Slots -> Contents], NEW h \in Slots, NEW t \in Slots, NEW c,
           NEW i \in Contents, NEW d, \A s \in Slots \ {t} : d[s] = b[s]
    PROVE  RingOf(d, h, t, c, i) = RingOf(b, h, t, c, i)
<1>1. \A k \in 1 .. Dist(h, t) : Where(h, k) \in Slots /\ Where(h, k) # t
  BY WhereFree
<1>. QED  BY <1>1 DEF RingOf

\* Moving the first task out leaves the ring what it was.
LEMMA RingRead ==
    ASSUME NEW b \in [Slots -> Contents], NEW h \in Slots, NEW t \in Slots,
           NEW i \in Contents, NEW x \in Contents
    PROVE  RingOf([b EXCEPT ![h] = x], h, t, "release", b[h]) = RingOf(b, h, t, "read", i)
<1>1. \A k \in 1 .. Dist(h, t) : /\ Where(h, k) \in Slots
                                 /\ k # 1 => Where(h, k) # h
                                 /\ k = 1 => Where(h, k) = h
  BY WhereFree
<1>. QED  BY <1>1 DEF RingOf

\* Advancing the tail appends what was written there.
LEMMA RingPublished ==
    ASSUME NEW b \in [Slots -> Contents], NEW h \in Slots, NEW t \in Slots, NEW c,
           NEW i \in Contents, Dist(h, t) < Size - 1, c = "release" => h # t
    PROVE  RingOf(b, h, NextSlot(t), c, i) = Append(RingOf(b, h, t, c, i), b[t])
<1>. USE QueueAssumption
<1>0. PICK u, n : u = NextSlot(t) /\ n = Dist(h, t)
  OBVIOUS
<1>1. u \in Slots /\ u = IF t = Size - 1 THEN 0 ELSE t + 1
  BY <1>0, Successor
<1>2. n \in Nat /\ Dist(h, u) = n + 1 /\ (n = 0 <=> h = t)
  BY <1>0, <1>1, DistIs DEF Dist, Slots
<1>3. Where(h, n + 1) = t
  BY <1>0, <1>2 DEF Where, Dist, Slots
<1>4. PICK r, q : r = RingOf(b, h, t, c, i) /\ q = RingOf(b, h, u, c, i)
  OBVIOUS
<1>5. /\ r \in Seq(Contents) /\ Len(r) = n
      /\ \A k \in 1 .. n : r[k] = IF k = 1 /\ c = "release" THEN i ELSE b[Where(h, k)]
  BY <1>0, <1>4, RingType
<1>6. /\ q \in Seq(Contents) /\ Len(q) = n + 1
      /\ \A k \in 1 .. n + 1 : q[k] = IF k = 1 /\ c = "release" THEN i ELSE b[Where(h, k)]
  BY <1>1, <1>2, <1>4, RingType
<1>7. q[n + 1] = b[t]
  <2>1. n + 1 \in 1 .. n + 1 /\ ~ (n + 1 = 1 /\ c = "release")
    BY <1>2
  <2>. QED  BY <1>3, <1>6, <2>1
<1>8. PICK a : a = Append(r, b[t])
  OBVIOUS
<1>9. /\ a \in Seq(Contents) /\ Len(a) = n + 1 /\ a[n + 1] = b[t]
      /\ \A k \in 1 .. n : a[k] = r[k]
  BY <1>5, <1>8, AppendProperties
<1>10. \A k \in 1 .. n + 1 : q[k] = a[k]
  <2>1. \A k \in 1 .. n + 1 : k = n + 1 \/ k \in 1 .. n
    BY <1>2
  <2>. QED  BY <1>5, <1>6, <1>7, <1>9, <2>1
<1>11. q = a
  BY <1>6, <1>9, <1>10, SeqEqual
<1>. QED  BY <1>0, <1>4, <1>8, <1>11

\* Advancing the head removes the first task.
LEMMA RingReleased ==
    ASSUME NEW b \in [Slots -> Contents], NEW h \in Slots, NEW t \in Slots,
           NEW i \in Contents, NEW m \in Contents, h # t
    PROVE  /\ RingOf(b, h, t, "release", i) # <<>>
           /\ Head(RingOf(b, h, t, "release", i)) = i
           /\ RingOf(b, NextSlot(h), t, "check", m) = Tail(RingOf(b, h, t, "release", i))
<1>. USE QueueAssumption
<1>0. PICK u, n : u = NextSlot(h) /\ n = Dist(h, t)
  OBVIOUS
<1>1. u \in Slots /\ u = IF h = Size - 1 THEN 0 ELSE h + 1
  BY <1>0, Successor
<1>2. n \in Nat /\ n > 0 /\ n <= Size - 1 /\ Dist(u, t) = n - 1
  BY <1>0, <1>1, DistIs DEF Dist, Slots
<1>3. \A k \in 1 .. n - 1 : Where(u, k) = Where(h, k + 1)
  BY <1>1, <1>2 DEF Where, Slots
<1>4. PICK r, q : r = RingOf(b, h, t, "release", i) /\ q = RingOf(b, u, t, "check", m)
  OBVIOUS
<1>5. /\ r \in Seq(Contents) /\ Len(r) = n
      /\ \A k \in 1 .. n : r[k] = IF k = 1 THEN i ELSE b[Where(h, k)]
  BY <1>0, <1>4, RingType
<1>6. /\ q \in Seq(Contents) /\ Len(q) = n - 1
      /\ \A k \in 1 .. n - 1 : q[k] = b[Where(u, k)]
  <2>1. PICK c, p : c = "check" /\ p = Dist(u, t)
    OBVIOUS
  <2>2. q = RingOf(b, u, t, c, m)
    BY <1>4, <2>1
  <2>3. /\ q \in Seq(Contents) /\ Len(q) = p
        /\ \A k \in 1 .. p : q[k] = IF k = 1 /\ c = "release" THEN m ELSE b[Where(u, k)]
    BY <1>1, <2>1, <2>2, RingType
  <2>. QED  BY <1>2, <2>1, <2>3
<1>7. r # <<>> /\ Head(r) = i
  <2>1. r # <<>> /\ Head(r) = r[1] /\ 1 \in 1 .. n
    BY <1>2, <1>5
  <2>. QED  BY <1>5, <2>1
<1>8. /\ Tail(r) \in Seq(Contents) /\ Len(Tail(r)) = n - 1
      /\ \A k \in 1 .. n - 1 : Tail(r)[k] = r[k + 1]
  BY <1>2, <1>5, <1>7
<1>9. \A k \in 1 .. n - 1 : q[k] = Tail(r)[k]
  <2>1. \A k \in 1 .. n - 1 : k + 1 \in 1 .. n /\ k + 1 # 1
    BY <1>2
  <2>. QED  BY <1>3, <1>5, <1>6, <1>8, <2>1
<1>10. q = Tail(r)
  BY <1>6, <1>8, <1>9, SeqEqual
<1>. QED  BY <1>0, <1>4, <1>7, <1>10
\* A consumer that passed its test has a task to move.
LEMMA HeadNotTail ==
    ASSUME Inv, cpc \in {"read", "release"}
    PROVE  head # tail
<1>1. /\ head \in Slots /\ tail \in Slots /\ seen_head \in Slots /\ seen_tail \in Slots
      /\ head # seen_tail
  BY DEF Inv, TypeOK, IndicesOrdered
<1>2. Dist(seen_head, head) + Dist(head, seen_tail) + Dist(seen_tail, tail)
        < IF ppc \in {"write", "publish"} THEN Size - 1 ELSE Size
  BY DEF Inv, IndicesOrdered
<1>3. Dist(seen_head, head) + Dist(head, seen_tail) + Dist(seen_tail, tail) < Size
  BY <1>1, <1>2, QueueAssumption DEF Dist, Slots
<1>. QED  BY <1>1, <1>3, QueueAssumption DEF Dist, Slots

\* A producer that passed its test has a slot to write.
LEMMA RoomLeft ==
    ASSUME Inv, ppc = "publish"
    PROVE  Dist(head, tail) < Size - 1
<1>1. /\ head \in Slots /\ tail \in Slots /\ seen_head \in Slots /\ seen_tail \in Slots
      /\ Dist(seen_head, head) + Dist(head, seen_tail) + Dist(seen_tail, tail) < Size - 1
  BY DEF Inv, TypeOK, IndicesOrdered
<1>. QED  BY <1>1, QueueAssumption DEF Dist, Slots
\* What a published slot holds.
Written == ppc = "publish" => buffer[tail] = task

\* Between its write and its release store the producer's task stays in the
\* slot at the tail: the consumer only moves from the head, and the ring is
\* not empty when it does.
LEMMA WrittenStep == Inv /\ Written /\ [Next]_vars => Written'
<1>. SUFFICES ASSUME Inv, Written, [Next]_vars  PROVE Written'
  OBVIOUS
<1>1. TypeOK /\ head \in Slots /\ tail \in Slots /\ buffer \in [Slots -> Contents]
  BY DEF Inv, TypeOK, Contents
<1>2. CASE Write
  BY <1>1, <1>2 DEF Write, Written, consumerVars
<1>3. CASE Read
  <2>1. head # tail
    BY <1>3, HeadNotTail DEF Read
  <2>. QED  BY <1>1, <1>3, <2>1 DEF Read, Written, producerVars
<1>4. CASE UNCHANGED vars
  BY <1>4 DEF vars, Written
<1>5. ASSUME NEW v \in Slots, CheckFull(v) \/ CheckEmpty(v)  PROVE Written'
  BY <1>5 DEF CheckFull, CheckEmpty, Written, consumerVars, producerVars
<1>6. CASE Call \/ Publish \/ Release
  BY <1>6 DEF Call, Publish, Release, Written, consumerVars, producerVars
<1>. QED  BY <1>2, <1>3, <1>4, <1>5, <1>6 DEF Next

\* Each step of the two threads is a step of the queue, or none: the stores of
\* the indices are the steps.
LEMMA RingStep == Inv /\ Inv' /\ Written /\ [Next]_vars => [Fifo!Next]_(Fifo!vars)
<1>. SUFFICES ASSUME Inv, Inv', Written, [Next]_vars  PROVE [Fifo!Next]_(Fifo!vars)
  OBVIOUS
<1>0. /\ TypeOK /\ buffer \in [Slots -> Contents] /\ head \in Slots /\ tail \in Slots
      /\ item \in Contents /\ task \in Items /\ MovedFrom \in Contents
  BY DEF Inv, TypeOK, Contents
<1>1. /\ Ring = RingOf(buffer, head, tail, cpc, item)
      /\ Ring' = RingOf(buffer', head', tail', cpc', item')
  BY RingIs, RingNext DEF Inv
<1>2. ASSUME Ring' = Ring, got' = got  PROVE [Fifo!Next]_(Fifo!vars)
  BY <1>2 DEF Fifo!vars
<1>3. CASE Call \/ UNCHANGED vars
  BY <1>1, <1>2, <1>3 DEF Call, vars, consumerVars
<1>4. ASSUME NEW v \in Slots, CheckFull(v)  PROVE [Fifo!Next]_(Fifo!vars)
  BY <1>1, <1>2, <1>4 DEF CheckFull, consumerVars
<1>5. ASSUME NEW v \in Slots, CheckEmpty(v)  PROVE [Fifo!Next]_(Fifo!vars)
  <2>1. cpc # "release" /\ cpc' # "release" /\ UNCHANGED <<buffer, head, tail, item, got>>
    BY <1>5 DEF CheckEmpty, producerVars
  <2>2. RingOf(buffer, head, tail, cpc', item) = RingOf(buffer, head, tail, cpc, item)
    BY <2>1 DEF RingOf
  <2>. QED  BY <1>1, <1>2, <2>1, <2>2
<1>6. CASE Write
  <2>1. /\ buffer' = [buffer EXCEPT ![tail] = task]
        /\ UNCHANGED <<head, tail, cpc, item, got>>
    BY <1>6 DEF Write, consumerVars
  <2>2. RingOf(buffer', head, tail, cpc, item) = RingOf(buffer, head, tail, cpc, item)
    <3>1. PICK b, d : b = buffer /\ d = buffer'
      OBVIOUS
    <3>2. b \in [Slots -> Contents] /\ \A s \in Slots \ {tail} : d[s] = b[s]
      BY <1>0, <2>1, <3>1
    <3>3. RingOf(d, head, tail, cpc, item) = RingOf(b, head, tail, cpc, item)
      BY <1>0, <3>2, RingWritten
    <3>. QED  BY <3>1, <3>3
  <2>. QED  BY <1>1, <1>2, <2>1, <2>2
<1>7. CASE Publish
  <2>1. /\ tail' = NextSlot(tail) /\ buffer[tail] = task
        /\ UNCHANGED <<buffer, head, cpc, item, got>>
    BY <1>7 DEF Publish, Written, consumerVars
  <2>2. cpc = "release" => head # tail
    BY HeadNotTail
  <2>3. Dist(head, tail) < Size - 1
    BY <1>7, RoomLeft DEF Publish
  <2>4. Ring' = Append(Ring, task)
    BY <1>0, <1>1, <2>1, <2>2, <2>3, RingPublished
  <2>5. Len(Ring) < Size - 1
    BY <1>0, <1>1, <2>3, RingType
  <2>. QED  BY <1>0, <2>1, <2>4, <2>5 DEF Fifo!Next, Fifo!Put
<1>8. CASE Read
  <2>1. /\ buffer' = [buffer EXCEPT ![head] = MovedFrom] /\ item' = buffer[head]
        /\ cpc = "read" /\ cpc' = "release" /\ UNCHANGED <<head, tail, got>>
    BY <1>8 DEF Read, producerVars
  <2>. QED  BY <1>0, <1>1, <1>2, <2>1, RingRead
<1>9. CASE Release
  <2>1. /\ head' = NextSlot(head) /\ got' = item /\ item' = MovedFrom
        /\ cpc = "release" /\ cpc' = "check" /\ UNCHANGED <<buffer, tail>>
    BY <1>9 DEF Release, producerVars
  <2>2. head # tail
    BY <2>1, HeadNotTail
  <2>3. Ring # <<>> /\ Head(Ring) = item /\ Ring' = Tail(Ring)
    BY <1>0, <1>1, <2>1, <2>2, RingReleased
  <2>. QED  BY <2>1, <2>3 DEF Fifo!Next, Fifo!Take
<1>. QED  BY <1>3, <1>4, <1>5, <1>6, <1>7, <1>8, <1>9 DEF Next

\* SPSCQueue.ImplementsFifo without its fairness: whatever the two threads see
\* of each other's indices, and when, the ring is a FIFO queue for Size - 1
\* tasks, which loses, repeats and reorders nothing.
THEOREM RingIsFifo == Spec => Fifo!Init /\ [][Fifo!Next]_(Fifo!vars)
<1>1. Init => Fifo!Init
  <2>. SUFFICES ASSUME Init  PROVE Fifo!Init
    OBVIOUS
  <2>1. TypeOK /\ head = 0 /\ tail = 0 /\ got = MovedFrom
    BY InitInv DEF Inv, Init
  <2>2. Dist(head, tail) = 0
    BY <2>1 DEF Dist
  <2>3. Ring = <<>>
    BY <2>1, <2>2, RingIs DEF RingOf
  <2>. QED  BY <2>1, <2>3 DEF Fifo!Init
<1>2. Init => Written
  BY DEF Init, Written
<1>. QED  BY <1>1, <1>2, InitInv, NextInv, WrittenStep, RingStep, PTL DEF Spec
=============================================================================

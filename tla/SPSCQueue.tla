----------------------------- MODULE SPSCQueue ------------------------------
(***************************************************************************)
(* SPSCQueue of Server.h, the ring through which the I/O thread hands      *)
(* tasks to the engine thread, at the grain of its atomic operations.      *)
(*                                                                         *)
(* head_ is stored by the consumer only and tail_ by the producer only, so *)
(* a thread's relaxed load of its own index needs no step.  An acquire     *)
(* load of the other thread's index may return any value that index had    *)
(* since the last load: the threads are not sequentially consistent.  The  *)
(* slot is a plain object: its write and its move-out take time, during    *)
(* which the other thread must stay away from it.                          *)
(*                                                                         *)
(* Tasks are numbered modulo ItemMod > Size, so any two tasks that could   *)
(* be in the ring together are different.                                  *)
(***************************************************************************)
EXTENDS Integers

CONSTANTS
    Size,       \* slots of the ring (65536)
    ItemMod,    \* bound: tasks are numbered 0 .. ItemMod-1, then 0 again
    MovedFrom   \* what std::move leaves in a slot, and an unused slot

Slots == 0 .. Size - 1
Items == 0 .. ItemMod - 1

ASSUME QueueAssumption ==
    /\ Size \in Nat /\ Size > 1
    /\ ItemMod \in Nat /\ ItemMod > Size
    /\ MovedFrom \notin Items

VARIABLES
    buffer,     \* buffer_
    head,       \* head_
    tail,       \* tail_
    seen_head,  \* the value of head_ the producer loaded last
    seen_tail,  \* the value of tail_ the consumer loaded last
    ppc,        \* where the producer is: "idle" between two calls of push
    cpc,        \* where the consumer is, in its loop of calls of pop
    task,       \* the task the producer pushes, or pushed last
    item,       \* the consumer's item: the task it is moving out
    got         \* the task pop returned last

vars == <<buffer, head, tail, seen_head, seen_tail, ppc, cpc, task, item, got>>
producerVars == <<tail, seen_head, ppc, task>>
consumerVars == <<head, seen_tail, cpc, item, got>>

NextSlot(i) == (i + 1) % Size

\* The values an index had from the one last seen to the present one.
Visible(seen, now) == {(seen + k) % Size : k \in 0 .. (now - seen) % Size}

Init ==
    /\ buffer = [i \in Slots |-> MovedFrom]
    /\ head = 0 /\ tail = 0
    /\ seen_head = 0 /\ seen_tail = 0
    /\ ppc = "idle" /\ cpc = "check"
    /\ task = ItemMod - 1
    /\ item = MovedFrom /\ got = MovedFrom

-----------------------------------------------------------------------------
(* The producer: while (!push(task)) yield.                                *)

Call ==
    /\ ppc = "idle"
    /\ task' = (task + 1) % ItemMod
    /\ ppc' = "check"
    /\ UNCHANGED <<buffer, tail, seen_head, consumerVars>>

\* Mutant of Full: the test is missing.
NeverFull(v) == FALSE
\* next_tail == head_, for the value v loaded of head_.
Full(v) == NextSlot(tail) = v

\* The load of head_ and the test for a full ring; push returns false and is
\* called again when it is full.
CheckFull(v) ==
    /\ ppc = "check"
    /\ v \in Visible(seen_head, head)
    /\ seen_head' = v
    /\ ppc' = IF Full(v) THEN "check" ELSE "write"
    /\ UNCHANGED <<buffer, tail, task, consumerVars>>

\* buffer_[tail] = item ends.
Write ==
    /\ ppc = "write"
    /\ buffer' = [buffer EXCEPT ![tail] = task]
    /\ ppc' = "publish"
    /\ UNCHANGED <<tail, seen_head, task, consumerVars>>

\* The release store of tail_; push returns true.
Publish ==
    /\ ppc = "publish"
    /\ tail' = NextSlot(tail)
    /\ ppc' = "idle"
    /\ UNCHANGED <<buffer, seen_head, task, consumerVars>>

-----------------------------------------------------------------------------
(* The consumer: while (pop(task)) ..., for ever.                          *)

\* Mutant of Empty: the slot is looked at, not the index.
EmptyBySlot(v) == buffer[head] = MovedFrom
\* head == tail_, for the value v loaded of tail_.
Empty(v) == head = v

\* The load of tail_ and the test for an empty ring; pop returns false and is
\* called again when it is empty.
CheckEmpty(v) ==
    /\ cpc = "check"
    /\ v \in Visible(seen_tail, tail)
    /\ seen_tail' = v
    /\ cpc' = IF Empty(v) THEN "check" ELSE "read"
    /\ UNCHANGED <<buffer, head, item, got, producerVars>>

\* item = std::move(buffer_[head]) ends.
Read ==
    /\ cpc = "read"
    /\ item' = buffer[head]
    /\ buffer' = [buffer EXCEPT ![head] = MovedFrom]
    /\ cpc' = "release"
    /\ UNCHANGED <<head, seen_tail, got, producerVars>>

\* Mutant of Release: the slot is read again by the next pop.
ReleaseNothing ==
    /\ cpc = "release"
    /\ got' = item
    /\ item' = MovedFrom
    /\ cpc' = "check"
    /\ UNCHANGED <<buffer, head, seen_tail, producerVars>>

\* The release store of head_; pop returns true.
Release ==
    /\ cpc = "release"
    /\ head' = NextSlot(head)
    /\ got' = item
    /\ item' = MovedFrom
    /\ cpc' = "check"
    /\ UNCHANGED <<buffer, seen_tail, producerVars>>

Next ==
    \/ Call
    \/ \E v \in Slots : CheckFull(v) \/ CheckEmpty(v)
    \/ Write
    \/ Publish
    \/ Read
    \/ Release

\* Both threads run, and a store becomes visible to the other thread some
\* time.  Nothing makes a session send a task.
Fairness ==
    /\ WF_vars(CheckFull(head)) /\ WF_vars(Write) /\ WF_vars(Publish)
    /\ WF_vars(CheckEmpty(tail)) /\ WF_vars(Read) /\ WF_vars(Release)

Spec == Init /\ [][Next]_vars /\ Fairness

-----------------------------------------------------------------------------
(* Properties.                                                             *)

TypeOK ==
    /\ buffer \in [Slots -> Items \union {MovedFrom}]
    /\ {head, tail, seen_head, seen_tail} \subseteq Slots
    /\ ppc \in {"idle", "check", "write", "publish"}
    /\ cpc \in {"check", "read", "release"}
    /\ task \in Items
    /\ {item, got} \subseteq Items \union {MovedFrom}

\* No data race: the producer never writes the slot that the consumer moves
\* a task out of, however stale the indices are that the two threads see.
NoSlotRace == ~ (ppc = "write" /\ cpc = "read" /\ tail = head)

\* Going round the ring from the head the producer saw last, one meets the
\* head, the tail the consumer saw last and the tail: nothing stale is ahead
\* of what it is a copy of, and the whole is less than a round.  A thread that
\* passed its test still finds it true when it is done with the slot.
Dist(a, b) == IF b >= a THEN b - a ELSE b - a + Size
IndicesOrdered ==
    /\ Dist(seen_head, head) + Dist(head, seen_tail) + Dist(seen_tail, tail)
          < IF ppc \in {"write", "publish"} THEN Size - 1 ELSE Size
    /\ cpc \in {"read", "release"} => head # seen_tail

\* The ring is a FIFO queue with room for Size - 1 tasks: what is pushed is
\* popped once, in order, and is never a moved-from task.
Ring ==
    [k \in 1 .. (tail - head) % Size |->
        IF k = 1 /\ cpc = "release" THEN item ELSE buffer[(head + k - 1) % Size]]

Fifo == INSTANCE BoundedFifo
            WITH queue <- Ring, Nothing <- MovedFrom, Capacity <- Size - 1
ImplementsFifo == Fifo!Spec

\* A session that spins on a full ring gets its task in: the I/O thread is
\* never stuck while the engine thread runs.
PushReturns == (ppc = "check") ~> (ppc = "idle")
=============================================================================

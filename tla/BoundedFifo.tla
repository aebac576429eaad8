----------------------------- MODULE BoundedFifo ----------------------------
(***************************************************************************)
(* What the queue between the sessions and the engine thread promises: a   *)
(* bounded first-in first-out buffer that loses, repeats and reorders      *)
(* nothing.                                                                *)
(***************************************************************************)
EXTENDS Naturals, Sequences

CONSTANTS
    Items,      \* the tasks
    Nothing,    \* nothing was taken yet
    Capacity    \* how many items fit

VARIABLES
    queue,      \* the items between the two threads, the oldest first
    got         \* the item taken last

vars == <<queue, got>>

Init == queue = <<>> /\ got = Nothing

Put(x) ==
    /\ Len(queue) < Capacity
    /\ queue' = Append(queue, x)
    /\ UNCHANGED got

Take ==
    /\ queue # <<>>
    /\ got' = Head(queue)
    /\ queue' = Tail(queue)

Next == (\E x \in Items : Put(x)) \/ Take

\* The consumer polls for ever.
Spec == Init /\ [][Next]_vars /\ WF_vars(Take)
=============================================================================

------------------------------ MODULE DbWorker ------------------------------
(***************************************************************************)
(* Server.h: the hand-over between the engine thread and the database      *)
(* worker at the grain of its mutex and condition variable, and ~Server.   *)
(*                                                                         *)
(* What a task credits is abstracted to whom; a balance is the number of   *)
(* credits applied to it, so that one can tell an older profile from a     *)
(* newer one.  ~Server is called by whoever owns the Server, on the thread *)
(* that ran the I/O: main.cpp never gets there, as do_accept keeps         *)
(* ioc.run() busy.                                                         *)
(***************************************************************************)
EXTENDS Integers, Sequences, FiniteSets, Functions

CONSTANTS
    Users,          \* the accounts that tasks credit
    MaxCredits      \* bound: how many tasks are appended

ASSUME WorkerAssumption == MaxCredits \in Nat /\ IsFiniteSet(Users)

VARIABLES
    front,          \* db_queue_front_
    back,           \* db_queue_back_
    balance,        \* per user: the credits applied
    todo,           \* affected_users that are still to be told
    worker,         \* where run_db_worker is
    engine,         \* where the engine thread is
    main,           \* where ~Server is
    stop,           \* stop_worker_
    late,           \* history: tasks appended after stop was set
    missed          \* history: notify_all came between test and wait

queueVars == <<front, back, balance, todo>>
threadVars == <<worker, engine, main, stop, late, missed>>
workerVars == <<queueVars, threadVars>>

Applied == SumFunction(balance)

\* The tasks of a batch that credit u.
Credits(batch, u) == {i \in DOMAIN batch : batch[i] = u}

WorkerInit ==
    /\ front = <<>> /\ back = <<>> /\ todo = {}
    /\ balance = [u \in Users |-> 0]
    /\ worker = "testing" /\ engine = "running" /\ main = "running"
    /\ stop = FALSE /\ late = 0 /\ missed = FALSE

-----------------------------------------------------------------------------
(* The engine thread.                                                      *)

\* A task is appended under db_q_mutex_, which the worker holds from its test
\* until it sleeps, ...
AppendTask(u) ==
    /\ engine = "running" /\ worker # "dozing"
    /\ Applied + Len(front) + Len(back) < MaxCredits
    /\ front' = Append(front, u)
    /\ engine' = "notifying"
    /\ late' = IF stop THEN late + 1 ELSE late
    /\ UNCHANGED <<back, balance, todo, worker, main, stop, missed>>

\* Mutant of Wake: nobody is notified.
WakeNobody == UNCHANGED worker

\* A notification reaches a thread that waits, and is nothing otherwise.
Wake == worker' = IF worker = "asleep" THEN "testing" ELSE worker

\* ... and notify_one follows after the unlock.
Notify ==
    /\ engine = "notifying"
    /\ Wake
    /\ engine' = "running"
    /\ UNCHANGED <<queueVars, main, stop, late, missed>>

\* stop_worker_ is looked at when the ring is drained.
EngineLeaves ==
    /\ engine = "running" /\ stop
    /\ engine' = "left"
    /\ UNCHANGED <<queueVars, worker, main, stop, late, missed>>

-----------------------------------------------------------------------------
(* run_db_worker.                                                          *)

\* Mutant of Leaving: the flag alone ends the worker.
LeavingAtOnce == stop

Leaving == stop /\ front = <<>>

\* Mutant of SwapVectors: the tasks stay in the first vector.
CopyVector == back' = front /\ UNCHANGED front

SwapVectors == back' = front /\ front' = back

\* The predicate, the exit and the swap, under db_q_mutex_.
Test ==
    /\ worker = "testing"
    /\ \/ /\ Leaving
          /\ worker' = "left"
          /\ UNCHANGED <<front, back>>
       \/ /\ front = <<>> /\ ~ stop
          /\ worker' = "dozing"
          /\ UNCHANGED <<front, back>>
       \/ /\ front # <<>> /\ ~ Leaving
          /\ worker' = "batch"
          /\ SwapVectors
    /\ UNCHANGED <<balance, todo, engine, main, stop, late, missed>>

\* The wait releases the mutex.
Sleep ==
    /\ worker = "dozing"
    /\ worker' = "asleep"
    /\ UNCHANGED <<queueVars, engine, main, stop, late, missed>>

\* A condition variable may wake its waiter without a notification.
SpuriousWakeup ==
    /\ worker = "asleep"
    /\ worker' = "testing"
    /\ UNCHANGED <<queueVars, engine, main, stop, late, missed>>

\* The transaction, under db_mutex_.
CommitBatch ==
    /\ worker = "batch"
    /\ balance' = [u \in Users |-> balance[u] + Cardinality(Credits(back, u))]
    /\ todo' = Range(back)
    /\ worker' = "telling"
    /\ back' = <<>>
    /\ UNCHANGED <<front, engine, main, stop, late, missed>>

\* The affected users have been told.
BatchDone ==
    /\ worker = "telling" /\ todo = {}
    /\ worker' = "testing"
    /\ UNCHANGED <<queueVars, engine, main, stop, late, missed>>

-----------------------------------------------------------------------------
(* ~Server.                                                                *)

SetStop ==
    /\ main = "running"
    /\ stop' = TRUE
    /\ main' = "notifying"
    /\ UNCHANGED <<queueVars, worker, engine, late, missed>>

\* notify_all, without the mutex.
NotifyAll ==
    /\ main = "notifying"
    /\ Wake
    /\ missed' = (worker = "dozing")
    /\ main' = "joining engine"
    /\ UNCHANGED <<queueVars, engine, stop, late>>

JoinEngine ==
    /\ main = "joining engine" /\ engine = "left"
    /\ main' = "joining worker"
    /\ UNCHANGED <<queueVars, worker, engine, stop, late, missed>>

JoinWorker ==
    /\ main = "joining worker" /\ worker = "left"
    /\ main' = "done"
    /\ UNCHANGED <<queueVars, worker, engine, stop, late, missed>>

EngineSteps == Notify \/ EngineLeaves
WorkerSteps == Test \/ Sleep \/ CommitBatch \/ BatchDone
MainSteps == NotifyAll \/ JoinEngine \/ JoinWorker

-----------------------------------------------------------------------------
(* Properties.                                                             *)

\* What is credited before ~Server begins is in the database when it returns:
\* only tasks appended after stop_worker_ was set can be left behind, by a
\* worker that found its queue empty before the engine thread had ended.
OnlyLateTasksLost == main = "done" => Len(front) <= late

\* ~Server returns, unless its notification came when the worker had tested
\* its condition and not begun to wait.
StopReturns == (main # "running") ~> (main = "done" \/ missed)
=============================================================================

------------------------------ MODULE Exchange ------------------------------
(***************************************************************************)
(* Server.h: how an order travels from a session to the wallets.           *)
(*                                                                         *)
(* Three threads take part.  The I/O thread checks a request, reserves     *)
(* cash or shares in the database and pushes a task (Session).  The engine *)
(* thread pops tasks and drives the book (LimitBook, which both engines    *)
(* implement); on_trade and refunds append to db_queue_front_.  The        *)
(* database worker swaps the two vectors and applies one in a transaction. *)
(*                                                                         *)
(* The ring between the first two is a FIFO queue (SPSCQueue implements    *)
(* it).  One company is listed; a session may name another.                *)
(*                                                                         *)
(* The CURRENT engine accepts a cancel of id 0 from the last owner of slot *)
(* 0 while that slot is free (OrderBook).  Here the refund that follows is *)
(* modelled, and the engine thread stops being modelled: its book is no    *)
(* longer a LimitBook.                                                     *)
(***************************************************************************)
EXTENDS LimitBook, Wallets

CONSTANTS
    StressIds,      \* synthetic_user_ids of stress orders, in no table
    Listed,         \* the company that has an instrument
    Companies,      \* the company_ids that requests carry
    QueueSize,      \* tasks the ring holds
    SwitchTo,       \* the modes that switch_engine requests ask for
    MayCrash,       \* whether the process may die, or a COMMIT fail
    TornReads,      \* whether reads of the book may race with the engine
    MaxRequests,    \* bound: requests in a behaviour
    NoTask          \* "the I/O thread has nothing to push"

Modes == {"CURRENT", "LEGACY"}

ASSUME ExchangeAssumption ==
    /\ Users = Accounts \union StressIds
    /\ Accounts \intersect StressIds = {}
    /\ Listed \in Companies
    /\ Capacity \in Nat \ {0} /\ QueueSize \in Nat \ {0} /\ MaxRequests \in Nat
    /\ MaxSeq >= MaxRequests
    /\ SwitchTo \subseteq Modes
    /\ MayCrash \in BOOLEAN /\ TornReads \in BOOLEAN

VARIABLES
    pending,        \* the task the I/O thread is pushing
    engine_queue,   \* engine_queue_
    mode,           \* engine_mode_
    listening,      \* whether the book's trade_listener is the server
    slot0,          \* the last order to rest in slot 0 of a CURRENT book
    zeroCancelled,  \* history: cancel_order has accepted id 0
    front,          \* db_queue_front_
    back,           \* db_queue_back_
    requests        \* how many requests were handled

ioVars == <<pending, requests>>
slotVars == <<slot0, zeroCancelled>>
engineVars == <<vars, engine_queue, mode, listening, slotVars>>
dbVars == <<walletVars, back>>
exchangeVars == <<ioVars, engineVars, front, dbVars>>

OrderTask(c, u, side, p, q) ==
    [type |-> "order", company |-> c, user |-> u, side |-> side,
     price |-> p, quantity |-> q]
CancelTask(c, m, n, u) ==
    [type |-> "cancel", company |-> c, mode |-> m, seq |-> n, user |-> u]
SwitchTask(m) == [type |-> "switch", mode |-> m]

\* The tasks of the ring, and those of the database worker.
Tasks ==
    [type : {"order"}, company : Companies, user : Users, side : Sides,
     price : 0 .. MaxPrice, quantity : 0 .. MaxQty]
    \union [type : {"cancel"}, company : Companies, mode : Modes, seq : Nat, user : Users]
    \union [type : {"switch"}, mode : Modes]
LogTasks == [type : {"log"}, buyer : Users, seller : Users, quantity : Nat, price : Nat]
DbTasks ==
    [type : {"settle"}, buyer : Users, seller : Users, quantity : Nat, price : Nat, limit : Nat]
    \union [type : {"refund_cash"}, user : Users, quantity : Nat, price : Nat]
    \union [type : {"refund_shares"}, user : Users, quantity : Nat]
    \union LogTasks

ASSUME NoTaskAssumption == NoTask \notin Tasks

\* The task that gives back what was reserved for an order, or for its rest.
Refund(o) == IF o.side = "buy" THEN RefundCash(o.user, o.quantity, o.price)
             ELSE RefundShares(o.user, o.quantity)

ExchangeInit ==
    /\ Init
    /\ WalletInit
    /\ pending = NoTask /\ engine_queue = <<>>
    /\ mode = "CURRENT" /\ listening = TRUE
    /\ front = <<>> /\ back = <<>>
    /\ requests = 0
    /\ slot0 = NoOrder /\ zeroCancelled = FALSE

-----------------------------------------------------------------------------
(* The I/O thread: Session::handle_message, one message at a time.         *)

Handle(task) ==
    /\ pending = NoTask
    /\ requests < MaxRequests
    /\ requests' = requests + 1
    /\ pending' = task
    /\ UNCHANGED <<engineVars, front, back>>

\* Nobody owns shares of a company that is not listed.
Reserve(c, u, side, p, q) ==
    \/ side = "buy" /\ ReserveCash(u, p * q)
    \/ side = "sell" /\ c = Listed /\ ReserveShares(u, q)
    \/ side = "sell" /\ c # Listed /\ q = 0 /\ UNCHANGED walletVars

\* "order": an account's order is reserved for.
LimitOrder(c, u, side, p, q) ==
    /\ Reserve(c, u, side, p, q)
    /\ Handle(OrderTask(c, u, side, p, q))

\* "order" with stress set: no reservation.
StressOrder(c, u, side, p, q) ==
    /\ Handle(OrderTask(c, u, side, p, q))
    /\ UNCHANGED walletVars

\* best_ask/best_bid as this thread reads it.  The engine thread may be
\* writing the bitmap meanwhile, without any synchronisation: then the three
\* levels it reads need not agree and any price may come out.
PriceRead(side) ==
    {o.price : o \in {x \in Resting(side) : IsFirst(x)}}
        \union IF TornReads /\ (incoming # NoOrder \/ engine_queue # <<>>)
               THEN 0 .. MaxPrice ELSE {}

\* "market_order": a limit order at the opposing best price.
MarketOrder(u, side, q) ==
    \E p \in PriceRead(Opposite(side)) :
        /\ Reserve(Listed, u, side, p, q)
        /\ Handle(OrderTask(Listed, u, side, p, q))

\* "cancel": the id goes on as it came, one handed out by an engine or not.
CancelRequest(c, m, n, u) == Handle(CancelTask(c, m, n, u)) /\ UNCHANGED walletVars
SwitchRequest(m) == Handle(SwitchTask(m)) /\ UNCHANGED walletVars

\* Mutant of Push: one slot too many is kept free.
PushOffByOne ==
    /\ pending # NoTask
    /\ Len(engine_queue) < QueueSize - 1
    /\ engine_queue' = Append(engine_queue, pending)
    /\ pending' = NoTask
    /\ UNCHANGED <<requests, vars, mode, listening, slotVars, front, dbVars>>

\* The push that ends the spin.
Push ==
    /\ pending # NoTask
    /\ Len(engine_queue) < QueueSize
    /\ engine_queue' = Append(engine_queue, pending)
    /\ pending' = NoTask
    /\ UNCHANGED <<requests, vars, mode, listening, slotVars, front, dbVars>>

-----------------------------------------------------------------------------
(* The engine thread: run_engine_worker.                                   *)

\* Bound: after a cancel of id 0 the engine thread takes no other task.
Pop(task) ==
    /\ ~ zeroCancelled
    /\ incoming = NoOrder
    /\ engine_queue # <<>>
    /\ task = Head(engine_queue)
    /\ engine_queue' = Tail(engine_queue)

\* can_process_order: only the pool of the CURRENT engine has an end.
Room == IF mode = "CURRENT" THEN Capacity ELSE Unbounded
CanProcess(task) == Accepts(task.price, Room)

\* find_instrument fails: the task is gone.
DropTask(task) ==
    /\ Pop(task)
    /\ task.type # "switch" /\ task.company # Listed
    /\ UNCHANGED <<ioVars, vars, mode, listening, slotVars, front, dbVars>>

\* process_*_order up to its matching loop.
AcceptOrder(task) ==
    /\ Pop(task)
    /\ task.type = "order" /\ task.company = Listed
    /\ CanProcess(task)
    /\ Submit(task.user, task.side, task.price, task.quantity)
    /\ UNCHANGED <<ioVars, mode, listening, slotVars, front, dbVars>>

\* Mutant of RejectOrder: the reservation is kept.
RejectUnrefunded(task) ==
    /\ Pop(task)
    /\ task.type = "order" /\ task.company = Listed
    /\ ~ CanProcess(task)
    /\ Refuse
    /\ UNCHANGED <<ioVars, mode, listening, slotVars, front, dbVars>>

\* The pool is full, or the price is out of range: refund and go on.
RejectOrder(task) ==
    /\ Pop(task)
    /\ task.type = "order" /\ task.company = Listed
    /\ ~ CanProcess(task)
    /\ Refuse
    /\ front' = Append(front, Refund(task))
    /\ UNCHANGED <<ioVars, mode, listening, slotVars, dbVars>>

\* One fill, and on_trade if the book has a listener.
Fill(o) ==
    /\ Match(o)
    /\ front' = IF listening
                THEN Append(Append(front, Settle(out'.buyer, out'.seller, out'.quantity,
                                                 out'.price, out'.buyer_limit_price)),
                            LogTrade(out'.buyer, out'.seller, out'.quantity, out'.price))
                ELSE front
    /\ slot0' = IF slot0 = o THEN [o EXCEPT !.quantity = @ - out'.quantity] ELSE slot0
    /\ UNCHANGED <<ioVars, engine_queue, mode, listening, zeroCancelled, dbVars>>

StopAtOwn(o) ==
    /\ SelfTradeStop(o)
    /\ UNCHANGED <<ioVars, engine_queue, mode, listening, slotVars, front, dbVars>>

\* add_*_order.  The first order to rest is in slot 0; which slot a later one
\* has is left open, as long as no order in the book has slot 0 already.
RestOrder ==
    /\ Rest
    /\ slot0' \in IF mode = "LEGACY" \/ slot0 \in book THEN {slot0}
                  ELSE {incoming} \union ({slot0} \ {NoOrder})
    /\ UNCHANGED <<ioVars, engine_queue, mode, listening, zeroCancelled, front, dbVars>>

\* Mutant of FinishOrder: what self-trade prevention rejected is kept.
FinishUnrefunded ==
    /\ Finish
    /\ UNCHANGED <<ioVars, engine_queue, mode, listening, slotVars, front, dbVars>>

\* process_*_order returns; what self-trade prevention rejected is refunded.
FinishOrder ==
    /\ Finish
    /\ front' = IF out.kind = "rejected" THEN Append(front, Refund(out.order)) ELSE front
    /\ UNCHANGED <<ioVars, engine_queue, mode, listening, slotVars, dbVars>>

\* An id names an order of the engine that issued it.
Names(task, o) == task.mode = mode /\ task.seq = o.seq /\ task.user = o.user

\* cancel_order succeeds: what is left of the order is refunded.
CancelOrder(task, o) ==
    /\ Pop(task)
    /\ task.type = "cancel" /\ task.company = Listed
    /\ Names(task, o)
    /\ Cancel(o)
    /\ front' = Append(front, Refund(o))
    /\ UNCHANGED <<ioVars, mode, listening, slotVars, dbVars>>

\* Slot 0 is free: its node has id 0, and still the order it had last.
NamesFreed(task) ==
    /\ mode = "CURRENT" /\ slot0 # NoOrder /\ slot0 \notin book
    /\ task.seq = 0 /\ task.user = slot0.user

\* cancel_order succeeds on that node: its quantity is refunded once more.
CancelZero(task) ==
    /\ Pop(task)
    /\ task.type = "cancel" /\ task.company = Listed
    /\ NamesFreed(task)
    /\ out' = Cancelled(slot0)
    /\ front' = Append(front, Refund(slot0))
    /\ zeroCancelled' = TRUE
    /\ UNCHANGED <<ioVars, book, incoming, counter, mode, listening, slot0, dbVars>>

CancelNothing(task) ==
    /\ Pop(task)
    /\ task.type = "cancel" /\ task.company = Listed
    /\ ~ NamesFreed(task) /\ \A o \in book : ~ Names(task, o)
    /\ out' = NotCancelled(task.seq, task.user)
    /\ UNCHANGED <<ioVars, book, incoming, counter, mode, listening, slotVars, front, dbVars>>

\* set_engine_mode: a change makes new, empty books, which have no listener.
SwitchEngine(task) ==
    /\ Pop(task)
    /\ task.type = "switch"
    /\ mode' = task.mode
    /\ \/ /\ mode = mode'
          /\ UNCHANGED <<book, counter, listening, slot0>>
       \/ /\ mode # mode'
          /\ book' = {} /\ counter' = 0 /\ listening' = FALSE /\ slot0' = NoOrder
    /\ UNCHANGED <<ioVars, incoming, out, zeroCancelled, front, dbVars>>

EngineStep ==
    \/ \E i \in {1} \intersect DOMAIN engine_queue :
          \/ DropTask(engine_queue[i])
          \/ AcceptOrder(engine_queue[i])
          \/ RejectOrder(engine_queue[i])
          \/ \E o \in book : CancelOrder(engine_queue[i], o)
          \/ CancelZero(engine_queue[i])
          \/ CancelNothing(engine_queue[i])
          \/ SwitchEngine(engine_queue[i])
    \/ \E o \in book : Fill(o) \/ StopAtOwn(o)
    \/ RestOrder
    \/ FinishOrder

-----------------------------------------------------------------------------
(* The database worker: run_db_worker.                                     *)

\* Mutant of Swap: the worker sleeps until there is more to do.
SwapLargeBatch ==
    /\ Len(front) > 2 /\ back = <<>>
    /\ back' = front
    /\ front' = <<>>
    /\ UNCHANGED <<ioVars, engineVars, walletVars>>

\* The wait for tasks, and the swap of the two vectors under db_q_mutex_.
Swap ==
    /\ front # <<>> /\ back = <<>>
    /\ back' = front
    /\ front' = <<>>
    /\ UNCHANGED <<ioVars, engineVars, walletVars>>

\* Mutant of Commit: the batch is not cleared.
CommitKeeping ==
    /\ back # <<>>
    /\ ApplyBatch(back)
    /\ UNCHANGED <<ioVars, engineVars, front, back>>

\* The transaction, under the database's mutex.
Commit ==
    /\ back # <<>>
    /\ ApplyBatch(back)
    /\ back' = <<>>
    /\ UNCHANGED <<ioVars, engineVars, front>>

\* COMMIT fails: its result is ignored, and the batch is cleared.
CommitFails ==
    /\ MayCrash
    /\ back # <<>>
    /\ back' = <<>>
    /\ UNCHANGED <<ioVars, engineVars, front, walletVars>>

\* The process dies and is started again: the tables are all that is left.
Crash ==
    /\ MayCrash
    /\ book' = {} /\ incoming' = NoOrder /\ counter' = 0 /\ out' = Nothing
    /\ pending' = NoTask /\ engine_queue' = <<>>
    /\ mode' = "CURRENT" /\ listening' = TRUE
    /\ slot0' = NoOrder
    /\ front' = <<>> /\ back' = <<>>
    /\ UNCHANGED <<walletVars, requests, zeroCancelled>>

ExchangeNext ==
    \/ \E c \in Companies, u \in Accounts, side \in Sides, p \in 0 .. MaxPrice - 1,
          q \in 0 .. MaxQty : LimitOrder(c, u, side, p, q)
    \/ \E c \in Companies, u \in StressIds, side \in Sides, p \in 0 .. MaxPrice - 1,
          q \in 0 .. MaxQty : StressOrder(c, u, side, p, q)
    \/ \E u \in Accounts, side \in Sides, q \in 0 .. MaxQty : MarketOrder(u, side, q)
    \/ \E c \in Companies, m \in {mode} \union SwitchTo, n \in 0 .. MaxSeq, u \in Accounts :
          CancelRequest(c, m, n, u)
    \/ \E m \in SwitchTo : SwitchRequest(m)
    \/ Push
    \/ EngineStep
    \/ Swap
    \/ Commit
    \/ CommitFails
    \/ Crash

\* Each thread keeps running; nothing obliges a client to send.
ExchangeSpec == ExchangeInit /\ [][ExchangeNext]_exchangeVars
FairExchangeSpec ==
    /\ ExchangeSpec
    /\ WF_exchangeVars(Push)
    /\ WF_exchangeVars(EngineStep)
    /\ WF_exchangeVars(Swap)
    /\ WF_exchangeVars(Commit)

-----------------------------------------------------------------------------
(* Properties.                                                             *)

ExchangeTypeOK ==
    /\ TypeOK
    /\ cash \in [Accounts -> Nat]
    /\ Accounts \subseteq DOMAIN shares /\ DOMAIN shares \subseteq Users
    /\ \A u \in DOMAIN shares : shares[u] \in Nat
    /\ trades \in Seq(LogTasks)
    /\ pending \in Tasks \union {NoTask}
    /\ engine_queue \in Seq(Tasks) /\ Len(engine_queue) <= QueueSize
    /\ mode \in Modes /\ listening \in BOOLEAN
    /\ slot0 \in Orders \union {NoOrder} /\ zeroCancelled \in BOOLEAN
    /\ front \in Seq(DbTasks) /\ back \in Seq(DbTasks)

Units == {"cash", "shares"}

\* What an order holds of u: what was reserved for what is left of it.
Holds(unit, o, u) ==
    IF o.user # u THEN 0
    ELSE IF unit = "cash" THEN IF o.side = "buy" THEN o.price * o.quantity ELSE 0
    ELSE IF o.side = "sell" THEN o.quantity ELSE 0
TaskHolds(unit, t, u) == IF t.type = "order" THEN Holds(unit, t, u) ELSE 0

\* The orders of u between its reservation and its end: with the I/O thread,
\* being matched, rejected but not refunded yet, in the ring, and in the book.
AtHand(unit, u) ==
    (IF pending = NoTask THEN 0 ELSE TaskHolds(unit, pending, u))
  + (IF incoming = NoOrder THEN 0 ELSE Holds(unit, incoming, u))
  + (IF out.kind = "rejected" THEN Holds(unit, out.order, u) ELSE 0)
InRing(unit, u) ==
    SumFunction([i \in DOMAIN engine_queue |-> TaskHolds(unit, engine_queue[i], u)])
InBook(unit, u) == SumFunction([o \in book |-> Holds(unit, o, u)])

\* What u gains by a trade that is logged.
Gain(unit, t, u) ==
    LET amount == IF unit = "cash" THEN t.price * t.quantity ELSE t.quantity
        payer  == IF unit = "cash" THEN t.buyer ELSE t.seller
        payee  == IF unit = "cash" THEN t.seller ELSE t.buyer
    IN  (IF u = payee THEN amount ELSE 0) - (IF u = payer THEN amount ELSE 0)
Gains(unit, tasks, u) ==
    SumFunction([i \in DOMAIN tasks |->
                    IF tasks[i].type = "log" THEN Gain(unit, tasks[i], u) ELSE 0])

\* What the worker still has to credit to u.
Dues(unit, tasks, u) == IF unit = "cash" THEN CashDues(tasks, u) ELSE SharesDues(tasks, u)

Total(unit, u) ==
    (IF unit = "cash" THEN cash[u] ELSE shares[u])
  + AtHand(unit, u) + InRing(unit, u) + InBook(unit, u)
  + Dues(unit, front, u) + Dues(unit, back, u)

\* What u began with and gained by the trades that are logged or will be.
Earned(unit, u) ==
    (IF unit = "cash" THEN InitialCash ELSE InitialShares)
  + Gains(unit, trades, u) + Gains(unit, front, u) + Gains(unit, back, u)

\* Until id 0 is cancelled, an account's books balance in every state: its
\* balance, what its orders hold wherever they are, and what the worker owes it
\* make up what it began with and gained by the trades in the log.  No fill,
\* refund, cancel, rejection or self-trade stop, in whatever order the three
\* threads run, loses, repeats or misprices a credit.
CashExact == zeroCancelled \/ \A u \in Accounts : Total("cash", u) = Earned("cash", u)
SharesExact == zeroCancelled \/ \A u \in Accounts : Total("shares", u) = Earned("shares", u)

\* Until then the book is not crossed, whichever engines ran and however often
\* the process was started.
BookNotCrossed == zeroCancelled \/ NotCrossed

\* README.md:14 and README.md:329-330: a refund is of what is left of an order,
\* and restores what was reserved, so that nobody ends up with more than its
\* trades account for.
NobodyGains ==
    \A unit \in Units, u \in Accounts : Total(unit, u) <= Earned(unit, u)

\* Until id 0 is cancelled that is so, whatever is lost when the process dies,
\* a COMMIT fails, an engine is switched or a task is dropped.
NeverOverpaid == zeroCancelled \/ NobodyGains

\* And nothing else loses anything: what an account is short of only changes
\* when the process dies, a COMMIT fails, the engine changes, a task for an
\* unlisted company is dropped, a book without a listener fills an order, or
\* id 0 is or was cancelled.
Short(unit, u) == Earned(unit, u) - Total(unit, u)
Fault ==
    \/ Crash \/ CommitFails
    \/ mode' # mode
    \/ \E i \in {1} \intersect DOMAIN engine_queue : DropTask(engine_queue[i])
    \/ ~ listening /\ \E o \in book : Match(o)
    \/ zeroCancelled'
OnlyFaultsLose ==
    [][(\E unit \in Units, u \in Accounts : Short(unit, u)' # Short(unit, u)) => Fault]_exchangeVars

\* A fill that the server heard of, and queued for the worker, reaches the
\* trades table unless the process dies or its COMMIT fails.  (The fills of a
\* book without a listener are not heard of: EveryFillReported.)
HeardFills == Len(trades) + Len(SelectSeq(front \o back, LAMBDA t : t.type = "log"))
HeardFillsLogged ==
    \A n \in 1 .. MaxRequests : (HeardFills >= n) ~> (Len(trades) >= n \/ HeardFills < n)

\* A request that was reserved for reaches the ring, although the ring may be
\* full at the time, unless id 0 was cancelled: the engine may then spin.
RequestsGetIn == (pending # NoTask) ~> (pending = NoTask \/ zeroCancelled)

\* ARCHITECTURE.md:222: every instrument's book points trade_listener at the
\* server, so every fill is settled.
EveryFillReported ==
    [][(\E o \in book : Match(o)) => front' # front]_exchangeVars
=============================================================================

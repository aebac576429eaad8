# Formal model of the o1-exchange-engine

TLA+ modules, TLC runs and TLAPS proofs about the exchange in `src/`: a
limit-order-book server with a matching engine written for O(1) operations, one
engine thread, one I/O thread and one database worker. The first half of this
file says what the system is and what is modelled, checked and proved; the last
part is the plan for what is not there yet.

## 1. The system

| Part | State | Operations | Talks to |
|---|---|---|---|
| `OrderBook.h` (CURRENT engine) | node pool, free stack, a list per side and price, a three-level bitmap per side, order counter | `can_process_order`, `process_buy_order`, `process_sell_order`, `cancel_order`, `bid_depth`, `ask_depth`, `bid_orders`, `ask_orders`, `best_bid`, `best_ask` | `trade_listener->on_trade` on every fill |
| `OrderBookLegacy.h` (LEGACY engine) | `std::map` of price levels, `std::list` of orders, id index, counter | the same interface, `IOrderBook` | the same |
| `Market.h` | companies, one book per company, engine mode | `find_instrument`, `set_engine_mode` | owns the books |
| `SPSCQueue` (`Server.h`) | ring of 65536 tasks, two atomic indices | `push`, `pop` | I/O thread to engine thread |
| `Session` (`Server.h`) | socket, outbound queue, current user | one handler per message type | reserves in the database, pushes tasks, spins when the ring is full |
| engine thread (`Server.h`) | trade history, metrics window | pops tasks, drives the books | appends `DbTask`s under `db_q_mutex_`, posts messages to sessions |
| database worker (`Server.h`) | the two task vectors | swaps them, applies a batch in a transaction | the database, then `user_update` to sessions |
| `Database.h` | users, balances, portfolios, sessions, trades, game tables in SQLite | reserve, settle, release, log, profile and game queries, all under `db_mutex_` | called by the I/O thread, the worker, the engine thread (price history) |
| `GameManager.h`, `MarketMakerJudge.h`, `GameScenarios.h` | game sessions and rounds (in the database), scenarios | start, quote, hint, end | the I/O thread only |
| frontend, benchmark, `main.cpp` | | | |

What is hard about it:

* **Intrusive data structures.** A slot of the pool is reserved before an order
  matches, lists are linked through the pool, counters decide when a price
  loses its bit, and freed slots are reused with new ids while clients still
  hold the old ones. The structures stay right only if every operation keeps
  all of them in step.
* **Ids from outside.** A client cancels by any 64-bit number. Id 0 marks a
  freed node and decodes to slot 0, so `cancel_order` accepts it from the last
  owner of slot 0 while that slot is free. This is a defect of the code, and
  what follows from it is in section 3.
* **Two grains of time.** A call into the book runs on one thread but reports
  every fill through a callback in the middle of its loop.
* **Three threads.** Money is debited on the I/O thread before the order is
  queued, and credited on the worker after the engine decided. Between the two
  it exists only in a queue, in the book, or in a task. The ring is lock-free.
* **Failure.** Rejection for capacity, self-trade prevention in the middle of a
  match, cancels that come late, an engine switch that drops all books, a COMMIT
  that fails, broken connections, a crash. Registration and the game run several
  SQL statements per message without a transaction, so a crash can fall between.
* **Shared sessions.** The database worker walks the sessions and reads who is
  logged in, while the I/O thread logs users in and out of them.

Per part, what should make it correct: the engine must trade at the best price
and with the oldest order there, never with the submitter itself, leave a book
that is not crossed, lose no slot and end every match; the ring must be a FIFO
queue without a data race; the pipeline must account for every cent and every
share in every state, settle every fill once and never block for ever; a session
must have one write at a time and its user must hear of what is credited; the
game's ledger must agree with its log whatever a crash cuts off. The `hazards`
of `PROJECT.json` list, line by line, where each of these could go wrong.

## 2. The modules

| Module | Models | Rests on |
|---|---|---|
| `PriceBitmap` | the bitmap functions of `OrderBook.h`, as operators on one side's bitmap | |
| `LimitBook` | what `IOrderBook` promises: price-time priority and self-trade prevention on a set of orders | |
| `OrderBook` | `OrderBook.h`: pool, free stack, lists, counters, bitmaps, matching, cancelling | `PriceBitmap`; refines `LimitBook` |
| `OrderBookQueries` | `bid_depth` .. `ask_orders` | `OrderBook` |
| `OrderBookLegacy` | `OrderBookLegacy.h`: levels, order lists, id index, matching, cancelling, snapshots | refines `LimitBook` |
| `EngineParity` | the parity tests: both engines get the same calls | extends `OrderBookQueries`, instantiates `OrderBookLegacy` |
| `BoundedFifo` | a bounded FIFO queue | |
| `SPSCQueue` | the ring, one step per atomic operation or slot copy | refines `BoundedFifo` |
| `Wallets` | the tables and the operations of `Database.h` that hold money and shares | |
| `Exchange` | the pipeline: sessions, ring, engine thread, double buffer, worker | extends `LimitBook` and `Wallets` |
| `DbWorker` | the worker's loop at the grain of its mutex and condition variable, and `~Server` | |
| `Sessions` | sessions, their registry and outbound queues, logins, broadcasts and `user_update` | extends `DbWorker` |
| `Accounts` | registration, login, tokens | |
| `MarketMakerJudge` | `judge_quote`, as an operator | |
| `Game` | `GameManager.h` on its two tables | extends `Accounts` and `MarketMakerJudge` |
| `MCOrderBook`, `MCEngineParity`, `MCExchange`, `MCGame` | the symmetry sets of the runs, the scenario bank | `OrderBookQueries`, `EngineParity`, `Exchange`, `Game` |
| `SumTheorems` | sums over finite sets and sequences, for the theorems below | |
| `OrderBookProofs`, `EngineParityProofs`, `LimitBookProofs`, `SPSCQueueProofs`, `ExchangeProofs`, `SessionsProofs`, `GameProofs` | the theorems | the module they are named after, `SumTheorems`; `EngineParityProofs` extends `OrderBookProofs`; `ExchangeProofs` extends `LimitBookProofs`, the proofs of the engines instantiate it |

### How they correspond to the code

**PriceBitmap.** A 64-bit word is the set of its bits; `clz` and `ctz` become
the maximum and the minimum of a non-empty set, and applying them to an empty
one is an error in TLC just as `__builtin_clzll(0)` is undefined in C++. The
word size is the constant `WordBits`, so that small runs reach three levels.
The functions of the two sides are the same code on different arrays: one
operator each.

**OrderBook.** `nodes` is `node_pool_`, `free` is `free_indices_`, `lists` is
`bids_`/`asks_`, `bitmaps` the six arrays and words. An id `seq<<32 | slot` is
the pair `<<seq, slot>>`; a node keeps only `seq`, since it always lives in the
slot its id names, and `seq = 0` is the cleared id. `process_*_order` is cut at
the callback: `Submit` (reserve a slot, number the order), then `Fill(s)` per
iteration of the inner loop, `SelfTradeStop(s)` for the early return, and `Rest`
or `Finish` for what follows the match; `SkipLevel` is described below. The
clearing of a bit after the inner loop is part of the `Fill` that ends the loop,
because nothing is observable in between; the code reads `best_ask` once per
round of the outer loop and the model reads it at each fill, which is the same
as the bitmap does not change within a round. `Cancel` and `CancelMiss` are
`cancel_order`. `total_quantity` and `order_count` wrap at `QtyMod` (2^32).

`Ids` are what a client may cancel: numbers handed out, to come, or 0, with any
slot, or one beyond the pool. Id `<<0, 0>>` is that of a freed slot 0, whose
node keeps its user, quantity, price and links, so `Cancel` takes it, like the
code, from that user. The actions are therefore written for any links and any
counts, not only for well-formed lists: a node may be unlinked that is in no
list, a slot may be twice on the free stack (up to `MaxFree`, a bound) and then
be handed out twice, and a marked price may have no list. `SkipLevel` is the
round of the outer loop that meets such a price: it clears the bit if the count
is 0, and else changes nothing, which is the loop that spins for ever.
`zeroCancelled` remembers that id 0 was accepted. Almost every invariant of the
engine is false of the code from then on, and is stated until then; `TypeOK` and
the agreement of the bitmap levels hold always.

**OrderBookQueries.** The three nested loops over copies of the words become
sequences: the bits of a word in scan order, then those of the next word. The
limit cuts the result as the loop conditions do.

**OrderBookLegacy.** A `std::map` is a function whose domain are its keys, a
`std::list` a sequence; `locations_` keeps iterators, which stay with their
element, so an iterator is the position that the element of its id has now
(`NodeAt`). An id is the order's number. The steps are cut like those of
`OrderBook`.

**EngineParity.** A call goes to `OrderBook`, then to `OrderBookLegacy`, as in
`tests/test_orderbook_legacy_parity.cpp`; `reports` and `legacyReports` are what
each told its caller and its trade listener during the call. `ids` remembers the
slot in the id that `OrderBook` gave each order, so that a late cancel names a
slot that another order may hold by then; any other number, 0 among them, goes
to both engines as it is. Orders are only sent while the pool
has room: with a full pool `OrderBook` refuses what `OrderBookLegacy`, which has
no pool, accepts, and "identical input" (`OrderBookLegacy.h:12`) ends there.
It also ends where `OrderBook` accepts a cancel of id 0, which LEGACY reports as
a miss: no order is sent after that, only cancels. To LEGACY alone this is no
restriction, since a cancel that misses leaves it as it was.

**SPSCQueue.** Each thread's program counter is where it is between two atomic
operations. A thread's own index needs no load step. An acquire load of the
other index may return any value it had since the last load (`Visible`), which
is what acquire/release gives; sequential consistency is not assumed. The copy
of a task into its slot and the move out of it take time: `Write` and `Read`
are the ends of these accesses, and `ppc = "write"`, `cpc = "read"` say that
they are going on.

**Wallets.** The worker's batch is one action: it runs under `db_mutex_` and in
one transaction. `CashDue` and `SharesDue` say what a task credits to whom.
Crediting cash is an `UPDATE` that misses ids without a row; crediting shares
inserts the row, hence the domain of `shares` grows.

**Exchange.** One company has an instrument; requests may name another.
`pending` is the task that the I/O thread is about to push, so a full ring
stops that thread, as in the code. The engine thread's steps are those of
`LimitBook` with what `run_engine_worker` and `on_trade` do around them; a fill
is followed by the next only after `on_trade` has appended its two tasks. The
CURRENT engine's pool is `Capacity`; LEGACY has no such bound (`Room`).
A cancel request carries any number, 0 included, tagged with the engine whose
numbering it is in. `slot0` is the order that slot 0 of a CURRENT book held
last: the first order to rest is there, and for later ones it is left open
whether they are. `CancelZero` is the cancel of id 0 that is accepted while that
order is not in the book: it refunds what the node still says. The book is not a
`LimitBook` after that, so the engine thread takes no further task (`Pop`, a
bound of the model); what such a book does is in `OrderBook`. `listening` is
whether the book has a `trade_listener`. `PriceRead` is what `market_order`
sees of the book: the best price or, because the read is not synchronised with
the engine thread, any price while that thread has work (`TornReads`). `Crash`
ends the process and starts it again: only the tables survive. `CommitFails` is
a COMMIT that does nothing: the code looks at no result and clears the batch.

**DbWorker.** A second look at the worker, where what a task credits does not
matter but the order of locks, waits and flags does. `dozing` is the worker
between the test of its condition and the wait, when it still holds
`db_q_mutex_`: `AppendTask` is excluded then, but `~Server` sets its flag and
notifies without that mutex, so `NotifyAll` is not. `late` and `missed` are
history variables for the properties. A condition variable may wake by itself.

**Sessions.** A session is a record of the members that matter: who is logged
in, what `net::post` has yet to run, `write_queue_`, the number of writes
outstanding. A handler that learns who its client is takes three steps
(`Assign`, `Fetch`, `Post`), and so does `broadcast_user_update` for each
session (`Visit`, `FetchFor`, `PostFor`), because each reads or writes
`current_user_id_` or the database at another moment; the registry's mutex is
held from `TellUser` to `TellDone`. Accesses to `current_user_id_` are taken to
be atomic; on every 64-bit target an aligned `int64_t` is. A profile is its user
and the number of credits in its balance, so older ones can be told from newer.
All other messages are one, `Other`. When `~Server` begins `ioc.run()` has
returned, and what the sessions still had to do is left out (`StopIo`).
`main.cpp` never gets there: `do_accept` always starts another accept. The
destructor matters to an embedding that stops the `io_context`.

**Accounts, Game.** Handlers run one at a time on the I/O thread; `call` is what
the present one has still to do, and `Crash` may come between two statements.
What a handler does before its first write is part of that step: it has no
effect. A session of the game is its place in `game_sessions`, the row holds the
number of hints instead of their list, as they are revealed in order, and
prices are integers, because the judge only subtracts and compares. The coin of
the noise band is free. `unit_size` is 1. The demo accounts that `main.cpp`
creates are not registered through `handle_register` and are left out.

## 3. What the runs check

All runs end without the state space being cut by a constraint: bounds are
guards of the actions.

| Run (`cfg`) | Question | Bounds | States |
|---|---|---|---|
| `order_book` (`MCOrderBook`) | are pool, lists and counters right after any sequence of calls that does not cancel id 0, and the types after any at all | 1 price, 3 slots (4 on the free stack), 4 orders of up to 2, 2 users (symmetric), quantities and counts modulo 4 | 753,653 |
| `order_book_prices` (`MCOrderBookPrices`) | the same of the bitmap, the order of prices, snapshots, the end of every match, the refinement of `LimitBook` | 5 prices in words of 2 bits (three levels), 2 slots (2 on the free stack), 3 orders, counts modulo 3 | 215,380 |
| `engine_parity` (`MCEngineParity`) | do both engines give the same answers, is the index of LEGACY right, does it implement `LimitBook` | 2 prices, 3 slots (3 on the free stack), 3 orders of up to 2, 2 users (symmetric), quantities modulo 4 | 1,491,410 |
| `spsc_queue` (`MCSPSCQueue`) | the ring: races, order, progress | 4 slots, tasks numbered modulo 5 | 2,210 |
| `exchange` (`MCExchange`) | cash and shares of each account add up in every state, the book is not crossed | 2 accounts (symmetric), 1 stress id, 2 prices, quantities up to 2, 3 requests, ring of 2, pool of 3 | 548,707 |
| `exchange_faults` (`MCExchangeFaults`) | what may be lost, and only by which fault; fills get logged, requests get in | 2 accounts, 2 prices, quantities up to 1, 3 requests, ring of 1, pool of 2, 2 cents and 1 share to begin with, a switch to LEGACY, an unlisted company, failing commits, crashes | 232,827 |
| `game` (`MCGame`) | what a crash can do to registration and the game, whether the ledger is right, whether a player can win | 2 users (symmetric), 1 company, 1 scenario of value 1 with 1 hint, quotes of 0 and 2, noise band 0 or 1, 2 rounds, 2 sessions, 1 crash | 2,026,160 |
| `sessions` (`MCSessions`) | who is told of a credit, one write at a time, broken sessions, shutdown | 2 sessions (one may break), 1 user, 2 logins, 1 credit, 1 message waiting in a session when another is broadcast | 279,638 |

Four runs show a disagreement between the code and what the repository says of
it (`findings`): `switch_detaches_listener`, `unlisted_company`, `session_race`
and `refund_twice`. No counterexample has more than a dozen states.

`refund_twice` is about id 0: an order is cancelled, then id 0, and the same
quantity is refunded again. The models reach the other consequences too, and
show each of them when `zeroCancelled` is taken out of a property: a slot given
to two orders (`SlotsPartitioned`), a count of 2^32 - 1 at a price without
orders, whose bit stays and whose match does not end (`CountsExact`,
`BitmapsExact`, and `MatchEnds` with `MaxFree` at least one more than the slots),
and a bit cleared over a resting order, which the CURRENT engine then neither
shows nor matches while LEGACY does (`ReportsAgree`, `SnapshotsAgree`).

Why these bounds are enough to mean something. One price with three slots has
lists with a head, a middle and a tail; four orders reuse a freed slot with a
new id while an old id is still around; quantities up to 2 give partial fills of
both orders. One place more on the free stack than there are slots lets a slot
be freed twice and be given to two orders; what matters of the longer stacks is
only that the types are kept there, which is proved. Five prices over words of
two bits put neighbours in one word, in two words of one summary word, and in
different summary words. A ring of four slots wraps, fills (three tasks) and
empties, and five task numbers tell apart all tasks in it. Three requests are
two orders that trade and one that cancels, is rejected, or two orders and a
third that fills one of them and then stops at its own user's other one; an
order, its cancel and a cancel of id 0 are also three. Quantities of 1 are
enough for what gets lost, as partial fills are in the run without faults; a
pool of 3 lets that third order in beside two resting ones (an order holds a
slot while it matches); a pool of 2 rejects it. The totals wrap, since three
orders of 2 meet where `QtyMod` is 4. In the game every verdict occurs, with and
without noise; two rounds have one that ends the session and one that does not;
two sessions let `force_new` replace one. One crash already repeats a round,
overruns the last one and leaves an account short, and the properties count
crashes, so that more of them would say the same. Two sessions and one credit
suffice for a user who is logged in twice, or logs in while the worker is
between two sessions, and for a broken session beside a sound one; both `dozing`
and `asleep` workers meet the destructor.

What each property rules out is said in the comment above it. The main ones:

* `ImplementsLimitBook`: until id 0 is cancelled, every step of the engine is a
  step of the abstract book, under the mapping that forgets slots, links,
  counters and bitmaps. It contains price-time priority, self-trade prevention,
  exactness of the trades reported and of what cancel returns, and that an order
  is refused if and only if its price is out of range or the book is full:
  `Accepts` with the pool's size as `Capacity` for `OrderBook`, without a limit
  for `OrderBookLegacy`.
* `SlotsPartitioned`, `LinksOK`, `ArrivalOrder`, `CountsExact`, `TotalsExact`,
  `BitmapsExact`: the data structures agree, also between the steps of a match,
  until id 0 is cancelled.
* `SnapshotsExact`: what clients get to see is the right prefix of the book.
* `ReportsAgree`: the same trades, rejections and cancelled orders from both
  engines, and the same orders left resting. `SnapshotsAgree`: the same depths
  and order snapshots.
* `NoSlotRace`, `ImplementsFifo`, `PushReturns`: the ring.
* `CashExact`, `SharesExact`: balance, what the account's orders hold (with the
  I/O thread, in the ring, being matched, in the book), and what the worker
  owes it are together what it began with and gained by logged trades.
  Stated until id 0 is cancelled, and so is `NeverOverpaid`: the same with "at
  most", when things may be lost (without "until", that is `NobodyGains` of the
  run `refund_twice`). `OnlyFaultsLose`: no step but a named fault, an accepted
  cancel of id 0 being one, changes what an account is short of.
* `HeardFillsLogged`: a fill that `on_trade` was told of reaches the trades
  table, unless the process dies or its COMMIT fails. A fill in a book that a
  switch made is told to nobody and is never logged; that is the finding
  `switch_detaches_listener`, and this property does not speak of such fills.
  `RequestsGetIn`: a request gets into the full ring, unless id 0 was cancelled.
* `StarterComplete`, `RoundsComplete`, `NoOvertime`: a crash leaves at most one
  account short, repeats at most one round, adds at most one. `LedgerExact`: a
  crash never makes position and cash disagree with the rounds that count.
* `NoFreeLunch`: marked to the true value, a player is never ahead by more than
  the noise band per round.
* `OneWrite`, `AffectedUsersHear`, `DeadSessionsLeave`: what clients get.
* `OnlyLateTasksLost`, `StopReturns`: the destructor loses only what was
  appended after its flag, and returns unless its notification falls between
  the worker's test and its wait. That exception is a real hang, since nothing
  will notify again unless one more task is appended.

`CHECK_DEADLOCK FALSE` is set for `Exchange` and `Sessions`: clients may stop
sending, and `~Server` ends. It is also set for `MCOrderBook`: once a slot is on
the free stack twice, a match can meet the same node again and again and push
its slot each time, and the model stops it at `MaxFree`, in the middle of a
call.

**Fairness.** `OrderBook!Fairness`: a call into the book is a loop on one
thread that waits for nothing. A loop that goes round without changing anything
is a stuttering step, which no fairness excludes, so a match that spins violates
`MatchEnds`. `SPSCQueue!Fairness`: both threads run, the
loops call `push` and `pop` again, and a store becomes visible to the other
thread some time. `FairExchangeSpec`: each of the three threads is scheduled
again and again; the worker is notified after every append, and waits with a
predicate. No fairness is assumed of clients, of switches or of crashes.
`FairSessionsSpec`: the threads go on; what asio has to do for a session gets
done (its queue is first in, first out); metrics are broadcast every 500 ms for
ever, which is how a session whose read failed silently is found out; an
operation on a broken connection fails some time. Clients, trades, spurious
wake-ups, breaks and the destructor have none. Once a session's read has failed,
one failing write unregisters it.

## 4. What is proved

For every value of the constants that the named assumptions allow (any number
of prices, any word size, any pool, any quantities), TLAPS proves what follows.
The clients of these theorems cancel any id. Where a theorem is about the
CURRENT engine or the server behind it, it speaks of the states before id 0 was
accepted by `cancel_order`, in its statement (`zeroCancelled \/ ...`), unless it
is about types: the findings show that it is false after that.

* `OrderBookProofs`, first about `PriceBitmap`: setting and clearing a bit keep
  the three levels in agreement and change the marked prices by exactly that
  price; the descents find the lowest and the highest marked price. The
  argument is arithmetic: a price is determined by its two quotients and
  remainders, and comparing prices is comparing these paths digit by digit.
  Then about the engine: `TypeCorrect`, of every state;
  `BookInvariant == Spec => [](zeroCancelled \/ BookInv)`, and from it
  `SlotsPartitioned`, `LinksOK`, `ArrivalOrder`, `CountsExact`,
  `TotalsExact` and `BitmapsExact`; `EngineRefines == Spec =>
  ImplementsLimitBook`, the refinement that the runs check on small instances;
  and `EngineNotCrossed`, which it carries over from `LimitBookProofs`.
* `EngineParityProofs`: whatever the script of `EngineParity` sends, `LegacyIndexExact`,
  `LegacyImplementsLimitBook`, `ReportsAgree` and `SnapshotsAgree`; and
  `LegacyNotCrossed`.
* `LimitBookProofs`: the types of the abstract book, and that it is never
  crossed.
* `SPSCQueueProofs`: types, `IndicesOrdered` and `NoSlotRace` for a ring of any
  size, and `RingIsFifo`: every step of the ring is a step of `BoundedFifo` or
  leaves it alone.
* `ExchangeProofs`: types, `BookNotCrossed` behind the server, `NeverOverpaid` and
  `OnlyFaultsLose` under every fault of the model, and `CashExact` and
  `SharesExact` in every behaviour without one.
* `SessionsProofs`: types, `OneWrite` and `OnlyLateTasksLost`.
* `GameProofs`: types, `StarterComplete`, `OneActiveSession`, `RoundsComplete`,
  `LedgerExact`, `NoOvertime`, `NoFreeLunch` and `EndedIsFinal`, for any number
  of deaths of the process.
* `SumTheorems`: what the ones above need of sums.

**The inductive invariant of the engine.** `TypeInv`, the types with the
agreement of the bitmap levels, is inductive for any links and any id:
`ClearBit` of a bit that is not set changes nothing that the levels above need.
`BookInv` is the conjunction of what the checked invariants say before id 0 is
cancelled (`Partitioned`, `Linked`, `ByArrival`, `Counted`, `Indexed`) and
`SeqsOK`. It has `Cancel` with an id of an active node only, since any other is
`zeroCancelled'`, and makes `SkipLevel` impossible (`NoSkip`): a marked price has
a head. None of the parts is inductive alone. That the
head of a list is the oldest order of its price needs that `prev` leads to
older orders (`LinksOK`) and that nothing lies between an order and its
predecessor (`ArrivalOrder`): then an order other than the head would have an
infinite descent, so `ArrivalOrder` is stated pairwise, without walking the
list, which also avoids induction over lists. That a bit is cleared exactly
when the list empties needs `CountsExact`; that the count is 1 when the only
order goes needs `LinksOK` (head equals tail) and again order. That the slot
written by `Rest` is not in any list needs `SlotsPartitioned`; that the new
tail is the youngest needs that `incoming` has the last number (`SeqsOK`). The
`Unlinked*` lemmas state the effect of taking one node out of a list once, for
cancelling and for filling. There is one theorem per action, then
`BookInvariant` combines them.

**The refinement.** Every step of the engine is a step of `LimitBook` on the set
of active orders. The head of the list at the best marked price is the first
order of its side: other prices are worse because the descent finds the extreme
marked price (`BestOK`, from `BitmapsExact`), and orders of its own price are
younger (`HeadOldest`, from `LinksOK` and `ArrivalOrder`). That an order is
refused exactly when the book is full is a matter of counting: as the slots are
partitioned, the free stack is empty if and only if as many orders rest as there
are slots (`Room`). One more invariant is needed, `Unique`: no two slots hold
the same number. The engine looks a cancel up by slot and `LimitBook` by number,
so a cancel that misses in the slot must not name an order elsewhere.

**Both engines.** `LegacyInv` says of OrderBookLegacy that each list is sorted by
number and holds what the index says, of its side and price, that no level is
empty, and that the order being matched is the youngest. Sorted lists make the front
of the best level the first order of its side in the sense of `LimitBook`, and
make `RemoveAt` take out exactly the order cancelled.

That the engines report alike (`EnginesReportAlike`) rests on the two
refinements and one fact about `LimitBook`: inside a call its next step is
determined (`Goes`). The step that ends with a given state is the same function
of the book and the order being matched in both engines, so the books that
OrderBook goes through during a call (`Path`) are those that OrderBookLegacy goes
through when it is given the same call, and what each step reports is the same.
The two must also be given the same call: `IdsOK` says that the slot in the id of
an order is where that order rests, so cancelling by slot and by number agree;
`CallsOK` that both engines number the orders alike and that OrderBookLegacy is
one call behind.

**The ring.** Each thread sees the other's index late. Going round the ring
from `seen_head` one meets `head`, then `seen_tail`, then `tail`, and the three
distances add up to less than `Size`, by one more while the producer is between
its test and its publication. The consumer is inside a slot only if the
distance from `head` to `seen_tail` is not zero, so `tail` is not `head`.

That the ring is a queue needs its contents as a sequence: the slots from `head`
to `tail`, oldest first. `Publish` appends the slot at `tail` to it, so that
slot must hold the task that is being pushed and lie outside the sequence
(`WhereFree`); `Release` drops its first element. Every other step leaves the
sequence alone, writing a slot included, since the slot is not in it.

**Snapshots.** What a query returns is followed along its loops. A list of a set
in a linear order is unique (`ListedOnce`), so it is enough that a query's result
is one (`Listed`). Concatenating ordered lists whose elements are apart gives
an ordered list (`FlattenListed`): twice for the words of the bitmap, and
again for the lists of the prices. The walk along a list from its head visits the
orders of that price by arrival (`ChainListed`): from a node on, it lists those
that are not older, by induction over how many these are. A limit of n prices cuts
no order off a snapshot of n orders, since each price has one.

That the engines show alike (`EnginesShowAlike`) needs `LegacyTotals` beside
that: the total of each level of OrderBookLegacy is the sum of its orders'
quantities, as `TotalsExact` says of OrderBook's lists. With the same orders
resting in both (`ReportsAgree`), the keys of the map are the marked prices, and
the list of a level and the walk along the nodes of its price are ordered lists
of the same set, thus one list.

**Money.** What is accounted to an account is the sum of eight parts (`Worth`):
what it owns, less what its logged trades gained it; what its order holds with
the I/O thread, while being matched, after self-trade prevention rejected it, in
the ring and in the book; and what the worker owes it by each of its two
vectors, less what the trades logged there gain it. The lemmas for the steps
show that a step moves an amount from one part to another: reserving from the
tables to the I/O thread, a fill from two orders to the front vector, a commit
from the back vector to the tables. A fault drops a part that is not negative.
The invariant `States` that this rests on types every task, says that the book
is finite and not crossed, that its orders have numbers of their own
(`Distinct`), and that an order which self-trade prevention stopped holds
nothing beside what it reports (`Stopped`). A cancel of id 0 credits without
moving anything, so the sums are stated until then, and the types of every state
need that `slot0` is an order. `Solvent` says that no vector owes an account
less than the trades logged in it gain, so that losing a vector cannot overpay
anyone. `BooksBalance` takes the absence of faults, accepted cancels of id 0
included, as a hypothesis about the behaviour; `BooksBalanceUndisturbed` derives
it from constants that leave them out, as in the run `exchange`, until id 0 is
cancelled.

**Sums.** `SumFunctionOnSet` picks elements by `CHOOSE`. That the order is
irrelevant (`SumRemove`) is an induction over finite sets. The library's
induction rules take an operator and cannot be used, so `SumTheorems` proves
its own for a set of good subsets: a least bad subset exists, since strict
inclusion is well founded on the subsets of a finite set (by cardinality).

**Sessions.** `WorkerInv` says that what was appended is credited or in one of
the two vectors, and how far the threads have got for each step of `~Server`: it
has joined the worker only if that left, and it left only with `late` tasks in
`front` at most. `SessionsInv` says of a session that a write is outstanding, and
only one, while a registered session has messages queued, and that an unread
but sound connection has nothing queued; the latter needs that handlers only
run for a session that is being read, and that the registry keeps its sessions
while `broadcast_user_update` goes through them.

**Accounts and game.** `GameInv` is about `call`: which rows the rest of an
interrupted handler may rely on, e.g. that while a new row is being created no
session of the user is active, or that the round about to be counted
is the last of the log. The bounds on what deaths do count in `crashes`. For
`LedgerExact` the log is cut down to the last copy of each round
(`Counted`); a new copy of an uncounted round does not change the cut.
`NoFreeLunch` is linear arithmetic once each verdict of the judge is: a trade at
a price worse than the band against the player loses the interviewer at most
`epsilon`.

Assumptions: `BitmapAssumption`, `OrderBookAssumption`, `LimitBookAssumption`,
`QueueAssumption`, `WalletAssumption`, `ExchangeAssumption`, `NoTaskAssumption`,
`WorkerAssumption`, `AccountsAssumption`, `GameAssumption`, each in the module
that declares the constants and evaluated by TLC in the runs. `BITMAP_L2_SIZE <=
WordBits` is the one that says something about the code: the single word of
level 3 has room (25 of 64 bits).

**Model-checked only.** Liveness, which is beyond the prover: `MatchEnds`,
`PushReturns`, `HeardFillsLogged`, `RequestsGetIn`, `AffectedUsersHear`,
`DeadSessionsLeave`, `StopReturns`, and the fairness that `BoundedFifo` asks of
the ring (the rest of `ImplementsFifo` is `RingIsFifo`). Every invariant and
every action property that a passing run checks is stated by a theorem.

## 5. What is not modelled

* What is in the messages to clients other than a profile's balance; the replies
  of handlers; the trade history ring; percentiles of `metrics`; leaderboard.
* That an older profile may be shown after a newer one: the I/O thread can read
  a profile before a batch commits and post it after the worker posted its own.
  The code has nothing against it and no document says otherwise, so it is
  neither a property nor a finding.
* A market order is a limit order at the opposing best price; it may find that
  price gone and rest. `ARCHITECTURE.md:240` says it "fills"; balances stay
  exact either way.
* Single SQL statements that fail inside a batch: the code ignores the result of
  most `sqlite3_step` calls, and the model takes them to succeed.
* Password hashing, token generation, floating-point rounding in the game.
* Access to a book that a switch has freed (undefined behaviour), and integer
  widths other than those of `total_quantity` and `order_count`: a product of a price below
  100000 and a 32-bit quantity fits the 64-bit cents.
* What the server does after id 0 was cancelled, beyond the refund: `OrderBook`
  has the engine itself in that state, `Exchange` ends there.
* That settlement creates a portfolio row for a stress order's synthetic id
  (`Database.h:685`), although `Server.h:710-715` says that it does nothing for
  such ids: `Wallets` has it (`Credited`), and no property is about that row.
* The frontend, the benchmark and `main.cpp`.

## 6. Plan

Done: both engines, the bitmap and queries, the ring, the wallets, the pipeline
with faults, sessions and shutdown, accounts and the game; the safety properties
of all of them are proved, those of the CURRENT engine and of the money for as
long as nobody cancels id 0. Left to TLC is what the prover cannot state or do:
the liveness properties. Should `cancel_order` be made to refuse id 0, the
conjunct `id # <<0, 0>>` in `Cancellable` keeps `zeroCancelled` false, and what
is stated until id 0 is cancelled is then stated of every state.

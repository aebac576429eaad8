------------------------------ MODULE Wallets -------------------------------
(***************************************************************************)
(* The part of Database.h that holds money and shares: the balances,       *)
(* portfolios and trades tables, and the tasks run_db_worker applies to    *)
(* them.  One company is listed, so a portfolio is one number.             *)
(*                                                                         *)
(* Every operation runs under db_mutex_, a batch from BEGIN to COMMIT, so  *)
(* each is one action.  Crediting cash is an UPDATE, which does nothing    *)
(* for an id without a row; crediting shares is an INSERT ... ON CONFLICT, *)
(* which creates the row.                                                  *)
(***************************************************************************)
EXTENDS Integers, Sequences, FiniteSetsExt, Functions

CONSTANTS
    Accounts,       \* ids with a row in users and in balances
    InitialCash,    \* cash of a new account (1000000 cents)
    InitialShares   \* shares it is granted on registration (100)

ASSUME WalletAssumption == InitialCash \in Nat /\ InitialShares \in Nat

VARIABLES
    cash,           \* balances
    shares,         \* portfolios: ids that have a row, and their shares
    trades          \* the trades table

walletVars == <<cash, shares, trades>>

\* DbTask, by type.
Settle(buyer, seller, q, p, limit) ==
    [type |-> "settle", buyer |-> buyer, seller |-> seller,
     quantity |-> q, price |-> p, limit |-> limit]
RefundCash(u, q, p) == [type |-> "refund_cash", user |-> u, quantity |-> q, price |-> p]
RefundShares(u, q) == [type |-> "refund_shares", user |-> u, quantity |-> q]
LogTrade(buyer, seller, q, p) ==
    [type |-> "log", buyer |-> buyer, seller |-> seller, quantity |-> q, price |-> p]

\* Mutant of CashDue: no refund of what the buyer's limit exceeds the price by.
CashDueNoImprovement(t, u) ==
    CASE t.type = "settle" -> IF u = t.seller THEN t.price * t.quantity ELSE 0
      [] t.type = "refund_cash" -> IF u = t.user THEN t.price * t.quantity ELSE 0
      [] OTHER -> 0

\* The cents that a task credits to u.
CashDue(t, u) ==
    CASE t.type = "settle" ->
            (IF u = t.seller THEN t.price * t.quantity ELSE 0)
          + (IF u = t.buyer /\ t.limit > t.price
             THEN (t.limit - t.price) * t.quantity ELSE 0)
      [] t.type = "refund_cash" -> IF u = t.user THEN t.price * t.quantity ELSE 0
      [] OTHER -> 0

\* The shares that a task credits to u.
SharesDue(t, u) ==
    CASE t.type = "settle" -> IF u = t.buyer THEN t.quantity ELSE 0
      [] t.type = "refund_shares" -> IF u = t.user THEN t.quantity ELSE 0
      [] OTHER -> 0

\* The id whose portfolio row a task writes.
Credited(t) ==
    CASE t.type = "settle" -> {t.buyer}
      [] t.type = "refund_shares" -> {t.user}
      [] OTHER -> {}

-----------------------------------------------------------------------------
\* Accounts are registered (create_user, then grant_shares) before they trade.
WalletInit ==
    /\ cash = [u \in Accounts |-> InitialCash]
    /\ shares = [u \in Accounts |-> InitialShares]
    /\ trades = <<>>

\* Mutant of ReserveCash: the balance is not checked.
ReserveUnchecked(u, cents) ==
    /\ cash' = [cash EXCEPT ![u] = @ - cents]
    /\ UNCHANGED <<shares, trades>>

\* reserve_cash: the check and the debit are under one lock.
ReserveCash(u, cents) ==
    /\ cash[u] >= cents
    /\ cash' = [cash EXCEPT ![u] = @ - cents]
    /\ UNCHANGED <<shares, trades>>

\* reserve_shares.
ReserveShares(u, q) ==
    /\ shares[u] >= q
    /\ shares' = [shares EXCEPT ![u] = @ - q]
    /\ UNCHANGED <<cash, trades>>

\* What a batch credits to u in all.
CashDues(batch, u) == SumFunction([i \in DOMAIN batch |-> CashDue(batch[i], u)])
SharesDues(batch, u) == SumFunction([i \in DOMAIN batch |-> SharesDue(batch[i], u)])

\* The rows that a batch inserts into trades.
Logged(batch) ==
    LET logged[n \in 0 .. Len(batch)] ==
            IF n = 0 THEN <<>>
            ELSE IF batch[n].type = "log" THEN Append(logged[n - 1], batch[n])
            ELSE logged[n - 1]
    IN  logged[Len(batch)]

\* The transaction of run_db_worker: all tasks of a batch.
ApplyBatch(batch) ==
    LET owners == DOMAIN shares \union UNION {Credited(batch[i]) : i \in DOMAIN batch}
    IN  /\ cash' = [u \in Accounts |-> cash[u] + CashDues(batch, u)]
        /\ shares' = [u \in owners |->
                        (IF u \in DOMAIN shares THEN shares[u] ELSE 0)
                      + SharesDues(batch, u)]
        /\ trades' = trades \o Logged(batch)
=============================================================================

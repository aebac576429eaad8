------------------------------ MODULE Accounts ------------------------------
(***************************************************************************)
(* Registration, login and session tokens: handle_register and             *)
(* handle_login of Server.h on the users, balances, portfolios and         *)
(* sessions tables of Database.h.                                          *)
(*                                                                         *)
(* Messages are handled one at a time on the I/O thread.  A handler that   *)
(* runs several SQL statements runs them without a transaction, so each is *)
(* a step, after which the process may die; call is what is left of the    *)
(* handler.                                                                *)
(***************************************************************************)
EXTENDS Integers, FiniteSets, Sequences

CONSTANTS
    Users,          \* the names that clients register
    NumCompanies,   \* how many companies are listed
    MaxCrashes      \* bound: how often the process dies

ASSUME AccountsAssumption == NumCompanies \in Nat /\ MaxCrashes \in Nat

VARIABLES
    users,          \* the users table
    starter,        \* per user: how many rows of cash and shares it was given
    tokens,         \* the users that hold a token which has not expired
    call,           \* what the I/O thread has still to do
    crashes         \* how often the process died

accountVars == <<users, starter, tokens, call, crashes>>

Idle == [op |-> "idle"]
Registering(u) == [op |-> "register", user |-> u]

\* A balance, and shares of every listed company.
FullStarter == 1 + NumCompanies

AccountsInit ==
    /\ users = {} /\ tokens = {}
    /\ starter = [u \in Users |-> 0]
    /\ call = Idle
    /\ crashes = 0

\* The INSERT of create_user; a name that is taken changes nothing.
CreateUser(u) ==
    /\ call = Idle
    /\ u \notin users
    /\ users' = users \union {u}
    /\ call' = Registering(u)
    /\ UNCHANGED <<starter, tokens, crashes>>

\* Mutant of GiveStarter: the handler returns before the last company.
GiveStarterShort(u) ==
    /\ call = Registering(u)
    /\ starter' = [starter EXCEPT ![u] = @ + 1]
    /\ call' = IF starter'[u] >= FullStarter - 1 THEN Idle ELSE call
    /\ UNCHANGED <<users, tokens, crashes>>

\* The balance, then grant_shares for each company in turn.
GiveStarter(u) ==
    /\ call = Registering(u)
    /\ starter' = [starter EXCEPT ![u] = @ + 1]
    /\ call' = IF starter'[u] = FullStarter THEN Idle ELSE call
    /\ UNCHANGED <<users, tokens, crashes>>

\* login: the token is valid for a day.
Login(u) ==
    /\ call = Idle
    /\ u \in users
    /\ tokens' = tokens \union {u}
    /\ UNCHANGED <<users, starter, call, crashes>>

\* expires_at passes; handlers only look at their start.
Expire(u) ==
    /\ call = Idle
    /\ u \in tokens
    /\ tokens' = tokens \ {u}
    /\ UNCHANGED <<users, starter, call, crashes>>

\* The process dies in the middle of a handler and is started again.
Crash ==
    /\ call # Idle
    /\ crashes < MaxCrashes
    /\ crashes' = crashes + 1
    /\ call' = Idle
    /\ UNCHANGED <<users, starter, tokens>>

AccountsNext ==
    \/ \E u \in Users : CreateUser(u) \/ GiveStarter(u) \/ Login(u) \/ Expire(u)
    \/ Crash

\* validate_session, at the start of a handler.
Authenticated(u) == call = Idle /\ u \in tokens

\* Whoever is registered has a balance and shares of every company
\* (Server.h:355), except while handle_register is still at it; each death of
\* the process can leave one account short, for ever, as the name is taken.
StarterComplete ==
    LET short == {u \in users : starter[u] # FullStarter /\ call # Registering(u)}
    IN  Cardinality(short) <= crashes
=============================================================================

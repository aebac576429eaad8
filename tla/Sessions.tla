------------------------------ MODULE Sessions ------------------------------
(***************************************************************************)
(* Server.h: who is told what.  The sessions and their registry, the       *)
(* asio strand of reads, posts and writes on the I/O thread, and the       *)
(* database worker pushing profiles at sessions while that thread logs     *)
(* users in.                                                               *)
(*                                                                         *)
(* A profile is a user and how many credits its balance had.  Books,       *)
(* trades, metrics and replies are one message, Other.  The registry's     *)
(* mutex is held while tell # NoTell.                                      *)
(***************************************************************************)
EXTENDS DbWorker

CONSTANTS
    Connections,    \* the sessions that clients open
    Mortal,         \* those whose connection may break
    Nobody,         \* current_user_id_ of a session nobody logged in to: -1
    MaxLogins,      \* bound: messages that identify a user
    MaxBacklog      \* bound: messages waiting in a session when one is broadcast

ASSUME SessionsAssumption ==
    /\ Mortal \subseteq Connections
    /\ Nobody \notin Users
    /\ MaxLogins \in Nat /\ MaxBacklog \in Nat

VARIABLES
    registry,       \* sessions_ of SessionRegistry
    session,        \* the members of each session and its connection
    io,             \* the handler the I/O thread is in
    tell,           \* where broadcast_user_update is
    logins          \* how many messages identified a user

sessionVars == <<registry, session, io, tell, logins>>
allVars == <<workerVars, sessionVars>>

NoHandler == [at |-> "idle"]
NoTell == [at |-> "idle"]
Other == [user |-> Nobody, version |-> 0]
Profile(u) == [user |-> u, version |-> balance[u]]

Quiet(u) ==
    [user |-> u,            \* current_user_id_
     reading |-> FALSE,     \* whether an async_read is outstanding
     posted |-> <<>>,       \* what net::post has yet to run
     write_queue |-> <<>>,
     writes |-> 0,          \* async_writes outstanding
     alive |-> TRUE]        \* whether the connection holds

SessionsInit ==
    /\ WorkerInit
    /\ registry = {}
    /\ session = [s \in Connections |-> Quiet(Nobody)]
    /\ io = NoHandler /\ tell = NoTell
    /\ logins = 0

\* send(): the message is posted to the I/O thread, while that runs.
Sent(s, msg) ==
    IF main = "running" THEN [session EXCEPT ![s].posted = Append(@, msg)] ELSE session

-----------------------------------------------------------------------------
(* The I/O thread: one handler at a time, until ioc.run() returns.         *)

AtIo == main = "running" /\ io = NoHandler

Accept(s) ==
    /\ AtIo /\ tell = NoTell
    /\ s \notin registry /\ ~ session[s].reading /\ session[s].alive
    /\ registry' = registry \union {s}
    /\ session' = [session EXCEPT ![s].reading = TRUE]
    /\ UNCHANGED <<workerVars, io, tell, logins>>

\* A message from which the handler learns who sends it, ...
Identify(s, u, announce) ==
    /\ AtIo
    /\ session[s].reading /\ session[s].alive
    /\ logins < MaxLogins
    /\ logins' = logins + 1
    /\ io' = [at |-> "assign", session |-> s, user |-> u, announce |-> announce]
    /\ UNCHANGED <<workerVars, registry, session, tell>>

\* ... which it writes to current_user_id_; login, registration and
\* snapshots go on to send_user_update, ...
Assign ==
    /\ io.at = "assign"
    /\ session' = [session EXCEPT ![io.session].user = io.user]
    /\ io' = IF io.announce THEN [at |-> "fetch", session |-> io.session] ELSE NoHandler
    /\ UNCHANGED <<workerVars, registry, tell, logins>>

\* ... which reads the profile, ...
Fetch ==
    /\ io.at = "fetch"
    /\ io' = [at |-> "post", session |-> io.session,
              msg |-> Profile(session[io.session].user)]
    /\ UNCHANGED <<workerVars, registry, session, tell, logins>>

\* ... and posts it.
Post ==
    /\ io.at = "post"
    /\ session' = Sent(io.session, io.msg)
    /\ io' = NoHandler
    /\ UNCHANGED <<workerVars, registry, tell, logins>>

\* Mutant of RunPost: every message starts a write of its own.
RunPostEager(s) ==
    /\ AtIo
    /\ session[s].posted # <<>>
    /\ session' = [session EXCEPT ![s].posted = Tail(@), ![s].writes = @ + 1,
                                  ![s].write_queue = Append(@, Head(session[s].posted))]
    /\ UNCHANGED <<workerVars, registry, io, tell, logins>>

\* What send posted: a write is only started for the first in the queue.
RunPost(s) ==
    /\ AtIo
    /\ session[s].posted # <<>>
    /\ session' = [session EXCEPT
          ![s].posted = Tail(@),
          ![s].write_queue = Append(@, Head(session[s].posted)),
          ![s].writes = IF session[s].write_queue = <<>> THEN @ + 1 ELSE @]
    /\ UNCHANGED <<workerVars, registry, io, tell, logins>>

\* A write completes: the next one is started.
WriteDone(s) ==
    /\ AtIo
    /\ session[s].writes > 0 /\ session[s].alive
    /\ session' = [session EXCEPT
          ![s].write_queue = Tail(@),
          ![s].writes = IF Len(session[s].write_queue) = 1 THEN @ - 1 ELSE @]
    /\ UNCHANGED <<workerVars, registry, io, tell, logins>>

\* Mutant of WriteFails: the error is ignored and the next write started.
WriteFailsIgnored(s) ==
    /\ AtIo
    /\ session[s].writes > 0 /\ ~ session[s].alive
    /\ session' = [session EXCEPT
          ![s].write_queue = Tail(@),
          ![s].writes = IF Len(session[s].write_queue) = 1 THEN @ - 1 ELSE @]
    /\ UNCHANGED <<workerVars, registry, io, tell, logins>>

\* A write fails: the message stays in the queue, so none follows it.
WriteFails(s) ==
    /\ AtIo /\ tell = NoTell
    /\ session[s].writes > 0 /\ ~ session[s].alive
    /\ session' = [session EXCEPT ![s].writes = @ - 1]
    /\ registry' = registry \ {s}
    /\ UNCHANGED <<workerVars, io, tell, logins>>

\* A read fails and is not repeated; only three errors unregister.
ReadFails(s) ==
    /\ AtIo /\ tell = NoTell
    /\ session[s].reading /\ ~ session[s].alive
    /\ session' = [session EXCEPT ![s].reading = FALSE]
    /\ registry' \in {registry, registry \ {s}}
    /\ UNCHANGED <<workerVars, io, tell, logins>>

\* The connection breaks.
Break(s) ==
    /\ main = "running"
    /\ s \in Mortal /\ session[s].reading /\ session[s].alive
    /\ session' = [session EXCEPT ![s].alive = FALSE]
    /\ UNCHANGED <<workerVars, registry, io, tell, logins>>

-----------------------------------------------------------------------------
(* The other threads.                                                      *)

\* broadcast by the engine thread: a book, a trade, or the metrics that it
\* emits every half second.
Broadcast ==
    /\ main = "running" /\ engine = "running" /\ tell = NoTell
    /\ \A s \in registry : Len(session[s].posted \o session[s].write_queue) < MaxBacklog
    /\ session' = [s \in Connections |->
          IF s \in registry THEN Sent(s, Other)[s] ELSE session[s]]
    /\ UNCHANGED <<workerVars, registry, io, tell, logins>>

\* broadcast_user_update of the next affected user locks the registry, ...
TellUser ==
    /\ worker = "telling" /\ tell = NoTell
    /\ \E u \in todo :
          /\ todo' = todo \ {u}
          /\ tell' = [at |-> "visit", user |-> u, visit |-> registry]
    /\ UNCHANGED <<front, back, balance, threadVars, registry, session, io, logins>>

\* Mutant of Visit: the first session of the user is the only one told.
VisitOne ==
    /\ tell.at = "visit"
    /\ \E s \in tell.visit :
          tell' = IF session[s].user = tell.user
                  THEN [at |-> "fetch", user |-> tell.user, session |-> s, visit |-> {}]
                  ELSE [tell EXCEPT !.visit = @ \ {s}]
    /\ UNCHANGED <<workerVars, registry, session, io, logins>>

\* ... looks who is logged in to a session, ...
Visit ==
    /\ tell.at = "visit"
    /\ \E s \in tell.visit :
          tell' = IF session[s].user = tell.user
                  THEN [at |-> "fetch", user |-> tell.user, session |-> s,
                        visit |-> tell.visit \ {s}]
                  ELSE [tell EXCEPT !.visit = @ \ {s}]
    /\ UNCHANGED <<workerVars, registry, session, io, logins>>

\* ... reads the profile of whoever is logged in to it by then, ...
FetchFor ==
    /\ tell.at = "fetch"
    /\ tell' = [at |-> "post", user |-> tell.user, session |-> tell.session,
                visit |-> tell.visit, msg |-> Profile(session[tell.session].user)]
    /\ UNCHANGED <<workerVars, registry, session, io, logins>>

\* ... sends it, ...
PostFor ==
    /\ tell.at = "post"
    /\ session' = Sent(tell.session, tell.msg)
    /\ tell' = [at |-> "visit", user |-> tell.user, visit |-> tell.visit]
    /\ UNCHANGED <<workerVars, registry, io, logins>>

\* ... and unlocks the registry after the last session.
TellDone ==
    /\ tell.at = "visit" /\ tell.visit = {}
    /\ tell' = NoTell
    /\ UNCHANGED <<workerVars, registry, session, io, logins>>

\* What asio has to do for a session.
Serve(s) == RunPost(s) \/ WriteDone(s) \/ WriteFails(s) \/ ReadFails(s)
\* ~Server begins after ioc.run() returned: reads, posts and writes that are
\* outstanding never complete, and are left out.
StopIo ==
    /\ io = NoHandler
    /\ SetStop
    /\ session' = [s \in Connections |-> Quiet(session[s].user)]
    /\ UNCHANGED <<registry, io, tell, logins>>

HandlerSteps == Assign \/ Fetch \/ Post
Telling == TellUser \/ Visit \/ FetchFor \/ PostFor \/ TellDone
Beside == UNCHANGED sessionVars
EngineRuns == EngineSteps /\ Beside
WorkerRuns == Telling \/ (tell = NoTell /\ WorkerSteps /\ Beside)
MainRuns == MainSteps /\ Beside

SessionsNext ==
    \/ \E s \in Connections : Accept(s) \/ Serve(s) \/ Break(s)
    \/ \E s \in Connections, u \in Users, announce \in BOOLEAN : Identify(s, u, announce)
    \/ HandlerSteps
    \/ Broadcast
    \/ \E u \in Users : AppendTask(u) /\ Beside
    \/ EngineRuns
    \/ WorkerRuns
    \/ SpuriousWakeup /\ Beside
    \/ StopIo
    \/ MainRuns

SessionsSpec == SessionsInit /\ [][SessionsNext]_allVars

\* The three threads and ~Server go on, the I/O thread gets to everything it
\* has to do, metrics are broadcast for ever, and a write or read on a broken
\* connection fails some time.  Nothing obliges a client to send, a book to
\* trade, a waiter to wake by itself or the program to stop.
FairSessionsSpec ==
    /\ SessionsSpec
    /\ WF_allVars(HandlerSteps)
    /\ WF_allVars(EngineRuns) /\ WF_allVars(WorkerRuns) /\ WF_allVars(MainRuns)
    /\ WF_allVars(Broadcast)
    /\ \A s \in Connections : WF_allVars(Serve(s))

-----------------------------------------------------------------------------
(* Properties.                                                             *)

SessionsTypeOK ==
    /\ balance \in [Users -> 0 .. MaxCredits]
    /\ todo \subseteq Users
    /\ registry \subseteq Connections
    /\ \A s \in Connections :
          LET all == session[s].posted \o session[s].write_queue
          IN  /\ session[s].user \in Users \union {Nobody}
              /\ \A i \in DOMAIN all : all[i] \in [user : Users \union {Nobody},
                                                   version : 0 .. MaxCredits]

\* Beast allows one async_write at a time: a session never has two, although
\* three threads send to it; and while it is registered, a message in its
\* queue has a write on the way, so that nothing waits for a later message.
OneWrite ==
    \A s \in Connections :
        /\ session[s].writes <= 1
        /\ s \in registry /\ session[s].write_queue # <<>> => session[s].writes = 1

\* What is being written to a session is the profile of u with n credits.
Shows(s, u, n) ==
    /\ session[s].writes > 0
    /\ Head(session[s].write_queue).user = u /\ Head(session[s].write_queue).version >= n

\* ARCHITECTURE.md:314-316: whoever a batch credits gets an update.  It shows
\* the batch's credits, on every session that the user is still logged in to
\* and whose connection holds.
AffectedUsersHear ==
    \A u \in Users, s \in Connections, n \in 1 .. MaxCredits :
        (u \in todo /\ s \in registry /\ session[s].user = u /\ balance[u] = n)
            ~> \/ Shows(s, u, n)
               \/ session[s].user # u \/ ~ session[s].alive
               \/ main # "running"

\* A session whose connection broke is unregistered, also when its read
\* failed in a way that do_read ignores: the next broadcast finds out.
DeadSessionsLeave ==
    \A s \in Connections :
        (s \in registry /\ ~ session[s].alive) ~> (s \notin registry \/ main # "running")

\* ARCHITECTURE.md:330: no session-level data race is possible.  One would be
\* the I/O thread writing current_user_id_ when the worker is about to read it.
NoSessionRace ==
    \A s \in Connections :
        ~ /\ io.at = "assign" /\ io.session = s
          /\ \/ tell.at = "visit" /\ s \in tell.visit
             \/ tell.at = "fetch" /\ tell.session = s
=============================================================================

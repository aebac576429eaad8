--------------------------- MODULE SessionsProofs ---------------------------
(***************************************************************************)
(* What is proved about Sessions and DbWorker, for any number of users,    *)
(* connections and tasks: the vectors between the engine thread and the    *)
(* database worker lose nothing that was credited before ~Server began,    *)
(* and a session never has two writes outstanding.                         *)
(***************************************************************************)
EXTENDS Sessions, SumTheorems, SequenceTheorems

-----------------------------------------------------------------------------
(* The invariant.  WorkerInv is about the hand-over and ~Server, SessionsInv *)
(* about the sessions; its last four conjuncts need the first four.        *)

WorkerTypeOK ==
    /\ front \in Seq(Users) /\ back \in Seq(Users)
    /\ todo \subseteq Users
    /\ balance \in [Users -> Nat]
    /\ worker \in {"testing", "dozing", "asleep", "batch", "telling", "left"}
    /\ engine \in {"running", "notifying", "left"}
    /\ main \in {"running", "notifying", "joining engine", "joining worker", "done"}
    /\ stop \in BOOLEAN /\ late \in Nat

\* What was appended is either credited or in one of the vectors.
CreditsOK == Applied + Len(front) + Len(back) <= MaxCredits

\* How far ~Server has got, and what the threads still do by then.
StopOK ==
    /\ stop <=> main # "running"
    /\ main \in {"joining worker", "done"} => engine = "left"
    /\ main = "done" => worker = "left"
    /\ worker = "left" => stop /\ Len(front) <= late

WorkerInv == WorkerTypeOK /\ CreditsOK /\ StopOK

Messages == [user : Users \union {Nobody}, version : 0 .. MaxCredits]

SessionStates ==
    [user : Users \union {Nobody}, reading : BOOLEAN, posted : Seq(Messages),
     write_queue : Seq(Messages), writes : Nat, alive : BOOLEAN]

\* A write is on the way exactly while a registered session has messages
\* queued, and nothing is queued for a connection that is not read.
SessionOK(s) ==
    /\ session[s].writes > 0 => session[s].writes = 1 /\ session[s].write_queue # <<>>
    /\ s \in registry /\ session[s].write_queue # <<>> => session[s].writes = 1
    /\ session[s].alive /\ ~ session[s].reading
          => session[s].posted = <<>> /\ session[s].write_queue = <<>>
    /\ s \in registry /\ main = "running" => session[s].reading \/ ~ session[s].alive

Handlers ==
    {NoHandler}
      \union [at : {"assign"}, session : Connections, user : Users, announce : BOOLEAN]
      \union [at : {"fetch"}, session : Connections]
      \union [at : {"post"}, session : Connections, msg : Messages]

\* A handler runs for a session that was reading when it was called.
HandlerOK ==
    /\ io.at # "idle" => session[io.session].reading
    /\ io.at = "fetch" => session[io.session].user \in Users

Tellings ==
    {NoTell}
      \union [at : {"visit"}, user : Users, visit : SUBSET Connections]
      \union [at : {"fetch"}, user : Users, session : Connections, visit : SUBSET Connections]
      \union [at : {"post"}, user : Users, session : Connections, visit : SUBSET Connections,
              msg : Messages]

\* The registry keeps its sessions while broadcast_user_update goes through
\* them, and nobody logs out.
TellOK ==
    /\ tell.at # "idle" => tell.visit \subseteq registry
    /\ tell.at \in {"fetch", "post"} => tell.session \in registry
    /\ tell.at = "fetch" => session[tell.session].user \in Users

SessionsInv ==
    /\ registry \subseteq Connections
    /\ session \in [Connections -> SessionStates]
    /\ io \in Handlers /\ tell \in Tellings
    /\ \A s \in Connections : SessionOK(s)
    /\ HandlerOK /\ TellOK

-----------------------------------------------------------------------------
(* The worker.                                                             *)

\* Adding 1 to one term adds 1 to the sum.
LEMMA SumMore ==
    ASSUME NEW f, NEW g, NEW S, IsFiniteSet(S), NEW a \in S,
           \A x \in S : f[x] \in Int, g[a] = f[a] + 1,
           \A x \in S \ {a} : g[x] = f[x]
    PROVE  SumFunctionOnSet(g, S) = SumFunctionOnSet(f, S) + 1
<1>1. f[a] \in Int /\ g[a] \in Int
  OBVIOUS
<1>2. SumFunctionOnSet(g, S) = SumFunctionOnSet(f, S) - f[a] + g[a]
  BY <1>1, SumChange
<1>3. SumFunctionOnSet(f, S) \in Int
  BY SumInt
<1>. QED  BY <1>1, <1>2, <1>3

\* Zeros sum to 0.
LEMMA SumZero ==
    ASSUME NEW f, NEW S, IsFiniteSet(S), \A x \in S : f[x] = 0
    PROVE  SumFunctionOnSet(f, S) = 0
<1>. DEFINE Bad == {T \in SUBSET S : SumFunctionOnSet(f, T) # 0}
<1>1. ASSUME Bad # {}  PROVE FALSE
  <2>1. PICK T \in Bad : \A x \in T : T \ {x} \notin Bad
    <3>1. Bad \in SUBSET SUBSET S
      OBVIOUS
    <3>. HIDE DEF Bad
    <3>. QED  BY <1>1, <3>1, LeastSubset
  <2>2. PICK a : a \in T
    BY <2>1, SumEmpty
  <2>3. SumFunctionOnSet(f, T) = f[a] + SumFunctionOnSet(f, T \ {a})
    <3>1. IsFiniteSet(T) /\ \A x \in T : f[x] \in Int
      BY FS_Subset
    <3>. QED  BY <2>2, <3>1, SumRemove
  <2>. QED  BY <2>1, <2>2, <2>3
<1>. QED  BY <1>1

\* A batch credits as often as it has tasks: by induction over its prefixes.
LEMMA BatchSum ==
    ASSUME NEW b \in [Users -> Nat], NEW q \in Seq(Users)
    PROVE  LET new == [u \in Users |-> b[u] + Cardinality(Credits(q, u))]
           IN  /\ new \in [Users -> Nat]
               /\ SumFunction(new) = SumFunction(b) + Len(q)
<1>. DEFINE Prefix(k, u) == {i \in 1 .. k : q[i] = u}
            After(k) == [u \in Users |-> b[u] + Cardinality(Prefix(k, u))]
            G == {k \in 0 .. Len(q) : SumFunctionOnSet(After(k), Users) = SumFunctionOnSet(b, Users) + k}
<1>1. IsFiniteSet(Users) /\ Len(q) \in Nat /\ DOMAIN q = 1 .. Len(q)
      /\ \A i \in 1 .. Len(q) : q[i] \in Users
  BY WorkerAssumption
<1>2. SumFunctionOnSet(b, Users) \in Int
  BY <1>1, SumInt
<1>3. ASSUME NEW k \in 0 .. Len(q), NEW u \in Users
      PROVE  /\ IsFiniteSet(Prefix(k, u)) /\ Cardinality(Prefix(k, u)) \in Nat
             /\ After(k)[u] \in Nat
  <2>1. IsFiniteSet(1 .. k)
    BY FS_Interval
  <2>2. IsFiniteSet(Prefix(k, u)) /\ Cardinality(Prefix(k, u)) \in Nat
    BY <2>1, FS_Subset, FS_CardinalityType
  <2>. QED  BY <2>2
<1>4. 0 \in G
  <2>1. ASSUME NEW u \in Users  PROVE Cardinality(Prefix(0, u)) = 0
    <3>1. Prefix(0, u) = {}
      OBVIOUS
    <3>. QED  BY <3>1, FS_EmptySet
  <2>2. \A u \in Users : After(0)[u] = b[u]
    BY <2>1
  <2>3. SumFunctionOnSet(After(0), Users) = SumFunctionOnSet(b, Users)
    <3>. HIDE DEF After
    <3>. QED  BY <1>1, <2>2, SumSame
  <2>. QED  BY <1>1, <1>2, <2>3
<1>5. ASSUME NEW k \in 0 .. Len(q) - 1, k \in G  PROVE k + 1 \in G
  <2>1. PICK n : n = k + 1
    OBVIOUS
  <2>2. n \in 1 .. Len(q) /\ k \in 0 .. Len(q) /\ n \in 0 .. Len(q) /\ q[n] \in Users
    BY <1>1, <2>1
  <2>3. ASSUME NEW u \in Users \ {q[n]}  PROVE After(n)[u] = After(k)[u]
    <3>1. Prefix(n, u) = Prefix(k, u)
      BY <2>1, <2>2
    <3>. QED  BY <3>1
  <2>4. After(n)[q[n]] = After(k)[q[n]] + 1
    <3>1. PICK u \in Users : u = q[n]
      BY <2>2
    <3>2. Prefix(n, u) = Prefix(k, u) \union {n} /\ n \notin Prefix(k, u)
      BY <2>1, <2>2, <3>1
    <3>3. IsFiniteSet(Prefix(k, u)) /\ Cardinality(Prefix(k, u)) \in Nat
      BY <1>3, <2>2
    <3>4. Cardinality(Prefix(n, u)) = Cardinality(Prefix(k, u)) + 1
      <4>. HIDE DEF Prefix
      <4>. QED  BY <3>2, <3>3, FS_AddElement
    <3>5. After(n)[u] = b[u] + Cardinality(Prefix(n, u)) /\ After(k)[u] = b[u] + Cardinality(Prefix(k, u))
      OBVIOUS
    <3>6. After(n)[u] = After(k)[u] + 1
      <4>1. b[u] \in Nat
        OBVIOUS
      <4>. HIDE DEF Prefix, After
      <4>. QED  BY <3>3, <3>4, <3>5, <4>1
    <3>. QED  BY <3>1, <3>6
  <2>5. PICK f, g, a : f = After(k) /\ g = After(n) /\ a = q[n]
    OBVIOUS
  <2>6. /\ \A u \in Users : f[u] \in Int
        /\ g[a] \in Int /\ a \in Users /\ g[a] = f[a] + 1
        /\ \A u \in Users \ {a} : g[u] = f[u]
    <3>1. \A u \in Users : f[u] \in Nat /\ g[u] \in Nat
      BY <1>3, <2>2, <2>5
    <3>. HIDE DEF After
    <3>. QED  BY <2>2, <2>3, <2>4, <2>5, <3>1
  <2>7. SumFunctionOnSet(g, Users) = SumFunctionOnSet(f, Users) + 1
    <3>. HIDE DEF After, Prefix, G
    <3>. QED  BY <1>1, <2>6, SumMore
  <2>8. SumFunctionOnSet(f, Users) = SumFunctionOnSet(b, Users) + k
    <3>. HIDE DEF After
    <3>. QED  BY <1>5, <2>5
  <2>9. SumFunctionOnSet(g, Users) = SumFunctionOnSet(b, Users) + n
    BY <1>2, <2>1, <2>2, <2>7, <2>8
  <2>. HIDE DEF After
  <2>. QED  BY <2>1, <2>2, <2>5, <2>9
<1>6. Len(q) \in G
  <2>. HIDE DEF G
  <2>. QED  BY <1>1, <1>4, <1>5, IntervalInduction
<1>7. PICK new : new = [u \in Users |-> b[u] + Cardinality(Credits(q, u))]
  OBVIOUS
<1>8. new = After(Len(q))
  BY <1>1, <1>7 DEF Credits
<1>9. new \in [Users -> Nat]
  <2>1. \A u \in Users : After(Len(q))[u] \in Nat
    BY <1>1, <1>3
  <2>2. new = [u \in Users |-> new[u]]
    BY <1>7
  <2>. HIDE DEF After
  <2>. QED  BY <1>8, <2>1, <2>2
<1>10. SumFunction(new) = SumFunction(b) + Len(q)
  <2>1. SumFunctionOnSet(new, Users) = SumFunctionOnSet(b, Users) + Len(q)
    <3>. HIDE DEF After
    <3>. QED  BY <1>6, <1>8
  <2>. QED  BY <1>9, <2>1 DEF SumFunction
<1>. QED  BY <1>7, <1>9, <1>10

\* Nobody is credited more than all tasks.
LEMMA BalanceBounded ==
    ASSUME WorkerInv
    PROVE  /\ Applied \in Nat
           /\ \A u \in Users : balance[u] \in 0 .. MaxCredits
<1>0. balance \in [Users -> Nat] /\ front \in Seq(Users) /\ back \in Seq(Users)
  BY DEF WorkerInv, WorkerTypeOK
<1>1. balance \in [Users -> Nat] /\ Len(front) \in Nat /\ Len(back) \in Nat
  BY <1>0
<1>2. IsFiniteSet(Users) /\ MaxCredits \in Nat
  BY WorkerAssumption
<1>3. SumFunctionOnSet(balance, Users) = Applied
  BY <1>1 DEF Applied, SumFunction
<1>4. Applied \in Nat /\ \A u \in Users : balance[u] <= Applied
  BY <1>1, <1>2, <1>3, SumNat
<1>5. Applied <= MaxCredits
  BY <1>1, <1>2, <1>4 DEF WorkerInv, CreditsOK
<1>. QED  BY <1>1, <1>2, <1>4, <1>5
-----------------------------------------------------------------------------
(* Each step of the worker, the engine thread and ~Server.                 *)

\* What the tasks and the balances are, by the names of the vectors.
LEMMA VectorLengths ==
    ASSUME WorkerInv
    PROVE  /\ Len(front) \in Nat /\ Len(back) \in Nat
           /\ MaxCredits \in Nat /\ Applied \in Nat
           /\ Applied + Len(front) + Len(back) <= MaxCredits
<1>1. front \in Seq(Users) /\ back \in Seq(Users)
  BY DEF WorkerInv, WorkerTypeOK
<1>2. Len(front) \in Nat /\ Len(back) \in Nat
  BY <1>1
<1>. QED  BY <1>2, WorkerAssumption, BalanceBounded DEF WorkerInv, CreditsOK

\* A task: late when ~Server has begun.
LEMMA AppendTaskKeeps ==
    ASSUME WorkerInv, NEW u \in Users, AppendTask(u)
    PROVE  WorkerInv'
<1>1. front' \in Seq(Users) /\ Len(front') = Len(front) + 1
  <2>1. front \in Seq(Users) /\ front' = Append(front, u)
    BY DEF WorkerInv, WorkerTypeOK, AppendTask
  <2>. QED  BY <2>1, AppendProperties
<1>2. late' \in Nat /\ (stop => late' = late + 1)
  <2>1. late \in Nat /\ late' = IF stop THEN late + 1 ELSE late
    BY DEF WorkerInv, WorkerTypeOK, AppendTask
  <2>. QED  BY <2>1
<1>3. WorkerTypeOK'
  BY <1>1, <1>2 DEF WorkerInv, WorkerTypeOK, AppendTask
<1>4. CreditsOK'
  <2>1. Applied' = Applied /\ Len(back') = Len(back)
    BY DEF AppendTask, Applied
  <2>. QED  BY <1>1, <2>1, VectorLengths DEF CreditsOK, AppendTask
<1>5. StopOK'
  <2>1. late \in Nat /\ Len(front) \in Nat
    BY VectorLengths DEF WorkerInv, WorkerTypeOK
  <2>2. ASSUME worker' = "left"  PROVE stop' /\ Len(front') <= late'
    <3>1. stop /\ stop' = stop /\ Len(front) <= late
      BY <2>2 DEF WorkerInv, StopOK, AppendTask
    <3>. QED  BY <1>1, <1>2, <2>1, <3>1
  <2>. QED  BY <2>2 DEF WorkerInv, StopOK, AppendTask
<1>. QED  BY <1>3, <1>4, <1>5 DEF WorkerInv

\* Steps that leave the vectors and the balances alone.
LEMMA CreditsKept ==
    ASSUME WorkerInv, UNCHANGED <<front, back, balance>>
    PROVE  CreditsOK'
<1>1. Applied' = Applied
  BY DEF Applied
<1>. QED  BY <1>1 DEF WorkerInv, CreditsOK

\* The engine thread after the append.
LEMMA EngineKeeps ==
    ASSUME WorkerInv, EngineSteps
    PROVE  WorkerInv'
<1>1. UNCHANGED queueVars
  BY DEF EngineSteps, Notify, EngineLeaves
<1>2. CreditsOK'
  BY <1>1, CreditsKept DEF queueVars
<1>3. CASE Notify
  BY <1>1, <1>2, <1>3 DEF WorkerInv, WorkerTypeOK, StopOK, Notify, Wake, queueVars
<1>4. CASE EngineLeaves
  BY <1>1, <1>2, <1>4 DEF WorkerInv, WorkerTypeOK, StopOK, EngineLeaves, queueVars
<1>. QED  BY <1>3, <1>4 DEF EngineSteps

\* The predicate and the swap: the worker leaves an empty vector behind.
LEMMA TestKeeps ==
    ASSUME WorkerInv, Test
    PROVE  WorkerInv'
<1>1. CASE UNCHANGED <<front, back>>
  <2>1. CreditsOK'
    BY <1>1, CreditsKept DEF Test
  <2>2. worker' = "left" => stop /\ front = <<>>
    BY <1>1 DEF Test, Leaving
  <2>3. worker' = "left" => Len(front') <= late'
    <3>1. late \in Nat /\ Len(<<>>) = 0
      BY DEF WorkerInv, WorkerTypeOK
    <3>. QED  BY <1>1, <2>2, <3>1 DEF Test
  <2>4. WorkerTypeOK'
    BY <1>1 DEF WorkerInv, WorkerTypeOK, Test
  <2>5. StopOK'
    BY <2>2, <2>3 DEF WorkerInv, WorkerTypeOK, StopOK, Test
  <2>. QED  BY <2>1, <2>4, <2>5 DEF WorkerInv
<1>2. CASE worker' = "batch" /\ SwapVectors
  <2>1. Applied' = Applied
    BY DEF Test, Applied
  <2>2. CreditsOK'
    BY <1>2, <2>1, VectorLengths DEF CreditsOK, SwapVectors
  <2>3. WorkerTypeOK'
    BY <1>2 DEF WorkerInv, WorkerTypeOK, Test, SwapVectors
  <2>4. StopOK'
    BY <1>2 DEF WorkerInv, WorkerTypeOK, StopOK, Test
  <2>. QED  BY <2>2, <2>3, <2>4 DEF WorkerInv
<1>. QED  BY <1>1, <1>2 DEF Test

\* The transaction: every task of the batch becomes one credit.
LEMMA CommitKeeps ==
    ASSUME WorkerInv, CommitBatch
    PROVE  WorkerInv'
<1>1. balance \in [Users -> Nat] /\ back \in Seq(Users)
  BY DEF WorkerInv, WorkerTypeOK
<1>2. balance' \in [Users -> Nat] /\ Applied' = Applied + Len(back)
  BY <1>1, BatchSum DEF CommitBatch, Applied
<1>3. todo' \subseteq Users
  <2>1. \A i \in DOMAIN back : back[i] \in Users
    BY <1>1
  <2>. QED  BY <2>1 DEF CommitBatch, Range
<1>4. back' \in Seq(Users) /\ Len(back') = 0
  BY DEF CommitBatch
<1>5. CreditsOK'
  BY <1>2, <1>4, VectorLengths DEF CreditsOK, CommitBatch
<1>6. WorkerTypeOK'
  BY <1>2, <1>3, <1>4 DEF WorkerInv, WorkerTypeOK, CommitBatch
<1>7. StopOK'
  BY DEF WorkerInv, StopOK, CommitBatch
<1>. QED  BY <1>5, <1>6, <1>7 DEF WorkerInv

\* The worker's other steps.
LEMMA WorkerKeeps ==
    ASSUME WorkerInv, WorkerSteps \/ SpuriousWakeup
    PROVE  WorkerInv'
<1>1. ASSUME Sleep \/ SpuriousWakeup \/ BatchDone  PROVE WorkerInv'
  <2>1. UNCHANGED <<queueVars, engine, main, stop, late>>
    BY <1>1 DEF Sleep, SpuriousWakeup, BatchDone
  <2>2. worker' \in {"testing", "asleep"}
    BY <1>1 DEF Sleep, SpuriousWakeup, BatchDone
  <2>3. CreditsOK'
    BY <2>1, CreditsKept DEF queueVars
  <2>4. WorkerTypeOK'
    BY <2>1, <2>2 DEF WorkerInv, WorkerTypeOK, queueVars
  <2>5. StopOK'
    <3>1. main # "done"
      BY <1>1 DEF Sleep, SpuriousWakeup, BatchDone, WorkerInv, StopOK
    <3>. QED  BY <2>1, <2>2, <3>1 DEF WorkerInv, StopOK, queueVars
  <2>. QED  BY <2>3, <2>4, <2>5 DEF WorkerInv
<1>. QED  BY <1>1, TestKeeps, CommitKeeps DEF WorkerSteps

\* ~Server: it joins the engine thread first, the worker second.
LEMMA MainKeeps ==
    ASSUME WorkerInv, SetStop \/ MainSteps
    PROVE  WorkerInv'
<1>1. UNCHANGED <<front, back, todo, balance, engine, late>>
  BY DEF SetStop, MainSteps, NotifyAll, JoinEngine, JoinWorker, queueVars
<1>2. CreditsOK'
  BY <1>1, CreditsKept
<1>3. CASE SetStop
  BY <1>1, <1>2, <1>3 DEF WorkerInv, WorkerTypeOK, StopOK, SetStop
<1>4. CASE NotifyAll
  BY <1>1, <1>2, <1>4 DEF WorkerInv, WorkerTypeOK, StopOK, NotifyAll, Wake
<1>5. CASE JoinEngine \/ JoinWorker
  BY <1>1, <1>2, <1>5 DEF WorkerInv, WorkerTypeOK, StopOK, JoinEngine, JoinWorker
<1>. QED  BY <1>3, <1>4, <1>5 DEF MainSteps

\* broadcast_user_update takes a user off the list, and nothing else of these.
LEMMA TellUserKeeps ==
    ASSUME WorkerInv, UNCHANGED <<front, back, balance, threadVars>>, todo' \subseteq todo
    PROVE  WorkerInv'
<1>1. CreditsOK'
  BY CreditsKept
<1>2. WorkerTypeOK' /\ StopOK'
  BY DEF WorkerInv, WorkerTypeOK, StopOK, threadVars
<1>. QED  BY <1>1, <1>2 DEF WorkerInv

\* The hand-over's part of the invariant is kept by every step.
LEMMA WorkerInvStep == WorkerInv /\ [SessionsNext]_allVars => WorkerInv'
<1>. SUFFICES ASSUME WorkerInv, [SessionsNext]_allVars  PROVE WorkerInv'
  OBVIOUS
<1>1. CASE UNCHANGED workerVars
  BY <1>1, TellUserKeeps DEF workerVars, queueVars
<1>2. CASE TellUser
  BY <1>2, TellUserKeeps DEF TellUser
<1>3. ASSUME SessionsNext, ~ UNCHANGED workerVars, ~ TellUser
      PROVE  \/ \E u \in Users : AppendTask(u)
             \/ EngineSteps \/ WorkerSteps \/ SpuriousWakeup \/ SetStop \/ MainSteps
  <2>1. CASE \E s \in Connections : Accept(s) \/ Serve(s) \/ Break(s)
    BY <1>3, <2>1 DEF Accept, Serve, RunPost, WriteDone, WriteFails, ReadFails, Break
  <2>2. CASE \E s \in Connections, u \in Users, announce \in BOOLEAN : Identify(s, u, announce)
    BY <1>3, <2>2 DEF Identify
  <2>3. CASE HandlerSteps \/ Broadcast
    BY <1>3, <2>3 DEF HandlerSteps, Assign, Fetch, Post, Broadcast
  <2>4. CASE WorkerRuns
    BY <1>3, <2>4 DEF WorkerRuns, Telling, Visit, FetchFor, PostFor, TellDone
  <2>. QED  BY <1>3, <2>1, <2>2, <2>3, <2>4 DEF SessionsNext, EngineRuns, StopIo, MainRuns
<1>4. UNCHANGED allVars => UNCHANGED workerVars
  BY DEF allVars
<1>. QED  BY <1>1, <1>2, <1>3, <1>4, AppendTaskKeeps, EngineKeeps, WorkerKeeps, MainKeeps

\* Before anything is appended.
LEMMA WorkerInvInit == WorkerInit => WorkerInv
<1>. SUFFICES ASSUME WorkerInit  PROVE WorkerInv
  OBVIOUS
<1>1. WorkerTypeOK /\ StopOK
  <2>1. <<>> \in Seq(Users) /\ {} \subseteq Users /\ [u \in Users |-> 0] \in [Users -> Nat]
    OBVIOUS
  <2>2. WorkerTypeOK
    BY <2>1 DEF WorkerInit, WorkerTypeOK
  <2>. QED  BY <2>2 DEF WorkerInit, StopOK
<1>2. CreditsOK
  <2>1. SumFunctionOnSet(balance, Users) = 0
    <3>1. PICK b : b = balance
      OBVIOUS
    <3>2. b \in [Users -> Nat] /\ \A u \in Users : b[u] = 0
      BY <3>1 DEF WorkerInit
    <3>. QED  BY <3>1, <3>2, SumZero, WorkerAssumption
  <2>2. Applied = 0
    BY <2>1 DEF Applied, SumFunction, WorkerInit
  <2>3. Len(front) = 0 /\ Len(back) = 0
    BY DEF WorkerInit
  <2>. QED  BY <2>2, <2>3, WorkerAssumption DEF CreditsOK
<1>. QED  BY <1>1, <1>2 DEF WorkerInv
\* DbWorker.OnlyLateTasksLost: when ~Server returns, no more tasks are left in
\* the vector than were appended after stop_worker_ was set.
THEOREM OnlyLateLost == SessionsSpec => []OnlyLateTasksLost
<1>1. SessionsInit => WorkerInv
  BY WorkerInvInit DEF SessionsInit
<1>2. WorkerInv /\ [SessionsNext]_allVars => WorkerInv'
  BY WorkerInvStep
<1>3. WorkerInv => OnlyLateTasksLost
  BY DEF WorkerInv, StopOK, OnlyLateTasksLost
<1>. QED  BY <1>1, <1>2, <1>3, PTL DEF SessionsSpec

-----------------------------------------------------------------------------
(* Handlers and sessions.                                                  *)

\* What a handler on the I/O thread knows.
LEMMA HandlerTypes ==
    ASSUME io \in Handlers
    PROVE  /\ io.at \in {"idle", "assign", "fetch", "post"}
           /\ io.at = "idle" <=> io = NoHandler
           /\ io.at # "idle" => io.session \in Connections
           /\ io.at = "assign" => io.user \in Users
           /\ io.at = "post" => io.msg \in Messages
  BY DEF Handlers, NoHandler

\* What broadcast_user_update knows.
LEMMA TellingTypes ==
    ASSUME tell \in Tellings
    PROVE  /\ tell.at \in {"idle", "visit", "fetch", "post"}
           /\ tell.at = "idle" <=> tell = NoTell
           /\ tell.at # "idle" => tell.user \in Users /\ tell.visit \subseteq Connections
           /\ tell.at \in {"fetch", "post"} => tell.session \in Connections
           /\ tell.at = "post" => tell.msg \in Messages
  BY DEF Tellings, NoTell

\* A profile is a message: a balance never exceeds the bound.
LEMMA ProfileIsMessage ==
    ASSUME WorkerInv, NEW u \in Users
    PROVE  Profile(u) \in Messages
  BY BalanceBounded DEF Profile, Messages

\* So is what is broadcast.
LEMMA OtherIsMessage == Other \in Messages
  BY WorkerAssumption DEF Other, Messages

\* What concerns the handler and the broadcast is kept by a step that leaves
\* both alone, the sessions logged in, and those that a handler runs for reading.
LEMMA ThreadsKept ==
    ASSUME SessionsInv, UNCHANGED <<io, tell>>,
           tell # NoTell => registry' = registry,
           \A t \in Connections :
              /\ session'[t].user = session[t].user
              /\ io # NoHandler => session'[t].reading = session[t].reading
    PROVE  io' \in Handlers /\ tell' \in Tellings /\ HandlerOK' /\ TellOK'
<1>1. io \in Handlers /\ tell \in Tellings /\ HandlerOK /\ TellOK
  BY DEF SessionsInv
<1>2. io' \in Handlers /\ tell' \in Tellings
  BY <1>1
<1>3. HandlerOK'
  BY <1>1, HandlerTypes DEF HandlerOK
<1>4. TellOK'
  BY <1>1, TellingTypes DEF TellOK
<1>. QED  BY <1>2, <1>3, <1>4

\* A step that writes one session keeps what is known of the others.
LEMMA OthersKept ==
    ASSUME SessionsInv, NEW s \in Connections, NEW row \in SessionStates,
           session' = [session EXCEPT ![s] = row], main' = main,
           \A t \in Connections \ {s} : t \in registry' => t \in registry,
           SessionOK(s)'
    PROVE  /\ session' \in [Connections -> SessionStates]
           /\ \A t \in Connections : SessionOK(t)'
<1>1. session \in [Connections -> SessionStates] /\ \A t \in Connections : SessionOK(t)
  BY DEF SessionsInv
<1>2. session' \in [Connections -> SessionStates]
  BY <1>1
<1>3. ASSUME NEW t \in Connections \ {s}  PROVE SessionOK(t)'
  <2>1. session'[t] = session[t]
    BY <1>1
  <2>2. SessionOK(t)
    BY <1>1
  <2>. QED  BY <2>1, <2>2 DEF SessionOK
<1>. QED  BY <1>2, <1>3

\* send(), to a session that is read or whose connection broke.
LEMMA SendKeeps ==
    ASSUME SessionsInv, NEW s \in Connections, NEW msg \in Messages,
           session' = Sent(s, msg), UNCHANGED <<main, registry>>,
           main = "running" => session[s].reading \/ ~ session[s].alive
    PROVE  /\ session' \in [Connections -> SessionStates]
           /\ \A t \in Connections : /\ SessionOK(t)'
                                     /\ session'[t].user = session[t].user
                                     /\ session'[t].reading = session[t].reading
<1>1. session \in [Connections -> SessionStates] /\ \A t \in Connections : SessionOK(t)
  BY DEF SessionsInv
<1>2. CASE main # "running"
  BY <1>1, <1>2 DEF Sent, SessionOK
<1>3. CASE main = "running"
  <2>1. PICK row : row = [session[s] EXCEPT !.posted = Append(@, msg)]
    OBVIOUS
  <2>2. session[s] \in SessionStates /\ SessionOK(s)
    BY <1>1
  <2>3. /\ row \in SessionStates
        /\ row.user = session[s].user /\ row.reading = session[s].reading
        /\ row.alive = session[s].alive /\ row.writes = session[s].writes
        /\ row.write_queue = session[s].write_queue
    <3>1. session[s].posted \in Seq(Messages)
      BY <2>2 DEF SessionStates
    <3>2. Append(session[s].posted, msg) \in Seq(Messages)
      BY <3>1, AppendProperties
    <3>. QED  BY <2>1, <2>2, <3>2 DEF SessionStates
  <2>4. session' = [session EXCEPT ![s] = row]
    BY <1>3, <2>1 DEF Sent
  <2>5. session'[s] = row /\ \A t \in Connections \ {s} : session'[t] = session[t]
    BY <1>1, <2>4
  <2>6. SessionOK(s)'
    BY <1>3, <2>2, <2>3, <2>5 DEF SessionOK
  <2>7. session' \in [Connections -> SessionStates] /\ \A t \in Connections : SessionOK(t)'
    BY <2>3, <2>4, <2>6, OthersKept
  <2>. QED  BY <2>3, <2>5, <2>7
<1>. QED  BY <1>2, <1>3
-----------------------------------------------------------------------------
(* The steps of the I/O thread, for one session.                           *)

\* A connection is accepted: nothing has been queued for it.
LEMMA AcceptKeeps ==
    ASSUME SessionsInv, NEW s \in Connections, Accept(s)
    PROVE  SessionsInv'
<1>1. session \in [Connections -> SessionStates] /\ SessionOK(s)
  BY DEF SessionsInv
<1>2. PICK row : row = [session[s] EXCEPT !.reading = TRUE]
  OBVIOUS
<1>3. /\ row \in SessionStates /\ row.user = session[s].user /\ row.reading
      /\ row.writes = session[s].writes /\ row.write_queue = session[s].write_queue
  BY <1>1, <1>2 DEF SessionStates
<1>4. session' = [session EXCEPT ![s] = row] /\ main' = main
  BY <1>2 DEF Accept, workerVars, threadVars
<1>5. session'[s] = row /\ \A t \in Connections \ {s} : session'[t] = session[t]
  BY <1>1, <1>4
<1>6. SessionOK(s)'
  BY <1>1, <1>3, <1>5 DEF SessionOK, Accept
<1>7. session' \in [Connections -> SessionStates] /\ \A t \in Connections : SessionOK(t)'
  <2>1. \A t \in Connections \ {s} : t \in registry' => t \in registry
    BY DEF Accept
  <2>. QED  BY <1>3, <1>4, <1>6, <2>1, OthersKept
<1>8. io' \in Handlers /\ tell' \in Tellings /\ HandlerOK' /\ TellOK'
  <2>1. \A t \in Connections : session'[t].user = session[t].user
    BY <1>3, <1>5
  <2>. QED  BY <2>1, ThreadsKept DEF Accept, AtIo
<1>9. registry' \subseteq Connections
  BY DEF Accept, SessionsInv
<1>. QED  BY <1>7, <1>8, <1>9 DEF SessionsInv

\* A message moves to the write queue, and starts a write when it is the first.
LEMMA RunPostKeeps ==
    ASSUME SessionsInv, NEW s \in Connections, RunPost(s)
    PROVE  SessionsInv'
<1>1. session \in [Connections -> SessionStates] /\ SessionOK(s) /\ session[s] \in SessionStates
  BY DEF SessionsInv
<1>2. PICK waiting, queue, writes :
          /\ waiting = Tail(session[s].posted)
          /\ queue = Append(session[s].write_queue, Head(session[s].posted))
          /\ writes = IF session[s].write_queue = <<>> THEN session[s].writes + 1
                                                      ELSE session[s].writes
  OBVIOUS
<1>3. /\ Tail(session[s].posted) \in Seq(Messages)
      /\ Append(session[s].write_queue, Head(session[s].posted)) \in Seq(Messages)
      /\ Append(session[s].write_queue, Head(session[s].posted)) # <<>>
  <2>1. /\ session[s].posted \in Seq(Messages) /\ session[s].posted # <<>>
        /\ session[s].write_queue \in Seq(Messages)
    BY <1>1 DEF SessionStates, RunPost
  <2>2. Head(session[s].posted) \in Messages /\ Tail(session[s].posted) \in Seq(Messages)
    BY <2>1, HeadTailProperties
  <2>. QED  BY <2>1, <2>2, AppendProperties
<1>0. PICK row : row = [session[s] EXCEPT !.posted = waiting, !.write_queue = queue, !.writes = writes]
  OBVIOUS
<1>4. /\ row \in SessionStates /\ row.user = session[s].user
      /\ row.reading = session[s].reading /\ row.alive = session[s].alive
      /\ row.write_queue # <<>> /\ row.writes = writes
  <2>1. waiting \in Seq(Messages) /\ queue \in Seq(Messages) /\ queue # <<>>
    BY <1>2, <1>3
  <2>2. session[s].writes \in Nat
    BY <1>1 DEF SessionStates
  <2>3. writes \in Nat
    BY <1>2, <2>2
  <2>. QED  BY <1>0, <1>1, <2>1, <2>3 DEF SessionStates
<1>5. session' = [session EXCEPT ![s] = row] /\ main' = main /\ registry' = registry
  BY <1>0, <1>1, <1>2 DEF RunPost, workerVars, threadVars
<1>6. session'[s] = row /\ \A t \in Connections \ {s} : session'[t] = session[t]
  BY <1>1, <1>5
<1>7. /\ session[s].writes \in Nat
      /\ session[s].write_queue = <<>> => session[s].writes = 0
  BY <1>1 DEF SessionStates, SessionOK
<1>8. session[s].reading \/ ~ session[s].alive
  BY <1>1 DEF SessionOK, RunPost
<1>9. SessionOK(s)'
  <2>1. /\ writes > 0 => writes = 1
        /\ s \in registry => writes = 1
    BY <1>1, <1>2, <1>7 DEF SessionOK
  <2>. QED  BY <1>4, <1>5, <1>6, <1>8, <2>1 DEF SessionOK
<1>10. session' \in [Connections -> SessionStates] /\ \A t \in Connections : SessionOK(t)'
  BY <1>4, <1>5, <1>9, OthersKept
<1>11. io' \in Handlers /\ tell' \in Tellings /\ HandlerOK' /\ TellOK'
  <2>1. \A t \in Connections : session'[t].user = session[t].user
    BY <1>4, <1>6
  <2>. QED  BY <2>1, ThreadsKept DEF RunPost, AtIo
<1>. QED  BY <1>5, <1>10, <1>11 DEF SessionsInv

\* A write completes: another is outstanding exactly while the queue has more.
LEMMA WriteDoneKeeps ==
    ASSUME SessionsInv, NEW s \in Connections, WriteDone(s)
    PROVE  SessionsInv'
<1>1. session \in [Connections -> SessionStates] /\ SessionOK(s) /\ session[s] \in SessionStates
  BY DEF SessionsInv
<1>2. PICK waiting, queue, writes :
          /\ waiting = session[s].posted
          /\ queue = Tail(session[s].write_queue)
          /\ writes = IF Len(session[s].write_queue) = 1 THEN session[s].writes - 1
                                                         ELSE session[s].writes
  OBVIOUS
<1>0. PICK row : row = [session[s] EXCEPT !.posted = waiting, !.write_queue = queue, !.writes = writes]
  OBVIOUS
<1>3. session[s].writes = 1 /\ session[s].write_queue # <<>> /\ session[s].write_queue \in Seq(Messages)
  BY <1>1 DEF SessionOK, WriteDone, SessionStates
<1>4. queue \in Seq(Messages) /\ writes = IF queue = <<>> THEN 0 ELSE 1
  <2>1. PICK old : old = session[s].write_queue
    OBVIOUS
  <2>2. old \in Seq(Messages) /\ old # <<>> /\ Len(old) \in Nat \ {0}
    BY <1>3, <2>1, EmptySeq
  <2>3. Tail(old) \in Seq(Messages) /\ Len(Tail(old)) = Len(old) - 1
    BY <2>2
  <2>4. Tail(old) = <<>> <=> Len(Tail(old)) = 0
    BY <2>3, EmptySeq
  <2>5. Tail(old) = <<>> <=> Len(old) = 1
    BY <2>2, <2>3, <2>4
  <2>. QED  BY <1>2, <1>3, <2>1, <2>3, <2>5
<1>5. /\ row \in SessionStates /\ row.user = session[s].user
      /\ row.reading = session[s].reading /\ row.alive = session[s].alive
      /\ row.write_queue = queue /\ row.writes = writes
  <2>1. waiting \in Seq(Messages) /\ writes \in Nat
    BY <1>1, <1>2, <1>4 DEF SessionStates
  <2>. QED  BY <1>0, <1>1, <1>4, <2>1 DEF SessionStates
<1>6. session' = [session EXCEPT ![s] = row] /\ main' = main /\ registry' = registry
  <2>1. row = [session[s] EXCEPT !.write_queue = queue, !.writes = writes]
    BY <1>0, <1>1, <1>2 DEF SessionStates
  <2>. QED  BY <1>2, <2>1 DEF WriteDone, workerVars, threadVars
<1>7. session'[s] = row /\ \A t \in Connections \ {s} : session'[t] = session[t]
  BY <1>1, <1>6
<1>8. session[s].reading /\ session[s].alive
  BY <1>1, <1>3 DEF SessionOK, WriteDone
<1>9. SessionOK(s)'
  <2>1. /\ row.writes > 0 => row.writes = 1 /\ row.write_queue # <<>>
        /\ row.write_queue # <<>> => row.writes = 1
    BY <1>4, <1>5
  <2>. QED  BY <1>5, <1>7, <1>8, <2>1 DEF SessionOK
<1>10. session' \in [Connections -> SessionStates] /\ \A t \in Connections : SessionOK(t)'
  BY <1>5, <1>6, <1>9, OthersKept
<1>11. io' \in Handlers /\ tell' \in Tellings /\ HandlerOK' /\ TellOK'
  <2>1. \A t \in Connections : session'[t].user = session[t].user
    BY <1>5, <1>7
  <2>. QED  BY <2>1, ThreadsKept DEF WriteDone, AtIo
<1>. QED  BY <1>6, <1>10, <1>11 DEF SessionsInv

\* A write fails: the queue is stuck, and the session out of the registry.
LEMMA WriteFailsKeeps ==
    ASSUME SessionsInv, NEW s \in Connections, WriteFails(s)
    PROVE  SessionsInv'
<1>1. session \in [Connections -> SessionStates] /\ SessionOK(s) /\ session[s] \in SessionStates
  BY DEF SessionsInv
<1>2. session[s].writes - 1 = 0
  <2>1. session[s].writes = 1
    BY <1>1 DEF SessionOK, WriteFails
  <2>. QED  BY <2>1
<1>3. PICK row : row = [session[s] EXCEPT !.writes = 0]
  OBVIOUS
<1>4. /\ row \in SessionStates /\ row.user = session[s].user /\ row.writes = 0
      /\ row.alive = session[s].alive
  BY <1>1, <1>3 DEF SessionStates
<1>5. session' = [session EXCEPT ![s] = row] /\ main' = main /\ registry' = registry \ {s}
  BY <1>1, <1>2, <1>3 DEF WriteFails, workerVars, threadVars
<1>6. session'[s] = row /\ \A t \in Connections \ {s} : session'[t] = session[t]
  BY <1>1, <1>5
<1>7. SessionOK(s)'
  <2>1. ~ row.alive /\ ~ (row.writes > 0) /\ s \notin registry'
    BY <1>4, <1>5 DEF WriteFails
  <2>. QED  BY <1>6, <2>1 DEF SessionOK
<1>8. session' \in [Connections -> SessionStates] /\ \A t \in Connections : SessionOK(t)'
  <2>1. \A t \in Connections \ {s} : t \in registry' => t \in registry
    BY <1>5
  <2>. QED  BY <1>4, <1>5, <1>7, <2>1, OthersKept
<1>9. io' \in Handlers /\ tell' \in Tellings /\ HandlerOK' /\ TellOK'
  <2>1. \A t \in Connections : session'[t].user = session[t].user
    BY <1>4, <1>6
  <2>. QED  BY <2>1, ThreadsKept DEF WriteFails, AtIo
<1>. QED  BY <1>5, <1>8, <1>9 DEF SessionsInv

\* A read fails, of a connection that broke.
LEMMA ReadFailsKeeps ==
    ASSUME SessionsInv, NEW s \in Connections, ReadFails(s)
    PROVE  SessionsInv'
<1>1. session \in [Connections -> SessionStates] /\ SessionOK(s) /\ session[s] \in SessionStates
  BY DEF SessionsInv
<1>2. PICK row : row = [session[s] EXCEPT !.reading = FALSE]
  OBVIOUS
<1>3. /\ row \in SessionStates /\ row.user = session[s].user
      /\ row.writes = session[s].writes /\ row.write_queue = session[s].write_queue
      /\ row.alive = session[s].alive
  BY <1>1, <1>2 DEF SessionStates
<1>4. session' = [session EXCEPT ![s] = row] /\ main' = main /\ registry' \subseteq registry
  BY <1>1, <1>2 DEF ReadFails, workerVars, threadVars
<1>5. session'[s] = row /\ \A t \in Connections \ {s} : session'[t] = session[t]
  BY <1>1, <1>4
<1>6. SessionOK(s)'
  BY <1>1, <1>3, <1>4, <1>5 DEF SessionOK, ReadFails
<1>7. session' \in [Connections -> SessionStates] /\ \A t \in Connections : SessionOK(t)'
  <2>1. \A t \in Connections \ {s} : t \in registry' => t \in registry
    BY <1>4
  <2>. QED  BY <1>3, <1>4, <1>6, <2>1, OthersKept
<1>8. io' \in Handlers /\ tell' \in Tellings /\ HandlerOK' /\ TellOK'
  <2>1. \A t \in Connections : session'[t].user = session[t].user
    BY <1>3, <1>5
  <2>. QED  BY <2>1, ThreadsKept DEF ReadFails, AtIo
<1>. QED  BY <1>4, <1>7, <1>8 DEF SessionsInv

\* The connection breaks, whatever runs.
LEMMA BreakKeeps ==
    ASSUME SessionsInv, NEW s \in Connections, Break(s)
    PROVE  SessionsInv'
<1>1. session \in [Connections -> SessionStates] /\ SessionOK(s) /\ session[s] \in SessionStates
  BY DEF SessionsInv
<1>2. PICK row : row = [session[s] EXCEPT !.alive = FALSE]
  OBVIOUS
<1>3. /\ row \in SessionStates /\ row.user = session[s].user /\ row.reading = session[s].reading
      /\ row.writes = session[s].writes /\ row.write_queue = session[s].write_queue
      /\ ~ row.alive
  BY <1>1, <1>2 DEF SessionStates
<1>4. session' = [session EXCEPT ![s] = row] /\ main' = main /\ registry' = registry
  BY <1>1, <1>2 DEF Break, workerVars, threadVars
<1>5. session'[s] = row /\ \A t \in Connections \ {s} : session'[t] = session[t]
  BY <1>1, <1>4
<1>6. SessionOK(s)'
  BY <1>1, <1>3, <1>4, <1>5 DEF SessionOK
<1>7. session' \in [Connections -> SessionStates] /\ \A t \in Connections : SessionOK(t)'
  BY <1>3, <1>4, <1>6, OthersKept
<1>8. io' \in Handlers /\ tell' \in Tellings /\ HandlerOK' /\ TellOK'
  <2>1. \A t \in Connections : /\ session'[t].user = session[t].user
                               /\ session'[t].reading = session[t].reading
    BY <1>3, <1>5
  <2>. QED  BY <1>4, <2>1, ThreadsKept DEF Break
<1>. QED  BY <1>4, <1>7, <1>8 DEF SessionsInv
-----------------------------------------------------------------------------
(* Handlers, broadcasts and the end.                                       *)

\* A message identifies its sender.
LEMMA IdentifyKeeps ==
    ASSUME SessionsInv, NEW s \in Connections, NEW u \in Users, NEW announce \in BOOLEAN,
           Identify(s, u, announce)
    PROVE  SessionsInv'
<1>1. UNCHANGED <<registry, session, tell, main>>
  BY DEF Identify, workerVars, threadVars
<1>2. \A t \in Connections : SessionOK(t)'
  BY <1>1 DEF SessionsInv, SessionOK
<1>3. TellOK'
  BY <1>1 DEF SessionsInv, TellOK
<1>4. io' \in Handlers
  BY DEF Identify, Handlers
<1>5. HandlerOK'
  BY <1>1 DEF Identify, HandlerOK
<1>. QED  BY <1>1, <1>2, <1>3, <1>4, <1>5 DEF SessionsInv

\* It is written to the session: whoever is being told about is logged in still.
LEMMA AssignKeeps ==
    ASSUME SessionsInv, Assign
    PROVE  SessionsInv'
<1>1. /\ io \in Handlers /\ io.at = "assign" /\ io.session \in Connections /\ io.user \in Users
      /\ session[io.session].reading
  BY HandlerTypes DEF SessionsInv, Assign, HandlerOK
<1>2. PICK s, u : s = io.session /\ u = io.user
  OBVIOUS
<1>3. s \in Connections /\ u \in Users /\ session[s].reading
  BY <1>1, <1>2
<1>4. session \in [Connections -> SessionStates] /\ SessionOK(s) /\ session[s] \in SessionStates
  BY <1>3 DEF SessionsInv
<1>5. PICK row : row = [session[s] EXCEPT !.user = u]
  OBVIOUS
<1>6. /\ row \in SessionStates /\ row.user = u /\ row.reading = session[s].reading
      /\ row.posted = session[s].posted /\ row.write_queue = session[s].write_queue
      /\ row.writes = session[s].writes /\ row.alive = session[s].alive
  BY <1>3, <1>4, <1>5 DEF SessionStates
<1>7. session' = [session EXCEPT ![s] = row] /\ UNCHANGED <<main, registry, tell>>
  BY <1>2, <1>4, <1>5 DEF Assign, workerVars, threadVars
<1>8. session'[s] = row /\ \A t \in Connections \ {s} : session'[t] = session[t]
  BY <1>3, <1>4, <1>7
<1>9. SessionOK(s)'
  BY <1>4, <1>6, <1>7, <1>8 DEF SessionOK
<1>10. session' \in [Connections -> SessionStates] /\ \A t \in Connections : SessionOK(t)'
  BY <1>3, <1>6, <1>7, <1>9, OthersKept
<1>11. io' = NoHandler \/ io' = [at |-> "fetch", session |-> s]
  BY <1>2 DEF Assign
<1>12. io' \in Handlers
  BY <1>3, <1>11 DEF Handlers
<1>13. HandlerOK'
  <2>1. CASE io' = NoHandler
    BY <2>1 DEF HandlerOK, NoHandler
  <2>2. CASE io' = [at |-> "fetch", session |-> s]
    <3>1. io'.session = s /\ session'[s].user \in Users /\ session'[s].reading
      BY <1>3, <1>6, <1>8, <2>2
    <3>. QED  BY <3>1 DEF HandlerOK
  <2>. QED  BY <1>11, <2>1, <2>2
<1>14. TellOK'
  <2>1. tell \in Tellings /\ TellOK
    BY DEF SessionsInv
  <2>2. ASSUME tell.at = "fetch"  PROVE session'[tell.session].user \in Users
    <3>1. tell.session \in Connections /\ session[tell.session].user \in Users
      BY <2>1, <2>2, TellingTypes DEF TellOK
    <3>. QED  BY <1>3, <1>6, <1>8, <3>1
  <2>. QED  BY <1>7, <2>1, <2>2 DEF TellOK
<1>. QED  BY <1>7, <1>10, <1>12, <1>13, <1>14 DEF SessionsInv

\* The profile is read, ...
LEMMA FetchKeeps ==
    ASSUME WorkerInv, SessionsInv, Fetch
    PROVE  SessionsInv'
<1>1. /\ io.session \in Connections /\ session[io.session].user \in Users
      /\ session[io.session].reading
  BY HandlerTypes DEF SessionsInv, Fetch, HandlerOK
<1>2. Profile(session[io.session].user) \in Messages
  BY <1>1, ProfileIsMessage
<1>3. UNCHANGED <<registry, session, tell, main>>
  BY DEF Fetch, workerVars, threadVars
<1>4. \A t \in Connections : SessionOK(t)'
  BY <1>3 DEF SessionsInv, SessionOK
<1>5. TellOK'
  BY <1>3 DEF SessionsInv, TellOK
<1>6. io' \in Handlers
  BY <1>1, <1>2 DEF Fetch, Handlers
<1>7. HandlerOK'
  BY <1>1, <1>3 DEF Fetch, HandlerOK
<1>. QED  BY <1>3, <1>4, <1>5, <1>6, <1>7 DEF SessionsInv

\* ... and sent.
LEMMA PostKeeps ==
    ASSUME SessionsInv, Post
    PROVE  SessionsInv'
<1>1. PICK s, msg : s = io.session /\ msg = io.msg
  OBVIOUS
<1>2. s \in Connections /\ msg \in Messages /\ session[s].reading
  BY <1>1, HandlerTypes DEF SessionsInv, Post, HandlerOK
<1>3. session' = Sent(s, msg) /\ UNCHANGED <<main, registry, tell>> /\ io' = NoHandler
  BY <1>1 DEF Post, workerVars, threadVars
<1>4. /\ session' \in [Connections -> SessionStates]
      /\ \A t \in Connections : SessionOK(t)' /\ session'[t].user = session[t].user
  BY <1>2, <1>3, SendKeeps
<1>5. io' \in Handlers /\ HandlerOK'
  BY <1>3 DEF Handlers, HandlerOK, NoHandler
<1>6. TellOK'
  BY <1>3, <1>4, TellingTypes DEF SessionsInv, TellOK
<1>. QED  BY <1>3, <1>4, <1>5, <1>6 DEF SessionsInv

\* broadcast: a message is sent to every registered session.
LEMMA BroadcastKeeps ==
    ASSUME SessionsInv, Broadcast
    PROVE  SessionsInv'
<1>1. main = "running" /\ UNCHANGED <<main, registry, io, tell>>
  BY DEF Broadcast, workerVars, threadVars
<1>2. session \in [Connections -> SessionStates] /\ \A t \in Connections : SessionOK(t)
  BY DEF SessionsInv
<1>3. session' = [t \in Connections |->
          IF t \in registry THEN [session[t] EXCEPT !.posted = Append(@, Other)] ELSE session[t]]
  BY <1>1, <1>2 DEF Broadcast, Sent
<1>4. ASSUME NEW t \in Connections
      PROVE  /\ session'[t] \in SessionStates /\ SessionOK(t)'
             /\ session'[t].user = session[t].user /\ session'[t].reading = session[t].reading
  <2>1. session[t] \in SessionStates /\ SessionOK(t)
    BY <1>2
  <2>2. CASE t \notin registry
    <3>1. session'[t] = session[t]
      BY <1>3, <2>2
    <3>. QED  BY <1>1, <2>1, <3>1 DEF SessionOK
  <2>3. CASE t \in registry
    <3>1. PICK row : row = [session[t] EXCEPT !.posted = Append(@, Other)]
      OBVIOUS
    <3>2. Append(session[t].posted, Other) \in Seq(Messages)
      <4>1. session[t].posted \in Seq(Messages)
        BY <2>1 DEF SessionStates
      <4>. QED  BY <4>1, OtherIsMessage, AppendProperties
    <3>3. /\ row \in SessionStates /\ row.user = session[t].user
          /\ row.reading = session[t].reading /\ row.alive = session[t].alive
          /\ row.writes = session[t].writes /\ row.write_queue = session[t].write_queue
      BY <2>1, <3>1, <3>2 DEF SessionStates
    <3>4. session'[t] = row
      BY <1>3, <2>3, <3>1
    <3>5. session[t].reading \/ ~ session[t].alive
      BY <1>1, <2>1, <2>3 DEF SessionOK
    <3>. QED  BY <1>1, <2>1, <3>3, <3>4, <3>5 DEF SessionOK
  <2>. QED  BY <2>2, <2>3
<1>5. session' \in [Connections -> SessionStates]
  <2>1. session' = [t \in Connections |-> session'[t]]
    BY <1>3
  <2>. QED  BY <1>4, <2>1
<1>6. io' \in Handlers /\ tell' \in Tellings /\ HandlerOK' /\ TellOK'
  BY <1>1, <1>4, ThreadsKept
<1>. QED  BY <1>1, <1>4, <1>5, <1>6 DEF SessionsInv

\* broadcast_user_update looks at the sessions ...
LEMMA VisitKeeps ==
    ASSUME WorkerInv, SessionsInv, TellUser \/ Visit \/ FetchFor \/ TellDone
    PROVE  SessionsInv'
<1>1. UNCHANGED <<registry, session, io, main>>
  BY DEF TellUser, Visit, FetchFor, TellDone, workerVars, threadVars
<1>2. \A t \in Connections : SessionOK(t)'
  BY <1>1 DEF SessionsInv, SessionOK
<1>3. HandlerOK'
  BY <1>1 DEF SessionsInv, HandlerOK
<1>4. tell \in Tellings /\ TellOK /\ registry \subseteq Connections
  BY DEF SessionsInv
<1>5. CASE TellUser
  <2>1. PICK u \in todo : tell' = [at |-> "visit", user |-> u, visit |-> registry]
    BY <1>5 DEF TellUser
  <2>2. u \in Users
    BY DEF WorkerInv, WorkerTypeOK
  <2>3. tell' \in Tellings
    BY <1>4, <2>1, <2>2 DEF Tellings
  <2>4. TellOK'
    BY <1>1, <2>1 DEF TellOK
  <2>. QED  BY <1>1, <1>2, <1>3, <2>3, <2>4 DEF SessionsInv
<1>6. CASE Visit
  <2>1. PICK s \in tell.visit :
          tell' = IF session[s].user = tell.user
                  THEN [at |-> "fetch", user |-> tell.user, session |-> s,
                        visit |-> tell.visit \ {s}]
                  ELSE [tell EXCEPT !.visit = @ \ {s}]
    BY <1>6 DEF Visit
  <2>2. tell.at = "visit" /\ tell.user \in Users /\ tell.visit \subseteq registry /\ s \in registry
    BY <1>4, <1>6, TellingTypes DEF Visit, TellOK
  <2>3. tell \in [at : {"visit"}, user : Users, visit : SUBSET Connections]
    BY <1>4, <2>2 DEF Tellings, NoTell
  <2>4. tell.visit \ {s} \in SUBSET Connections /\ s \in Connections
    BY <1>4, <2>2
  <2>5. CASE session[s].user = tell.user
    <3>1. tell' = [at |-> "fetch", user |-> tell.user, session |-> s, visit |-> tell.visit \ {s}]
      BY <2>1, <2>5
    <3>2. tell' \in Tellings
      BY <2>2, <2>4, <3>1 DEF Tellings
    <3>3. TellOK'
      BY <1>1, <2>2, <2>5, <3>1 DEF TellOK
    <3>. QED  BY <1>1, <1>2, <1>3, <3>2, <3>3 DEF SessionsInv
  <2>6. CASE session[s].user # tell.user
    <3>1. tell' = [tell EXCEPT !.visit = @ \ {s}]
      BY <2>1, <2>6
    <3>2. /\ tell' \in [at : {"visit"}, user : Users, visit : SUBSET Connections]
          /\ tell'.at = "visit" /\ tell'.visit = tell.visit \ {s}
      BY <2>3, <2>4, <3>1
    <3>3. tell' \in Tellings
      BY <3>2 DEF Tellings
    <3>4. TellOK'
      BY <1>1, <2>2, <3>2 DEF TellOK
    <3>. QED  BY <1>1, <1>2, <1>3, <3>3, <3>4 DEF SessionsInv
  <2>. QED  BY <2>5, <2>6
<1>7. CASE FetchFor
  <2>1. /\ tell.user \in Users /\ tell.visit \subseteq registry /\ tell.session \in registry
        /\ session[tell.session].user \in Users
    BY <1>4, <1>7, TellingTypes DEF FetchFor, TellOK
  <2>2. Profile(session[tell.session].user) \in Messages
    BY <2>1, ProfileIsMessage
  <2>3. tell' \in Tellings
    BY <1>4, <1>7, <2>1, <2>2 DEF Tellings, FetchFor
  <2>4. TellOK'
    BY <1>1, <1>7, <2>1 DEF TellOK, FetchFor
  <2>. QED  BY <1>1, <1>2, <1>3, <2>3, <2>4 DEF SessionsInv
<1>8. CASE TellDone
  <2>1. tell' \in Tellings /\ TellOK'
    BY <1>8 DEF TellDone, Tellings, TellOK, NoTell
  <2>. QED  BY <1>1, <1>2, <1>3, <2>1 DEF SessionsInv
<1>. QED  BY <1>5, <1>6, <1>7, <1>8

\* ... and sends to those that are registered.
LEMMA PostForKeeps ==
    ASSUME SessionsInv, PostFor
    PROVE  SessionsInv'
<1>1. PICK s, msg : s = tell.session /\ msg = tell.msg
  OBVIOUS
<1>2. /\ tell \in Tellings /\ TellOK /\ registry \subseteq Connections
      /\ io \in Handlers /\ HandlerOK
  BY DEF SessionsInv
<1>3. /\ s \in registry /\ s \in Connections /\ msg \in Messages
      /\ tell.user \in Users /\ tell.visit \subseteq registry
  BY <1>1, <1>2, TellingTypes DEF PostFor, TellOK
<1>4. session' = Sent(s, msg) /\ UNCHANGED <<main, registry, io>>
  BY <1>1 DEF PostFor, workerVars, threadVars
<1>5. main = "running" => session[s].reading \/ ~ session[s].alive
  BY <1>3 DEF SessionsInv, SessionOK
<1>6. /\ session' \in [Connections -> SessionStates]
      /\ \A t \in Connections : /\ SessionOK(t)' /\ session'[t].user = session[t].user
                                /\ session'[t].reading = session[t].reading
  BY <1>3, <1>4, <1>5, SendKeeps
<1>7. HandlerOK'
  BY <1>2, <1>4, <1>6, HandlerTypes DEF HandlerOK
<1>8. tell' \in Tellings /\ TellOK'
  BY <1>2, <1>3, <1>4 DEF PostFor, Tellings, TellOK
<1>. QED  BY <1>2, <1>4, <1>6, <1>7, <1>8 DEF SessionsInv

\* ~Server begins: what was outstanding never completes.
LEMMA StopIoKeeps ==
    ASSUME SessionsInv, StopIo
    PROVE  SessionsInv'
<1>1. /\ main' # "running" /\ UNCHANGED <<registry, io, tell>> /\ io = NoHandler
      /\ session' = [s \in Connections |-> Quiet(session[s].user)]
  BY DEF StopIo, SetStop
<1>2. session \in [Connections -> SessionStates]
  BY DEF SessionsInv
<1>3. ASSUME NEW t \in Connections
      PROVE  session'[t] \in SessionStates /\ SessionOK(t)' /\ session'[t].user = session[t].user
  <2>1. session[t].user \in Users \union {Nobody}
    BY <1>2 DEF SessionStates
  <2>2. session'[t] = Quiet(session[t].user)
    BY <1>1
  <2>3. <<>> \in Seq(Messages) /\ 0 \in Nat /\ ~ (0 > 0)
    OBVIOUS
  <2>4. session'[t] \in SessionStates
    BY <2>1, <2>2, <2>3 DEF SessionStates, Quiet
  <2>. QED  BY <1>1, <2>2, <2>3, <2>4 DEF SessionOK, Quiet
<1>4. session' \in [Connections -> SessionStates]
  <2>1. session' = [t \in Connections |-> session'[t]]
    BY <1>1
  <2>. QED  BY <1>3, <2>1
<1>5. io' \in Handlers /\ tell' \in Tellings /\ HandlerOK' /\ TellOK'
  BY <1>1, <1>3, ThreadsKept
<1>. QED  BY <1>1, <1>3, <1>4, <1>5 DEF SessionsInv

\* Steps of the other threads that touch no session.
LEMMA BesideKeeps ==
    ASSUME SessionsInv, Beside, main' = "running" => main = "running"
    PROVE  SessionsInv'
<1>1. UNCHANGED <<registry, session, io, tell>>
  BY DEF Beside, sessionVars
<1>2. \A t \in Connections : SessionOK(t)'
  BY <1>1 DEF SessionsInv, SessionOK
<1>3. HandlerOK' /\ TellOK'
  BY <1>1 DEF SessionsInv, HandlerOK, TellOK
<1>. QED  BY <1>1, <1>2, <1>3 DEF SessionsInv
-----------------------------------------------------------------------------
(* The invariant, and what follows from it.                                *)

\* The sessions' part of the invariant is kept by every step.
LEMMA SessionsInvStep ==
    WorkerInv /\ SessionsInv /\ [SessionsNext]_allVars => SessionsInv'
<1>. SUFFICES ASSUME WorkerInv, SessionsInv, [SessionsNext]_allVars  PROVE SessionsInv'
  OBVIOUS
<1>1. CASE UNCHANGED allVars
  <2>1. Beside /\ main' = main
    BY <1>1 DEF allVars, Beside, workerVars, threadVars
  <2>. QED  BY <2>1, BesideKeeps
<1>2. ASSUME NEW s \in Connections, Accept(s) \/ Serve(s) \/ Break(s)  PROVE SessionsInv'
  BY <1>2, AcceptKeeps, RunPostKeeps, WriteDoneKeeps, WriteFailsKeeps, ReadFailsKeeps, BreakKeeps
     DEF Serve
<1>3. ASSUME NEW s \in Connections, NEW u \in Users, NEW announce \in BOOLEAN,
             Identify(s, u, announce)
      PROVE  SessionsInv'
  BY <1>3, IdentifyKeeps
<1>4. CASE HandlerSteps
  BY <1>4, AssignKeeps, FetchKeeps, PostKeeps DEF HandlerSteps
<1>5. CASE Broadcast
  BY <1>5, BroadcastKeeps
<1>6. CASE Telling
  BY <1>6, VisitKeeps, PostForKeeps DEF Telling
<1>7. CASE StopIo
  BY <1>7, StopIoKeeps
<1>8. ASSUME Beside,
             \/ \E u \in Users : AppendTask(u)
             \/ EngineSteps \/ WorkerSteps \/ SpuriousWakeup \/ MainSteps
      PROVE  SessionsInv'
  <2>1. main' = "running" => main = "running"
    BY <1>8 DEF AppendTask, EngineSteps, Notify, EngineLeaves, WorkerSteps, Test, Sleep,
                CommitBatch, BatchDone, SpuriousWakeup, MainSteps, NotifyAll, JoinEngine, JoinWorker
  <2>. QED  BY <1>8, <2>1, BesideKeeps
<1>. QED  BY <1>1, <1>2, <1>3, <1>4, <1>5, <1>6, <1>7, <1>8
          DEF SessionsNext, EngineRuns, WorkerRuns, MainRuns

\* No session is open at first.
LEMMA SessionsInvInit == SessionsInit => SessionsInv
<1>. SUFFICES ASSUME SessionsInit  PROVE SessionsInv
  OBVIOUS
<1>1. <<>> \in Seq(Messages) /\ 0 \in Nat /\ ~ (0 > 0) /\ Nobody \in Users \union {Nobody}
  OBVIOUS
<1>2. Quiet(Nobody) \in SessionStates
  BY <1>1 DEF SessionStates, Quiet
<1>3. session = [s \in Connections |-> Quiet(Nobody)] /\ registry = {}
  BY DEF SessionsInit
<1>4. \A s \in Connections : SessionOK(s)
  BY <1>1, <1>3 DEF SessionOK, Quiet
<1>5. io \in Handlers /\ tell \in Tellings /\ HandlerOK /\ TellOK
  BY DEF SessionsInit, Handlers, Tellings, HandlerOK, TellOK, NoHandler, NoTell
<1>. QED  BY <1>2, <1>3, <1>4, <1>5 DEF SessionsInv

\* The inductive invariant of Sessions: the hand-over between the threads, and
\* what each session has outstanding.
THEOREM SessionsInvariant == SessionsSpec => [](WorkerInv /\ SessionsInv)
<1>1. SessionsInit => WorkerInv /\ SessionsInv
  BY WorkerInvInit, SessionsInvInit DEF SessionsInit
<1>2. WorkerInv /\ SessionsInv /\ [SessionsNext]_allVars => (WorkerInv /\ SessionsInv)'
  BY WorkerInvStep, SessionsInvStep
<1>. QED  BY <1>1, <1>2, PTL DEF SessionsSpec

\* Sessions.SessionsTypeOK: in particular no profile shows more credits than
\* tasks were appended, whichever thread read it, and when.
THEOREM SessionsTypeCorrect == SessionsSpec => []SessionsTypeOK
<1>1. ASSUME WorkerInv, SessionsInv  PROVE SessionsTypeOK
  <2>1. balance \in [Users -> 0 .. MaxCredits] /\ todo \subseteq Users
    <3>1. balance \in [Users -> Nat] /\ todo \subseteq Users
      BY <1>1 DEF WorkerInv, WorkerTypeOK
    <3>2. \A u \in Users : balance[u] \in 0 .. MaxCredits
      BY <1>1, BalanceBounded
    <3>. QED  BY <3>1, <3>2
  <2>2. registry \subseteq Connections
    BY <1>1 DEF SessionsInv
  <2>3. ASSUME NEW s \in Connections
        PROVE  /\ session[s].user \in Users \union {Nobody}
               /\ session[s].posted \o session[s].write_queue \in Seq(Messages)
    <3>1. /\ session[s].posted \in Seq(Messages) /\ session[s].write_queue \in Seq(Messages)
          /\ session[s].user \in Users \union {Nobody}
      BY <1>1 DEF SessionsInv, SessionStates
    <3>. QED  BY <3>1, ConcatProperties
  <2>4. ASSUME NEW all \in Seq(Messages), NEW i \in DOMAIN all  PROVE all[i] \in Messages
    OBVIOUS
  <2>5. \A s \in Connections :
          \A i \in DOMAIN (session[s].posted \o session[s].write_queue) :
             (session[s].posted \o session[s].write_queue)[i] \in Messages
    BY <2>3, <2>4
  <2>. QED  BY <2>1, <2>2, <2>3, <2>5 DEF SessionsTypeOK, Messages
<1>. QED  BY <1>1, SessionsInvariant, PTL

\* Sessions.OneWrite: a session never has two writes outstanding, and one while
\* it is registered and a message waits in its queue.
THEOREM WritesExclusive == SessionsSpec => []OneWrite
<1>1. SessionsInv => OneWrite
  <2>. SUFFICES ASSUME SessionsInv, NEW s \in Connections
                PROVE  /\ session[s].writes <= 1
                       /\ s \in registry /\ session[s].write_queue # <<>> => session[s].writes = 1
    BY DEF OneWrite
  <2>1. SessionOK(s) /\ session[s].writes \in Nat
    BY DEF SessionsInv, SessionStates
  <2>2. session[s].writes <= 1
    <3>1. session[s].writes > 0 => session[s].writes = 1
      BY <2>1 DEF SessionOK
    <3>. QED  BY <2>1, <3>1
  <2>. QED  BY <2>1, <2>2 DEF SessionOK
<1>. QED  BY <1>1, SessionsInvariant, PTL
=============================================================================

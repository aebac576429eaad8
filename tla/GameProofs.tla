----------------------------- MODULE GameProofs -----------------------------
(***************************************************************************)
(* The practice game, for any users, scenarios, prices, noise and number   *)
(* of deaths of the process.  GameInv types the state and says what the    *)
(* rest of an interrupted handler may rely on; every property of Game      *)
(* follows from it, one at a time.                                         *)
(***************************************************************************)
EXTENDS Game, SumTheorems, SequenceTheorems

-----------------------------------------------------------------------------
(* The inductive invariant.                                                *)

Row == [user : users, scenario : Scenarios, current_round : Nat, position : Int,
        cash : Int, hints : Nat, status : {"active", "ended"}]
Result == [verdict : {"BUY", "SELL", "PASS", "INVALID"}, price : Int]
Round == [number : Nat, result : Result]

\* What a row is worth when the position is marked to the true value.
Marked(row) == row.cash + row.position * TrueValue[row.scenario]
Granted(row) == epsilon * row.current_round - HintPenalty * row.hints

\* submit_quote was interrupted after append_game_round: the row it is about
\* to write is the session's row with the effect of the last round in the log.
Pending(s, row) ==
    LET old == sessions[s]
        last == rounds[s][Len(rounds[s])]
    IN  /\ old.status = "active" /\ row.status = "active"
        /\ row.user = old.user /\ row.scenario = old.scenario /\ row.hints = old.hints
        /\ row.current_round = old.current_round + 1
        /\ Len(rounds[s]) > 0 /\ last.number = row.current_round
        /\ row.position = old.position + PositionGain(last.result)
        /\ row.cash = old.cash + CashGain(last.result)
        /\ Marked(row) <= Marked(old) + epsilon

\* What is left of a handler.
CallOK ==
    \/ call = Idle
    \/ \E u \in users : call = Registering(u) /\ starter[u] < FullStarter
    \/ \E u \in users, category \in Categories :
          call = Creating(u, category) /\ Active(u) = {}
    \/ \E s \in DOMAIN sessions, row \in Row : call = Updating(s, row) /\ Pending(s, row)
    \/ \E s \in DOMAIN sessions : call = Ending(s) /\ sessions[s].status = "active"

GameInv ==
    /\ GameTypeOK
    /\ rounds \in Seq(Seq(Round))
    /\ epsilon \in Epsilons /\ crashes \in Nat /\ IsFiniteSet(users)
    /\ \A u \in Users \ users : starter[u] = 0
    /\ CallOK
    /\ \A s, t \in DOMAIN sessions :
          /\ sessions[s].status = "active" /\ sessions[t].status = "active"
          /\ sessions[s].user = sessions[t].user
          => s = t

\* A log holds the rounds 1 to n, or one more, and so many copies of them.
Numbers(log) == {log[i].number : i \in DOMAIN log}
Fits(n, log, copies) ==
    /\ Numbers(log) \in {1 .. n, 1 .. n + 1}
    /\ Len(log) <= n + copies

\* The log of each session: the round that is not counted yet is only in the
\* log of the session that a running submit_quote is about.
Extra(c, s) == IF c.op = "update" /\ c.session = s THEN 1 ELSE 0
LogInv ==
    \A s \in DOMAIN sessions :
        Fits(sessions[s].current_round, rounds[s], crashes + Extra(call, s))

\* A session that is not about to be ended has a round left, for each death.
RoundsLeft ==
    \A s \in DOMAIN sessions :
        sessions[s].current_round
            + (IF sessions[s].status = "active" /\ ~ (call.op = "end" /\ call.session = s)
               THEN 1 ELSE 0)
          <= MaxRounds + crashes

-----------------------------------------------------------------------------
(* The interviewer's answer.                                               *)

\* The gain by the interviewer's verdict.
LEMMA GainOf ==
    ASSUME NEW result
    PROVE  /\ result.verdict = "BUY" => PositionGain(result) = -1
           /\ result.verdict = "SELL" => PositionGain(result) = 1
           /\ result.verdict \notin {"BUY", "SELL"} => PositionGain(result) = 0
  BY Zenon DEF PositionGain

\* A round of the log is worth integers.
LEMMA GainsInt ==
    ASSUME NEW result \in Result
    PROVE  PositionGain(result) \in {-1, 0, 1} /\ CashGain(result) \in Int
<1>1. PositionGain(result) \in {-1, 0, 1}
  BY GainOf
<1>2. result.price \in Int
  BY DEF Result
<1>. QED  BY <1>1, <1>2 DEF CashGain

\* Whatever the noise and the coin, a fill moves the position by one and the
\* player gains at most epsilon by it at the true value.
LEMMA JudgeSound ==
    ASSUME NEW bid \in Int, NEW ask \in Int, NEW value \in Int, NEW eps \in Nat,
           NEW trade \in BOOLEAN, NEW result, result = JudgeQuote(bid, ask, value, eps, trade)
    PROVE  /\ result \in Result
           /\ CashGain(result) + PositionGain(result) * value <= eps
<1>1. \/ result = Invalid \/ result = Pass
      \/ result = Buy(ask) /\ ask - value <= eps
      \/ result = Sell(bid) /\ value - bid <= eps
  BY DEF JudgeQuote, Abs
<1>2. CASE result = Invalid \/ result = Pass
  <2>1. result \in Result /\ result.verdict \notin {"BUY", "SELL"} /\ result.price = 0
    BY <1>2 DEF Invalid, Pass, Result
  <2>. QED  BY <2>1, GainOf DEF CashGain
<1>3. CASE result = Buy(ask) /\ ask - value <= eps
  <2>1. result \in Result /\ result.verdict = "BUY" /\ result.price = ask
    BY <1>3 DEF Buy, Result
  <2>. QED  BY <1>3, <2>1, GainOf DEF CashGain
<1>4. CASE result = Sell(bid) /\ value - bid <= eps
  <2>1. result \in Result /\ result.verdict = "SELL" /\ result.price = bid
    BY <1>4 DEF Sell, Result
  <2>. QED  BY <1>4, <2>1, GainOf DEF CashGain
<1>. QED  BY <1>1, <1>2, <1>3, <1>4

-----------------------------------------------------------------------------
(* The tables as functions.                                                *)

\* Both tables have the same places, and what is in them is typed.
LEMMA Tables ==
    ASSUME GameInv
    PROVE  /\ Len(sessions) \in Nat /\ DOMAIN sessions = 1 .. Len(sessions)
           /\ sessions \in Seq(Row) /\ sessions \in [1 .. Len(sessions) -> Row]
           /\ Len(rounds) = Len(sessions) /\ DOMAIN rounds = DOMAIN sessions
           /\ rounds \in [1 .. Len(sessions) -> Seq(Round)]
<1>1. sessions \in Seq(Row) /\ rounds \in Seq(Seq(Round)) /\ DOMAIN rounds = DOMAIN sessions
  BY DEF GameInv, GameTypeOK, Row
<1>2. Len(sessions) \in Nat /\ DOMAIN sessions = 1 .. Len(sessions) /\ sessions \in [1 .. Len(sessions) -> Row]
  BY <1>1, LenProperties
<1>3. Len(rounds) \in Nat /\ DOMAIN rounds = 1 .. Len(rounds) /\ rounds \in [1 .. Len(rounds) -> Seq(Round)]
  BY <1>1, LenProperties
<1>4. Len(rounds) = Len(sessions)
  BY <1>1, <1>2, <1>3
<1>. QED  BY <1>1, <1>2, <1>3, <1>4

\* One element of a sequence is replaced.
LEMMA OneReplaced ==
    ASSUME NEW S, NEW q \in Seq(S), NEW i \in DOMAIN q, NEW e \in S,
           NEW r, r = [q EXCEPT ![i] = e]
    PROVE  /\ r \in Seq(S) /\ DOMAIN r = DOMAIN q
           /\ r[i] = e /\ \A j \in DOMAIN q \ {i} : r[j] = q[j]
<1>1. DOMAIN q = 1 .. Len(q)
  BY LenProperties
<1>. QED  BY <1>1, ExceptSeq

\* What the kind of call says about it.
LEMMA CallSays ==
    ASSUME GameInv
    PROVE  /\ call.op \in {"idle", "register", "create", "update", "end"}
           /\ call.op = "idle" => call = Idle
           /\ call.op = "register" => /\ call.user \in users /\ call = Registering(call.user)
                                      /\ starter[call.user] < FullStarter
           /\ \A u, category : call = Creating(u, category) =>
                 u \in users /\ category \in Categories /\ Active(u) = {}
           /\ call.op = "update" => /\ call.session \in DOMAIN sessions /\ call.row \in Row
                                    /\ call = Updating(call.session, call.row)
                                    /\ Pending(call.session, call.row)
           /\ call.op = "end" => /\ call.session \in DOMAIN sessions
                                 /\ sessions[call.session].status = "active"
<1>. USE DEF Idle, Registering, Creating, Updating, Ending
<1>1. CallOK
  BY DEF GameInv
<1>2. call.op \in {"idle", "register", "create", "update", "end"} /\ (call.op = "idle" => call = Idle)
  BY <1>1 DEF CallOK
<1>3. call.op = "register" => /\ call.user \in users /\ call = Registering(call.user)
                              /\ starter[call.user] < FullStarter
  BY <1>1 DEF CallOK
<1>4. ASSUME NEW u, NEW category, call = Creating(u, category)
      PROVE  u \in users /\ category \in Categories /\ Active(u) = {}
  <2>1. PICK v \in users, d \in Categories : call = Creating(v, d) /\ Active(v) = {}
    BY <1>1, <1>4 DEF CallOK
  <2>2. u = v /\ category = d
    BY <1>4, <2>1
  <2>. QED  BY <2>1, <2>2
<1>5. call.op = "update" => /\ call.session \in DOMAIN sessions /\ call.row \in Row
                            /\ call = Updating(call.session, call.row)
                            /\ Pending(call.session, call.row)
  BY <1>1 DEF CallOK
<1>6. call.op = "end" => /\ call.session \in DOMAIN sessions
                         /\ sessions[call.session].status = "active"
  BY <1>1 DEF CallOK
<1>. QED  BY <1>2, <1>3, <1>4, <1>5, <1>6

\* A session's row is written.
LEMMA RowWritten ==
    ASSUME GameInv, NEW s \in DOMAIN sessions, NEW row \in Row,
           sessions' = [sessions EXCEPT ![s] = row]
    PROVE  /\ sessions' \in Seq(Row) /\ DOMAIN sessions' = DOMAIN sessions
           /\ sessions'[s] = row
           /\ \A t \in DOMAIN sessions \ {s} : sessions'[t] = sessions[t]
<1>1. sessions \in Seq(Row) /\ s \in 1 .. Len(sessions) /\ DOMAIN sessions = 1 .. Len(sessions)
  BY Tables
<1>. QED  BY <1>1, ExceptSeq

\* A session is added.
LEMMA RowAdded ==
    ASSUME GameInv, NEW row \in Row,
           sessions' = Append(sessions, row), rounds' = Append(rounds, <<>>)
    PROVE  /\ sessions' \in Seq(Row) /\ rounds' \in Seq(Seq(Round))
           /\ DOMAIN sessions' = DOMAIN sessions \union {Len(sessions) + 1}
           /\ DOMAIN rounds' = DOMAIN sessions'
           /\ Len(sessions) + 1 \notin DOMAIN sessions
           /\ sessions'[Len(sessions) + 1] = row /\ rounds'[Len(sessions) + 1] = <<>>
           /\ \A s \in DOMAIN sessions : sessions'[s] = sessions[s] /\ rounds'[s] = rounds[s]
<1>1. sessions \in Seq(Row) /\ rounds \in Seq(Seq(Round)) /\ <<>> \in Seq(Round)
  BY Tables, EmptySeq DEF GameInv
<1>2. /\ sessions' \in Seq(Row) /\ Len(sessions') = Len(sessions) + 1
      /\ \A i \in 1 .. Len(sessions) : sessions'[i] = sessions[i]
      /\ sessions'[Len(sessions) + 1] = row
  BY <1>1, AppendProperties
<1>3. /\ rounds' \in Seq(Seq(Round)) /\ Len(rounds') = Len(rounds) + 1
      /\ \A i \in 1 .. Len(rounds) : rounds'[i] = rounds[i]
      /\ rounds'[Len(rounds) + 1] = <<>>
  BY <1>1, AppendProperties
<1>4. DOMAIN sessions' = 1 .. Len(sessions') /\ DOMAIN rounds' = 1 .. Len(rounds')
  BY <1>2, <1>3, LenProperties
<1>. QED  BY <1>2, <1>3, <1>4, Tables

\* A round is added to the log of a session.
LEMMA RoundAdded ==
    ASSUME GameInv, NEW s \in DOMAIN sessions, NEW round \in Round,
           rounds' = [rounds EXCEPT ![s] = Append(@, round)]
    PROVE  /\ rounds' \in Seq(Seq(Round)) /\ DOMAIN rounds' = DOMAIN rounds
           /\ Len(rounds[s]) \in Nat /\ DOMAIN rounds[s] = 1 .. Len(rounds[s])
           /\ Len(rounds'[s]) = Len(rounds[s]) + 1
           /\ DOMAIN rounds'[s] = DOMAIN rounds[s] \union {Len(rounds[s]) + 1}
           /\ rounds'[s][Len(rounds[s]) + 1] = round
           /\ \A i \in DOMAIN rounds[s] : rounds'[s][i] = rounds[s][i]
           /\ \A t \in DOMAIN sessions \ {s} : rounds'[t] = rounds[t]
<1>. DEFINE log == Append(rounds[s], round)
<1>1. rounds[s] \in Seq(Round) /\ s \in 1 .. Len(rounds) /\ DOMAIN rounds = 1 .. Len(rounds)
  BY Tables
<1>2. /\ log \in Seq(Round) /\ Len(log) = Len(rounds[s]) + 1
      /\ \A i \in 1 .. Len(rounds[s]) : log[i] = rounds[s][i]
      /\ log[Len(rounds[s]) + 1] = round
  BY <1>1, AppendProperties
<1>3. /\ Len(rounds[s]) \in Nat /\ DOMAIN rounds[s] = 1 .. Len(rounds[s])
      /\ DOMAIN log = 1 .. Len(log)
  BY <1>1, <1>2, LenProperties
<1>4. rounds' = [rounds EXCEPT ![s] = log]
  OBVIOUS
<1>. HIDE DEF log
<1>5. rounds \in Seq(Seq(Round)) /\ s \in DOMAIN rounds
  BY Tables DEF GameInv
<1>6. /\ rounds' \in Seq(Seq(Round)) /\ DOMAIN rounds' = DOMAIN rounds
      /\ rounds'[s] = log /\ \A t \in DOMAIN rounds \ {s} : rounds'[t] = rounds[t]
  BY <1>2, <1>4, <1>5, OneReplaced
<1>7. rounds'[s] = log /\ \A t \in DOMAIN sessions \ {s} : rounds'[t] = rounds[t]
  BY <1>6, Tables
<1>. QED  BY <1>1, <1>2, <1>3, <1>6, <1>7

-----------------------------------------------------------------------------
(* What a step does to the tables and to the rest of a handler.            *)

Busy(c) == c.op \in {"update", "end"}
EndedRow(s) == [sessions[s] EXCEPT !.status = "ended"]
HintedRow(s) == [sessions[s] EXCEPT !.hints = @ + 1, !.cash = @ - HintPenalty]
QuotedRow(s, result) ==
    [sessions[s] EXCEPT !.current_round = @ + 1, !.position = @ + PositionGain(result),
                        !.cash = @ + CashGain(result)]

Quiet ==
    /\ UNCHANGED <<tables, crashes>>
    /\ \/ call' = call
       \/ ~ Busy(call) /\ (call' = Idle \/ \E u \in Users : call' = Registering(u))
Died ==
    /\ UNCHANGED tables
    /\ crashes' = crashes + 1 /\ call' = Idle
Ended(s) ==
    /\ sessions[s].status = "active"
    /\ call.op # "update" /\ (call.op = "end" => call.session = s)
    /\ call' = Idle \/ \E category \in Categories : call' = Creating(sessions[s].user, category)
    /\ sessions' = [sessions EXCEPT ![s] = EndedRow(s)]
    /\ UNCHANGED <<rounds, crashes>>
Created(row) ==
    /\ row.hints = 0 /\ row.current_round = 0 /\ row.position = 0 /\ row.cash = 0
    /\ row.status = "active" /\ Active(row.user) = {}
    /\ ~ Busy(call) /\ call' = Idle
    /\ sessions' = Append(sessions, row) /\ rounds' = Append(rounds, <<>>)
    /\ UNCHANGED crashes
Submitted(s, result) ==
    /\ sessions[s].status = "active"
    /\ CashGain(result) + PositionGain(result) * TrueValue[sessions[s].scenario] <= epsilon
    /\ call = Idle /\ call' = Updating(s, QuotedRow(s, result))
    /\ rounds' = [rounds EXCEPT ![s] = Append(@, [number |-> sessions[s].current_round + 1,
                                                  result |-> result])]
    /\ UNCHANGED <<sessions, crashes, epsilon>>
Written(s, row) ==
    /\ call = Updating(s, row) /\ Pending(s, row)
    /\ call' = IF GameOver(row) THEN Ending(s) ELSE Idle
    /\ sessions' = [sessions EXCEPT ![s] = row]
    /\ UNCHANGED <<rounds, crashes>>
Hinted(s) ==
    /\ sessions[s].status = "active"
    /\ sessions[s].hints < HintCount[sessions[s].scenario]
    /\ call = Idle /\ call' = Idle
    /\ sessions' = [sessions EXCEPT ![s] = HintedRow(s)]
    /\ UNCHANGED <<rounds, crashes>>

\* The rows that are written.
LEMMA NewRows ==
    ASSUME GameInv, NEW s \in DOMAIN sessions
    PROVE  /\ EndedRow(s) \in Row /\ EndedRow(s).status = "ended"
           /\ \A field \in {"user", "scenario", "current_round", "position", "cash", "hints"} :
                 EndedRow(s)[field] = sessions[s][field]
           /\ HintedRow(s) \in Row
           /\ HintedRow(s).hints = sessions[s].hints + 1
           /\ HintedRow(s).cash = sessions[s].cash - HintPenalty
           /\ \A field \in {"user", "scenario", "current_round", "position", "status"} :
                 HintedRow(s)[field] = sessions[s][field]
           /\ \A result \in Result :
                 /\ QuotedRow(s, result) \in Row
                 /\ QuotedRow(s, result).current_round = sessions[s].current_round + 1
                 /\ QuotedRow(s, result).position = sessions[s].position + PositionGain(result)
                 /\ QuotedRow(s, result).cash = sessions[s].cash + CashGain(result)
                 /\ \A field \in {"user", "scenario", "hints", "status"} :
                       QuotedRow(s, result)[field] = sessions[s][field]
<1>1. sessions[s] \in Row
  BY Tables
<1>2. HintPenalty \in Nat
  BY GameAssumption
<1>3. EndedRow(s) \in Row /\ EndedRow(s).status = "ended"
  BY <1>1 DEF Row, EndedRow
<1>4. \A field \in {"user", "scenario", "current_round", "position", "cash", "hints"} :
         EndedRow(s)[field] = sessions[s][field]
  BY <1>1 DEF Row, EndedRow
<1>5. /\ HintedRow(s).hints = sessions[s].hints + 1
      /\ HintedRow(s).cash = sessions[s].cash - HintPenalty
      /\ \A field \in {"user", "scenario", "current_round", "position", "status"} :
            HintedRow(s)[field] = sessions[s][field]
  BY <1>1 DEF Row, HintedRow
<1>6. HintedRow(s) \in Row
  <2>1. sessions[s].hints + 1 \in Nat /\ sessions[s].cash - HintPenalty \in Int
    BY <1>1, <1>2 DEF Row
  <2>. QED  BY <1>1, <2>1 DEF Row, HintedRow
<1>7. ASSUME NEW result \in Result
      PROVE  /\ QuotedRow(s, result) \in Row
             /\ QuotedRow(s, result).current_round = sessions[s].current_round + 1
             /\ QuotedRow(s, result).position = sessions[s].position + PositionGain(result)
             /\ QuotedRow(s, result).cash = sessions[s].cash + CashGain(result)
             /\ \A field \in {"user", "scenario", "hints", "status"} :
                   QuotedRow(s, result)[field] = sessions[s][field]
  <2>1. PositionGain(result) \in Int /\ CashGain(result) \in Int
    BY GainsInt
  <2>2. /\ sessions[s].current_round + 1 \in Nat
        /\ sessions[s].position + PositionGain(result) \in Int
        /\ sessions[s].cash + CashGain(result) \in Int
    BY <1>1, <2>1 DEF Row
  <2>. QED  BY <1>1, <2>2 DEF Row, QuotedRow
<1>. QED  BY <1>3, <1>4, <1>5, <1>6, <1>7

\* Every step is one of these, on a session that exists.
LEMMA Effects ==
    ASSUME GameInv, [GameNext]_gameVars
    PROVE  /\ epsilon' = epsilon
           /\ \/ Quiet \/ Died
              \/ \E row \in Row : Created(row)
              \/ \E s \in DOMAIN sessions :
                    \/ Ended(s) \/ Hinted(s)
                    \/ \E result \in Result : Submitted(s, result)
                    \/ \E row \in Row : Written(s, row)
<1>. USE DEF tables, atRest, Busy
<1>1. CASE UNCHANGED gameVars
  BY <1>1 DEF gameVars, accountVars, Quiet
<1>2. CASE AccountsNext /\ UNCHANGED <<tables, epsilon>>
  <2>1. ASSUME NEW u \in Users, CreateUser(u) \/ GiveStarter(u) \/ Login(u) \/ Expire(u)
        PROVE  Quiet
    BY <1>2, <2>1 DEF CreateUser, GiveStarter, Login, Expire, Quiet, Idle, Registering
  <2>2. CASE Crash
    BY <1>2, <2>2 DEF Crash, Died
  <2>. QED  BY <1>2, <2>1, <2>2 DEF AccountsNext
<1>3. ASSUME NEW u \in Users, NEW category \in Categories, EndActive(u, category)
      PROVE  epsilon' = epsilon /\ \E s \in DOMAIN sessions : Ended(s)
  <2>1. PICK s : s = Max(Active(u))
    OBVIOUS
  <2>2. s \in Active(u)
    <3>1. PICK t \in Active(u) : TRUE
      BY <1>3 DEF EndActive
    <3>2. Active(u) = {t}
      BY <3>1 DEF GameInv, Active
    <3>3. t \in Int
      BY <3>1, Tables DEF Active
    <3>. QED  BY <2>1, <3>2, <3>3 DEF Max
  <2>3. Ended(s)
    BY <1>3, <2>1, <2>2 DEF EndActive, Ended, EndedRow, Active, Authenticated, Idle, Creating
  <2>. QED  BY <1>3, <2>2, <2>3 DEF EndActive, Active
<1>4. ASSUME NEW u \in Users, NEW category \in Categories, Create(u, category)
      PROVE  epsilon' = epsilon /\ \E row \in Row : Created(row)
  <2>1. PICK scenario \in Pool(category) : sessions' = Append(sessions, Session(u, scenario))
    BY <1>4 DEF Create
  <2>2. ~ Busy(call) /\ u \in users /\ Active(u) = {}
    <3>1. CASE Authenticated(u) /\ Active(u) = {}
      BY <3>1 DEF Authenticated, Idle, GameInv, GameTypeOK
    <3>2. CASE call = Creating(u, category)
      BY <3>2, CallSays DEF Creating
    <3>. QED  BY <1>4, <3>1, <3>2 DEF Create
  <2>3. Session(u, scenario) \in Row
    BY <2>1, <2>2 DEF Session, Row, Pool
  <2>4. Created(Session(u, scenario))
    BY <1>4, <2>1, <2>2 DEF Create, Created, Session
  <2>. QED  BY <1>4, <2>3, <2>4 DEF Create
<1>5. CASE CreateFails
  BY <1>5 DEF CreateFails, Quiet, Idle
<1>6. ASSUME NEW u \in Users, NEW s \in DOMAIN sessions, NEW bid \in Prices, NEW ask \in Prices,
             NEW trade \in BOOLEAN, SubmitQuote(u, s, bid, ask, trade)
      PROVE  epsilon' = epsilon /\ \E result \in Result : Submitted(s, result)
  <2>1. PICK result : result = JudgeQuote(bid, ask, TrueValue[sessions[s].scenario], epsilon, trade)
    OBVIOUS
  <2>2. TrueValue[sessions[s].scenario] \in Int /\ bid \in Int /\ ask \in Int /\ epsilon \in Nat
    BY Tables, GameAssumption DEF Row, GameInv
  <2>3. /\ result \in Result
        /\ CashGain(result) + PositionGain(result) * TrueValue[sessions[s].scenario] <= epsilon
    BY <2>1, <2>2, JudgeSound
  <2>4. Submitted(s, result)
    BY <1>6, <2>1, <2>3 DEF SubmitQuote, Submitted, Playing, Authenticated, QuotedRow, NextNumber
  <2>. QED  BY <1>6, <2>3, <2>4 DEF SubmitQuote
<1>7. CASE UpdateState
  <2>1. call.session \in DOMAIN sessions /\ call.row \in Row /\ Pending(call.session, call.row)
    BY <1>7, CallSays DEF UpdateState
  <2>2. call = Updating(call.session, call.row)
    BY <1>7, CallSays DEF UpdateState
  <2>3. Written(call.session, call.row)
    BY <1>7, <2>1, <2>2 DEF UpdateState, Written
  <2>. QED  BY <1>7, <2>1, <2>3 DEF UpdateState
<1>8. CASE EndLastRound
  <2>1. call.session \in DOMAIN sessions /\ sessions[call.session].status = "active"
    BY <1>8, CallSays DEF EndLastRound
  <2>2. Ended(call.session)
    BY <1>8, <2>1 DEF EndLastRound, Ended, EndedRow, Idle
  <2>. QED  BY <1>8, <2>1, <2>2 DEF EndLastRound
<1>9. ASSUME NEW u \in Users, NEW s \in DOMAIN sessions, RequestHint(u, s)
      PROVE  epsilon' = epsilon /\ Hinted(s)
  BY <1>9 DEF RequestHint, Playing, Authenticated, Hinted, HintedRow
<1>10. ASSUME NEW u \in Users, NEW s \in DOMAIN sessions, EndSession(u, s)
       PROVE  epsilon' = epsilon /\ Ended(s)
  BY <1>10 DEF EndSession, Playing, Authenticated, Ended, EndedRow, Idle
<1>. HIDE DEF tables, atRest, Busy
<1>. QED  BY <1>1, <1>2, <1>3, <1>4, <1>5, <1>6, <1>7, <1>8, <1>9, <1>10 DEF GameNext

-----------------------------------------------------------------------------
(* GameInv is inductive.                                                   *)

\* The accounts: who is registered, who holds a token, who was given what.
LEMMA AccountsKept ==
    ASSUME GameInv, [GameNext]_gameVars
    PROVE  /\ users \subseteq users' /\ users' \subseteq Users /\ tokens' \subseteq users'
           /\ starter' \in [Users -> 0 .. FullStarter]
           /\ crashes' \in Nat /\ IsFiniteSet(users')
           /\ \A u \in Users \ users' : starter'[u] = 0
           /\ call'.op = "register" =>
                 /\ call'.user \in users' /\ call' = Registering(call'.user)
                 /\ starter'[call'.user] < FullStarter
<1>. DEFINE Registered ==
              /\ call'.op = "register" =>
                    /\ call'.user \in users' /\ call' = Registering(call'.user)
                    /\ starter'[call'.user] < FullStarter
              /\ \A u \in Users \ users' : starter'[u] = 0
            Goal == /\ users \subseteq users' /\ users' \subseteq Users /\ tokens' \subseteq users'
                    /\ starter' \in [Users -> 0 .. FullStarter]
                    /\ crashes' \in Nat /\ IsFiniteSet(users')
                    /\ Registered
<1>0. FullStarter \in Nat \ {0}
  BY AccountsAssumption DEF FullStarter
<1>1. /\ users \subseteq Users /\ tokens \subseteq users /\ starter \in [Users -> 0 .. FullStarter]
      /\ crashes \in Nat /\ IsFiniteSet(users) /\ \A u \in Users \ users : starter[u] = 0
      /\ call.op = "register" => /\ call.user \in users /\ call = Registering(call.user)
                                 /\ starter[call.user] < FullStarter
  BY CallSays DEF GameInv, GameTypeOK
<1>2. ASSUME UNCHANGED <<users, starter, tokens>>, crashes' \in {crashes, crashes + 1},
             call' = call \/ call'.op # "register"
      PROVE  Goal
  BY <1>1, <1>2
<1>3. ASSUME UNCHANGED accountVars  PROVE Goal
  BY <1>2, <1>3 DEF accountVars
<1>4. ASSUME NEW u \in Users, CreateUser(u)  PROVE Goal
  <2>1. /\ users' = users \union {u} /\ u \notin users /\ call' = Registering(u)
        /\ starter' = starter /\ tokens' = tokens /\ crashes' = crashes
    BY <1>4 DEF CreateUser
  <2>2. IsFiniteSet(users')
    BY <1>1, <2>1, FS_AddElement
  <2>3. Registered
    BY <1>0, <1>1, <2>1 DEF Registering
  <2>. QED  BY <1>1, <2>1, <2>2, <2>3
<1>5. ASSUME NEW u \in Users, GiveStarter(u)  PROVE Goal
  <2>1. /\ users' = users /\ tokens' = tokens /\ crashes' = crashes /\ call = Registering(u)
        /\ starter' = [starter EXCEPT ![u] = starter[u] + 1]
        /\ call' = IF starter'[u] = FullStarter THEN Idle ELSE call
    BY <1>5 DEF GiveStarter
  <2>2. u \in users /\ starter[u] < FullStarter /\ starter[u] \in Nat
    BY <1>1, <2>1 DEF Registering
  <2>3. starter' \in [Users -> 0 .. FullStarter] /\ starter'[u] = starter[u] + 1
    BY <1>0, <1>1, <2>1, <2>2
  <2>4. Registered
    <3>1. starter'[u] # FullStarter => starter'[u] < FullStarter
      BY <1>0, <2>2, <2>3
    <3>2. call'.op = "register" => call' = call /\ starter'[u] < FullStarter
      BY <2>1, <3>1 DEF Idle
    <3>3. call.op = "register" /\ call.user = u
      BY <2>1 DEF Registering
    <3>. QED  BY <1>1, <2>1, <2>2, <3>2, <3>3
  <2>. QED  BY <1>1, <2>1, <2>3, <2>4
<1>6. ASSUME NEW u \in Users, Login(u) \/ Expire(u)  PROVE Goal
  <2>1. /\ users' = users /\ starter' = starter /\ call' = call /\ crashes' = crashes
        /\ tokens' \subseteq users
    BY <1>1, <1>6 DEF Login, Expire
  <2>. QED  BY <1>1, <2>1
<1>7. ASSUME Crash  PROVE Goal
  BY <1>2, <1>7 DEF Crash, Idle
<1>8. ASSUME UNCHANGED atRest, call' = call \/ call'.op # "register"  PROVE Goal
  BY <1>2, <1>8 DEF atRest
<1>9. ASSUME NEW u \in Users, NEW category, EndActive(u, category) \/ Create(u, category)
      PROVE  Goal
  BY <1>8, <1>9 DEF EndActive, Create, Creating, Idle
<1>10. ASSUME CreateFails \/ UpdateState \/ EndLastRound  PROVE Goal
  BY <1>8, <1>10 DEF CreateFails, UpdateState, EndLastRound, Idle, Ending
<1>11. ASSUME NEW u, NEW s, NEW bid, NEW ask, NEW trade, SubmitQuote(u, s, bid, ask, trade)
       PROVE  Goal
  BY <1>8, <1>11 DEF SubmitQuote, Updating
<1>12. ASSUME NEW u, NEW s, RequestHint(u, s) \/ EndSession(u, s)  PROVE Goal
  BY <1>8, <1>12 DEF RequestHint, EndSession
<1>13. Goal
  <2>. HIDE DEF Goal
  <2>1. UNCHANGED gameVars => UNCHANGED accountVars
    BY DEF gameVars
  <2>. QED  BY <2>1, <1>3, <1>4, <1>5, <1>6, <1>7, <1>9, <1>10, <1>11, <1>12
            DEF GameNext, AccountsNext
<1>. QED  BY <1>13

\* Rows stay typed as users register.
LEMMA RowsGrow ==
    ASSUME users \subseteq users'
    PROVE  /\ \A row \in Row : row \in Row'
           /\ \A q \in Seq(Row) : q \in Seq(Row')
<1>1. Row \subseteq Row'
  BY DEF Row
<1>. QED  BY <1>1, SeqMonotonic

\* The tables stay typed, and hints are never given beyond those there are.
LEMMA TablesKept ==
    ASSUME GameInv, [GameNext]_gameVars
    PROVE  /\ sessions' \in Seq(Row') /\ rounds' \in Seq(Seq(Round))
           /\ DOMAIN rounds' = DOMAIN sessions'
           /\ \A s \in DOMAIN sessions' : sessions'[s].hints <= HintCount[sessions'[s].scenario]
<1>. DEFINE Hints == \A s \in DOMAIN sessions' : sessions'[s].hints <= HintCount[sessions'[s].scenario]
            Goal == /\ sessions' \in Seq(Row) /\ rounds' \in Seq(Seq(Round))
                    /\ DOMAIN rounds' = DOMAIN sessions' /\ Hints
<1>1. /\ sessions \in Seq(Row) /\ rounds \in Seq(Seq(Round)) /\ DOMAIN rounds = DOMAIN sessions
      /\ \A s \in DOMAIN sessions : sessions[s].hints <= HintCount[sessions[s].scenario]
      /\ \A s \in DOMAIN sessions : sessions[s] \in Row
  BY Tables DEF GameInv, GameTypeOK
<1>2. ASSUME Quiet \/ Died  PROVE Goal
  BY <1>1, <1>2 DEF Quiet, Died, tables
<1>3. ASSUME NEW row \in Row, Created(row)  PROVE Goal
  <2>1. HintCount[row.scenario] \in Nat
    BY GameAssumption DEF Row
  <2>2. sessions' = Append(sessions, row) /\ rounds' = Append(rounds, <<>>) /\ row.hints = 0
    BY <1>3 DEF Created
  <2>3. \A s \in DOMAIN sessions' : s \in DOMAIN sessions \/ s = Len(sessions) + 1
    BY <2>2, RowAdded
  <2>4. Hints
    BY <1>1, <2>1, <2>2, <2>3, RowAdded
  <2>. QED  BY <2>2, <2>4, RowAdded
<1>4. ASSUME NEW s \in DOMAIN sessions, NEW row \in Row, rounds' = rounds,
             sessions' = [sessions EXCEPT ![s] = row], row.hints <= HintCount[row.scenario]
      PROVE  Goal
  BY <1>1, <1>4, RowWritten
<1>5. ASSUME NEW s \in DOMAIN sessions, Ended(s)  PROVE Goal
  BY <1>1, <1>4, <1>5, NewRows DEF Ended
<1>6. ASSUME NEW s \in DOMAIN sessions, Hinted(s)  PROVE Goal
  <2>1. HintedRow(s).hints <= HintCount[HintedRow(s).scenario]
    <3>1. sessions[s].hints < HintCount[sessions[s].scenario]
      BY <1>6 DEF Hinted
    <3>2. sessions[s].hints \in Nat /\ HintCount[sessions[s].scenario] \in Nat
      BY <1>1, GameAssumption DEF Row
    <3>. QED  BY <3>1, <3>2, NewRows
  <2>. QED  BY <1>4, <1>6, <2>1, NewRows DEF Hinted
<1>7. ASSUME NEW s \in DOMAIN sessions, NEW result \in Result, Submitted(s, result)  PROVE Goal
  <2>. DEFINE round == [number |-> sessions[s].current_round + 1, result |-> result]
  <2>1. round \in Round
    BY <1>1 DEF Row, Round
  <2>2. sessions' = sessions /\ rounds' = [rounds EXCEPT ![s] = Append(@, round)]
    BY <1>7 DEF Submitted
  <2>. HIDE DEF round
  <2>. QED  BY <1>1, <2>1, <2>2, RoundAdded
<1>8. ASSUME NEW s \in DOMAIN sessions, NEW row \in Row, Written(s, row)  PROVE Goal
  <2>1. /\ rounds' = rounds /\ sessions' = [sessions EXCEPT ![s] = row]
        /\ row.hints = sessions[s].hints /\ row.scenario = sessions[s].scenario
    BY <1>8 DEF Written, Pending
  <2>. QED  BY <1>1, <1>4, <2>1
<1>9. Goal
  <2>. HIDE DEF Goal
  <2>. QED  BY <1>2, <1>3, <1>5, <1>6, <1>7, <1>8, Effects
<1>. QED  BY <1>9, AccountsKept, RowsGrow

\* At most one session of a user stays active.
LEMMA ActiveKept ==
    ASSUME GameInv, [GameNext]_gameVars
    PROVE  \A s, t \in DOMAIN sessions' :
              /\ sessions'[s].status = "active" /\ sessions'[t].status = "active"
              /\ sessions'[s].user = sessions'[t].user
              => s = t
<1>. DEFINE Goal == \A s, t \in DOMAIN sessions' :
              /\ sessions'[s].status = "active" /\ sessions'[t].status = "active"
              /\ sessions'[s].user = sessions'[t].user
              => s = t
<1>1. /\ \A s, t \in DOMAIN sessions :
            /\ sessions[s].status = "active" /\ sessions[t].status = "active"
            /\ sessions[s].user = sessions[t].user
            => s = t
      /\ \A s \in DOMAIN sessions : sessions[s] \in Row
  BY Tables DEF GameInv
<1>2. ASSUME sessions' = sessions  PROVE Goal
  BY <1>1, <1>2
<1>3. ASSUME NEW s \in DOMAIN sessions, NEW row \in Row, sessions' = [sessions EXCEPT ![s] = row],
             row.user = sessions[s].user, row.status = "active" => sessions[s].status = "active"
      PROVE  Goal
  <2>1. \A t \in DOMAIN sessions' :
           /\ t \in DOMAIN sessions /\ sessions'[t].user = sessions[t].user
           /\ sessions'[t].status = "active" => sessions[t].status = "active"
    BY <1>3, RowWritten
  <2>. QED  BY <1>1, <2>1
<1>4. ASSUME NEW row \in Row, Created(row)  PROVE Goal
  <2>1. sessions' = Append(sessions, row) /\ rounds' = Append(rounds, <<>>)
    BY <1>4 DEF Created
  <2>2. \A s \in DOMAIN sessions : sessions[s].user = row.user => sessions[s].status # "active"
    BY <1>4 DEF Created, Active
  <2>3. \A s \in DOMAIN sessions' : \/ s \in DOMAIN sessions /\ sessions'[s] = sessions[s]
                                    \/ s = Len(sessions) + 1 /\ sessions'[s] = row
    BY <2>1, RowAdded
  <2>. QED  BY <1>1, <2>2, <2>3
<1>5. ASSUME Quiet \/ Died  PROVE Goal
  BY <1>2, <1>5 DEF Quiet, Died, tables
<1>6. ASSUME NEW s \in DOMAIN sessions, Ended(s)  PROVE Goal
  BY <1>3, <1>6, NewRows DEF Ended
<1>7. ASSUME NEW s \in DOMAIN sessions, Hinted(s)  PROVE Goal
  BY <1>3, <1>7, NewRows DEF Hinted
<1>8. ASSUME NEW s \in DOMAIN sessions, NEW row \in Row, Written(s, row)  PROVE Goal
  BY <1>3, <1>8 DEF Written, Pending
<1>9. ASSUME NEW s \in DOMAIN sessions, NEW result \in Result, Submitted(s, result)  PROVE Goal
  BY <1>2, <1>9 DEF Submitted
<1>10. Goal
  <2>. HIDE DEF Goal
  <2>. QED  BY <1>4, <1>5, <1>6, <1>7, <1>8, <1>9, Effects
<1>. QED  BY <1>10

\* What submit_quote leaves to be done is what Pending says.
LEMMA QuotePending ==
    ASSUME GameInv, NEW s \in DOMAIN sessions, NEW result \in Result, Submitted(s, result),
           NEW row, row = QuotedRow(s, result)
    PROVE  Pending(s, row)'
<1>1. sessions[s] \in Row /\ epsilon \in Nat /\ TrueValue[sessions[s].scenario] \in Int
  BY Tables, GameAssumption DEF Row, GameInv
<1>2. PICK round : round = [number |-> sessions[s].current_round + 1, result |-> result]
  OBVIOUS
<1>3. /\ round \in Round
      /\ round.number = sessions[s].current_round + 1 /\ round.result = result
  BY <1>1, <1>2 DEF Row, Round
<1>4. rounds' = [rounds EXCEPT ![s] = Append(@, round)]
  BY <1>2 DEF Submitted
<1>5. /\ Len(rounds[s]) \in Nat /\ Len(rounds'[s]) = Len(rounds[s]) + 1
      /\ rounds'[s][Len(rounds'[s])] = round
  <2>1. /\ Len(rounds[s]) \in Nat /\ Len(rounds'[s]) = Len(rounds[s]) + 1
        /\ rounds'[s][Len(rounds[s]) + 1] = round
    BY <1>3, <1>4, RoundAdded
  <2>. QED  BY <2>1
<1>6. /\ row.position = sessions[s].position + PositionGain(result)
      /\ row.cash = sessions[s].cash + CashGain(result)
      /\ row.current_round = sessions[s].current_round + 1
      /\ row.user = sessions[s].user /\ row.scenario = sessions[s].scenario
      /\ row.hints = sessions[s].hints /\ row.status = sessions[s].status
  BY NewRows
<1>7. Marked(row) <= Marked(sessions[s]) + epsilon
  <2>. DEFINE g == PositionGain(result) c == CashGain(result) p == sessions[s].position
              b == sessions[s].cash v == TrueValue[sessions[s].scenario]
  <2>1. g \in Int /\ c \in Int /\ p \in Int /\ b \in Int /\ v \in Int
    BY <1>1, GainsInt DEF Row
  <2>2. c + g * v <= epsilon
    BY DEF Submitted
  <2>3. Marked(row) = (b + c) + (p + g) * v /\ Marked(sessions[s]) = b + p * v
    BY <1>6 DEF Marked
  <2>. HIDE DEF g, c, p, b, v
  <2>4. (p + g) * v = p * v + g * v /\ p * v \in Int /\ g * v \in Int
    BY <2>1
  <2>. QED  BY <1>1, <2>1, <2>2, <2>3, <2>4
<1>8. sessions' = sessions /\ sessions[s].status = "active" /\ epsilon' = epsilon
  BY DEF Submitted
<1>. QED  BY <1>3, <1>5, <1>6, <1>7, <1>8 DEF Pending, Marked

\* The rest of a handler is what it should be.
LEMMA CallKept ==
    ASSUME GameInv, [GameNext]_gameVars
    PROVE  CallOK'
<1>1. CallOK
  BY DEF GameInv
<1>2. ASSUME call' = Idle  PROVE CallOK'
  BY <1>2 DEF CallOK
<1>3. ASSUME NEW u, call' = Registering(u)  PROVE CallOK'
  <2>1. u \in users' /\ starter'[u] < FullStarter
    BY <1>3, AccountsKept DEF Registering
  <2>. QED  BY <1>3, <2>1 DEF CallOK
<1>4. ASSUME call' = call, UNCHANGED tables  PROVE CallOK'
  <2>1. ASSUME NEW u \in users, NEW category \in Categories, call = Creating(u, category),
               Active(u) = {}
        PROVE  CallOK'
    <3>1. u \in users' /\ Active(u)' = {}
      BY <1>4, <2>1, AccountsKept DEF Active, tables
    <3>. QED  BY <1>4, <2>1, <3>1 DEF CallOK
  <2>2. ASSUME NEW s \in DOMAIN sessions, NEW row \in Row, call = Updating(s, row), Pending(s, row)
        PROVE  CallOK'
    <3>1. row \in Row' /\ s \in DOMAIN sessions' /\ Pending(s, row)'
      BY <1>4, <2>2, AccountsKept, RowsGrow, Effects DEF Pending, tables
    <3>. QED  BY <1>4, <2>2, <3>1 DEF CallOK
  <2>3. ASSUME NEW s \in DOMAIN sessions, call = Ending(s), sessions[s].status = "active"
        PROVE  CallOK'
    <3>1. s \in DOMAIN sessions' /\ sessions'[s].status = "active"
      BY <1>4, <2>3 DEF tables
    <3>. QED  BY <1>4, <2>3, <3>1 DEF CallOK
  <2>. QED  BY <1>1, <1>2, <1>3, <1>4, <2>1, <2>2, <2>3 DEF CallOK
<1>5. ASSUME Quiet \/ Died  PROVE CallOK'
  BY <1>2, <1>3, <1>4, <1>5 DEF Quiet, Died
<1>6. ASSUME NEW s \in DOMAIN sessions, Ended(s)  PROVE CallOK'
  <2>1. ASSUME NEW u, u = sessions[s].user, NEW category \in Categories, call' = Creating(u, category)
        PROVE  CallOK'
    <3>1. u \in users'
      BY <2>1, Tables, AccountsKept DEF Row
    <3>2. Active(u)' = {}
      <4>1. \A t \in DOMAIN sessions :
               sessions[t].status = "active" /\ sessions[t].user = u => t = s
        BY <1>6, <2>1 DEF GameInv, Ended
      <4>2. /\ DOMAIN sessions' = DOMAIN sessions /\ sessions'[s] = EndedRow(s)
            /\ \A t \in DOMAIN sessions \ {s} : sessions'[t] = sessions[t]
        BY <1>6, NewRows, RowWritten DEF Ended
      <4>3. sessions'[s].status # "active"
        BY <4>2, NewRows
      <4>. QED  BY <4>1, <4>2, <4>3 DEF Active
    <3>. QED  BY <2>1, <3>1, <3>2 DEF CallOK
  <2>. QED  BY <1>2, <1>6, <2>1 DEF Ended
<1>7. ASSUME NEW s \in DOMAIN sessions, NEW result \in Result, Submitted(s, result)  PROVE CallOK'
  <2>1. PICK row : row = QuotedRow(s, result)
    OBVIOUS
  <2>2. call' = Updating(s, row) /\ s \in DOMAIN sessions'
    BY <1>7, <2>1 DEF Submitted
  <2>3. row \in Row' /\ Pending(s, row)'
    BY <1>7, <2>1, NewRows, AccountsKept, RowsGrow, QuotePending
  <2>. QED  BY <2>2, <2>3 DEF CallOK
<1>8. ASSUME NEW s \in DOMAIN sessions, NEW row \in Row, Written(s, row)  PROVE CallOK'
  <2>1. ASSUME call' = Ending(s)  PROVE CallOK'
    <3>1. s \in DOMAIN sessions' /\ sessions'[s].status = "active"
      BY <1>8, RowWritten DEF Written, Pending
    <3>. QED  BY <2>1, <3>1 DEF CallOK
  <2>. QED  BY <1>2, <1>8, <2>1 DEF Written
<1>9. ASSUME \/ \E row \in Row : Created(row)
             \/ \E s \in DOMAIN sessions : Hinted(s)
      PROVE  CallOK'
  BY <1>2, <1>9 DEF Created, Hinted
<1>. QED  BY <1>5, <1>6, <1>7, <1>8, <1>9, Effects

\* The first state is typed, and nothing has happened in it.
LEMMA GameInvInit == GameInit => GameInv
<1>. SUFFICES ASSUME GameInit PROVE GameInv
  OBVIOUS
<1>1. FullStarter \in Nat
  BY AccountsAssumption DEF FullStarter
<1>2. /\ users = {} /\ tokens = {} /\ starter = [u \in Users |-> 0] /\ call = Idle /\ crashes = 0
      /\ sessions = <<>> /\ rounds = <<>> /\ epsilon \in Epsilons
  BY DEF GameInit, AccountsInit
<1>3. GameTypeOK
  BY <1>1, <1>2 DEF GameTypeOK
<1>4. CallOK
  BY <1>2 DEF CallOK
<1>. QED  BY <1>2, <1>3, <1>4, FS_EmptySet DEF GameInv

\* Every step keeps it.
LEMMA GameInvStep == GameInv /\ [GameNext]_gameVars => GameInv'
<1>. SUFFICES ASSUME GameInv, [GameNext]_gameVars PROVE GameInv'
  OBVIOUS
<1>1. epsilon' \in Epsilons
  BY Effects DEF GameInv
<1>2. GameTypeOK'
  BY AccountsKept, TablesKept DEF GameTypeOK, Row
<1>. QED  BY <1>1, <1>2, AccountsKept, TablesKept, CallKept, ActiveKept DEF GameInv

\* GameInv holds throughout.
THEOREM GameInvariant == GameSpec => []GameInv
<1>. QED  BY GameInvInit, GameInvStep, PTL DEF GameSpec

-----------------------------------------------------------------------------
(* The properties.                                                         *)

\* Game.GameTypeOK: the tables of accounts, sessions and rounds are typed, and
\* no hint is revealed that the scenario does not have.
THEOREM GameTypeCorrect == GameSpec => []GameTypeOK
<1>1. GameInv => GameTypeOK
  BY DEF GameInv
<1>. QED  BY <1>1, GameInvariant, PTL

\* Game.EndedIsFinal: require_active_session and the order of the statements
\* of a handler keep every write from a session that has ended.
THEOREM EndedStaysEnded == GameSpec => EndedIsFinal
<1>1. ASSUME GameInv, [GameNext]_gameVars, NEW s \in DOMAIN sessions, sessions[s].status = "ended"
      PROVE  sessions'[s] = sessions[s]
  <2>1. ASSUME NEW t \in DOMAIN sessions, NEW row \in Row, sessions[t].status = "active",
               sessions' = [sessions EXCEPT ![t] = row]
        PROVE  sessions'[s] = sessions[s]
    BY <1>1, <2>1, RowWritten
  <2>2. CASE Quiet \/ Died
    BY <2>2 DEF Quiet, Died, tables
  <2>3. ASSUME NEW row \in Row, Created(row)  PROVE sessions'[s] = sessions[s]
    BY <1>1, <2>3, RowAdded DEF Created
  <2>4. ASSUME NEW t \in DOMAIN sessions, Ended(t) \/ Hinted(t)  PROVE sessions'[s] = sessions[s]
    BY <1>1, <2>1, <2>4, NewRows DEF Ended, Hinted
  <2>5. ASSUME NEW t \in DOMAIN sessions, NEW result \in Result, Submitted(t, result)
        PROVE  sessions'[s] = sessions[s]
    BY <2>5 DEF Submitted
  <2>6. ASSUME NEW t \in DOMAIN sessions, NEW row \in Row, Written(t, row)
        PROVE  sessions'[s] = sessions[s]
    BY <2>1, <2>6 DEF Written, Pending
  <2>. QED  BY <1>1, <2>2, <2>3, <2>4, <2>5, <2>6, Effects
<1>2. GameInv /\ [GameNext]_gameVars
        => [\A s \in DOMAIN sessions :
              sessions[s].status = "ended" => sessions'[s] = sessions[s]]_gameVars
  BY <1>1
<1>. QED  BY <1>2, GameInvariant, PTL DEF GameSpec, EndedIsFinal

\* Game.OneActiveSession: force_new ends the old session before it creates the
\* new one, so there are never two, wherever the process dies.
THEOREM AtMostOneActive == GameSpec => []OneActiveSession
<1>1. ASSUME GameInv, NEW u \in Users  PROVE Cardinality(Active(u)) <= 1
  <2>1. CASE Active(u) = {}
    BY <2>1, FS_EmptySet
  <2>2. CASE Active(u) # {}
    <3>1. PICK s : s \in Active(u)
      BY <2>2
    <3>2. Active(u) = {s}
      BY <1>1, <3>1 DEF Active, GameInv
    <3>. QED  BY <3>2, FS_Singleton
  <2>. QED  BY <2>1, <2>2
<1>2. GameInv => OneActiveSession
  BY <1>1 DEF OneActiveSession
<1>. QED  BY <1>2, GameInvariant, PTL

\* Users whose account is short, and who is not being registered.
Short == {u \in users : starter[u] # FullStarter /\ call # Registering(u)}

\* Only a death of the process leaves one account more short.
LEMMA ShortSteps ==
    ASSUME GameInv, [GameNext]_gameVars
    PROVE  \/ Short' \subseteq Short /\ crashes' = crashes
           \/ (\E u \in users : Short' \subseteq Short \union {u}) /\ crashes' = crashes + 1
           \/ Short' \subseteq Short /\ crashes' = crashes + 1
<1>. DEFINE Goal == \/ Short' \subseteq Short /\ crashes' = crashes
                    \/ (\E u \in users : Short' \subseteq Short \union {u}) /\ crashes' = crashes + 1
                    \/ Short' \subseteq Short /\ crashes' = crashes + 1
<1>1. ASSUME UNCHANGED <<users, starter, crashes>>,
             call' = call \/ \A u \in users : call # Registering(u)
      PROVE  Goal
  <2>1. Short' \subseteq Short
    BY <1>1 DEF Short
  <2>. QED  BY <1>1, <2>1
<1>2. ASSUME UNCHANGED accountVars  PROVE Goal
  BY <1>1, <1>2 DEF accountVars
<1>3. ASSUME NEW u \in Users, CreateUser(u)  PROVE Goal
  <2>1. /\ users' = users \union {u} /\ call' = Registering(u) /\ call = Idle
        /\ starter' = starter /\ crashes' = crashes
    BY <1>3 DEF CreateUser
  <2>2. Short' \subseteq Short
    BY <2>1 DEF Short, Registering, Idle
  <2>. QED  BY <2>1, <2>2
<1>4. ASSUME NEW u \in Users, GiveStarter(u)  PROVE Goal
  <2>1. /\ users' = users /\ crashes' = crashes /\ call = Registering(u)
        /\ starter' = [starter EXCEPT ![u] = starter[u] + 1]
        /\ call' = IF starter'[u] = FullStarter THEN Idle ELSE call
    BY <1>4 DEF GiveStarter
  <2>2. \A v \in users \ {u} : starter'[v] = starter[v] /\ call # Registering(v)
    BY <2>1 DEF GameInv, GameTypeOK, Registering
  <2>3. u \notin Short'
    BY <2>1 DEF Short
  <2>4. Short' \subseteq Short
    BY <2>1, <2>2, <2>3 DEF Short
  <2>. QED  BY <2>1, <2>4
<1>5. ASSUME NEW u \in Users, Login(u) \/ Expire(u)  PROVE Goal
  BY <1>1, <1>5 DEF Login, Expire
<1>6. ASSUME Crash  PROVE Goal
  <2>1. users' = users /\ starter' = starter /\ crashes' = crashes + 1
    BY <1>6 DEF Crash
  <2>2. CASE call.op = "register"
    <3>1. PICK u \in users : call = Registering(u)
      BY <2>2, CallSays
    <3>2. Short' \subseteq Short \union {u}
      BY <2>1, <3>1 DEF Short, Registering
    <3>. QED  BY <2>1, <3>2
  <2>3. CASE call.op # "register"
    <3>1. Short' \subseteq Short
      BY <2>1, <2>3 DEF Short, Registering
    <3>. QED  BY <2>1, <3>1
  <2>. QED  BY <2>2, <2>3
<1>7. ASSUME UNCHANGED atRest, call.op # "register"  PROVE Goal
  BY <1>1, <1>7 DEF atRest, Registering
<1>8. ASSUME NEW u, NEW category, EndActive(u, category) \/ Create(u, category)  PROVE Goal
  BY <1>7, <1>8 DEF EndActive, Create, Creating, Idle, Authenticated
<1>9. ASSUME CreateFails \/ UpdateState \/ EndLastRound  PROVE Goal
  BY <1>7, <1>9 DEF CreateFails, UpdateState, EndLastRound
<1>10. ASSUME NEW u, NEW s, NEW bid, NEW ask, NEW trade, SubmitQuote(u, s, bid, ask, trade)
       PROVE  Goal
  BY <1>7, <1>10 DEF SubmitQuote, Playing, Authenticated, Idle
<1>11. ASSUME NEW u, NEW s, RequestHint(u, s) \/ EndSession(u, s)  PROVE Goal
  BY <1>7, <1>11 DEF RequestHint, EndSession, Playing, Authenticated, Idle
<1>12. UNCHANGED gameVars => UNCHANGED accountVars
  BY DEF gameVars
<1>13. Goal
  <2>. HIDE DEF Goal
  <2>. QED  BY <1>2, <1>3, <1>4, <1>5, <1>6, <1>8, <1>9, <1>10, <1>11, <1>12
            DEF GameNext, AccountsNext
<1>. QED  BY <1>13

\* Accounts.StarterComplete: every registered user has the starter balance
\* and shares, but for one user at most per death of the process.
THEOREM StartersComplete == GameSpec => []StarterComplete
<1>1. GameInit => StarterComplete
  <2>1. GameInit => users = {} /\ crashes = 0
    BY DEF GameInit, AccountsInit
  <2>2. users = {} => Short = {}
    BY DEF Short
  <2>. QED  BY <2>1, <2>2, FS_EmptySet DEF StarterComplete, Short
<1>2. ASSUME GameInv, GameInv', StarterComplete, [GameNext]_gameVars  PROVE StarterComplete'
  <2>1. IsFiniteSet(users) /\ Short \in SUBSET users /\ crashes \in Nat
    BY <1>2 DEF GameInv, Short
  <2>2. IsFiniteSet(Short) /\ Cardinality(Short) \in Nat /\ Cardinality(Short) <= crashes
    BY <1>2, <2>1, FS_Subset, FS_CardinalityType DEF StarterComplete, Short
  <2>3. ASSUME NEW S, NEW T \in SUBSET S, IsFiniteSet(S), NEW n \in Nat, Cardinality(S) <= n
        PROVE  Cardinality(T) <= n
    BY <2>3, FS_Subset, FS_CardinalityType
  <2>4. CASE Short' \subseteq Short /\ crashes' \in {crashes, crashes + 1}
    <3>1. Cardinality(Short') <= crashes
      BY <2>1, <2>2, <2>3, <2>4
    <3>2. Cardinality(Short') \in Nat
      BY <2>2, <2>4, FS_Subset, FS_CardinalityType
    <3>. QED  BY <2>1, <2>4, <3>1, <3>2 DEF StarterComplete, Short
  <2>5. ASSUME NEW u \in users, Short' \subseteq Short \union {u}, crashes' = crashes + 1
        PROVE  StarterComplete'
    <3>1. /\ IsFiniteSet(Short \union {u})
          /\ Cardinality(Short \union {u}) <= crashes + 1
      BY <2>1, <2>2, FS_AddElement
    <3>2. Cardinality(Short') <= crashes + 1
      BY <2>1, <2>3, <2>5, <3>1
    <3>. QED  BY <2>5, <3>2 DEF StarterComplete, Short
  <2>. QED  BY <1>2, <2>4, <2>5, ShortSteps
<1>. QED  BY <1>1, <1>2, GameInvariant, PTL DEF GameSpec

\* More copies are allowed.
LEMMA FitsMore ==
    ASSUME NEW n \in Nat, NEW log \in Seq(Round), NEW e \in Nat, NEW f \in Nat, e <= f,
           Fits(n, log, e)
    PROVE  Fits(n, log, f)
  BY LenProperties DEF Fits

\* A round is logged.
LEMMA FitsLogged ==
    ASSUME NEW n \in Nat, NEW log, NEW new, NEW round, NEW e \in Nat, Fits(n, log, e),
           Len(log) \in Nat, Len(new) = Len(log) + 1,
           DOMAIN new = DOMAIN log \union {Len(log) + 1},
           new[Len(log) + 1] = round, round.number = n + 1,
           \A i \in DOMAIN log : new[i] = log[i]
    PROVE  Fits(n, new, e + 1)
<1>1. Numbers(new) = Numbers(log) \union {n + 1}
  BY DEF Numbers
<1>2. Numbers(log) \in {1 .. n, 1 .. n + 1}
  BY DEF Fits
<1>3. Numbers(new) = 1 .. n + 1
  BY <1>1, <1>2
<1>. QED  BY <1>3 DEF Fits

\* A round that is in the log is counted.
LEMMA FitsCounted ==
    ASSUME NEW n \in Nat, NEW log \in Seq(Round), NEW e \in Nat, Fits(n, log, e + 1),
           Len(log) > 0, log[Len(log)].number = n + 1
    PROVE  Fits(n + 1, log, e)
<1>1. Len(log) \in Nat /\ Len(log) \in DOMAIN log
  BY LenProperties
<1>2. n + 1 \in Numbers(log)
  BY <1>1 DEF Numbers
<1>3. Numbers(log) = 1 .. n + 1
  BY <1>2 DEF Fits
<1>. QED  BY <1>1, <1>3 DEF Fits

\* The log keeps up with the rows, session by session.
LEMMA LogStep ==
    ASSUME GameInv, LogInv, [GameNext]_gameVars
    PROVE  LogInv'
<1>1. /\ crashes \in Nat
      /\ \A s \in DOMAIN sessions :
            /\ sessions[s].current_round \in Nat /\ rounds[s] \in Seq(Round)
            /\ crashes + Extra(call, s) \in Nat
            /\ Fits(sessions[s].current_round, rounds[s], crashes + Extra(call, s))
  <2>1. crashes \in Nat
    BY DEF GameInv
  <2>2. \A s \in DOMAIN sessions : sessions[s].current_round \in Nat /\ rounds[s] \in Seq(Round)
    BY Tables DEF Row
  <2>3. \A s : Extra(call, s) \in {0, 1}
    BY DEF Extra
  <2>. QED  BY <2>1, <2>2, <2>3 DEF LogInv
<1>2. ASSUME NEW s \in DOMAIN sessions, sessions'[s].current_round = sessions[s].current_round,
             rounds'[s] = rounds[s], crashes' + Extra(call', s) \in Nat,
             crashes' + Extra(call', s) >= crashes + Extra(call, s)
      PROVE  Fits(sessions'[s].current_round, rounds'[s], crashes' + Extra(call', s))
  BY <1>1, <1>2, FitsMore
<1>3. ASSUME Quiet  PROVE LogInv'
  <2>1. \A s : Extra(call', s) = Extra(call, s)
    BY <1>3 DEF Quiet, Busy, Idle, Registering, Extra
  <2>. QED  BY <1>1, <1>3, <2>1 DEF Quiet, tables, LogInv
<1>4. ASSUME Died  PROVE LogInv'
  <2>1. \A s : Extra(call', s) = 0 /\ Extra(call, s) \in {0, 1}
    BY <1>4 DEF Died, Idle, Extra
  <2>2. sessions' = sessions /\ rounds' = rounds /\ crashes' = crashes + 1
    BY <1>4 DEF Died, tables
  <2>. QED  BY <1>1, <1>2, <2>1, <2>2 DEF LogInv
<1>5. ASSUME NEW row \in Row, Created(row)  PROVE LogInv'
  <2>1. \A s : Extra(call', s) = 0 /\ Extra(call, s) = 0
    BY <1>5 DEF Created, Busy, Idle, Extra
  <2>2. Numbers(<<>>) = {} /\ Len(<<>>) = 0
    BY DEF Numbers
  <2>3. /\ sessions' = Append(sessions, row) /\ rounds' = Append(rounds, <<>>) /\ crashes' = crashes
        /\ row.current_round = 0
    BY <1>5 DEF Created
  <2>4. Fits(0, <<>>, crashes)
    BY <1>1, <2>2 DEF Fits
  <2>5. crashes + 0 = crashes
    BY <1>1
  <2>6. ASSUME NEW s \in DOMAIN sessions'
        PROVE  Fits(sessions'[s].current_round, rounds'[s], crashes' + Extra(call', s))
    BY <1>1, <2>1, <2>3, <2>4, <2>5, RowAdded
  <2>. QED  BY <2>6 DEF LogInv
<1>6. ASSUME NEW s \in DOMAIN sessions, Ended(s) \/ Hinted(s)  PROVE LogInv'
  <2>1. \A t : Extra(call', t) = 0 /\ Extra(call, t) = 0
    BY <1>6 DEF Ended, Hinted, Idle, Creating, Extra
  <2>2. rounds' = rounds /\ crashes' = crashes
    BY <1>6 DEF Ended, Hinted
  <2>3. /\ DOMAIN sessions' = DOMAIN sessions
        /\ \A t \in DOMAIN sessions : sessions'[t].current_round = sessions[t].current_round
    BY <1>6, NewRows, RowWritten DEF Ended, Hinted
  <2>. QED  BY <1>1, <2>1, <2>2, <2>3 DEF LogInv
<1>7. ASSUME NEW s \in DOMAIN sessions, NEW result \in Result, Submitted(s, result)  PROVE LogInv'
  <2>1. PICK round : round = [number |-> sessions[s].current_round + 1, result |-> result]
    OBVIOUS
  <2>2. round \in Round /\ round.number = sessions[s].current_round + 1
    BY <1>1, <2>1 DEF Round
  <2>3. rounds' = [rounds EXCEPT ![s] = Append(@, round)]
    BY <1>7, <2>1 DEF Submitted
  <2>4. /\ sessions' = sessions /\ crashes' = crashes /\ Extra(call, s) = 0 /\ Extra(call', s) = 1
        /\ \A t \in DOMAIN sessions \ {s} : Extra(call', t) = 0 /\ Extra(call, t) = 0
    BY <1>7 DEF Submitted, Idle, Updating, Extra
  <2>5. Fits(sessions[s].current_round, rounds'[s], (crashes + 0) + 1)
    <3>1. /\ Len(rounds[s]) \in Nat /\ Len(rounds'[s]) = Len(rounds[s]) + 1
          /\ DOMAIN rounds'[s] = DOMAIN rounds[s] \union {Len(rounds[s]) + 1}
          /\ rounds'[s][Len(rounds[s]) + 1] = round
          /\ \A i \in DOMAIN rounds[s] : rounds'[s][i] = rounds[s][i]
      BY <2>2, <2>3, RoundAdded
    <3>2. Fits(sessions[s].current_round, rounds[s], crashes + 0) /\ crashes + 0 \in Nat
      BY <1>1, <2>4
    <3>. QED  BY <1>1, <2>2, <3>1, <3>2, FitsLogged
  <2>6. \A t \in DOMAIN sessions \ {s} : rounds'[t] = rounds[t]
    BY <2>2, <2>3, RoundAdded
  <2>7. (crashes + 0) + 1 = crashes + 1
    BY <1>1
  <2>. QED  BY <1>1, <2>4, <2>5, <2>6, <2>7 DEF LogInv
<1>8. ASSUME NEW s \in DOMAIN sessions, NEW row \in Row, Written(s, row)  PROVE LogInv'
  <2>1. /\ rounds' = rounds /\ crashes' = crashes /\ Extra(call, s) = 1
        /\ \A t : Extra(call', t) = 0
        /\ \A t \in DOMAIN sessions \ {s} : Extra(call, t) = 0
    BY <1>8 DEF Written, Idle, Updating, Ending, Extra
  <2>2. /\ row.current_round = sessions[s].current_round + 1
        /\ Len(rounds[s]) > 0 /\ rounds[s][Len(rounds[s])].number = sessions[s].current_round + 1
    BY <1>8 DEF Written, Pending
  <2>3. Fits(sessions[s].current_round + 1, rounds[s], crashes)
    BY <1>1, <2>1, <2>2, FitsCounted
  <2>4. /\ DOMAIN sessions' = DOMAIN sessions /\ sessions'[s] = row
        /\ \A t \in DOMAIN sessions \ {s} : sessions'[t] = sessions[t]
    BY <1>8, RowWritten DEF Written
  <2>5. crashes + 0 = crashes
    BY <1>1
  <2>. QED  BY <1>1, <2>1, <2>2, <2>3, <2>4, <2>5 DEF LogInv
<1>. QED  BY <1>3, <1>4, <1>5, <1>6, <1>7, <1>8, Effects

\* Game.RoundsComplete: append_game_round comes before the row is updated, so
\* the log misses no round that counts, whatever is lost.
THEOREM LogComplete == GameSpec => []RoundsComplete
<1>1. GameInit => LogInv
  BY DEF GameInit, LogInv
<1>2. ASSUME GameInv, LogInv  PROVE RoundsComplete
  <2>1. crashes \in Nat
    BY <1>2 DEF GameInv
  <2>2. ASSUME NEW s \in DOMAIN sessions
        PROVE  /\ Numbers(rounds[s]) \in {1 .. sessions[s].current_round,
                                          1 .. sessions[s].current_round + 1}
               /\ Len(rounds[s]) <= sessions[s].current_round + crashes
                                      + (IF call.op = "update" THEN 1 ELSE 0)
    <3>1. /\ sessions[s].current_round \in Nat /\ Len(rounds[s]) \in Nat
          /\ Fits(sessions[s].current_round, rounds[s], crashes + Extra(call, s))
      BY <1>2, Tables, LenProperties DEF Row, LogInv
    <3>. QED  BY <2>1, <3>1 DEF Fits, Extra
  <2>. QED  BY <2>2 DEF RoundsComplete, Numbers
<1>. QED  BY <1>1, <1>2, LogStep, GameInvariant, PTL DEF GameSpec

\* Every step leaves a round per death of the process.
LEMMA RoundsLeftStep ==
    ASSUME GameInv, RoundsLeft, [GameNext]_gameVars
    PROVE  RoundsLeft'
<1>. DEFINE Left(row, c, s) == IF row.status = "active" /\ ~ (c.op = "end" /\ c.session = s)
                               THEN 1 ELSE 0
            Goal == \A s \in DOMAIN sessions' :
               sessions'[s].current_round + Left(sessions'[s], call', s) <= MaxRounds + crashes'
<1>1. /\ crashes \in Nat /\ MaxRounds \in Nat \ {0}
      /\ \A s \in DOMAIN sessions :
            /\ sessions[s].current_round \in Nat
            /\ sessions[s].current_round + Left(sessions[s], call, s) <= MaxRounds + crashes
      /\ \A row, c, s : Left(row, c, s) \in {0, 1}
  <2>1. crashes \in Nat /\ MaxRounds \in Nat \ {0}
    BY GameAssumption DEF GameInv
  <2>2. \A s \in DOMAIN sessions : sessions[s].current_round \in Nat
    BY Tables DEF Row
  <2>. QED  BY <2>1, <2>2 DEF RoundsLeft
<1>2. ASSUME Quiet  PROVE Goal
  <2>1. \A row, s : Left(row, call', s) = Left(row, call, s)
    BY <1>2 DEF Quiet, Busy, Idle, Registering
  <2>. QED  BY <1>1, <1>2, <2>1 DEF Quiet, tables
<1>3. ASSUME Died  PROVE Goal
  <2>1. sessions' = sessions /\ crashes' = crashes + 1
    BY <1>3 DEF Died, tables
  <2>2. ASSUME NEW s \in DOMAIN sessions
        PROVE  sessions[s].current_round + Left(sessions[s], call', s) <= MaxRounds + (crashes + 1)
    <3>1. Left(sessions[s], call', s) \in {0, 1} /\ Left(sessions[s], call, s) \in {0, 1}
      BY <1>1
    <3>. HIDE DEF Left
    <3>. QED  BY <1>1, <3>1
  <2>. HIDE DEF Left
  <2>. QED  BY <2>1, <2>2
<1>4. ASSUME NEW row \in Row, Created(row)  PROVE Goal
  <2>1. /\ sessions' = Append(sessions, row) /\ rounds' = Append(rounds, <<>>)
        /\ crashes' = crashes /\ row.current_round = 0
    BY <1>4 DEF Created
  <2>2. \A r, s : Left(r, call', s) = Left(r, call, s)
    BY <1>4 DEF Created, Busy, Idle
  <2>3. 0 + Left(row, call', Len(sessions) + 1) <= MaxRounds + crashes
    BY <1>1
  <2>. HIDE DEF Left
  <2>. QED  BY <1>1, <2>1, <2>2, <2>3, RowAdded
<1>5. ASSUME NEW s \in DOMAIN sessions, Ended(s)  PROVE Goal
  <2>1. /\ DOMAIN sessions' = DOMAIN sessions /\ crashes' = crashes
        /\ sessions'[s].current_round = sessions[s].current_round /\ sessions'[s].status = "ended"
        /\ \A t \in DOMAIN sessions \ {s} : sessions'[t] = sessions[t]
    BY <1>5, NewRows, RowWritten DEF Ended
  <2>2. \A t \in DOMAIN sessions \ {s} : Left(sessions[t], call', t) = Left(sessions[t], call, t)
    BY <1>5 DEF Ended, Idle, Creating
  <2>3. Left(sessions'[s], call', s) = 0
    BY <2>1
  <2>. HIDE DEF Left
  <2>. QED  BY <1>1, <2>1, <2>2, <2>3
<1>6. ASSUME NEW s \in DOMAIN sessions, Hinted(s)  PROVE Goal
  <2>1. /\ DOMAIN sessions' = DOMAIN sessions /\ crashes' = crashes /\ call' = call
        /\ \A t \in DOMAIN sessions : /\ sessions'[t].current_round = sessions[t].current_round
                                      /\ sessions'[t].status = sessions[t].status
    BY <1>6, NewRows, RowWritten DEF Hinted
  <2>. QED  BY <1>1, <2>1
<1>7. ASSUME NEW s \in DOMAIN sessions, NEW result \in Result, Submitted(s, result)  PROVE Goal
  <2>1. sessions' = sessions /\ crashes' = crashes /\ call.op # "end" /\ call'.op # "end"
    BY <1>7 DEF Submitted, Idle, Updating
  <2>. QED  BY <1>1, <2>1
<1>8. ASSUME NEW s \in DOMAIN sessions, NEW row \in Row, Written(s, row)  PROVE Goal
  <2>1. /\ DOMAIN sessions' = DOMAIN sessions /\ crashes' = crashes /\ sessions'[s] = row
        /\ \A t \in DOMAIN sessions \ {s} : sessions'[t] = sessions[t]
    BY <1>8, RowWritten DEF Written
  <2>2. /\ row.current_round = sessions[s].current_round + 1 /\ sessions[s].status = "active"
        /\ call.op = "update"
        /\ IF row.current_round >= MaxRounds THEN call' = Ending(s) ELSE call' = Idle
    BY <1>8 DEF Written, Pending, Updating, GameOver
  <2>3. \A t \in DOMAIN sessions \ {s} : Left(sessions[t], call', t) = Left(sessions[t], call, t)
    BY <2>2 DEF Ending, Idle
  <2>4. sessions[s].current_round + 1 <= MaxRounds + crashes
    BY <1>1, <2>2
  <2>5. row.current_round + Left(row, call', s) <= MaxRounds + crashes
    <3>1. CASE call' = Ending(s)
      <4>1. Left(row, call', s) = 0
        BY <3>1 DEF Ending
      <4>. HIDE DEF Left
      <4>. QED  BY <1>1, <2>2, <2>4, <4>1
    <3>2. CASE row.current_round < MaxRounds
      <4>. HIDE DEF Left
      <4>. QED  BY <1>1, <2>2, <3>2
    <3>. QED  BY <1>1, <2>2, <3>1, <3>2
  <2>. HIDE DEF Left
  <2>. QED  BY <1>1, <2>1, <2>3, <2>5
<1>9. Goal
  <2>. HIDE DEF Goal
  <2>. QED  BY <1>2, <1>3, <1>4, <1>5, <1>6, <1>7, <1>8, Effects
<1>. QED  BY <1>9 DEF RoundsLeft

\* Game.NoOvertime: only a death between the last update and the end of the
\* session lets it go on, by one round each time.
THEOREM OvertimeBounded == GameSpec => []NoOvertime
<1>1. GameInit => RoundsLeft
  BY DEF GameInit, RoundsLeft
<1>2. ASSUME GameInv, RoundsLeft  PROVE NoOvertime
  <2>1. /\ crashes \in Nat /\ MaxRounds \in Nat
        /\ \A s \in DOMAIN sessions : sessions[s].current_round \in Nat
    BY <1>2, Tables, GameAssumption DEF Row, GameInv
  <2>. QED  BY <1>2, <2>1 DEF RoundsLeft, NoOvertime, Idle
<1>. QED  BY <1>1, <1>2, RoundsLeftStep, GameInvariant, PTL DEF GameSpec

\* What a step does to the worth of a session.
LEMMA FreeLunchStep ==
    ASSUME GameInv, NoFreeLunch, [GameNext]_gameVars
    PROVE  NoFreeLunch'
<1>1. /\ epsilon \in Nat /\ epsilon' = epsilon /\ HintPenalty \in Nat
      /\ \A row \in Row : /\ row.current_round \in Nat /\ row.hints \in Nat
                          /\ row.position \in Int /\ row.cash \in Int
                          /\ TrueValue[row.scenario] \in Int /\ Marked(row) \in Int
                          /\ Granted(row) \in Int
      /\ \A s \in DOMAIN sessions : sessions[s] \in Row /\ Marked(sessions[s]) <= Granted(sessions[s])
  <2>1. epsilon \in Nat /\ epsilon' = epsilon /\ HintPenalty \in Nat
    BY GameAssumption, Effects DEF GameInv
  <2>2. ASSUME NEW row \in Row
        PROVE  /\ row.current_round \in Nat /\ row.hints \in Nat
               /\ row.position \in Int /\ row.cash \in Int
               /\ TrueValue[row.scenario] \in Int
    BY GameAssumption DEF Row
  <2>3. ASSUME NEW row \in Row  PROVE Marked(row) \in Int /\ Granted(row) \in Int
    BY <2>1, <2>2 DEF Marked, Granted
  <2>4. \A s \in DOMAIN sessions : sessions[s] \in Row /\ Marked(sessions[s]) <= Granted(sessions[s])
    BY Tables DEF NoFreeLunch, Marked, Granted
  <2>. QED  BY <2>1, <2>2, <2>3, <2>4
<1>2. SUFFICES \A s \in DOMAIN sessions' : Marked(sessions'[s]) <= Granted(sessions'[s])
  BY <1>1 DEF NoFreeLunch, Marked, Granted
<1>. DEFINE Goal == \A s \in DOMAIN sessions' : Marked(sessions'[s]) <= Granted(sessions'[s])
<1>3. ASSUME sessions' = sessions  PROVE Goal
  BY <1>1, <1>3
<1>4. ASSUME NEW s \in DOMAIN sessions, NEW row \in Row, sessions' = [sessions EXCEPT ![s] = row],
             Marked(row) <= Granted(row)
      PROVE  Goal
  BY <1>1, <1>4, RowWritten
<1>5. ASSUME Quiet \/ Died  PROVE Goal
  BY <1>3, <1>5 DEF Quiet, Died, tables
<1>6. ASSUME NEW row \in Row, Created(row)  PROVE Goal
  <2>1. Marked(row) <= Granted(row)
    BY <1>1, <1>6 DEF Created, Marked, Granted
  <2>. QED  BY <1>1, <1>6, <2>1, RowAdded DEF Created
<1>7. ASSUME NEW s \in DOMAIN sessions, Ended(s)  PROVE Goal
  <2>1. Marked(EndedRow(s)) = Marked(sessions[s]) /\ Granted(EndedRow(s)) = Granted(sessions[s])
    BY NewRows DEF Marked, Granted
  <2>. QED  BY <1>1, <1>4, <1>7, <2>1, NewRows DEF Ended
<1>8. ASSUME NEW s \in DOMAIN sessions, Hinted(s)  PROVE Goal
  <2>1. Marked(HintedRow(s)) = Marked(sessions[s]) - HintPenalty
    BY <1>1, NewRows DEF Marked
  <2>2. Granted(HintedRow(s)) = Granted(sessions[s]) - HintPenalty
    <3>1. HintPenalty * (sessions[s].hints + 1) = HintPenalty * sessions[s].hints + HintPenalty
      BY <1>1
    <3>. QED  BY <1>1, <3>1, NewRows DEF Granted
  <2>. QED  BY <1>1, <1>4, <1>8, <2>1, <2>2, NewRows DEF Hinted
<1>9. ASSUME NEW s \in DOMAIN sessions, NEW row \in Row, Written(s, row)  PROVE Goal
  <2>1. /\ row.current_round = sessions[s].current_round + 1 /\ row.hints = sessions[s].hints
        /\ Marked(row) <= Marked(sessions[s]) + epsilon
        /\ sessions' = [sessions EXCEPT ![s] = row]
    BY <1>9 DEF Written, Pending
  <2>2. Granted(row) = Granted(sessions[s]) + epsilon
    <3>1. epsilon * (sessions[s].current_round + 1) = epsilon * sessions[s].current_round + epsilon
      BY <1>1
    <3>. QED  BY <1>1, <2>1, <3>1 DEF Granted
  <2>. QED  BY <1>1, <1>4, <2>1, <2>2
<1>10. ASSUME NEW s \in DOMAIN sessions, NEW result \in Result, Submitted(s, result)  PROVE Goal
  BY <1>3, <1>10 DEF Submitted
<1>11. Goal
  <2>. HIDE DEF Goal
  <2>. QED  BY <1>5, <1>6, <1>7, <1>8, <1>9, <1>10, Effects
<1>. QED  BY <1>11

\* Game.NoFreeLunch: at the true value, a player never has more than the noise
\* band grants for the rounds played, less the hints paid for.
THEOREM FreeLunchBounded == GameSpec => []NoFreeLunch
<1>1. GameInit => NoFreeLunch
  BY DEF GameInit, NoFreeLunch
<1>. QED  BY <1>1, FreeLunchStep, GameInvariant, PTL DEF GameSpec

\* The ledger of one session, as a function of its row and its log.
CountedIn(n, log) ==
    {i \in DOMAIN log : /\ log[i].number <= n
                        /\ \A j \in DOMAIN log : j > i => log[j].number # log[i].number}
PositionsOf(log) == [i \in DOMAIN log |-> PositionGain(log[i].result)]
CashOf(log) == [i \in DOMAIN log |-> CashGain(log[i].result)]
Balanced(row, log) ==
    /\ row.position = SumFunctionOnSet(PositionsOf(log), CountedIn(row.current_round, log))
    /\ row.cash = SumFunctionOnSet(CashOf(log), CountedIn(row.current_round, log))
                    - HintPenalty * row.hints

\* What is in a log.
LEMMA RoundsTyped ==
    ASSUME NEW log \in Seq(Round)
    PROVE  /\ Len(log) \in Nat /\ DOMAIN log = 1 .. Len(log)
           /\ \A i \in DOMAIN log : log[i].number \in Nat /\ log[i].result \in Result
<1>1. Len(log) \in Nat /\ DOMAIN log = 1 .. Len(log) /\ log \in [1 .. Len(log) -> Round]
  BY LenProperties
<1>2. ASSUME NEW i \in DOMAIN log  PROVE log[i].number \in Nat /\ log[i].result \in Result
  <2>1. log[i] \in Round
    BY <1>1
  <2>. QED  BY <2>1 DEF Round
<1>. QED  BY <1>1, <1>2

\* The rounds of a log are finitely many and worth integers.
LEMMA GainsTyped ==
    ASSUME NEW log \in Seq(Round), NEW n \in Nat
    PROVE  /\ IsFiniteSet(CountedIn(n, log))
           /\ \A i \in DOMAIN log : PositionsOf(log)[i] \in Int /\ CashOf(log)[i] \in Int
           /\ SumFunctionOnSet(PositionsOf(log), CountedIn(n, log)) \in Int
           /\ SumFunctionOnSet(CashOf(log), CountedIn(n, log)) \in Int
<1>1. Len(log) \in Nat /\ DOMAIN log = 1 .. Len(log)
  BY LenProperties
<1>2. IsFiniteSet(CountedIn(n, log)) /\ CountedIn(n, log) \subseteq DOMAIN log
  <2>1. CountedIn(n, log) \in SUBSET (1 .. Len(log))
    BY <1>1 DEF CountedIn
  <2>2. IsFiniteSet(1 .. Len(log))
    BY <1>1, FS_Interval
  <2>. QED  BY <1>1, <2>1, <2>2, FS_Subset
<1>3. ASSUME NEW i \in DOMAIN log  PROVE PositionsOf(log)[i] \in Int /\ CashOf(log)[i] \in Int
  <2>1. log[i].result \in Result
    BY RoundsTyped
  <2>. QED  BY <2>1, GainsInt DEF PositionsOf, CashOf
<1>4. /\ SumFunctionOnSet(PositionsOf(log), CountedIn(n, log)) \in Int
      /\ SumFunctionOnSet(CashOf(log), CountedIn(n, log)) \in Int
  BY <1>2, <1>3, SumInt
<1>. QED  BY <1>2, <1>3, <1>4

\* A round that is logged and not counted yet does not disturb the ledger.
LEMMA BalancedLogged ==
    ASSUME NEW row \in Row, NEW log \in Seq(Round), NEW new, NEW round,
           Balanced(row, log), Len(new) = Len(log) + 1,
           DOMAIN new = DOMAIN log \union {Len(log) + 1},
           new[Len(log) + 1] = round, round.number = row.current_round + 1,
           \A i \in DOMAIN log : new[i] = log[i]
    PROVE  Balanced(row, new)
<1>1. PICK n \in Nat : n = row.current_round
  BY DEF Row
<1>2. /\ Len(log) \in Nat /\ DOMAIN log = 1 .. Len(log)
      /\ \A i \in DOMAIN log : log[i].number \in Nat
  BY RoundsTyped
<1>3. CountedIn(n, new) = CountedIn(n, log)
  BY <1>1, <1>2 DEF CountedIn
<1>4. CountedIn(n, log) \subseteq DOMAIN log /\ IsFiniteSet(CountedIn(n, log))
  BY GainsTyped DEF CountedIn
<1>5. /\ SumFunctionOnSet(PositionsOf(new), CountedIn(n, log))
           = SumFunctionOnSet(PositionsOf(log), CountedIn(n, log))
      /\ SumFunctionOnSet(CashOf(new), CountedIn(n, log))
           = SumFunctionOnSet(CashOf(log), CountedIn(n, log))
  <2>1. \A i \in CountedIn(n, log) : /\ PositionsOf(new)[i] = PositionsOf(log)[i]
                                     /\ CashOf(new)[i] = CashOf(log)[i]
    BY <1>4 DEF PositionsOf, CashOf
  <2>. QED  BY <1>4, <2>1, SumSame
<1>. QED  BY <1>1, <1>3, <1>5 DEF Balanced

\* Counting the last round of the log moves the ledger by what it is worth,
\* as the copies of it before no longer are the last.
LEMMA BalancedCounted ==
    ASSUME NEW old \in Row, NEW row \in Row, NEW log \in Seq(Round), NEW last,
           Balanced(old, log), Len(log) > 0, last = log[Len(log)],
           row.current_round = old.current_round + 1, last.number = row.current_round,
           row.position = old.position + PositionGain(last.result),
           row.cash = old.cash + CashGain(last.result), row.hints = old.hints
    PROVE  Balanced(row, log)
<1>1. PICK n \in Nat : n = old.current_round
  BY DEF Row
<1>2. /\ Len(log) \in Nat /\ DOMAIN log = 1 .. Len(log) /\ Len(log) \in DOMAIN log
      /\ \A i \in DOMAIN log : log[i].number \in Nat
  BY RoundsTyped
<1>3. /\ CountedIn(n + 1, log) = CountedIn(n, log) \union {Len(log)}
      /\ Len(log) \notin CountedIn(n, log)
  <2>1. Len(log) \notin CountedIn(n, log) /\ Len(log) \in CountedIn(n + 1, log)
    BY <1>1, <1>2 DEF CountedIn
  <2>2. ASSUME NEW i \in DOMAIN log, i # Len(log)
        PROVE  i \in CountedIn(n, log) <=> i \in CountedIn(n + 1, log)
    <3>1. i < Len(log) /\ Len(log) \in DOMAIN log /\ log[Len(log)].number = n + 1
      BY <1>1, <1>2, <2>2
    <3>. QED  BY <1>2, <3>1 DEF CountedIn
  <2>3. CountedIn(n, log) \subseteq DOMAIN log /\ CountedIn(n + 1, log) \subseteq DOMAIN log
    BY DEF CountedIn
  <2>. QED  BY <2>1, <2>2, <2>3
<1>4. /\ IsFiniteSet(CountedIn(n, log))
      /\ \A i \in CountedIn(n, log) \union {Len(log)} :
            PositionsOf(log)[i] \in Int /\ CashOf(log)[i] \in Int
  BY <1>2, GainsTyped DEF CountedIn
<1>5. /\ SumFunctionOnSet(PositionsOf(log), CountedIn(n + 1, log))
           = SumFunctionOnSet(PositionsOf(log), CountedIn(n, log)) + PositionsOf(log)[Len(log)]
      /\ SumFunctionOnSet(CashOf(log), CountedIn(n + 1, log))
           = SumFunctionOnSet(CashOf(log), CountedIn(n, log)) + CashOf(log)[Len(log)]
  BY <1>3, <1>4, SumAdd
<1>6. /\ PositionsOf(log)[Len(log)] = PositionGain(last.result)
      /\ CashOf(log)[Len(log)] = CashGain(last.result)
  BY <1>2 DEF PositionsOf, CashOf
<1>7. /\ old.hints \in Nat /\ HintPenalty \in Nat
      /\ PositionGain(last.result) \in Int /\ CashGain(last.result) \in Int
      /\ SumFunctionOnSet(CashOf(log), CountedIn(n, log)) \in Int
  BY <1>2, <1>6, GainsTyped, GameAssumption DEF Row
<1>8. row.position = SumFunctionOnSet(PositionsOf(log), CountedIn(n + 1, log))
  BY <1>1, <1>5, <1>6 DEF Balanced
<1>9. row.cash = SumFunctionOnSet(CashOf(log), CountedIn(n + 1, log)) - HintPenalty * row.hints
  <2>1. old.cash = SumFunctionOnSet(CashOf(log), CountedIn(n, log)) - HintPenalty * old.hints
    BY <1>1 DEF Balanced
  <2>2. HintPenalty * old.hints \in Nat
    BY <1>7
  <2>. QED  BY <1>5, <1>6, <1>7, <2>1, <2>2
<1>. QED  BY <1>1, <1>8, <1>9 DEF Balanced

\* Every row stays what its log adds up to.
LEMMA LedgerStep ==
    ASSUME GameInv, [GameNext]_gameVars,
           \A s \in DOMAIN sessions : Balanced(sessions[s], rounds[s])
    PROVE  \A s \in DOMAIN sessions' : Balanced(sessions'[s], rounds'[s])
<1>. DEFINE Goal == \A s \in DOMAIN sessions' : Balanced(sessions'[s], rounds'[s])
<1>1. \A s \in DOMAIN sessions : sessions[s] \in Row /\ rounds[s] \in Seq(Round)
  BY Tables
<1>2. ASSUME Quiet \/ Died  PROVE Goal
  BY <1>2 DEF Quiet, Died, tables
<1>3. ASSUME NEW row \in Row, Created(row)  PROVE Goal
  <2>1. CountedIn(0, <<>>) = {}
    BY DEF CountedIn
  <2>2. HintPenalty * 0 = 0
    BY GameAssumption
  <2>3. Balanced(row, <<>>)
    <3>1. row.position = 0 /\ row.cash = 0 /\ row.hints = 0 /\ row.current_round = 0
      BY <1>3 DEF Created
    <3>2. /\ SumFunctionOnSet(PositionsOf(<<>>), {}) = 0
          /\ SumFunctionOnSet(CashOf(<<>>), {}) = 0
      BY SumEmpty
    <3>3. CountedIn(row.current_round, <<>>) = {}
      BY <2>1, <3>1
    <3>4. HintPenalty * row.hints = 0
      BY <2>2, <3>1
    <3>5. 0 = 0 - HintPenalty * row.hints
      BY <3>4
    <3>. QED  BY <3>1, <3>2, <3>3, <3>5 DEF Balanced
  <2>. QED  BY <1>3, <2>3, RowAdded DEF Created
<1>4. ASSUME NEW s \in DOMAIN sessions, NEW row \in Row, sessions' = [sessions EXCEPT ![s] = row],
             rounds' = rounds, Balanced(row, rounds[s])
      PROVE  Goal
  BY <1>4, RowWritten
<1>5. ASSUME NEW s \in DOMAIN sessions, Ended(s)  PROVE Goal
  <2>1. Balanced(EndedRow(s), rounds[s])
    BY NewRows DEF Balanced
  <2>. QED  BY <1>4, <1>5, <2>1, NewRows DEF Ended
<1>6. ASSUME NEW s \in DOMAIN sessions, Hinted(s)  PROVE Goal
  <2>. DEFINE gained == SumFunctionOnSet(CashOf(rounds[s]), CountedIn(sessions[s].current_round, rounds[s]))
  <2>1. gained \in Int /\ sessions[s].hints \in Nat /\ HintPenalty \in Nat
    BY <1>1, GainsTyped, GameAssumption DEF Row
  <2>2. sessions[s].cash = gained - HintPenalty * sessions[s].hints
    BY DEF Balanced
  <2>. HIDE DEF gained
  <2>3. sessions[s].cash - HintPenalty = gained - HintPenalty * (sessions[s].hints + 1)
    <3>1. HintPenalty * (sessions[s].hints + 1) = HintPenalty * sessions[s].hints + HintPenalty
      BY <2>1
    <3>. QED  BY <2>1, <2>2, <3>1
  <2>4. Balanced(HintedRow(s), rounds[s])
    BY <2>3, NewRows DEF Balanced, gained
  <2>. QED  BY <1>4, <1>6, <2>4, NewRows DEF Hinted
<1>7. ASSUME NEW s \in DOMAIN sessions, NEW result \in Result, Submitted(s, result)  PROVE Goal
  <2>1. PICK round : round = [number |-> sessions[s].current_round + 1, result |-> result]
    OBVIOUS
  <2>2. round \in Round /\ round.number = sessions[s].current_round + 1
    BY <1>1, <2>1 DEF Round, Row
  <2>3. rounds' = [rounds EXCEPT ![s] = Append(@, round)] /\ sessions' = sessions
    BY <1>7, <2>1 DEF Submitted
  <2>4. Balanced(sessions[s], rounds'[s])
    <3>1. /\ Len(rounds'[s]) = Len(rounds[s]) + 1
          /\ DOMAIN rounds'[s] = DOMAIN rounds[s] \union {Len(rounds[s]) + 1}
          /\ rounds'[s][Len(rounds[s]) + 1] = round
          /\ \A i \in DOMAIN rounds[s] : rounds'[s][i] = rounds[s][i]
      BY <2>2, <2>3, RoundAdded
    <3>2. PICK row, log, new : row = sessions[s] /\ log = rounds[s] /\ new = rounds'[s]
      OBVIOUS
    <3>3. row \in Row /\ log \in Seq(Round) /\ Balanced(row, log)
      BY <1>1, <3>2
    <3>4. /\ Len(new) = Len(log) + 1 /\ DOMAIN new = DOMAIN log \union {Len(log) + 1}
          /\ new[Len(log) + 1] = round /\ round.number = row.current_round + 1
          /\ \A i \in DOMAIN log : new[i] = log[i]
      BY <2>2, <3>1, <3>2
    <3>5. Balanced(row, new)
      BY <3>3, <3>4, BalancedLogged, SMTT(30)
    <3>. QED  BY <3>2, <3>5
  <2>5. \A t \in DOMAIN sessions \ {s} : rounds'[t] = rounds[t]
    BY <2>2, <2>3, RoundAdded
  <2>. QED  BY <2>3, <2>4, <2>5
<1>8. ASSUME NEW s \in DOMAIN sessions, NEW row \in Row, Written(s, row)  PROVE Goal
  <2>1. PICK last : last = rounds[s][Len(rounds[s])]
    OBVIOUS
  <2>2. /\ row.current_round = sessions[s].current_round + 1 /\ Len(rounds[s]) > 0
        /\ last.number = row.current_round /\ row.hints = sessions[s].hints
        /\ row.position = sessions[s].position + PositionGain(last.result)
        /\ row.cash = sessions[s].cash + CashGain(last.result)
        /\ sessions' = [sessions EXCEPT ![s] = row] /\ rounds' = rounds
    BY <1>8, <2>1 DEF Written, Pending
  <2>3. Balanced(row, rounds[s])
    BY <1>1, <2>1, <2>2, BalancedCounted, ZenonT(40)
  <2>. QED  BY <1>4, <2>2, <2>3
<1>9. Goal
  <2>. HIDE DEF Goal
  <2>. QED  BY <1>2, <1>3, <1>5, <1>6, <1>7, <1>8, Effects
<1>. QED  BY <1>9

\* Game.LedgerExact: position and cash are what the counted rounds of the log
\* add up to, each once, less the hints, whatever is lost or repeated.
THEOREM LedgerCorrect == GameSpec => []LedgerExact
<1>. DEFINE All == \A s \in DOMAIN sessions : Balanced(sessions[s], rounds[s])
<1>1. GameInit => All
  BY DEF GameInit
<1>2. GameInv /\ All /\ [GameNext]_gameVars => All'
  BY LedgerStep
<1>3. All => LedgerExact
  BY DEF LedgerExact, Balanced, CountedIn, PositionsOf, CashOf, Counted, PositionGains, CashGains
<1>. QED  BY <1>1, <1>2, <1>3, GameInvariant, PTL DEF GameSpec
=============================================================================

-------------------------------- MODULE Game --------------------------------
(***************************************************************************)
(* The practice game: GameManager.h on the game_sessions and game_rounds   *)
(* tables.  Handlers run on the I/O thread; the statements of one are not  *)
(* in a transaction, so the process may die between them.                  *)
(*                                                                         *)
(* What a handler does up to its first write is one step: it has no effect *)
(* before.  A session is its place in the table (AUTOINCREMENT ids).       *)
(***************************************************************************)
EXTENDS Accounts, MarketMakerJudge, FiniteSetsExt

CONSTANTS
    Scenarios,      \* the scenario bank
    Category,       \* the category of each scenario
    TrueValue,      \* its hidden value
    HintCount,      \* how many hints it has
    Categories,     \* what clients ask for; AnyCategory asks for none
    AnyCategory,
    MaxRounds,      \* default_max_rounds
    HintPenalty,    \* hint_penalty
    Epsilons,       \* the values noise_epsilon may be configured to
    Prices,         \* bound: the bids and asks that are quoted
    MaxSessions     \* bound: how many sessions are started

ASSUME GameAssumption ==
    /\ TrueValue \in [Scenarios -> Int] /\ HintCount \in [Scenarios -> Nat]
    /\ MaxRounds \in Nat \ {0} /\ HintPenalty \in Nat
    /\ Epsilons \subseteq Nat /\ Prices \subseteq Int
    /\ MaxSessions \in Nat

VARIABLES
    sessions,       \* game_sessions
    rounds,         \* game_rounds, per session
    epsilon         \* noise_epsilon

tables == <<sessions, rounds>>
gameVars == <<accountVars, tables, epsilon>>
atRest == <<users, starter, tokens, crashes, epsilon>>

Session(u, scenario) ==
    [user |-> u, scenario |-> scenario, current_round |-> 0, position |-> 0,
     cash |-> 0, hints |-> 0, status |-> "active"]

\* What the rest of a handler has to do.
Creating(u, category) == [op |-> "create", user |-> u, category |-> category]
Updating(s, row) == [op |-> "update", session |-> s, row |-> row]
Ending(s) == [op |-> "end", session |-> s]

\* Mutant of PositionGain: the interviewer's gain instead of the player's.
InterviewerGain(result) ==
    CASE result.verdict = "BUY" -> 1 [] result.verdict = "SELL" -> -1 [] OTHER -> 0

\* Only fills change position and cash; unit_size is 1.
PositionGain(result) ==
    CASE result.verdict = "BUY" -> -1 [] result.verdict = "SELL" -> 1 [] OTHER -> 0
CashGain(result) == -PositionGain(result) * result.price

GameInit ==
    /\ AccountsInit
    /\ sessions = <<>> /\ rounds = <<>>
    /\ epsilon \in Epsilons

Active(u) == {s \in DOMAIN sessions : sessions[s].user = u /\ sessions[s].status = "active"}

\* pick_scenario: any of the category.
Pool(category) == {c \in Scenarios : category \in {AnyCategory, Category[c]}}

\* Mutant of EndActive: the session stays active.
EndActiveNot(u, category) ==
    /\ Authenticated(u)
    /\ Active(u) # {} /\ Len(sessions) < MaxSessions
    /\ call' = Creating(u, category)
    /\ UNCHANGED <<atRest, tables>>

\* start_session with force_new, while a session is active.
EndActive(u, category) ==
    /\ Authenticated(u)
    /\ Active(u) # {} /\ Len(sessions) < MaxSessions
    /\ sessions' = [sessions EXCEPT ![Max(Active(u))].status = "ended"]
    /\ call' = Creating(u, category)
    /\ UNCHANGED <<atRest, rounds>>

\* create_game_session, after that or when none was active; without
\* force_new an active session is only shown again.
Create(u, category) ==
    /\ \/ Authenticated(u) /\ Active(u) = {} /\ Len(sessions) < MaxSessions
       \/ call = Creating(u, category)
    /\ \E scenario \in Pool(category) : sessions' = Append(sessions, Session(u, scenario))
    /\ rounds' = Append(rounds, <<>>)
    /\ call' = Idle
    /\ UNCHANGED atRest

\* No scenario of that category: an error, after the old session was ended.
CreateFails ==
    /\ call.op = "create" /\ Pool(call.category) = {}
    /\ call' = Idle
    /\ UNCHANGED <<atRest, tables>>

\* Mutant of Playing: the status is not looked at.
PlayingAny(u, s) == Authenticated(u) /\ sessions[s].user = u

\* require_active_session.
Playing(u, s) ==
    /\ Authenticated(u)
    /\ sessions[s].user = u /\ sessions[s].status = "active"

\* Mutant of NextNumber: rounds are numbered by the log, not by the row.
NextInLog(s) == Len(rounds[s]) + 1

\* new_round_number.
NextNumber(s) == sessions[s].current_round + 1

\* submit_quote up to append_game_round; a crossed quote is an error.
SubmitQuote(u, s, bid, ask, trade) ==
    LET row == sessions[s]
        result == JudgeQuote(bid, ask, TrueValue[row.scenario], epsilon, trade)
        number == NextNumber(s)
    IN  /\ Playing(u, s)
        /\ result # Invalid
        /\ rounds' = [rounds EXCEPT ![s] = Append(@, [number |-> number, result |-> result])]
        /\ call' = Updating(s, [row EXCEPT !.current_round = number,
                                           !.position = @ + PositionGain(result),
                                           !.cash = @ + CashGain(result)])
        /\ UNCHANGED <<atRest, sessions>>

\* Mutant of GameOver: one round too many.
GameOverLate(row) == row.current_round > MaxRounds

GameOver(row) == row.current_round >= MaxRounds

\* Mutant of UpdateState: the position is not written.
UpdateStateCashOnly ==
    /\ call.op = "update"
    /\ sessions' = [sessions EXCEPT ![call.session] = [call.row EXCEPT !.position = 0]]
    /\ call' = IF GameOver(call.row) THEN Ending(call.session) ELSE Idle
    /\ UNCHANGED <<atRest, rounds>>

\* update_game_session_state, with the values computed from the row as read.
UpdateState ==
    /\ call.op = "update"
    /\ sessions' = [sessions EXCEPT ![call.session] = call.row]
    /\ call' = IF GameOver(call.row) THEN Ending(call.session) ELSE Idle
    /\ UNCHANGED <<atRest, rounds>>

\* end_game_session after the last round.
EndLastRound ==
    /\ call.op = "end"
    /\ sessions' = [sessions EXCEPT ![call.session].status = "ended"]
    /\ call' = Idle
    /\ UNCHANGED <<atRest, rounds>>

\* Mutant of RequestHint: one hint too many.
RequestHintBeyond(u, s) ==
    /\ Playing(u, s)
    /\ sessions[s].hints <= HintCount[sessions[s].scenario]
    /\ sessions' = [sessions EXCEPT ![s].hints = @ + 1, ![s].cash = @ - HintPenalty]
    /\ UNCHANGED <<atRest, call, rounds>>

\* request_hint: hints are revealed in order, so their number says which.
RequestHint(u, s) ==
    /\ Playing(u, s)
    /\ sessions[s].hints < HintCount[sessions[s].scenario]
    /\ sessions' = [sessions EXCEPT ![s].hints = @ + 1, ![s].cash = @ - HintPenalty]
    /\ UNCHANGED <<atRest, call, rounds>>

\* end_session.
EndSession(u, s) ==
    /\ Playing(u, s)
    /\ sessions' = [sessions EXCEPT ![s].status = "ended"]
    /\ UNCHANGED <<atRest, call, rounds>>

GameNext ==
    \/ AccountsNext /\ UNCHANGED <<tables, epsilon>>
    \/ \E u \in Users, category \in Categories : EndActive(u, category) \/ Create(u, category)
    \/ CreateFails
    \/ \E u \in Users, s \in DOMAIN sessions, bid \in Prices, ask \in Prices, trade \in BOOLEAN :
          SubmitQuote(u, s, bid, ask, trade)
    \/ UpdateState
    \/ EndLastRound
    \/ \E u \in Users, s \in DOMAIN sessions : RequestHint(u, s) \/ EndSession(u, s)

GameSpec == GameInit /\ [][GameNext]_gameVars

-----------------------------------------------------------------------------
(* Properties.                                                             *)

GameTypeOK ==
    /\ users \subseteq Users /\ tokens \subseteq users
    /\ starter \in [Users -> 0 .. FullStarter]
    /\ sessions \in Seq([user : users, scenario : Scenarios, current_round : Nat,
                         position : Int, cash : Int, hints : Nat,
                         status : {"active", "ended"}])
    /\ DOMAIN rounds = DOMAIN sessions
    /\ \A s \in DOMAIN sessions : sessions[s].hints <= HintCount[sessions[s].scenario]

\* A user never has two active sessions, also when start_session dies between
\* ending the old one and creating the new one: get_active_game_session would
\* show only one of them.
OneActiveSession == \A u \in Users : Cardinality(Active(u)) <= 1

\* The log has every round that the row of a session counts, and at most one
\* that it does not count yet; each death of the process may have left one
\* more copy of a round in it, that of a quote whose effect was lost.
RoundsComplete ==
    \A s \in DOMAIN sessions :
        LET played == sessions[s].current_round
            logged == {rounds[s][i].number : i \in DOMAIN rounds[s]}
        IN  /\ logged \in {1 .. played, 1 .. played + 1}
            /\ Len(rounds[s]) <= played + crashes + (IF call.op = "update" THEN 1 ELSE 0)

\* Position and cash of a session are the sum of the rounds it counts, each
\* by the last copy in the log, and of the hints paid for: whatever is lost or
\* repeated when the process dies, a round counts once or not at all.
Counted(s) ==
    {i \in DOMAIN rounds[s] :
        /\ rounds[s][i].number <= sessions[s].current_round
        /\ \A j \in DOMAIN rounds[s] : j > i => rounds[s][j].number # rounds[s][i].number}
PositionGains(s) == [i \in DOMAIN rounds[s] |-> PositionGain(rounds[s][i].result)]
CashGains(s) == [i \in DOMAIN rounds[s] |-> CashGain(rounds[s][i].result)]
LedgerExact ==
    \A s \in DOMAIN sessions :
        /\ sessions[s].position = SumFunctionOnSet(PositionGains(s), Counted(s))
        /\ sessions[s].cash = SumFunctionOnSet(CashGains(s), Counted(s))
                                - HintPenalty * sessions[s].hints

\* A session ends with its last round.  A death between the update and the
\* end leaves it active, and the next quote plays one round too many.
NoOvertime ==
    \A s \in DOMAIN sessions :
        sessions[s].current_round
            + (IF sessions[s].status = "active" /\ call = Idle THEN 1 ELSE 0)
          <= MaxRounds + crashes

\* MarketMakerJudge.h:47-49: the interviewer only trades with a real edge.
\* So marked to the true value a player has at most what the noise band
\* grants per round, less the hints.
NoFreeLunch ==
    \A s \in DOMAIN sessions :
        LET row == sessions[s]
        IN  row.cash + row.position * TrueValue[row.scenario]
              <= epsilon * row.current_round - HintPenalty * row.hints

\* Nothing is played, revealed or paid in a session once it has ended.
EndedIsFinal ==
    [][\A s \in DOMAIN sessions :
          sessions[s].status = "ended" => sessions'[s] = sessions[s]]_gameVars
=============================================================================

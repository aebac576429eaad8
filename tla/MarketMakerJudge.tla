-------------------------- MODULE MarketMakerJudge --------------------------
(***************************************************************************)
(* MarketMakerJudge.h: how the interviewer of the practice game answers a  *)
(* quote, as a function of the quote, the hidden true value, the half      *)
(* width of the noise band and the coin that is tossed inside the band.    *)
(* Prices are integers: the code only subtracts and compares them.         *)
(***************************************************************************)
EXTENDS Integers

Abs(n) == IF n < 0 THEN -n ELSE n

\* JudgeResult; a price is only meant with BUY and SELL.
Buy(price) == [verdict |-> "BUY", price |-> price]
Sell(price) == [verdict |-> "SELL", price |-> price]
Pass == [verdict |-> "PASS", price |-> 0]
Invalid == [verdict |-> "INVALID", price |-> 0]

\* judge_quote.  trade is noise_draw >= 0.5.
JudgeQuote(bid, ask, true_value, epsilon, trade) ==
    LET ask_edge == true_value - ask
        bid_edge == bid - true_value
        near_ask == Abs(ask_edge) <= epsilon
        near_bid == Abs(bid_edge) <= epsilon
        noisy == epsilon > 0 /\ (near_ask \/ near_bid)
        buys == (IF noisy THEN near_ask ELSE ask_edge > 0) /\ ask_edge >= bid_edge
        sells == IF noisy THEN near_bid ELSE bid_edge > 0
    IN  IF bid > ask THEN Invalid
        ELSE IF noisy /\ ~ trade THEN Pass
        ELSE IF buys THEN Buy(ask)
        ELSE IF sells THEN Sell(bid)
        ELSE Pass
=============================================================================

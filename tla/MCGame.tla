------------------------------- MODULE MCGame -------------------------------
EXTENDS Game, TLC

MCCategory == [c \in Scenarios |-> "estimation"]
MCTrueValue == [c \in Scenarios |-> 1]
MCHintCount == [c \in Scenarios |-> 1]
UserSymmetry == Permutations(Users)
=============================================================================

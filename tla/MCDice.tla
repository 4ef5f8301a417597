------------------------------- MODULE MCDice -------------------------------
(* Numbers with and without a sign, a die, dice that do not exist, an      *)
(* operator of each level and both parentheses.                            *)
EXTENDS Dice

MCOperators == AllOperators
MCWords == {<<"2">>, <<"-", "2">>, <<"1", "d", "6">>, <<"1", "d", "0">>,
            <<"-">>, <<"*">>, <<"^">>, <<"(">>, <<")">>}
=============================================================================

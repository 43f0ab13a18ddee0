---------------------------- MODULE MCValidator ----------------------------
EXTENDS Validator

\* Miner 0 always scores, miner 1 does or does not, miner 2 never.
OneReliable == [m \in Miners |-> IF m = 0 THEN {Scale} ELSE IF m = 1 THEN {0, Scale} ELSE {0}]

\* No miner is reliable.
NoneReliable == [m \in Miners |-> {0, Scale}]
=============================================================================

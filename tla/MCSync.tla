------------------------------- MODULE MCSync -------------------------------
(***************************************************************************)
(* Two nodes that mined alone before they find each other, one on each     *)
(* branch of                                                               *)
(*      0 -- 4 -- 3 -- 2        0 -- 1                                     *)
(* No transactions; all blocks are found.                                  *)
(***************************************************************************)
EXTENDS BlockchainCommunity

CONSTANTS n1, n2

MCNode == {n1, n2}
MCHash == 0..4
MCMined == 1..4
MCPrev == [h \in MCHash |-> CASE h = 3 -> 4 [] h = 2 -> 3 [] OTHER -> 0]

MCTx == {}

NoRestart == [n \in MCNode |-> 0]
OneRestart == [n \in MCNode |-> IF n = n2 THEN 1 ELSE 0]

Of(h, height) == [hash |-> h, height |-> height, body |-> "full"]
Branch == [n \in Node |-> {GenesisBlock} \cup
             IF n = n1 THEN {Of(4, 1), Of(3, 2), Of(2, 3)} ELSE {Of(1, 1)}]

MCFairSpec == InitWith(Branch, [n \in Node |-> {}]) /\ [][Next]_vars /\ Fairness
=============================================================================

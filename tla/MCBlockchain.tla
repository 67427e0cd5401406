---------------------------- MODULE MCBlockchain ----------------------------
(***************************************************************************)
(* A small tree for TLC: genesis 0 with two branches.                      *)
(*      0 -- 5 -- 4 -- 6        0 -- 2 -- 3         1's parent 7 is absent *)
(* The smaller hash 2 beats 5 at height 1 and 3 beats 4 at height 2, so    *)
(* the tip changes branches at every height; 8 is no valid header.         *)
(***************************************************************************)
EXTENDS Blockchain

MCHash == 0..8
MCMined == 0..7
MCPrev == [h \in MCHash |-> CASE h \in {2, 5} -> 0
                              [] h = 4 -> 5
                              [] h = 6 -> 4
                              [] h = 3 -> 2
                              [] h = 1 -> 7
                              [] OTHER -> 8]

Of(h, n, body) == [hash |-> h, height |-> n, body |-> body]

Honest == {Of(5, 1, "full"), Of(2, 1, "full"), Of(4, 2, "full"),
           Of(3, 2, "full"), Of(6, 3, "full"), Of(1, 2, "full")}

\* The other copies that add_block has an answer for (is_valid, the height test and
\* their tests): headers without transactions, a copy that claims a wrong height, one
\* with a foreign body, one without a valid header.  BlockchainCommunity refuses all
\* of them but the wrong height before it calls add_block.
Odd == {Of(2, 1, "header"), Of(6, 3, "header"), Of(4, 1, "full"), Of(3, 2, "foreign"),
        Of(8, 1, "full")}

MCOffered == Honest \cup Odd
=============================================================================

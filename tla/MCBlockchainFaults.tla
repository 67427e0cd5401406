-------------------------- MODULE MCBlockchainFaults --------------------------
(* Genesis 0 with two branches, one of them forked at its end:               *)
(*      0 -- 5 -- 4 -- 6      4 -- 1      0 -- 2 -- 3                        *)
EXTENDS BlockchainFaults

MCHash == 0..7
MCPrev == [h \in MCHash |-> CASE h \in {2, 5} -> 0
                              [] h = 4 -> 5
                              [] h \in {1, 6} -> 4
                              [] h = 3 -> 2
                              [] OTHER -> 7]
Of(h, n) == [hash |-> h, height |-> n, body |-> "full"]
MCOffered == {Of(5, 1), Of(2, 1), Of(4, 2), Of(3, 2), Of(6, 3), Of(1, 3)}
=============================================================================

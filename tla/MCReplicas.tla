----------------------------- MODULE MCReplicas -----------------------------
(* Two branches of equal length from genesis 0, one of them with a fork at its *)
(* end:  0 -- 5 -- 4,  0 -- 2 -- 3  and  2 -- 6.  The last two copies are refused: *)
(* one with a foreign body, one on genesis that claims a wrong height.         *)
EXTENDS Replicas, TLC

MCHash == 0..6
MCPrev == [h \in MCHash |-> CASE h \in {2, 5} -> 0
                              [] h = 4 -> 5
                              [] h \in {3, 6} -> 2
                              [] OTHER -> 1]
Of(h, n) == [hash |-> h, height |-> n, body |-> "full"]
MCOffered == {Of(5, 1), Of(2, 1), Of(4, 2), Of(3, 2), Of(6, 2),
              [Of(5, 1) EXCEPT !.body = "foreign"], Of(5, 3)}

\* What the theorems suppose of the copies is true of these.
ASSUME CopiesAgree == OneCopyEach /\ PoolHasRoom

Symmetry == Permutations(Node)
=============================================================================

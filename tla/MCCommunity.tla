----------------------------- MODULE MCCommunity -----------------------------
(***************************************************************************)
(* Two nodes with a transaction and two branches,                          *)
(*      0 -- 3 -- 2        0 -- 1                                          *)
(* so that the tip changes branches at both heights, and a node on block 1 *)
(* gets block 2 as an orphan.  The nodes have found each other.            *)
(***************************************************************************)
EXTENDS BlockchainCommunity, TLC

MCHash == 0..3
MCMined == 1..3
MCPrev == [h \in MCHash |-> IF h = 2 THEN 3 ELSE 0]

MCTx == {1}

NoRestart == [n \in Node |-> 0]

Connected == InitWith([n \in Node |-> {GenesisBlock}], [n \in Node |-> Node \ {n}])

MCSpec == Connected /\ [][Next]_vars

\* AddAll is what add leaves, called for one transaction after the other.
Pool(size) == INSTANCE Mempool WITH MaxSize <- size, Tx <- 1..5
ASSUME AddAllIsAdds ==
    \A size \in 1..3, pool_, S \in SUBSET (1..5) : Cardinality(pool_) <= size =>
        /\ Pool(size)!AddAll(pool_, {}) = pool_
        /\ \A t \in 1..5 : Pool(size)!AddAll(pool_, S \cup {t}) =
                                Pool(size)!Add(Pool(size)!AddAll(pool_, S), t)

Symmetry == Permutations(Node)
=============================================================================

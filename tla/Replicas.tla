------------------------------ MODULE Replicas ------------------------------
(***************************************************************************)
(* Nodes, each with its own Blockchain, that are handed the same blocks in *)
(* different orders, some of them several times.  chain.py claims          *)
(* (_chain_score, _select_best_tip) that they converge on the same tip     *)
(* "regardless of the order blocks arrived in".                            *)
(*                                                                         *)
(* got records which copies a node was handed and did not refuse: no part  *)
(* of the code reads it.                                                   *)
(***************************************************************************)
EXTENDS Chain

CONSTANTS
    Node,       \* the nodes
    Offered     \* the copies that they are handed

ASSUME ReplicasAssumption == Offered \in SUBSET Copy

VARIABLES chain, got

vars == <<chain, got>>

Init ==
    /\ chain = [n \in Node |-> Started({GenesisBlock})]
    /\ got = [n \in Node |-> {}]

\* Copies that add_block refuses whatever it was handed before.
Refused(c, b) ==
    ~ IsValid(b) \/ \E p \in Parents(c.blocks, b) : b.height # p.height + 1

Taken(c, b) == IF Refused(c, b) THEN {} ELSE {b}

\* add_block(b) on node n; an invalid block is rejected before anything else.
Hand(n, b) ==
    /\ chain' = IF IsValid(b) THEN [chain EXCEPT ![n] = AddBlock(@, b).chain] ELSE chain
    /\ got' = [got EXCEPT ![n] = @ \cup Taken(chain[n], b)]

Next == \E n \in Node, b \in Offered : Hand(n, b)

Spec == Init /\ [][Next]_vars

-----------------------------------------------------------------------------
(* When the order may not matter *)

\* The copies that may enter the tree: a child of genesis is refused at another height than 1.
Sound == {b \in Offered : /\ IsValid(b)
                          /\ b.hash # Genesis
                          /\ Prev[b.hash] = Genesis => b.height = 1}

\* There is one such copy of a block, and it claims one height more than its parent's.
\* Of two copies with different bodies the first to come stays in the tree, and a wrong
\* height is noticed only when the parent is there.
OneCopyEach ==
    \A b, c \in Sound : /\ b.hash = c.hash => b = c
                        /\ Prev[c.hash] = b.hash => c.height = b.height + 1

\* The orphan pool has room for all blocks that can be orphans: _add_orphan drops none.
PoolHasRoom ==
    LET late == {b \in Sound : Prev[b.hash] # Genesis} IN
    IsFiniteSet(late) /\ Cardinality(late) <= MaxOrphans

-----------------------------------------------------------------------------
\* Two nodes that were handed the same copies, in any order, hold the same tree, park the same
\* orphans and are on the same main chain (_chain_score: "converge on the same tip").
OrderDoesNotMatter == \A n, m \in Node : got[n] = got[m] => chain[n] = chain[m]

\* More copies never lead to a worse tip: a node that was handed everything
\* that another one was, and more, is not behind it.
MoreIsNotWorse ==
    \A n, m \in Node :
        got[n] \subseteq got[m] => ~ Better(Tip(chain[n].main), Tip(chain[m].main))
=============================================================================

-------------------------------- MODULE Chain --------------------------------
(***************************************************************************)
(* class Blockchain of blockchain/chain.py as a function of its state: what*)
(* add_block makes of the tree, the main chain and the orphan pool.  The   *)
(* modules of several nodes (Replicas, BlockchainCommunity) keep one such  *)
(* record per node.                                                        *)
(***************************************************************************)
EXTENDS BlockTree

CONSTANT MaxOrphans     \* max_orphans

ASSUME ChainAssumption == MaxOrphans \in Nat

\* _blocks, _chain and _orphans.
ChainState == [blocks : SUBSET Block, main : SUBSET Block,
               orphans : {S \in SUBSET Block : Cardinality(S) <= MaxOrphans}]

\* __init__ on a storage whose main chain is S.
Started(S) == [blocks |-> S, main |-> S, orphans |-> {}]

Knows(c, h) == h \in Hashes(c.blocks) \cup Hashes(c.orphans)

\* Mutant of Result: the tip is said to change only when the chain grows.
ResultByHeight(c, added, is_orphan, was) ==
    [chain |-> c, added |-> added, is_orphan |-> is_orphan,
     extended_tip |-> Tip(c.main).height > Tip(was).height,
     reverted |-> Missing(was, c.main), applied |-> Missing(c.main, was)]

Result(c, added, is_orphan, was) ==
    [chain |-> c, added |-> added, is_orphan |-> is_orphan,
     extended_tip |-> Tip(c.main).hash # Tip(was).hash,
     reverted |-> Missing(was, c.main), applied |-> Missing(c.main, was)]

\* Mutant of Selected: the chain is never reorganised.
SelectedExtension(c) ==
    LET best == Best(c.blocks) IN
    IF Extends(best, Tip(c.main)) THEN [c EXCEPT !.main = PutByHeight(@, best)] ELSE c

\* _select_best_tip: the chain after the tip was chosen among the blocks.
Selected(c) ==
    LET best == Best(c.blocks) IN
    IF ~ Better(best, Tip(c.main)) THEN c
    ELSE [c EXCEPT !.main = IF Extends(best, Tip(c.main)) THEN PutByHeight(c.main, best)
                                                          ELSE Walk(c.blocks, best)]

\* Mutant of Parked: the pool has no bound.
AlwaysParked(c, b) == [c EXCEPT !.orphans = @ \cup {b}]

\* _add_orphan: a full pool takes no more.
Parked(c, b) ==
    IF Cardinality(c.orphans) >= MaxOrphans THEN c ELSE [c EXCEPT !.orphans = @ \cup {b}]

\* The ways through add_block for a block that is valid.
AddBlock(c, b) ==
    LET parents == Parents(c.blocks, b) IN
    IF Knows(c, b.hash) THEN Result(Selected(c), FALSE, FALSE, c.main)
    ELSE IF parents = {} THEN
        Result(Parked(c, b), FALSE, TRUE, c.main)
    ELSE IF \E p \in parents : b.height # p.height + 1 THEN Result(c, FALSE, FALSE, c.main)
    ELSE Result(Selected([c EXCEPT !.blocks = PutByHash(@, Cascade(c.orphans, b)),
                                   !.orphans = StillParked(@, b)]), TRUE, FALSE, c.main)
=============================================================================

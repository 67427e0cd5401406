----------------------------- MODULE Blockchain -----------------------------
(***************************************************************************)
(* class Blockchain of blockchain/chain.py, on one node: the connected     *)
(* tree, the materialised main chain, the orphan pool, and the image of    *)
(* the main chain that the storage holds for the next start.               *)
(*                                                                         *)
(* add_block runs to its end on the event loop, so it is one step.  The    *)
(* storage keeps one record per height (IndexedStorage); its compaction    *)
(* worker may meanwhile replace old records by their headers (Prune).      *)
(***************************************************************************)
EXTENDS BlockTree

CONSTANTS
    Offered,      \* the copies that the network and the miner hand to add_block
    MaxOrphans,   \* max_orphans
    PruneAfter,   \* prune_after
    MaxRestarts   \* bound on the restarts of the process

ASSUME BlockchainAssumption ==
    /\ Offered \in SUBSET Copy
    /\ MaxOrphans \in Nat
    /\ PruneAfter \in Nat
    /\ MaxRestarts \in Nat

VARIABLES
    blocks,     \* _blocks: the connected blocks, keyed by hash
    main,       \* _chain: the main chain, keyed by height
    orphans,    \* _orphans and _orphan_hashes
    disk,       \* the blocks that storage.load() would return
    res,        \* what the last add_block returned
    restarts    \* how often the process restarted

vars == <<blocks, main, orphans, disk, res, restarts>>

TypeOK ==
    /\ blocks  \in SUBSET Block
    /\ main    \in SUBSET Block
    /\ orphans \in SUBSET Block
    /\ disk    \in SUBSET Block
    /\ res     \in AddResult
    /\ restarts \in 0..MaxRestarts

\* __init__ with an empty storage: the genesis block is the chain and is saved.
Init ==
    /\ blocks = {GenesisBlock}
    /\ main = {GenesisBlock}
    /\ orphans = {}
    /\ disk = {GenesisBlock}
    /\ res = NoResult
    /\ restarts = 0

Knows(b) == b.hash \in Hashes(blocks) \cup Hashes(orphans)

-----------------------------------------------------------------------------
\* The three outcomes of _select_best_tip over the connected blocks blks.
KeepTip(blks, added) ==
    /\ ~ Better(Best(blks), Tip(main))
    /\ res' = [NoResult EXCEPT !.added = added]
    /\ UNCHANGED <<main, disk>>

\* Mutant of ExtendTip: the block is not appended to the storage.
ExtendTipInMemory(blks, added) ==
    LET best == Best(blks) IN
    /\ Better(best, Tip(main))
    /\ Extends(best, Tip(main))
    /\ main' = PutByHeight(main, best)
    /\ res' = [NoResult EXCEPT !.added = added, !.extended_tip = TRUE, !.applied = {best}]
    /\ UNCHANGED disk

ExtendTip(blks, added) ==
    LET best == Best(blks) IN
    /\ Better(best, Tip(main))
    /\ Extends(best, Tip(main))
    /\ main' = PutByHeight(main, best)
    /\ disk' = PutByHeight(disk, best)
    /\ res' = [NoResult EXCEPT !.added = added, !.extended_tip = TRUE, !.applied = {best}]

\* Mutant of Reorg: the best block is appended, replace_all is not called.
ReorgAppends(blks, added) ==
    LET best == Best(blks) IN
    /\ Better(best, Tip(main))
    /\ ~ Extends(best, Tip(main))
    /\ main' = Walk(blks, best)
    /\ disk' = PutByHeight(disk, best)
    /\ res' = [NoResult EXCEPT !.added = added, !.extended_tip = TRUE]

Reorg(blks, added) ==
    LET best == Best(blks) IN
    /\ Better(best, Tip(main))
    /\ ~ Extends(best, Tip(main))
    /\ ~ WalkRaises(blks, best)
    /\ main' = Walk(blks, best)
    /\ disk' = Walk(blks, best)
    /\ res' = [NoResult EXCEPT !.added = added, !.extended_tip = TRUE,
                               !.reverted = Missing(main, Walk(blks, best)),
                               !.applied = Missing(Walk(blks, best), main)]

SelectBestTip(blks, added) ==
    KeepTip(blks, added) \/ ExtendTip(blks, added) \/ Reorg(blks, added)

-----------------------------------------------------------------------------
\* add_block(b), one action per way through it.
Reject(b) ==
    /\ ~ IsValid(b)
    /\ res' = NoResult
    /\ UNCHANGED <<blocks, main, orphans, disk>>

Reselect(b) ==
    /\ IsValid(b)
    /\ Knows(b)
    /\ SelectBestTip(blocks, FALSE)
    /\ UNCHANGED <<blocks, orphans>>

\* The result says is_orphan even when the pool is full and b is dropped.
Park(b) ==
    /\ IsValid(b)
    /\ ~ Knows(b)
    /\ Parents(blocks, b) = {}
    /\ orphans' = IF Cardinality(orphans) >= MaxOrphans THEN orphans ELSE orphans \cup {b}
    /\ res' = [NoResult EXCEPT !.is_orphan = TRUE, !.missing_parent = {Prev[b.hash]}]
    /\ UNCHANGED <<blocks, main, disk>>

WrongHeight(b) ==
    /\ IsValid(b)
    /\ ~ Knows(b)
    /\ \E p \in Parents(blocks, b) : b.height # p.height + 1
    /\ res' = NoResult
    /\ UNCHANGED <<blocks, main, orphans, disk>>

Stores(b) ==
    /\ IsValid(b)
    /\ ~ Knows(b)
    /\ \E p \in Parents(blocks, b) : b.height = p.height + 1
    /\ blocks' = PutByHash(blocks, Cascade(orphans, b))
    /\ orphans' = StillParked(orphans, b)

\* Mutant of Connect: the best block is sought before the orphans are adopted.
ConnectThenAdopt(b) == Stores(b) /\ SelectBestTip(PutByHash(blocks, {b}), TRUE)

Connect(b) == Stores(b) /\ SelectBestTip(PutByHash(blocks, Cascade(orphans, b)), TRUE)

AddBlock(b) ==
    /\ Reject(b) \/ Reselect(b) \/ Park(b) \/ WrongHeight(b) \/ Connect(b)
    /\ UNCHANGED restarts

\* The process dies and starts again: only the stored main chain is loaded.
Restart ==
    /\ restarts < MaxRestarts
    /\ restarts' = restarts + 1
    /\ blocks' = disk
    /\ main' = disk
    /\ orphans' = {}
    /\ res' = NoResult
    /\ UNCHANGED disk

\* A pass of the compaction worker drops the bodies of the stored blocks that
\* are PruneAfter or more below the stored tip; the objects in memory keep theirs.
Pruned(b, height) ==
    IF height - b.height >= PruneAfter THEN [b EXCEPT !.body = "header"] ELSE b

Prune ==
    /\ disk' = {Pruned(b, Tip(disk).height) : b \in disk}
    /\ UNCHANGED <<blocks, main, orphans, res, restarts>>

Next ==
    \/ \E b \in Offered : AddBlock(b)
    \/ Restart
    \/ Prune

Spec == Init /\ [][Next]_vars

-----------------------------------------------------------------------------
(* Properties *)

\* The main chain is what the walk from the tip would rebuild: it starts at
\* genesis and every other block sits one above its parent, which is on it too.
MainIsLinked == Linked(main)

\* No connected block scores above the tip, whatever order blocks came in,
\* through adoptions, reorganisations and restarts (_select_best_tip).
TipIsBest == \A b \in blocks : ~ Better(b, Tip(main))

\* Every connected block hangs off genesis through connected blocks of the right
\* heights, the invariant that lets _reorg index _blocks without a check.
TreeIsConnected == Rooted(blocks)

\* An orphan waits only for a block that is really absent, no hash is both
\* connected and parked, and the pool respects its bound (_add_orphan).
OrphansWait ==
    /\ \A o \in orphans : Prev[o.hash] \notin Hashes(blocks)
    /\ Hashes(orphans) \cap Hashes(blocks) = {}
    /\ Cardinality(orphans) <= MaxOrphans

\* What a restart would load is the main chain, up to bodies already pruned.
DiskIsMain == Headers(disk) = Headers(main)

\* The tip never gets worse, neither by a step of add_block nor by a restart.
TipOnlyImproves ==
    [][Tip(main').hash = Tip(main).hash \/ Better(Tip(main'), Tip(main))]_vars

\* AddResult tells the caller exactly how the main chain changed: removing
\* reverted and adding applied yields the new chain, and nothing is in both.
ResultIsTheDifference ==
    [][\A b \in Offered : AddBlock(b) =>
         /\ main' = (main \ res'.reverted) \cup res'.applied
         /\ res'.reverted \subseteq main
         /\ res'.applied \cap main = {}
         /\ res'.extended_tip <=> main' # main]_vars

\* The modules of several nodes keep a chain record per node and apply Chain's function
\* to it.  add_block as it runs here, with its append or replace_all, makes of the chain
\* what that function says and tells the caller the same.
Fn == INSTANCE Chain
AddBlockIsFunction ==
    [][\A b \in Offered : IsValid(b) /\ AddBlock(b) =>
         LET r == Fn!AddBlock([blocks |-> blocks, main |-> main, orphans |-> orphans], b) IN
         /\ r.chain = [blocks |-> blocks', main |-> main', orphans |-> orphans']
         /\ r.added = res'.added /\ r.is_orphan = res'.is_orphan
         /\ r.extended_tip = res'.extended_tip
         /\ r.reverted = res'.reverted /\ r.applied = res'.applied]_vars

\* The node keeps the promise of BestChain: whatever happens inside, its tip is the
\* best of the headers it has connected, and restarts lose side branches only.
BC == INSTANCE BestChain WITH
         known <- Headers(blocks),
         tip <- <<Tip(main).hash, Tip(main).height>>
IsBestChain == BC!Spec
=============================================================================

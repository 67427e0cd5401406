--------------------------- MODULE BlockchainFaults ---------------------------
(***************************************************************************)
(* Blockchain whose storage may raise.  _select_best_tip and _reorg change *)
(* the tree and the chain in memory before they call storage.append or     *)
(* storage.replace_all, so an exception there (a full disk) leaves memory  *)
(* ahead of the disk, and the process goes on: the event loop only logs it.*)
(***************************************************************************)
EXTENDS Blockchain

CONSTANT MaxFaults      \* bound on the storage calls that raise

ASSUME FaultsAssumption == MaxFaults \in Nat

VARIABLES
    faults,     \* how many storage calls raised
    wentOn      \* history: a block was appended to a disk that was not the chain

faultVars == <<vars, faults, wentOn>>

FaultyInit == Init /\ faults = 0 /\ wentOn = FALSE

\* A step of Blockchain in which the storage works.
Works ==
    /\ Next
    /\ wentOn' = (wentOn \/ Headers(disk') \notin {Headers(disk), Headers(main')})
    /\ UNCHANGED faults

\* The tree b would be selected from: as it is, or with b and its orphans stored.
Tree(b) == IF Knows(b) THEN blocks ELSE PutByHash(blocks, Cascade(orphans, b))

Reaches(b) ==
    IF Knows(b) THEN IsValid(b) /\ UNCHANGED <<blocks, orphans>> ELSE Stores(b)

\* Mutant of StorageRaises: the storage is called before the chain is changed.
StorageRaisesFirst(b) ==
    /\ faults < MaxFaults
    /\ faults' = faults + 1
    /\ Reaches(b)
    /\ Better(Best(Tree(b)), Tip(main))
    /\ res' = NoResult
    /\ UNCHANGED <<main, disk, restarts, wentOn>>

\* append or replace_all raises: nothing is written and add_block returns nothing.
StorageRaises(b) ==
    LET best == Best(Tree(b)) IN
    /\ faults < MaxFaults
    /\ faults' = faults + 1
    /\ Reaches(b)
    /\ Better(best, Tip(main))
    /\ \/ Extends(best, Tip(main)) /\ main' = PutByHeight(main, best)
       \/ /\ ~ Extends(best, Tip(main))
          /\ ~ WalkRaises(Tree(b), best)
          /\ main' = Walk(Tree(b), best)
    /\ res' = NoResult
    /\ UNCHANGED <<disk, restarts, wentOn>>

\* Mutant of WalkFails: the chain is emptied before the walk, not after it.
WalkFailsEmptied(b) ==
    /\ Reaches(b)
    /\ Better(Best(Tree(b)), Tip(main))
    /\ WalkRaises(Tree(b), Best(Tree(b)))
    /\ main' = {GenesisBlock}
    /\ res' = NoResult
    /\ UNCHANGED <<disk, restarts, faults, wentOn>>

\* _reorg meets a block whose parent is not stored: KeyError, the chain stays.
WalkFails(b) ==
    LET best == Best(Tree(b)) IN
    /\ Reaches(b)
    /\ Better(best, Tip(main))
    /\ ~ Extends(best, Tip(main))
    /\ WalkRaises(Tree(b), best)
    /\ res' = NoResult
    /\ UNCHANGED <<main, disk, restarts, faults, wentOn>>

FaultyNext ==
    \/ Works
    \/ \E b \in Offered : StorageRaises(b) \/ WalkFails(b)

FaultySpec == FaultyInit /\ [][FaultyNext]_faultVars

-----------------------------------------------------------------------------
\* A storage fault alone harms nothing: as long as no block was appended on top
\* of an incomplete disk, both the chain in memory and the one a restart would
\* load are linked, and the tip is the best block.
FailStopIsSafe ==
    ~ wentOn => Linked(disk) /\ MainIsLinked /\ TreeIsConnected /\ TipIsBest

\* A broken tree never moves the node to a worse tip while it runs, even when
\* _reorg raises half-way.
RunningTipOnlyImproves ==
    [][restarts' = restarts =>
         Tip(main').hash = Tip(main).hash \/ Better(Tip(main'), Tip(main))]_faultVars

\* _reorg's comment: "Every stored block must connect to genesis".
EveryBlockConnects == TreeIsConnected
=============================================================================

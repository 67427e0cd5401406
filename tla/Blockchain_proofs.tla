-------------------------- MODULE Blockchain_proofs --------------------------
(***************************************************************************)
(* The chain of one node is right for every set of blocks, every order of  *)
(* arrival, every orphan bound and any number of restarts.                 *)
(*                                                                         *)
(* The second half is about a storage that may raise.  Until a block is    *)
(* appended to an incomplete disk everything stays right; after that the   *)
(* tree may be torn, and all that is left is that a running node never     *)
(* takes a worse tip, because every copy still has its true height.        *)
(***************************************************************************)
EXTENDS BlockchainFaults, BlockTree_proofs

\* The inductive invariant.  The safety invariants of Blockchain are not inductive
\* alone: a reorganisation is right because the tree is rooted and has one block
\* per hash, an adoption because orphans are disjoint from the tree, a restart
\* because the disk holds the headers of the main chain, one per height.
IInv ==
    /\ TypeOK
    /\ IsFiniteSet(blocks) /\ IsFiniteSet(orphans) /\ IsFiniteSet(disk)
    /\ UniqueHashes(blocks) /\ UniqueHashes(orphans)
    /\ TreeIsConnected
    /\ main \subseteq blocks
    /\ MainIsLinked
    /\ TipIsBest
    /\ OrphansWait
    /\ \A b, c \in disk : b.height = c.height => b = c
    /\ DiskIsMain

-----------------------------------------------------------------------------
\* _select_best_tip over a rooted tree: the chain afterwards is linked, on the
\* best tip, saved, and differs from the chain before by what the result says.
LEMMA SelectIsRight ==
  ASSUME NEW blks \in SUBSET Block, IsFiniteSet(blks), Rooted(blks), UniqueHashes(blks),
         main \in SUBSET blks, Linked(main),
         disk \in SUBSET Block, IsFiniteSet(disk),
         \A b, c \in disk : b.height = c.height => b = c,
         Headers(disk) = Headers(main),
         NEW added \in BOOLEAN,
         SelectBestTip(blks, added)
  PROVE  /\ main' \in SUBSET blks
         /\ Linked(main')
         /\ \A b \in blks : ~ Better(b, Tip(main'))
         /\ disk' \in SUBSET Block
         /\ IsFiniteSet(disk')
         /\ \A b, c \in disk' : b.height = c.height => b = c
         /\ Headers(disk') = Headers(main')
         /\ res' \in AddResult
         /\ Tip(main') = Tip(main) \/ Better(Tip(main'), Tip(main))
         /\ main' = (main \ res'.reverted) \cup res'.applied
         /\ res'.reverted \subseteq main
         /\ res'.applied \cap main = {}
         /\ res'.extended_tip <=> main' # main
<1> DEFINE best == Best(blks)
           t == Tip(main)
<1>1. blks # {} /\ main # {} /\ IsFiniteSet(main) /\ main \in SUBSET Block
  BY FS_Subset DEF Rooted, Linked
<1>2. best \in blks /\ \A b \in blks : ~ Better(b, best)
  BY <1>1, BestExists
<1>3. t \in main /\ \A b \in main : b.height <= t.height
  BY <1>1, TipExists
<1>4. /\ best \in Block /\ t \in Block /\ t \in blks
  BY <1>1, <1>2, <1>3
<1> HIDE DEF best, t
<1>5. CASE KeepTip(blks, added)
  <2>1. ~ Better(best, t)
    BY <1>5 DEF KeepTip, best, t
  <2>2. main' = main /\ disk' = disk
    BY <1>5 DEF KeepTip
  <2>3. \A b \in blks : ~ Better(b, t)
    BY <1>2, <1>4, <2>1, BetterIsAnOrder
  <2>4. res' = [NoResult EXCEPT !.added = added]
    BY <1>5 DEF KeepTip
  <2>5. res' \in AddResult /\ res'.reverted = {} /\ res'.applied = {} /\ res'.extended_tip = FALSE
    BY <2>4 DEF AddResult, NoResult
  <2> QED BY <2>2, <2>3, <2>5 DEF t
<1>6. CASE ExtendTip(blks, added)
  <2>1. /\ Better(best, t)
        /\ Prev[best.hash] = t.hash /\ best.height = t.height + 1
        /\ main' = PutByHeight(main, best)
        /\ disk' = PutByHeight(disk, best)
        /\ res' = [NoResult EXCEPT !.added = added, !.extended_tip = TRUE, !.applied = {best}]
    BY <1>6 DEF ExtendTip, Extends, best, t
  <2>2. /\ main' = main \cup {best}
        /\ Linked(main')
        /\ Tip(main') = best
        /\ best \notin main
    BY <1>1, <1>4, <2>1, ExtendedIsChain DEF t
  <2>3. \A c \in disk : c.height < best.height
    <3> SUFFICES ASSUME NEW c \in disk PROVE c.height < best.height
      OBVIOUS
    <3>1. <<c.hash, c.height>> \in Headers(main)
      BY DEF Headers
    <3>2. PICK b \in main : b.height = c.height
      BY <3>1 DEF Headers
    <3> QED BY <3>2, <1>1, <1>3, <1>4, <2>1, BlockTypes
  <2>4. disk' = disk \cup {best}
    BY <2>1, <2>3, <1>4, BlockTypes DEF PutByHeight
  <2>5. IsFiniteSet(disk')
    BY <2>4, FS_AddElement
  <2>6. \A b, c \in disk' : b.height = c.height => b = c
    BY <2>3, <2>4, <1>4, BlockTypes
  <2>7. Headers(disk') = Headers(main')
    BY <2>2, <2>4 DEF Headers
  <2>8. /\ res' \in AddResult
        /\ res'.reverted = {} /\ res'.applied = {best} /\ res'.extended_tip = TRUE
    BY <2>1, <1>4 DEF AddResult, NoResult
  <2>9. \A b \in blks : ~ Better(b, Tip(main'))
    BY <1>2, <2>2
  <2>10. Better(Tip(main'), Tip(main))
    BY <2>1, <2>2 DEF t
  <2>11. /\ main' \in SUBSET blks
         /\ main' = (main \ res'.reverted) \cup res'.applied
         /\ res'.reverted \subseteq main
         /\ res'.applied \cap main = {}
         /\ res'.extended_tip <=> main' # main
    BY <2>2, <2>8, <1>2
  <2> QED BY <2>2, <2>4, <2>5, <2>6, <2>7, <2>8, <2>9, <2>10, <2>11, <1>4
<1>7. CASE Reorg(blks, added)
  <2> DEFINE W == Walk(blks, best)
  <2>1. /\ Better(best, t)
        /\ main' = W /\ disk' = W
        /\ res' = [NoResult EXCEPT !.added = added, !.extended_tip = TRUE,
                               !.reverted = Missing(main, W), !.applied = Missing(W, main)]
    BY <1>7 DEF Reorg, best, t
  <2>2. /\ W \in SUBSET blks
        /\ Linked(W)
        /\ best \in W
        /\ \A b \in W : b.height <= best.height
    BY <1>2, WalkIsChain
  <2> HIDE DEF W
  <2>3. Tip(W) = best
    BY <2>2, TipIs DEF Linked
  <2>4. IsFiniteSet(W)
    BY <2>2, FS_Subset
  <2>5. Missing(main, W) = main \ W /\ Missing(W, main) = W \ main
    BY <2>2 DEF Missing, UniqueHashes
  <2>6. /\ res' \in AddResult
        /\ res'.reverted = main \ W /\ res'.applied = W \ main /\ res'.extended_tip = TRUE
    BY <2>1, <2>2, <2>5, <1>1 DEF AddResult, NoResult
  <2>7. W # main
    BY <2>1, <2>3, <1>4, BetterIsAnOrder DEF t
  <2>8. \A b \in blks : ~ Better(b, Tip(main'))
    BY <1>2, <2>1, <2>3
  <2>9. Better(Tip(main'), Tip(main))
    BY <2>1, <2>3 DEF t
  <2>10. \A b, c \in disk' : b.height = c.height => b = c
    BY <2>1, <2>2 DEF Linked
  <2>11. /\ main' = (main \ res'.reverted) \cup res'.applied
         /\ res'.reverted \subseteq main
         /\ res'.applied \cap main = {}
         /\ res'.extended_tip <=> main' # main
    BY <2>1, <2>6, <2>7
  <2> QED BY <2>1, <2>2, <2>4, <2>6, <2>8, <2>9, <2>10, <2>11
<1> QED BY <1>5, <1>6, <1>7 DEF SelectBestTip

-----------------------------------------------------------------------------
\* What every way through add_block(b) that gets to _select_best_tip is given.
LEMMA ConnectIsRight ==
  ASSUME IInv, NEW b \in Offered, Connect(b)
  PROVE  LET new == PutByHash(blocks, Cascade(orphans, b)) IN
         /\ new \in SUBSET Block /\ IsFiniteSet(new) /\ Rooted(new) /\ UniqueHashes(new)
         /\ blocks \subseteq new
         /\ blocks' = new
         /\ orphans' \in SUBSET orphans /\ IsFiniteSet(orphans') /\ UniqueHashes(orphans')
         /\ Cardinality(orphans') <= Cardinality(orphans)
         /\ \A o \in orphans' : Prev[o.hash] \notin Hashes(new)
         /\ Hashes(orphans') \cap Hashes(new) = {}
         /\ main \in SUBSET new /\ SelectBestTip(new, TRUE)
<1> DEFINE C == Cascade(orphans, b)
           new == PutByHash(blocks, C)
<1>1. b \in Block
  BY BlockchainAssumption DEF Connect, Stores, IsValid, Block, Copy
<1>2. /\ new \in SUBSET Block
      /\ new = blocks \cup C
      /\ Rooted(new)
      /\ UniqueHashes(new)
      /\ StillParked(orphans, b) \in SUBSET orphans
      /\ Hashes(StillParked(orphans, b)) \cap Hashes(new) = {}
      /\ \A o \in StillParked(orphans, b) : Prev[o.hash] \notin Hashes(new)
  <2>1. /\ blocks \in SUBSET Block /\ orphans \in SUBSET Block
        /\ Rooted(blocks) /\ UniqueHashes(blocks) /\ UniqueHashes(orphans)
        /\ Hashes(orphans) \cap Hashes(blocks) = {}
        /\ \A o \in orphans : Prev[o.hash] \notin Hashes(blocks)
    BY DEF IInv, TypeOK, TreeIsConnected, OrphansWait
  <2>2. /\ b.hash \notin Hashes(blocks) \cup Hashes(orphans)
        /\ \E p \in blocks : p.hash = Prev[b.hash] /\ b.height = p.height + 1
    BY DEF Connect, Stores, Knows, Parents
  <2> QED BY <1>1, <2>1, <2>2, CascadeKeepsTree
<1>3. IsFiniteSet(new)
  <2>1. C \in SUBSET (orphans \cup {b})
    BY DEF Cascade, Adopted
  <2>2. IsFiniteSet(orphans \cup {b})
    BY FS_AddElement DEF IInv
  <2>3. IsFiniteSet(C)
    BY <2>1, <2>2, FS_Subset
  <2> HIDE DEF C, new
  <2>4. IsFiniteSet(blocks \cup C)
    BY <2>3, FS_Union DEF IInv
  <2> QED BY <1>2, <2>4
<1> HIDE DEF C
<1>4. blocks' = new /\ orphans' = StillParked(orphans, b) /\ SelectBestTip(new, TRUE)
  BY DEF Connect, Stores, C
<1>5. IsFiniteSet(orphans') /\ Cardinality(orphans') <= Cardinality(orphans)
  BY <1>2, <1>4, FS_Subset DEF IInv
<1>6. UniqueHashes(orphans')
  BY <1>2, <1>4 DEF IInv, UniqueHashes
<1>7. main \in SUBSET new
  BY <1>2 DEF IInv
<1> QED BY <1>2, <1>3, <1>4, <1>5, <1>6, <1>7 DEF C

\* In a state of the invariant, _select_best_tip over the tree as it is.
LEMMA ReselectIsRight ==
  ASSUME IInv, NEW b \in Offered, Reselect(b)
  PROVE  /\ blocks \in SUBSET Block /\ IsFiniteSet(blocks)
         /\ Rooted(blocks) /\ UniqueHashes(blocks) /\ main \in SUBSET blocks
         /\ SelectBestTip(blocks, FALSE)
         /\ blocks' = blocks /\ orphans' = orphans
BY DEF IInv, TypeOK, TreeIsConnected, Reselect

\* Initially only genesis is there.
THEOREM InitInvariant == Init => IInv
<1> SUFFICES ASSUME Init PROVE IInv
  OBVIOUS
<1>1. GenesisBlock \in Block
  BY HashAssumption DEF GenesisBlock, Block
<1>2. IsFiniteSet({GenesisBlock}) /\ IsFiniteSet({}) /\ Cardinality({}) = 0
  BY FS_Singleton, FS_EmptySet
<1>3. TypeOK
  BY <1>1, BlockchainAssumption DEF Init, TypeOK, AddResult, NoResult
<1>4. Linked({GenesisBlock})
  BY DEF Linked, Rooted, GenesisBlock
<1>5. Tip({GenesisBlock}) = GenesisBlock
  BY <1>1, TipIs, BlockTypes
<1>6. TipIsBest
  BY <1>1, <1>5, BetterIsAnOrder DEF Init, TipIsBest
<1>7. OrphansWait
  BY <1>2, BlockchainAssumption DEF Init, OrphansWait, Hashes
<1> QED
  BY <1>2, <1>3, <1>4, <1>6, <1>7
  DEF Init, IInv, UniqueHashes, TreeIsConnected, MainIsLinked, DiskIsMain, Linked

\* Every step keeps the invariant.
THEOREM StepInvariant == IInv /\ [Next]_vars => IInv'
<1> SUFFICES ASSUME IInv, [Next]_vars PROVE IInv'
  OBVIOUS
<1>0. /\ main \in SUBSET Block /\ disk \in SUBSET Block
      /\ Linked(main) /\ IsFiniteSet(main) /\ UniqueHashes(main)
      /\ main # {} /\ restarts \in 0..MaxRestarts
  <2>1. IsFiniteSet(main)
    BY FS_Subset DEF IInv
  <2> QED BY <2>1 DEF IInv, TypeOK, MainIsLinked, UniqueHashes, Linked, Rooted
<1>1. ASSUME NEW b \in Offered, AddBlock(b) PROVE IInv'
  <2>0. restarts' = restarts
    BY <1>1 DEF AddBlock
  <2>1. CASE Reject(b) \/ WrongHeight(b)
    <3>1. /\ UNCHANGED <<blocks, main, orphans, disk>>
          /\ res' = NoResult
      BY <2>1 DEF Reject, WrongHeight
    <3>2. NoResult \in AddResult
      BY DEF NoResult, AddResult
    <3> QED
      BY <2>0, <3>1, <3>2
      DEF IInv, TypeOK, TreeIsConnected, MainIsLinked, TipIsBest, OrphansWait, DiskIsMain
  <2>2. CASE Park(b)
    <3>0. b \in Block
      BY <2>2, BlockchainAssumption DEF Park, IsValid, Block, Copy
    <3>1. /\ UNCHANGED <<blocks, main, disk>>
          /\ res' = [NoResult EXCEPT !.is_orphan = TRUE, !.missing_parent = {Prev[b.hash]}]
          /\ Parents(blocks, b) = {}
          /\ b.hash \notin Hashes(blocks) \cup Hashes(orphans)
      BY <2>2 DEF Park, Knows
    <3>2. res' \in AddResult
      BY <3>0, <3>1, HashAssumption DEF NoResult, AddResult, Block
    <3>3. CASE Cardinality(orphans) >= MaxOrphans
      <4>1. orphans' = orphans
        BY <2>2, <3>3 DEF Park
      <4> QED
        BY <2>0, <3>1, <3>2, <4>1
        DEF IInv, TypeOK, TreeIsConnected, MainIsLinked, TipIsBest, OrphansWait, DiskIsMain
    <3>4. CASE ~ Cardinality(orphans) >= MaxOrphans
      <4>1. orphans' = orphans \cup {b}
        BY <2>2, <3>4 DEF Park
      <4>2. /\ IsFiniteSet(orphans')
            /\ Cardinality(orphans') <= MaxOrphans
        <5>1. Cardinality(orphans) \in Nat
          BY FS_CardinalityType DEF IInv
        <5>2. /\ IsFiniteSet(orphans \cup {b})
              /\ Cardinality(orphans \cup {b})
                    = (IF b \in orphans THEN Cardinality(orphans) ELSE Cardinality(orphans) + 1)
          BY FS_AddElement DEF IInv
        <5> QED BY <3>4, <4>1, <5>1, <5>2, BlockchainAssumption
      <4>3. UniqueHashes(orphans')
        BY <3>1, <4>1 DEF IInv, UniqueHashes, Hashes
      <4>4. /\ \A o \in orphans' : Prev[o.hash] \notin Hashes(blocks')
            /\ Hashes(orphans') \cap Hashes(blocks') = {}
        BY <3>1, <4>1 DEF IInv, OrphansWait, Hashes, Parents
      <4>5. TypeOK'
        BY <2>0, <3>0, <3>1, <3>2, <4>1 DEF IInv, TypeOK
      <4> QED
        BY <3>1, <4>2, <4>3, <4>4, <4>5
        DEF IInv, TreeIsConnected, MainIsLinked, TipIsBest, OrphansWait, DiskIsMain
    <3> QED BY <3>3, <3>4
  <2>3. CASE Reselect(b)
    <3>1. /\ blocks \in SUBSET Block /\ IsFiniteSet(blocks)
          /\ Rooted(blocks) /\ UniqueHashes(blocks) /\ main \in SUBSET blocks
          /\ SelectBestTip(blocks, FALSE)
          /\ blocks' = blocks /\ orphans' = orphans
      BY <2>3, ReselectIsRight
    <3>2. /\ main' \in SUBSET blocks
          /\ Linked(main')
          /\ \A c \in blocks : ~ Better(c, Tip(main'))
          /\ disk' \in SUBSET Block
          /\ IsFiniteSet(disk')
          /\ \A c, d \in disk' : c.height = d.height => c = d
          /\ Headers(disk') = Headers(main')
          /\ res' \in AddResult
      BY <3>1, <1>0, SelectIsRight DEF IInv, DiskIsMain
    <3>3. TypeOK'
      BY <2>0, <3>1, <3>2 DEF IInv, TypeOK
    <3> QED
      BY <3>1, <3>2, <3>3
      DEF IInv, TreeIsConnected, MainIsLinked, TipIsBest, OrphansWait, DiskIsMain
  <2>4. CASE Connect(b)
    <3> DEFINE new == PutByHash(blocks, Cascade(orphans, b))
    <3>1. /\ new \in SUBSET Block /\ IsFiniteSet(new) /\ Rooted(new) /\ UniqueHashes(new)
          /\ blocks' = new
          /\ orphans' \in SUBSET orphans /\ IsFiniteSet(orphans') /\ UniqueHashes(orphans')
          /\ Cardinality(orphans') <= Cardinality(orphans)
          /\ \A o \in orphans' : Prev[o.hash] \notin Hashes(new)
          /\ Hashes(orphans') \cap Hashes(new) = {}
          /\ main \in SUBSET new /\ SelectBestTip(new, TRUE)
      BY <2>4, ConnectIsRight
    <3> HIDE DEF new
    <3>2. /\ main' \in SUBSET new
          /\ Linked(main')
          /\ \A c \in new : ~ Better(c, Tip(main'))
          /\ disk' \in SUBSET Block
          /\ IsFiniteSet(disk')
          /\ \A c, d \in disk' : c.height = d.height => c = d
          /\ Headers(disk') = Headers(main')
          /\ res' \in AddResult
      BY <3>1, <1>0, SelectIsRight DEF IInv, DiskIsMain
    <3>3. Cardinality(orphans') <= MaxOrphans
      BY <3>1, FS_CardinalityType, BlockchainAssumption DEF IInv, OrphansWait
    <3>4. TypeOK'
      BY <2>0, <3>1, <3>2 DEF IInv, TypeOK
    <3> QED
      BY <3>1, <3>2, <3>3, <3>4
      DEF IInv, TreeIsConnected, MainIsLinked, TipIsBest, OrphansWait, DiskIsMain
  <2> QED BY <1>1, <2>1, <2>2, <2>3, <2>4 DEF AddBlock
<1>2. CASE Restart
  <2>1. /\ blocks' = disk /\ main' = disk /\ disk' = disk
        /\ orphans' = {} /\ res' = NoResult
        /\ restarts' \in 0..MaxRestarts
    BY <1>2, <1>0, BlockchainAssumption DEF Restart
  <2>2. /\ Linked(disk) /\ UniqueHashes(disk)
    BY <1>0, SameHeadersSameChain DEF IInv, DiskIsMain
  <2>3. \A c \in disk : ~ Better(c, Tip(disk))
    <3>1. Tip(disk) \in disk /\ \A c \in disk : c.height <= Tip(disk).height
      BY <2>2, <1>0, TipExists DEF IInv, Linked, Rooted
    <3> SUFFICES ASSUME NEW c \in disk, Better(c, Tip(disk)) PROVE FALSE
      OBVIOUS
    <3>2. c.height = Tip(disk).height
      BY <3>1, <1>0, BlockTypes DEF Better
    <3>3. c = Tip(disk)
      BY <3>1, <3>2, <2>2 DEF Linked
    <3> QED BY <3>1, <3>3, <1>0, BetterIsAnOrder
  <2>4. OrphansWait'
    BY <2>1, FS_EmptySet, BlockchainAssumption DEF OrphansWait, Hashes
  <2>5. TypeOK'
    BY <1>0, <2>1 DEF TypeOK, NoResult, AddResult
  <2> QED
    BY <2>1, <2>2, <2>3, <2>4, <2>5, FS_EmptySet
    DEF IInv, TreeIsConnected, MainIsLinked, TipIsBest, DiskIsMain, UniqueHashes, Linked
<1>3. CASE Prune
  <2> DEFINE h == Tip(disk).height
             pruned == [b \in disk |-> Pruned(b, h)]
  <2>1. /\ UNCHANGED <<blocks, main, orphans, res, restarts>>
        /\ disk' = {Pruned(b, h) : b \in disk}
    BY <1>3 DEF Prune
  <2> HIDE DEF h
  <2>2. \A b \in disk : /\ Pruned(b, h) \in Block
                        /\ Pruned(b, h).hash = b.hash
                        /\ Pruned(b, h).height = b.height
    BY <1>0 DEF Pruned, Block
  <2>3. IsFiniteSet(disk')
    <3>1. pruned \in Surjection(disk, disk')
      BY <2>1 DEF Surjection
    <3> QED BY <3>1, FS_Surjection DEF IInv
  <2>4. disk' \in SUBSET Block
    BY <2>1, <2>2
  <2>5. \A b, c \in disk' : b.height = c.height => b = c
    BY <2>1, <2>2 DEF IInv
  <2>6. Headers(disk') = Headers(disk)
    BY <2>1, <2>2 DEF Headers
  <2> QED
    BY <2>1, <2>3, <2>4, <2>5, <2>6
    DEF IInv, TypeOK, TreeIsConnected, MainIsLinked, TipIsBest, OrphansWait, DiskIsMain
<1>4. CASE UNCHANGED vars
  BY <1>4
  DEF vars, IInv, TypeOK, TreeIsConnected, MainIsLinked, TipIsBest, OrphansWait, DiskIsMain
<1> QED BY <1>1, <1>2, <1>3, <1>4 DEF Next

\* The inductive invariant holds of a node's chain in every state it can reach.
THEOREM Invariance == Spec => []IInv
BY InitInvariant, StepInvariant, PTL DEF Spec

-----------------------------------------------------------------------------
\* The variables have their types.
THEOREM TypeCorrect == Spec => []TypeOK
BY Invariance, PTL DEF IInv

\* No block that is connected scores above the tip.
THEOREM TipStaysBest == Spec => []TipIsBest
BY Invariance, PTL DEF IInv

\* The main chain is one linked chain from genesis.
THEOREM MainStaysLinked == Spec => []MainIsLinked
BY Invariance, PTL DEF IInv

\* Every connected block hangs off genesis, so the lookups of _reorg never fail.
THEOREM TreeStaysConnected == Spec => []TreeIsConnected
BY Invariance, PTL DEF IInv

\* Orphans wait only for absent blocks, and no more than MaxOrphans do.
THEOREM OrphansStayParked == Spec => []OrphansWait
BY Invariance, PTL DEF IInv

\* The storage would give the main chain back.
THEOREM DiskStaysMain == Spec => []DiskIsMain
BY Invariance, PTL DEF IInv

-----------------------------------------------------------------------------
\* What add_block does to the chain of a state of the invariant.
LEMMA AddBlockIsRight ==
  ASSUME IInv, NEW b \in Offered, AddBlock(b)
  PROVE  /\ Tip(main') = Tip(main) \/ Better(Tip(main'), Tip(main))
         /\ main' = (main \ res'.reverted) \cup res'.applied
         /\ res'.reverted \subseteq main
         /\ res'.applied \cap main = {}
         /\ res'.extended_tip <=> main' # main
         /\ blocks \subseteq blocks'
<1>0. /\ Linked(main) /\ disk \in SUBSET Block /\ IsFiniteSet(disk)
      /\ \A c, d \in disk : c.height = d.height => c = d
      /\ Headers(disk) = Headers(main)
  BY DEF IInv, TypeOK, MainIsLinked, DiskIsMain
<1>1. CASE Reject(b) \/ WrongHeight(b) \/ Park(b)
  <2>1. /\ main' = main /\ blocks' = blocks
    BY <1>1 DEF Reject, WrongHeight, Park
  <2>2. \/ res' = NoResult
        \/ res' = [NoResult EXCEPT !.is_orphan = TRUE, !.missing_parent = {Prev[b.hash]}]
    BY <1>1 DEF Reject, WrongHeight, Park
  <2>3. res'.reverted = {} /\ res'.applied = {} /\ res'.extended_tip = FALSE
    <3>1. CASE res' = NoResult
      BY <3>1 DEF NoResult
    <3>2. CASE res' = [NoResult EXCEPT !.is_orphan = TRUE, !.missing_parent = {Prev[b.hash]}]
      BY <3>2 DEF NoResult
    <3> QED BY <2>2, <3>1, <3>2
  <2> QED BY <2>1, <2>3
<1>2. CASE Reselect(b)
  <2>1. /\ blocks \in SUBSET Block /\ IsFiniteSet(blocks)
        /\ Rooted(blocks) /\ UniqueHashes(blocks) /\ main \in SUBSET blocks
        /\ SelectBestTip(blocks, FALSE)
        /\ blocks' = blocks
    BY <1>2, ReselectIsRight
  <2> QED BY <2>1, <1>0, SelectIsRight
<1>3. CASE Connect(b)
  <2> DEFINE new == PutByHash(blocks, Cascade(orphans, b))
  <2>1. /\ new \in SUBSET Block /\ IsFiniteSet(new) /\ Rooted(new) /\ UniqueHashes(new)
        /\ blocks \subseteq new
        /\ blocks' = new
        /\ main \in SUBSET new /\ SelectBestTip(new, TRUE)
    BY <1>3, ConnectIsRight
  <2> HIDE DEF new
  <2> QED BY <2>1, <1>0, SelectIsRight
<1> QED BY <1>1, <1>2, <1>3 DEF AddBlock

\* A restart loads a chain with the tip there was.
LEMMA RestartKeepsTip ==
  ASSUME IInv, Restart
  PROVE  /\ Tip(main').hash = Tip(main).hash
         /\ Tip(main').height = Tip(main).height
<1>1. /\ main \in SUBSET Block /\ IsFiniteSet(main) /\ Linked(main) /\ UniqueHashes(main)
  BY FS_Subset DEF IInv, TypeOK, MainIsLinked, UniqueHashes
<1>2. /\ disk \in SUBSET Block /\ IsFiniteSet(disk) /\ Headers(disk) = Headers(main)
      /\ \A b, c \in disk : b.height = c.height => b = c
  BY DEF IInv, TypeOK, DiskIsMain
<1>3. main' = disk
  BY DEF Restart
<1> QED BY <1>1, <1>2, <1>3, SameHeadersSameChain

\* The tip never gets worse, in any step and over restarts.
THEOREM TipImproves == Spec => TipOnlyImproves
<1>1. ASSUME IInv, [Next]_vars
      PROVE  [Tip(main').hash = Tip(main).hash \/ Better(Tip(main'), Tip(main))]_vars
  <2>1. ASSUME NEW b \in Offered, AddBlock(b)
        PROVE  Tip(main').hash = Tip(main).hash \/ Better(Tip(main'), Tip(main))
    BY <1>1, <2>1, AddBlockIsRight
  <2>2. CASE Restart
    BY <1>1, <2>2, RestartKeepsTip
  <2>3. CASE Prune
    BY <2>3 DEF Prune
  <2> QED BY <1>1, <2>1, <2>2, <2>3 DEF Next
<1> QED BY <1>1, Invariance, PTL DEF Spec, TipOnlyImproves

\* The AddResult is exactly the change of the main chain.
THEOREM ResultIsExact == Spec => ResultIsTheDifference
<1> DEFINE Exact == \A b \in Offered : AddBlock(b) =>
                      /\ main' = (main \ res'.reverted) \cup res'.applied
                      /\ res'.reverted \subseteq main
                      /\ res'.applied \cap main = {}
                      /\ res'.extended_tip <=> main' # main
<1>1. ASSUME IInv PROVE [Exact]_vars
  BY <1>1, AddBlockIsRight
<1> QED BY <1>1, Invariance, PTL DEF Spec, ResultIsTheDifference

-----------------------------------------------------------------------------
\* The operators of Chain's copy of BlockTree are those of this one.
LEMMA SameOperators ==
  /\ \A b, c : Fn!Better(b, c) <=> Better(b, c)
  /\ \A b, t : Fn!Extends(b, t) <=> Extends(b, t)
  /\ \A S : Fn!Best(S) = Best(S) /\ Fn!Tip(S) = Tip(S) /\ Fn!Hashes(S) = Hashes(S)
  /\ \A S, b : Fn!Parents(S, b) = Parents(S, b) /\ Fn!PutByHeight(S, b) = PutByHeight(S, b)
  /\ \A S, T : Fn!PutByHash(S, T) = PutByHash(S, T) /\ Fn!Missing(S, T) = Missing(S, T)
  /\ \A S, t : Fn!Walk(S, t) = Walk(S, t)
  /\ \A S, b : Fn!Cascade(S, b) = Cascade(S, b) /\ Fn!StillParked(S, b) = StillParked(S, b)
  /\ \A S : Fn!Cardinality(S) = Cardinality(S)
<1>1. \A b, c : Fn!Better(b, c) <=> Better(b, c)
  BY DEF Fn!Better, Better
<1>2. \A b, t : Fn!Extends(b, t) <=> Extends(b, t)
  BY DEF Fn!Extends, Extends
<1>3. \A S : Fn!Best(S) = Best(S)
  BY Zenon DEF Fn!Best, Best, Fn!Better, Better
<1>4. \A S : Fn!Tip(S) = Tip(S) /\ Fn!Hashes(S) = Hashes(S)
  BY Zenon DEF Fn!Tip, Tip, Fn!Hashes, Hashes
<1>5. \A S, b : Fn!Parents(S, b) = Parents(S, b) /\ Fn!PutByHeight(S, b) = PutByHeight(S, b)
  BY DEF Fn!Parents, Parents, Fn!PutByHeight, PutByHeight
<1>6. \A S, T : Fn!PutByHash(S, T) = PutByHash(S, T) /\ Fn!Missing(S, T) = Missing(S, T)
  BY DEF Fn!PutByHash, PutByHash, Fn!Missing, Missing, Fn!Hashes, Hashes
<1>7. \A S, t : Fn!Walk(S, t) = Walk(S, t)
  BY DEF Fn!Walk, Walk, Fn!WalkClosed, WalkClosed, Fn!Parents, Parents
<1>8. \A S, b : Fn!Cascade(S, b) = Cascade(S, b) /\ Fn!StillParked(S, b) = StillParked(S, b)
  BY DEF Fn!Cascade, Cascade, Fn!StillParked, StillParked, Fn!Adopted, Adopted,
         Fn!AdoptionClosed, AdoptionClosed, Fn!Hashes, Hashes
<1>9. \A S : Fn!Cardinality(S) = Cardinality(S)
  BY Zenon DEF Fn!Cardinality, Cardinality
<1> QED BY <1>1, <1>2, <1>3, <1>4, <1>5, <1>6, <1>7, <1>8, <1>9

\* _select_best_tip makes the chain that Chain's Selected makes, and its result is the
\* one that Chain reads off the chains before and after.
LEMMA SelectIsFunction ==
  ASSUME NEW blks \in SUBSET Block, IsFiniteSet(blks), Rooted(blks), UniqueHashes(blks),
         main \in SUBSET blks, Linked(main),
         disk \in SUBSET Block, IsFiniteSet(disk),
         \A b, c \in disk : b.height = c.height => b = c,
         Headers(disk) = Headers(main),
         NEW added \in BOOLEAN, NEW orphs,
         SelectBestTip(blks, added)
  PROVE  Fn!Result(Fn!Selected([blocks |-> blks, main |-> main, orphans |-> orphs]),
                   added, FALSE, main)
           = [chain |-> [blocks |-> blks, main |-> main', orphans |-> orphs],
              added |-> res'.added, is_orphan |-> res'.is_orphan,
              extended_tip |-> res'.extended_tip,
              reverted |-> res'.reverted, applied |-> res'.applied]
<1> DEFINE c == [blocks |-> blks, main |-> main, orphans |-> orphs]
           best == Best(blks)
           t == Tip(main)
<1>1. /\ main' \in SUBSET blks /\ Linked(main')
      /\ Tip(main') = t \/ Better(Tip(main'), t)
      /\ main' = (main \ res'.reverted) \cup res'.applied
      /\ res'.reverted \subseteq main
      /\ res'.applied \cap main = {}
  BY SelectIsRight
<1>2. t \in blks /\ Tip(main') \in blks
  <2>1. main # {} /\ IsFiniteSet(main) /\ main' # {} /\ IsFiniteSet(main')
    BY <1>1, FS_Subset DEF Linked, Rooted
  <2> QED BY <1>1, <2>1, TipExists
<1>3. best \in blks /\ best \in Block /\ \A b \in blks : ~ Better(b, best)
  BY BestExists DEF Rooted
<1>4. Fn!Selected(c) =
         IF ~ Better(best, t) THEN c
         ELSE [c EXCEPT !.main = IF Extends(best, t) THEN PutByHeight(main, best)
                                                     ELSE Walk(blks, best)]
  BY SameOperators DEF Fn!Selected
<1>5. \A d : Fn!Result(d, added, FALSE, main) =
         [chain |-> d, added |-> added, is_orphan |-> FALSE,
          extended_tip |-> Tip(d.main).hash # t.hash,
          reverted |-> Missing(main, d.main), applied |-> Missing(d.main, main)]
  BY SameOperators DEF Fn!Result
\* The result as it is, and the chain.
<1> DEFINE Told(ext, rev, app) ==
              res'.added = added /\ res'.is_orphan = FALSE /\ res'.extended_tip = ext
                /\ res'.reverted = rev /\ res'.applied = app
<1> HIDE DEF c, best, t, Told
<1>6. Told(Tip(main').hash # t.hash, Missing(main, main'), Missing(main', main))
  <2>1. CASE KeepTip(blks, added)
    <3>1. main' = main /\ Told(FALSE, {}, {})
      BY <2>1 DEF KeepTip, NoResult, Told
    <3>2. Missing(main, main) = {}
      BY DEF Missing
    <3> QED BY <3>1, <3>2 DEF t
  <2>2. CASE ExtendTip(blks, added)
    <3>1. Better(best, t) /\ Told(TRUE, {}, {best})
      BY <2>2 DEF ExtendTip, NoResult, Told, best, t
    <3>2. main' = main \cup {best} /\ best \notin main
      BY <1>1, <3>1 DEF Told
    <3>3. Missing(main, main') = {} /\ Missing(main', main) = {best}
      BY <1>1, <1>3, <3>2 DEF Missing, UniqueHashes
    <3>4. Tip(main').hash # t.hash
      <4>1. Tip(main') # t
        <5>1. best \in main' /\ Tip(main') = best
          BY <1>3, <2>2, <3>1, ExtendedIsChain, FS_Subset DEF ExtendTip, Extends, best, t
        <5> QED BY <1>2, <1>3, <3>1, <5>1, BetterIsAnOrder
      <4> QED BY <1>2, <4>1 DEF UniqueHashes
    <3> QED BY <3>1, <3>3, <3>4
  <2>3. CASE Reorg(blks, added)
    <3>1. /\ main' = Walk(blks, best) /\ Better(best, t)
          /\ Told(TRUE, Missing(main, main'), Missing(main', main))
      BY <2>3 DEF Reorg, NoResult, Told, best, t
    <3>2. Tip(main') = best
      BY <1>1, <1>3, <3>1, WalkIsChain, TipIs DEF Linked
    <3>3. Tip(main').hash # t.hash
      BY <1>2, <1>3, <3>1, <3>2, BetterIsAnOrder DEF UniqueHashes
    <3> QED BY <3>1, <3>3
  <2> QED BY <2>1, <2>2, <2>3 DEF SelectBestTip
<1>7. Fn!Selected(c) = [blocks |-> blks, main |-> main', orphans |-> orphs]
  <2>1. CASE KeepTip(blks, added)
    BY <1>4, <2>1 DEF KeepTip, c, best, t
  <2>2. CASE ExtendTip(blks, added)
    BY <1>4, <2>2 DEF ExtendTip, c, best, t
  <2>3. CASE Reorg(blks, added)
    BY <1>4, <2>3 DEF Reorg, c, best, t
  <2> QED BY <2>1, <2>2, <2>3 DEF SelectBestTip
<1> QED BY <1>5, <1>6, <1>7 DEF c, Told

\* Two fields of a record are replaced.
Stored(c, x, y) == [c EXCEPT !.blocks = x, !.orphans = y]
LEMMA StoredIs ==
  ASSUME NEW B, NEW M, NEW O, NEW x, NEW y
  PROVE  Stored([blocks |-> B, main |-> M, orphans |-> O], x, y)
           = [blocks |-> x, main |-> M, orphans |-> y]
<1> DEFINE d == [[blocks |-> B, main |-> M, orphans |-> O] EXCEPT !.blocks = x]
<1>1. d = [blocks |-> x, main |-> M, orphans |-> O]
  OBVIOUS
<1>2. [[blocks |-> x, main |-> M, orphans |-> O] EXCEPT !.orphans = y]
        = [blocks |-> x, main |-> M, orphans |-> y]
  OBVIOUS
<1> HIDE DEF d
<1>3. [d EXCEPT !.orphans = y] = [blocks |-> x, main |-> M, orphans |-> y]
  BY <1>1, <1>2
<1> QED BY <1>3 DEF d, Stored

\* What Chain's function makes of a valid block is what add_block does.
LEMMA AddBlockAgrees ==
  ASSUME IInv, NEW b \in Offered, IsValid(b), AddBlock(b)
  PROVE  Fn!AddBlock([blocks |-> blocks, main |-> main, orphans |-> orphans], b)
           = [chain |-> [blocks |-> blocks', main |-> main', orphans |-> orphans'],
              added |-> res'.added, is_orphan |-> res'.is_orphan,
              extended_tip |-> res'.extended_tip,
              reverted |-> res'.reverted, applied |-> res'.applied]
<1> DEFINE c == [blocks |-> blocks, main |-> main, orphans |-> orphans]
           new == PutByHash(blocks, Cascade(orphans, b))
           known == b.hash \in Hashes(blocks) \cup Hashes(orphans)
           ps == Parents(blocks, b)
           wrong == \E p \in ps : b.height # p.height + 1
<1>0. /\ Linked(main) /\ disk \in SUBSET Block /\ IsFiniteSet(disk)
      /\ \A d, e \in disk : d.height = e.height => d = e
      /\ Headers(disk) = Headers(main)
  BY DEF IInv, TypeOK, MainIsLinked, DiskIsMain
<1>1. Fn!AddBlock(c, b) =
        IF known THEN Fn!Result(Fn!Selected(c), FALSE, FALSE, main)
        ELSE IF ps = {} THEN Fn!Result(Fn!Parked(c, b), FALSE, TRUE, main)
        ELSE IF wrong THEN Fn!Result(c, FALSE, FALSE, main)
        ELSE Fn!Result(Fn!Selected([blocks |-> new, main |-> main, orphans |-> StillParked(orphans, b)]),
                       TRUE, FALSE, main)
  <2> DEFINE x == Fn!PutByHash(c.blocks, Fn!Cascade(c.orphans, b))
             y == Fn!StillParked(c.orphans, b)
             e == Stored(c, x, y)
  <2>1. Fn!AddBlock(c, b) =
          IF Fn!Knows(c, b.hash) THEN Fn!Result(Fn!Selected(c), FALSE, FALSE, c.main)
          ELSE IF Fn!Parents(c.blocks, b) = {} THEN Fn!Result(Fn!Parked(c, b), FALSE, TRUE, c.main)
          ELSE IF \E p \in Fn!Parents(c.blocks, b) : b.height # p.height + 1
               THEN Fn!Result(c, FALSE, FALSE, c.main)
          ELSE Fn!Result(Fn!Selected(e), TRUE, FALSE, c.main)
    BY Zenon DEF Fn!AddBlock, Stored
  <2>2. x = new /\ y = StillParked(orphans, b)
    BY SameOperators
  <2> HIDE DEF x, y
  <2>3. e = [blocks |-> new, main |-> main, orphans |-> StillParked(orphans, b)]
    BY <2>2, StoredIs
  <2> HIDE DEF e
  <2>4. /\ c.main = main /\ Fn!Parents(c.blocks, b) = ps
        /\ Fn!Knows(c, b.hash) <=> known
    BY SameOperators DEF Fn!Knows
  <2> QED BY <2>1, <2>3, <2>4
<1>2. \A d, is_orphan : d.main = main =>
        Fn!Result(d, FALSE, is_orphan, main) =
          [chain |-> d, added |-> FALSE, is_orphan |-> is_orphan, extended_tip |-> FALSE,
           reverted |-> {}, applied |-> {}]
  <2>1. Missing(main, main) = {}
    BY DEF Missing
  <2> QED BY <2>1, SameOperators DEF Fn!Result
<1>3. \A p, q \in ps : p = q
  BY DEF Parents, IInv, UniqueHashes
<1> HIDE DEF c, new, known, ps, wrong
<1>4. CASE Reselect(b)
  <2>1. known
    BY <1>4 DEF Reselect, Knows, known
  <2>2. /\ blocks \in SUBSET Block /\ IsFiniteSet(blocks)
        /\ Rooted(blocks) /\ UniqueHashes(blocks) /\ main \in SUBSET blocks
        /\ SelectBestTip(blocks, FALSE)
        /\ blocks' = blocks /\ orphans' = orphans
    BY <1>4, ReselectIsRight
  <2> QED BY <1>0, <1>1, <2>1, <2>2, SelectIsFunction DEF c
<1>5. CASE Park(b)
  <2>1. ~ known /\ ps = {}
    BY <1>5 DEF Park, Knows, known, ps
  <2>2. Fn!Parked(c, b) = [blocks |-> blocks', main |-> main', orphans |-> orphans']
    <3>1. Fn!Parked(c, b) = IF Cardinality(orphans) >= MaxOrphans THEN c
                            ELSE [blocks |-> blocks, main |-> main, orphans |-> orphans \cup {b}]
      BY SameOperators DEF Fn!Parked, c
    <3>2. /\ UNCHANGED <<blocks, main>>
          /\ orphans' = IF Cardinality(orphans) >= MaxOrphans THEN orphans ELSE orphans \cup {b}
      BY <1>5 DEF Park
    <3> QED BY <3>1, <3>2 DEF c
  <2>3. /\ res'.added = FALSE /\ res'.is_orphan = TRUE /\ res'.extended_tip = FALSE
        /\ res'.reverted = {} /\ res'.applied = {} /\ main' = main
    BY <1>5 DEF Park, NoResult
  <2> QED BY <1>1, <1>2, <2>1, <2>2, <2>3 DEF c
<1>6. CASE WrongHeight(b)
  <2>1. ~ known /\ ps # {} /\ wrong
    BY <1>6 DEF WrongHeight, Knows, known, ps, wrong
  <2>2. /\ UNCHANGED <<blocks, main, orphans>> /\ res' = NoResult
    BY <1>6 DEF WrongHeight
  <2> QED BY <1>1, <1>2, <2>1, <2>2 DEF c, NoResult
<1>7. CASE Connect(b)
  <2>1. ~ known /\ ps # {} /\ ~ wrong
    BY <1>3, <1>7 DEF Connect, Stores, Knows, known, ps, wrong
  <2>2. /\ new \in SUBSET Block /\ IsFiniteSet(new) /\ Rooted(new) /\ UniqueHashes(new)
        /\ blocks' = new
        /\ main \in SUBSET new /\ SelectBestTip(new, TRUE)
    BY <1>7, ConnectIsRight DEF new
  <2>3. orphans' = StillParked(orphans, b)
    BY <1>7 DEF Connect, Stores
  <2>4. Fn!AddBlock(c, b) =
           Fn!Result(Fn!Selected([blocks |-> new, main |-> main, orphans |-> orphans']),
                     TRUE, FALSE, main)
    BY <1>1, <2>1, <2>3
  <2>5. Fn!AddBlock(c, b)
           = [chain |-> [blocks |-> new, main |-> main', orphans |-> orphans'],
              added |-> res'.added, is_orphan |-> res'.is_orphan,
              extended_tip |-> res'.extended_tip,
              reverted |-> res'.reverted, applied |-> res'.applied]
    BY <1>0, <2>2, <2>4, SelectIsFunction
  <2> QED BY <2>2, <2>5 DEF c
<1>8. ~ Reject(b)
  BY DEF Reject
<1> QED BY <1>4, <1>5, <1>6, <1>7, <1>8 DEF AddBlock, c

\* The two forms in which the project models add_block, the action on one node's chain
\* and storage and the function that the modules of several nodes apply, are one.
THEOREM AddBlockIsChains == Spec => AddBlockIsFunction
<1> DEFINE Agrees == \A b \in Offered : IsValid(b) /\ AddBlock(b) =>
         LET r == Fn!AddBlock([blocks |-> blocks, main |-> main, orphans |-> orphans], b) IN
         /\ r.chain = [blocks |-> blocks', main |-> main', orphans |-> orphans']
         /\ r.added = res'.added /\ r.is_orphan = res'.is_orphan
         /\ r.extended_tip = res'.extended_tip
         /\ r.reverted = res'.reverted /\ r.applied = res'.applied
<1>1. ASSUME IInv PROVE [Agrees]_vars
  BY <1>1, AddBlockAgrees
<1> QED BY <1>1, Invariance, PTL DEF Spec, AddBlockIsFunction

-----------------------------------------------------------------------------
\* A node implements BestChain: every step learns headers and takes the best of
\* them as the tip, or forgets headers and keeps the tip.
THEOREM ImplementsBestChain == Spec => IsBestChain
<1> DEFINE known == Headers(blocks)
           tip == <<Tip(main).hash, Tip(main).height>>
<1>1. ASSUME IInv
      PROVE  tip \in known /\ \A x \in known : ~ BC!Beats(x, tip)
  <2>1. Tip(main) \in blocks
    <3>1. main \in SUBSET Block /\ IsFiniteSet(main) /\ main # {}
      BY <1>1, FS_Subset DEF IInv, TypeOK, MainIsLinked, Linked, Rooted
    <3> QED BY <1>1, <3>1, TipExists DEF IInv
  <2>2. \A b \in blocks : ~ Better(b, Tip(main))
    BY <1>1 DEF IInv, TipIsBest
  <2> QED BY <2>1, <2>2 DEF Headers, Better, BC!Beats
<1>2. Init => BC!Init
  <2> SUFFICES ASSUME Init PROVE BC!Init
    OBVIOUS
  <2>1. GenesisBlock \in Block
    BY HashAssumption DEF GenesisBlock, Block
  <2>2. Tip(main) = GenesisBlock
    BY <2>1, TipIs, BlockTypes DEF Init
  <2> QED BY <2>2 DEF Init, BC!Init, Headers, GenesisBlock
<1>3. ASSUME IInv, IInv', [Next]_vars
      PROVE  [BC!Learn \/ BC!Forget]_<<known, tip>>
  <2>1. tip' \in known' /\ \A x \in known' : ~ BC!Beats(x, tip')
    <3>1. /\ Tip(main') \in blocks'
          /\ \A b \in blocks' : ~ Better(b, Tip(main'))
      <4>1. main' \in SUBSET Block /\ IsFiniteSet(main') /\ main' # {} /\ main' \subseteq blocks'
        BY <1>3, FS_Subset DEF IInv, TypeOK, MainIsLinked, Linked, Rooted
      <4> QED BY <1>3, <4>1, TipExists DEF IInv, TipIsBest
    <3> QED BY <3>1 DEF Headers, Better, BC!Beats
  <2>2. CASE \E b \in Offered : AddBlock(b)
    <3>1. blocks \subseteq blocks'
      BY <1>3, <2>2, AddBlockIsRight
    <3>2. known \subseteq known'
      BY <3>1 DEF Headers
    <3> QED BY <2>1, <3>2 DEF BC!Learn
  <2>3. CASE Restart
    <3>1. tip' = tip
      BY <1>3, <2>3, RestartKeepsTip
    <3>2. known' \subseteq known
      <4>1. Headers(disk) = Headers(main) /\ main \subseteq blocks
        BY <1>3 DEF IInv, DiskIsMain
      <4>2. blocks' = disk
        BY <2>3 DEF Restart
      <4> QED BY <4>1, <4>2 DEF Headers
    <3> QED BY <2>1, <3>1, <3>2 DEF BC!Forget
  <2>4. CASE Prune
    BY <2>4 DEF Prune
  <2>5. CASE UNCHANGED vars
    BY <2>5 DEF vars
  <2> QED BY <1>3, <2>2, <2>3, <2>4, <2>5 DEF Next
<1> QED BY <1>2, <1>3, Invariance, PTL DEF Spec, IsBestChain, BC!Spec

-----------------------------------------------------------------------------
(* BlockchainFaults *)

\* The heights that the parents determine: genesis has 0, a block one more than its
\* parent.  A torn tree has lost blocks between, so that Rooted cannot say it.
HeightClosed(D) ==
    /\ <<Genesis, 0>> \in D
    /\ \A h \in Hash \ {Genesis}, n \in Nat : <<Prev[h], n>> \in D => <<h, n + 1>> \in D

TrueHeights ==
    {x \in Hash \X Nat : \A D \in SUBSET (Hash \X Nat) : HeightClosed(D) => x \in D}

\* What holds of a running node whatever happened to its disk.
Running ==
    /\ TypeOK
    /\ faults \in 0..MaxFaults /\ wentOn \in BOOLEAN
    /\ IsFiniteSet(blocks) /\ IsFiniteSet(orphans) /\ IsFiniteSet(disk)
    /\ Headers(blocks) \subseteq TrueHeights
    /\ Headers(disk) \subseteq TrueHeights
    /\ Genesis \in Hashes(blocks) /\ Genesis \in Hashes(disk)
    /\ UniqueHashes(orphans)
    /\ Hashes(orphans) \cap Hashes(blocks) = {}
    /\ main # {} /\ main \subseteq blocks

\* What holds besides as long as no block was appended to an incomplete disk.  The
\* disk need not be the main chain; it is some linked chain that once was.
Intact ==
    /\ UniqueHashes(blocks)
    /\ TreeIsConnected
    /\ MainIsLinked
    /\ TipIsBest
    /\ OrphansWait
    /\ Linked(disk)

\* The inductive invariant.
FaultyInv == Running /\ (~ wentOn => Intact)

-----------------------------------------------------------------------------
\* TrueHeights is the least closed set.
LEMMA TrueHeightsLeast ==
  /\ TrueHeights \in SUBSET (Hash \X Nat)
  /\ HeightClosed(TrueHeights)
  /\ \A D \in SUBSET (Hash \X Nat) : HeightClosed(D) => TrueHeights \subseteq D
<1>1. <<Genesis, 0>> \in TrueHeights
  BY HashAssumption DEF TrueHeights, HeightClosed
<1>2. ASSUME NEW h \in Hash \ {Genesis}, NEW n \in Nat, <<Prev[h], n>> \in TrueHeights
      PROVE  <<h, n + 1>> \in TrueHeights
  BY <1>2 DEF TrueHeights, HeightClosed
<1>3. \A D \in SUBSET (Hash \X Nat) : HeightClosed(D) => TrueHeights \subseteq D
  BY DEF TrueHeights
<1>4. TrueHeights \in SUBSET (Hash \X Nat)
  BY DEF TrueHeights
<1> QED BY <1>1, <1>2, <1>3, <1>4 DEF HeightClosed

\* A true height is 0 for genesis, and otherwise one more than the parent's.
LEMMA TrueHeightFromParent ==
  ASSUME NEW h \in Hash, NEW n \in Nat, <<h, n>> \in TrueHeights
  PROVE  \/ h = Genesis /\ n = 0
         \/ h # Genesis /\ \E m \in Nat : n = m + 1 /\ <<Prev[h], m>> \in TrueHeights
<1> DEFINE Good(k, l) == \/ k = Genesis /\ l = 0
                         \/ k # Genesis /\ \E m \in Nat : l = m + 1 /\ <<Prev[k], m>> \in TrueHeights
           D == {x \in TrueHeights : Good(x[1], x[2])}
<1>1. HeightClosed(D)
  <2>1. <<Genesis, 0>> \in D
    BY TrueHeightsLeast DEF HeightClosed
  <2>2. ASSUME NEW k \in Hash \ {Genesis}, NEW l \in Nat, <<Prev[k], l>> \in D
        PROVE  <<k, l + 1>> \in D
    <3>1. <<Prev[k], l>> \in TrueHeights
      BY <2>2
    <3>2. <<k, l + 1>> \in TrueHeights
      BY <3>1, TrueHeightsLeast DEF HeightClosed
    <3>3. Good(k, l + 1)
      BY <3>1
    <3> QED BY <3>2, <3>3
  <2> HIDE DEF D
  <2> QED BY <2>1, <2>2 DEF HeightClosed
<1>2. D \in SUBSET (Hash \X Nat)
  BY TrueHeightsLeast
<1>3. <<h, n>> \in D
  <2> HIDE DEF D
  <2> QED BY <1>1, <1>2, TrueHeightsLeast
<1> QED BY <1>3

\* A hash has one true height.
LEMMA OneTrueHeight ==
  ASSUME NEW h \in Hash, NEW n \in Nat, NEW m \in Nat,
         <<h, n>> \in TrueHeights, <<h, m>> \in TrueHeights
  PROVE  n = m
<1> DEFINE D == {x \in TrueHeights : \A l \in Nat : <<x[1], l>> \in TrueHeights => l = x[2]}
<1>1. HeightClosed(D)
  <2>1. <<Genesis, 0>> \in D
    <3>1. \A l \in Nat : <<Genesis, l>> \in TrueHeights => l = 0
      BY TrueHeightFromParent, HashAssumption
    <3> QED BY <3>1, TrueHeightsLeast DEF HeightClosed
  <2>2. ASSUME NEW k \in Hash \ {Genesis}, NEW j \in Nat, <<Prev[k], j>> \in D
        PROVE  <<k, j + 1>> \in D
    <3>1. /\ <<Prev[k], j>> \in TrueHeights
          /\ \A l \in Nat : <<Prev[k], l>> \in TrueHeights => l = j
      BY <2>2
    <3>2. <<k, j + 1>> \in TrueHeights
      BY <3>1, TrueHeightsLeast DEF HeightClosed
    <3>3. ASSUME NEW l \in Nat, <<k, l>> \in TrueHeights PROVE l = j + 1
      <4>1. PICK i \in Nat : l = i + 1 /\ <<Prev[k], i>> \in TrueHeights
        BY <3>3, TrueHeightFromParent
      <4> QED BY <3>1, <4>1
    <3> QED BY <3>2, <3>3
  <2> HIDE DEF D
  <2> QED BY <2>1, <2>2 DEF HeightClosed
<1>2. D \in SUBSET (Hash \X Nat)
  BY TrueHeightsLeast
<1>3. <<h, n>> \in D
  <2> HIDE DEF D
  <2> QED BY <1>1, <1>2, TrueHeightsLeast
<1> QED BY <1>3

\* Among copies with their true heights, a parent is lower than its child.
LEMMA ParentsAreLower ==
  ASSUME NEW S \in SUBSET Block, Headers(S) \subseteq TrueHeights,
         NEW b \in S, NEW p \in S, b.hash # Genesis, p.hash = Prev[b.hash]
  PROVE  p.height < b.height
<1>1. /\ <<b.hash, b.height>> \in TrueHeights /\ <<p.hash, p.height>> \in TrueHeights
      /\ b.hash \in Hash /\ p.hash \in Hash /\ b.height \in Nat /\ p.height \in Nat
  BY DEF Headers, Block
<1>2. PICK m \in Nat : b.height = m + 1 /\ <<Prev[b.hash], m>> \in TrueHeights
  BY <1>1, TrueHeightFromParent
<1>3. p.height = m
  BY <1>1, <1>2, OneTrueHeight
<1> QED BY <1>2, <1>3

-----------------------------------------------------------------------------
\* The walk from the best block, over a torn tree too: nothing on it is as high as
\* its start, and if it did not raise it ended at genesis.
LEMMA WalkFromBest ==
  ASSUME NEW blks \in SUBSET Block, Headers(blks) \subseteq TrueHeights,
         NEW best \in blks, \A c \in blks : ~ Better(c, best)
  PROVE  /\ best \in Walk(blks, best)
         /\ Walk(blks, best) \in SUBSET blks
         /\ Tip(Walk(blks, best)) = best
         /\ ~ WalkRaises(blks, best) => Genesis \in Hashes(Walk(blks, best))
<1> DEFINE W == Walk(blks, best)
           S == {best} \cup {c \in blks : c.height < best.height}
<1>1. best \in W /\ W \in SUBSET blks /\ WalkClosed(blks, W)
  BY WalkLeast
<1>2. WalkClosed(blks, S)
  <2> SUFFICES ASSUME NEW b \in S, b.hash # Genesis, NEW p \in Parents(blks, b)
               PROVE  p \in S
    BY DEF WalkClosed
  <2>1. b \in blks /\ p \in blks /\ p.hash = Prev[b.hash]
    BY DEF Parents
  <2>2. p.height < b.height
    BY <2>1, ParentsAreLower
  <2>3. b.height <= best.height
    BY BlockTypes
  <2> QED BY <2>1, <2>2, <2>3, BlockTypes
<1>3. W \subseteq S
  <2>1. S \in SUBSET blks /\ best \in S
    OBVIOUS
  <2> HIDE DEF S
  <2> QED BY <1>2, <2>1, WalkLeast
<1>4. Tip(W) = best
  <2>1. \A c \in W : c.height <= best.height
    BY <1>1, <1>3, BlockTypes
  <2>2. Tip(W) \in W /\ \A c \in W : c.height <= Tip(W).height
    BY <1>1, <2>1 DEF Tip
  <2>3. best.height <= Tip(W).height
    BY <1>1, <2>2
  <2>4. Tip(W) \in S
    BY <1>3, <2>2
  <2>5. Tip(W) \in Block
    BY <1>1, <2>2
  <2> HIDE DEF W
  <2> QED BY <2>3, <2>4, <2>5, BlockTypes
<1>5. ASSUME ~ WalkRaises(blks, best), Genesis \notin Hashes(W) PROVE FALSE
  <2> DEFINE H == {b.height : b \in W}
  <2>1. H \in SUBSET Nat /\ H # {}
    BY <1>1, BlockTypes
  <2>2. PICK m \in H : \A n \in H : m <= n
    <3> HIDE DEF H
    <3> QED BY <2>1, LeastNatural
  <2>3. PICK b \in W : b.height = m
    BY <2>2
  <2>4. b.hash # Genesis
    BY <1>5, <2>3 DEF Hashes
  <2>5. PICK p \in Parents(blks, b) : TRUE
    BY <1>5, <2>3, <2>4 DEF WalkRaises
  <2>6. p \in W
    BY <1>1, <2>3, <2>4, <2>5 DEF WalkClosed
  <2>7. p.height < b.height
    BY <1>1, <2>3, <2>4, <2>5, ParentsAreLower DEF Parents
  <2>8. m <= p.height
    BY <2>2, <2>6
  <2>9. b \in Block /\ p \in Block
    BY <1>1, <2>3, <2>6
  <2> QED BY <2>3, <2>7, <2>8, <2>9, BlockTypes
<1> QED BY <1>1, <1>4, <1>5

\* A chain that was extended or rebuilt has the best block as its tip, even if
\* the tree is torn and the chain with it.
LEMMA NewTip ==
  ASSUME NEW blks \in SUBSET Block, IsFiniteSet(blks), Headers(blks) \subseteq TrueHeights,
         NEW old \in SUBSET blks, old # {}, NEW new,
         \/ Extends(Best(blks), Tip(old)) /\ new = PutByHeight(old, Best(blks))
         \/ new = Walk(blks, Best(blks))
  PROVE  /\ new \in SUBSET blks /\ new # {}
         /\ Tip(new) = Best(blks)
         /\ Best(blks) \in blks /\ \A c \in blks : ~ Better(c, Best(blks))
<1> DEFINE best == Best(blks)
           t == Tip(old)
<1>1. best \in blks /\ \A c \in blks : ~ Better(c, best)
  <2>1. blks # {}
    OBVIOUS
  <2> QED BY <2>1, BestExists
<1>2. t \in old /\ \A c \in old : c.height <= t.height
  <2>1. IsFiniteSet(old) /\ old \in SUBSET Block
    BY FS_Subset
  <2> QED BY <2>1, TipExists
<1> HIDE DEF best, t
<1>3. CASE Extends(best, t) /\ new = PutByHeight(old, best)
  <2>1. best.height = t.height + 1
    BY <1>3 DEF Extends
  <2>2. \A c \in old : c.height < best.height
    BY <1>1, <1>2, <2>1, BlockTypes
  <2>3. new = old \cup {best}
    BY <1>1, <1>3, <2>2, BlockTypes DEF PutByHeight
  <2>4. Tip(new) = best
    <3>1. \A c \in new : c.height <= best.height
      BY <1>1, <2>2, <2>3, BlockTypes
    <3>2. Tip(new) \in new /\ \A c \in new : c.height <= Tip(new).height
      BY <2>3, <3>1 DEF Tip
    <3>3. best.height <= Tip(new).height
      BY <2>3, <3>2
    <3> QED BY <1>1, <2>2, <2>3, <3>2, <3>3, BlockTypes
  <2> QED BY <1>1, <2>3, <2>4 DEF best
<1>4. CASE new = Walk(blks, best)
  BY <1>1, <1>4, WalkFromBest DEF best
<1> QED BY <1>3, <1>4 DEF best, t

\* Over a rooted tree the new chain is linked.
LEMMA NewChain ==
  ASSUME NEW blks \in SUBSET Block, IsFiniteSet(blks), Rooted(blks), UniqueHashes(blks),
         NEW old \in SUBSET blks, Linked(old), NEW new,
         \/ Extends(Best(blks), Tip(old)) /\ new = PutByHeight(old, Best(blks))
         \/ new = Walk(blks, Best(blks))
  PROVE  Linked(new)
<1> DEFINE best == Best(blks)
<1>1. best \in blks
  BY BestExists DEF Rooted
<1> HIDE DEF best
<1>2. IsFiniteSet(old) /\ old \in SUBSET Block
  BY FS_Subset
<1>3. CASE Extends(best, Tip(old)) /\ new = PutByHeight(old, best)
  BY <1>1, <1>2, <1>3, ExtendedIsChain DEF Extends
<1>4. CASE new = Walk(blks, best)
  BY <1>1, <1>4, WalkIsChain
<1> QED BY <1>3, <1>4 DEF best

-----------------------------------------------------------------------------
\* The tree that _select_best_tip looks at after add_block(b) stored b or found it.
LEMMA ReachedTree ==
  ASSUME Running, NEW b \in Offered, Reaches(b)
  PROVE  /\ Tree(b) \in SUBSET Block /\ IsFiniteSet(Tree(b))
         /\ Headers(Tree(b)) \subseteq TrueHeights
         /\ blocks' = Tree(b)
         /\ blocks \subseteq Tree(b)
         /\ orphans' \in SUBSET orphans /\ IsFiniteSet(orphans')
         /\ Hashes(orphans') \cap Hashes(Tree(b)) = {}
<1>1. CASE Knows(b)
  <2>1. Tree(b) = blocks /\ blocks' = blocks /\ orphans' = orphans
    BY <1>1 DEF Tree, Reaches
  <2> QED BY <2>1 DEF Running, TypeOK
<1>2. CASE ~ Knows(b)
  <2> DEFINE C == Cascade(orphans, b)
  <2>1. /\ Tree(b) = PutByHash(blocks, C) /\ Stores(b)
        /\ blocks' = Tree(b) /\ orphans' = StillParked(orphans, b)
    BY <1>2 DEF Tree, Reaches, Stores
  <2>2. /\ b \in Block
        /\ b.hash \notin Hashes(blocks) /\ b.hash \notin Hashes(orphans)
    BY <1>2, <2>1, BlockchainAssumption DEF Stores, IsValid, Block, Copy, Knows
  <2>3. /\ Adopted(orphans, b) \in SUBSET orphans
        /\ \A o \in Adopted(orphans, b) : \E p \in C : p.hash = Prev[o.hash]
    BY <2>2, AdoptedHaveParents DEF Running, TypeOK
  <2>4. /\ C \in SUBSET Block /\ IsFiniteSet(C)
        /\ \A c \in C : c.hash \notin Hashes(blocks)
    <3>1. C = Adopted(orphans, b) \cup {b}
      BY DEF Cascade
    <3>2. IsFiniteSet(Adopted(orphans, b))
      BY <2>3, FS_Subset DEF Running
    <3>3. IsFiniteSet(C)
      BY <3>1, <3>2, FS_AddElement
    <3>4. \A o \in orphans : o.hash \notin Hashes(blocks)
      BY DEF Running, Hashes
    <3> QED BY <3>1, <3>3, <3>4, <2>2, <2>3 DEF Running, TypeOK
  <2>5. Headers(C) \subseteq TrueHeights
    <3>1. <<b.hash, b.height>> \in TrueHeights
      <4>1. PICK p \in blocks : p.hash = Prev[b.hash] /\ b.height = p.height + 1
        BY <2>1 DEF Stores, Parents
      <4>2. /\ <<Prev[b.hash], p.height>> \in TrueHeights /\ p.height \in Nat
            /\ b.hash \in Hash \ {Genesis}
        BY <2>2, <4>1, BlockTypes DEF Running, TypeOK, Headers, Block
      <4> QED BY <4>1, <4>2, TrueHeightsLeast DEF HeightClosed
    <3> DEFINE S == {o \in orphans : <<o.hash, o.height>> \in TrueHeights}
    <3>2. AdoptionClosed(orphans, b, S)
      <4> SUFFICES ASSUME NEW o \in orphans, NEW p \in S \cup {b},
                          p.hash = Prev[o.hash], o.height = p.height + 1
                   PROVE  <<o.hash, o.height>> \in TrueHeights
        BY DEF AdoptionClosed
      <4>1. /\ o.hash \in Hash \ {Genesis} /\ p.height \in Nat
            /\ <<Prev[o.hash], p.height>> \in TrueHeights
        BY <2>2, <3>1, BlockTypes DEF Running, TypeOK, Hashes, Block
      <4> QED BY <4>1, TrueHeightsLeast DEF HeightClosed
    <3>3. Adopted(orphans, b) \subseteq S
      <4>1. S \in SUBSET orphans
        OBVIOUS
      <4> HIDE DEF S
      <4> QED BY <3>2, <4>1 DEF Adopted
    <3> QED BY <3>1, <3>3 DEF Cascade, Headers
  <2>6. StillParked(orphans, b) \in SUBSET orphans
    BY DEF StillParked
  <2>7. /\ IsFiniteSet(StillParked(orphans, b))
        /\ \A o \in StillParked(orphans, b) : o.hash \notin Hashes(C)
    <3>1. IsFiniteSet(StillParked(orphans, b))
      BY <2>6, FS_Subset DEF Running
    <3>2. ASSUME NEW o \in StillParked(orphans, b), NEW c \in C, o.hash = c.hash PROVE FALSE
      <4>1. o \in orphans /\ Prev[o.hash] \notin Hashes(C)
        BY DEF StillParked
      <4>2. c \in Adopted(orphans, b)
        BY <2>2, <3>2, <4>1 DEF Cascade, Hashes
      <4> QED BY <2>3, <3>2, <4>1, <4>2 DEF Hashes
    <3> QED BY <3>1, <3>2 DEF Hashes
  <2> HIDE DEF C
  <2>8. Tree(b) = blocks \cup C
    BY <2>1, <2>4 DEF PutByHash, Hashes
  <2>9. IsFiniteSet(blocks \cup C)
    BY <2>4, FS_Union DEF Running
  <2>10. Headers(Tree(b)) \subseteq TrueHeights
    BY <2>5, <2>8 DEF Headers, Running
  <2>11. Hashes(StillParked(orphans, b)) \cap Hashes(Tree(b)) = {}
    BY <2>6, <2>7, <2>8 DEF Hashes, Running
  <2> QED BY <2>1, <2>4, <2>6, <2>7, <2>8, <2>9, <2>10, <2>11 DEF Running, TypeOK
<1> QED BY <1>1, <1>2

\* As long as everything is intact, that tree is rooted and the orphans wait.
LEMMA ReachedTreeIsIntact ==
  ASSUME Running, Intact, NEW b \in Offered, Reaches(b)
  PROVE  /\ Rooted(Tree(b)) /\ UniqueHashes(Tree(b))
         /\ OrphansWait'
<1>1. CASE Knows(b)
  BY <1>1 DEF Tree, Reaches, Intact, TreeIsConnected, OrphansWait
<1>2. CASE ~ Knows(b)
  <2>1. /\ Tree(b) = PutByHash(blocks, Cascade(orphans, b)) /\ Stores(b)
        /\ blocks' = Tree(b) /\ orphans' = StillParked(orphans, b)
    BY <1>2 DEF Tree, Reaches, Stores
  <2>2. /\ blocks \in SUBSET Block /\ orphans \in SUBSET Block /\ IsFiniteSet(orphans)
        /\ Rooted(blocks) /\ UniqueHashes(blocks) /\ UniqueHashes(orphans)
        /\ Hashes(orphans) \cap Hashes(blocks) = {}
        /\ Cardinality(orphans) <= MaxOrphans
        /\ \A o \in orphans : Prev[o.hash] \notin Hashes(blocks)
    BY DEF Running, TypeOK, Intact, TreeIsConnected, OrphansWait
  <2>3. /\ b \in Block
        /\ b.hash \notin Hashes(blocks) \cup Hashes(orphans)
        /\ \E p \in blocks : p.hash = Prev[b.hash] /\ b.height = p.height + 1
    BY <1>2, <2>1, BlockchainAssumption DEF Stores, IsValid, Block, Copy, Knows, Parents
  <2>4. /\ Rooted(Tree(b)) /\ UniqueHashes(Tree(b))
        /\ orphans' \in SUBSET orphans
        /\ Hashes(orphans') \cap Hashes(Tree(b)) = {}
        /\ \A o \in orphans' : Prev[o.hash] \notin Hashes(Tree(b))
    BY <2>1, <2>2, <2>3, CascadeKeepsTree
  <2>5. Cardinality(orphans') <= MaxOrphans
    <3>1. IsFiniteSet(orphans') /\ Cardinality(orphans') <= Cardinality(orphans)
      BY <2>2, <2>4, FS_Subset
    <3> QED BY <2>2, <3>1, FS_CardinalityType, BlockchainAssumption
  <2> QED BY <2>1, <2>4, <2>5 DEF OrphansWait
<1> QED BY <1>1, <1>2

-----------------------------------------------------------------------------
\* The chain in memory moves to the best block of blks.
Renews(blks) ==
    /\ Better(Best(blks), Tip(main))
    /\ \/ Extends(Best(blks), Tip(main)) /\ main' = PutByHeight(main, Best(blks))
       \/ main' = Walk(blks, Best(blks))

\* The disk follows it, or the storage raised and it does not.
Saves(blks) ==
    \/ disk' = disk
    \/ disk' = PutByHeight(disk, Best(blks))
    \/ disk' = Walk(blks, Best(blks)) /\ ~ WalkRaises(blks, Best(blks))

\* _select_best_tip keeps the chain or does both.
LEMMA SelectKeepsOrRenews ==
  ASSUME NEW blks \in SUBSET Block, main \in SUBSET blks, main # {}, IsFiniteSet(blks),
         NEW added \in BOOLEAN, SelectBestTip(blks, added)
  PROVE  /\ res' \in AddResult
         /\ \/ main' = main /\ disk' = disk /\ ~ Better(Best(blks), Tip(main))
            \/ Renews(blks) /\ Saves(blks)
<1>1. CASE KeepTip(blks, added)
  BY <1>1 DEF KeepTip, AddResult, NoResult
<1>2. CASE ExtendTip(blks, added)
  <2>1. Best(blks) \in Block
    BY BestExists
  <2>2. res' = [NoResult EXCEPT !.added = added, !.extended_tip = TRUE, !.applied = {Best(blks)}]
    BY <1>2 DEF ExtendTip
  <2>3. res' \in AddResult
    BY <2>1, <2>2 DEF AddResult, NoResult
  <2> QED BY <1>2, <2>3 DEF ExtendTip, Renews, Saves
<1>3. CASE Reorg(blks, added)
  <2> DEFINE W == Walk(blks, Best(blks))
  <2>1. W \in SUBSET Block
    BY DEF Walk
  <2>2. Missing(main, W) \in SUBSET Block /\ Missing(W, main) \in SUBSET Block
    BY <2>1 DEF Missing
  <2>3. res' = [NoResult EXCEPT !.added = added, !.extended_tip = TRUE,
                                !.reverted = Missing(main, W), !.applied = Missing(W, main)]
    BY <1>3 DEF Reorg
  <2>4. res' \in AddResult
    BY <2>2, <2>3 DEF AddResult, NoResult
  <2> QED BY <1>3, <2>4 DEF Reorg, Renews, Saves
<1> QED BY <1>1, <1>2, <1>3 DEF SelectBestTip

\* add_block gets to _select_best_tip with the tree that was reached.
LEMMA AddBlockSelects ==
  ASSUME NEW b \in Offered, Reselect(b) \/ Connect(b)
  PROVE  Reaches(b) /\ \E added \in BOOLEAN : SelectBestTip(Tree(b), added)
<1>1. CASE Reselect(b)
  BY <1>1 DEF Reselect, Reaches, Tree
<1>2. CASE Connect(b)
  BY <1>2 DEF Connect, Stores, Reaches, Tree
<1> QED BY <1>1, <1>2

\* Such a step keeps what holds of a running node.
LEMMA RunningIsKept ==
  ASSUME Running, NEW b \in Offered, Reaches(b),
         res' \in AddResult, restarts' = restarts,
         faults' \in 0..MaxFaults, wentOn' \in BOOLEAN,
         \/ main' = main /\ disk' = disk
         \/ Renews(Tree(b)) /\ Saves(Tree(b))
  PROVE  Running'
<1> DEFINE T == Tree(b)
           best == Best(T)
<1>1. /\ T \in SUBSET Block /\ IsFiniteSet(T) /\ Headers(T) \subseteq TrueHeights
      /\ blocks' = T /\ blocks \subseteq T
      /\ orphans' \in SUBSET orphans /\ IsFiniteSet(orphans')
      /\ Hashes(orphans') \cap Hashes(T) = {}
  BY ReachedTree
<1>2. main \in SUBSET T /\ main # {}
  BY <1>1 DEF Running
<1> HIDE DEF T, best
<1>3. main' \in SUBSET T /\ main' # {}
  BY <1>1, <1>2, NewTip DEF Renews, T
<1>4. /\ disk' \in SUBSET Block /\ IsFiniteSet(disk')
      /\ Headers(disk') \subseteq TrueHeights /\ Genesis \in Hashes(disk')
  <2>1. CASE disk' = disk
    BY <2>1 DEF Running, TypeOK
  <2>2. CASE disk' # disk
    <3>1. Renews(T) /\ Saves(T)
      BY <2>2 DEF T
    <3>2. /\ best \in T /\ best \in Block
          /\ \A c \in T : ~ Better(c, best)
      BY <1>1, <1>2, BestExists DEF best
    <3>3. CASE disk' = PutByHeight(disk, best)
      <4>1. PICK g \in disk : g.hash = Genesis
        BY DEF Running, Hashes
      <4>2. g.height = 0 /\ <<best.hash, best.height>> \in TrueHeights
        <5>1. <<g.hash, g.height>> \in TrueHeights
          BY DEF Running, Headers
        <5>2. g.hash \in Hash /\ g.height \in Nat
          BY DEF Running, TypeOK, Block
        <5>3. g.height = 0
          BY <4>1, <5>1, <5>2, TrueHeightFromParent
        <5> QED BY <5>3, <1>1, <3>2 DEF Headers
      <4>3. g \in disk' \/ best.hash = Genesis
        <5>1. CASE best.height = 0
          <6>1. best.hash \in Hash
            BY <3>2 DEF Block
          <6>2. <<best.hash, 0>> \in TrueHeights
            BY <4>2, <5>1
          <6> HIDE DEF best
          <6>3. 0 \in Nat /\ \A m \in Nat : 0 # m + 1
            OBVIOUS
          <6> QED BY <6>1, <6>2, <6>3, TrueHeightFromParent
        <5>2. CASE best.height # 0
          BY <3>3, <4>2, <5>2 DEF PutByHeight
        <5> QED BY <5>1, <5>2
      <4>4. disk' \in SUBSET (disk \cup {best}) /\ best \in disk'
        BY <3>3 DEF PutByHeight
      <4>5. IsFiniteSet(disk \cup {best})
        BY FS_AddElement DEF Running
      <4>6. IsFiniteSet(disk')
        BY <4>4, <4>5, FS_Subset
      <4> QED BY <3>2, <4>1, <4>2, <4>3, <4>4, <4>6 DEF Running, TypeOK, Headers, Hashes
    <3>4. CASE disk' = Walk(T, best) /\ ~ WalkRaises(T, best)
      <4>1. disk' \in SUBSET T /\ Genesis \in Hashes(disk')
        BY <1>1, <3>2, <3>4, WalkFromBest
      <4>2. IsFiniteSet(disk')
        BY <1>1, <4>1, FS_Subset
      <4> QED BY <1>1, <4>1, <4>2 DEF Headers
    <3> QED BY <2>2, <3>1, <3>3, <3>4 DEF Saves, best
  <2> QED BY <2>1, <2>2
<1>5. TypeOK'
  BY <1>1, <1>3, <1>4 DEF Running, TypeOK
<1>6. UniqueHashes(orphans')
  BY <1>1 DEF Running, UniqueHashes
<1>7. Genesis \in Hashes(T)
  BY <1>1 DEF Running, Hashes
<1> QED BY <1>1, <1>3, <1>4, <1>5, <1>6, <1>7 DEF Running

\* In a linked chain of true heights no hash occurs twice.
LEMMA LinkedHasUniqueHashes ==
  ASSUME NEW S \in SUBSET Block, Headers(S) \subseteq TrueHeights, Linked(S)
  PROVE  UniqueHashes(S)
<1> SUFFICES ASSUME NEW b \in S, NEW c \in S, b.hash = c.hash PROVE b = c
  BY DEF UniqueHashes
<1>1. /\ <<b.hash, b.height>> \in TrueHeights /\ <<b.hash, c.height>> \in TrueHeights
      /\ b.hash \in Hash /\ b.height \in Nat /\ c.height \in Nat
  BY DEF Headers, Block
<1>2. b.height = c.height
  BY <1>1, OneTrueHeight
<1> QED BY <1>2 DEF Linked

\* While all is intact such a step keeps it so, unless the disk becomes a chain that
\* is neither the one it was nor the one in memory.
LEMMA IntactIsKept ==
  ASSUME Running, Running', Intact, NEW b \in Offered, Reaches(b),
         \/ main' = main /\ disk' = disk /\ ~ Better(Best(Tree(b)), Tip(main))
         \/ Renews(Tree(b)) /\ Saves(Tree(b)),
         Headers(disk') \in {Headers(disk), Headers(main')}
  PROVE  Intact'
<1> DEFINE T == Tree(b)
           best == Best(T)
<1>1. /\ T \in SUBSET Block /\ IsFiniteSet(T) /\ Headers(T) \subseteq TrueHeights
      /\ blocks' = T /\ blocks \subseteq T
  BY ReachedTree
<1>2. Rooted(T) /\ UniqueHashes(T) /\ OrphansWait'
  BY ReachedTreeIsIntact
<1>3. main \in SUBSET T /\ main # {} /\ Linked(main) /\ Linked(disk)
  BY <1>1 DEF Running, Intact, MainIsLinked
<1> HIDE DEF T, best
<1>4. best \in T /\ best \in Block /\ \A c \in T : ~ Better(c, best)
  BY <1>1, <1>3, BestExists DEF best
<1>5. /\ main' \in SUBSET T /\ Linked(main')
      /\ \A c \in T : ~ Better(c, Tip(main'))
  <2>1. CASE main' = main /\ ~ Better(best, Tip(main))
    <3>1. Tip(main) \in Block
      <4>1. IsFiniteSet(main) /\ main \in SUBSET Block
        BY <1>1, <1>3, FS_Subset
      <4> QED BY <1>3, <4>1, TipExists
    <3>2. \A c \in T : ~ Better(c, Tip(main))
      BY <1>1, <1>4, <2>1, <3>1, BetterIsAnOrder
    <3> QED BY <1>3, <2>1, <3>2
  <2>2. CASE Renews(T)
    <3>1. /\ main' \in SUBSET T /\ Tip(main') = best
      BY <1>1, <1>3, <2>2, NewTip DEF Renews, best
    <3>2. Linked(main')
      BY <1>1, <1>2, <1>3, <2>2, NewChain DEF Renews
    <3> QED BY <1>4, <3>1, <3>2
  <2> QED BY <2>1, <2>2 DEF T, best
<1>6. Linked(disk')
  <2>1. \A c, d \in disk' : c.height = d.height => c = d
    <3>1. CASE disk' = disk
      BY <1>3, <3>1 DEF Linked
    <3>2. CASE disk' = PutByHeight(disk, best)
      BY <1>3, <3>2 DEF Linked, PutByHeight
    <3>3. CASE disk' = Walk(T, best)
      <4>1. Linked(disk')
        BY <1>1, <1>2, <1>4, <3>3, WalkIsChain
      <4> QED BY <4>1 DEF Linked
    <3> QED BY <3>1, <3>2, <3>3 DEF Saves, T, best
  <2>2. /\ disk \in SUBSET Block /\ IsFiniteSet(disk) /\ UniqueHashes(disk)
        /\ disk' \in SUBSET Block /\ IsFiniteSet(disk')
    BY <1>3, LinkedHasUniqueHashes DEF Running, TypeOK
  <2>3. /\ main' \in SUBSET Block /\ IsFiniteSet(main') /\ UniqueHashes(main')
    BY <1>1, <1>2, <1>5, FS_Subset DEF UniqueHashes
  <2>4. CASE Headers(disk') = Headers(disk)
    BY <1>3, <2>1, <2>2, <2>4, SameHeadersSameChain
  <2>5. CASE Headers(disk') = Headers(main')
    BY <1>5, <2>1, <2>2, <2>3, <2>5, SameHeadersSameChain
  <2> QED BY <2>4, <2>5
<1> QED BY <1>1, <1>2, <1>5, <1>6 DEF Intact, TreeIsConnected, MainIsLinked, TipIsBest

-----------------------------------------------------------------------------
\* Initially nothing is stored but genesis, on the disk as in memory.
THEOREM FaultyInitInvariant == FaultyInit => FaultyInv
<1> SUFFICES ASSUME FaultyInit PROVE FaultyInv
  OBVIOUS
<1>1. IInv
  BY InitInvariant DEF FaultyInit
<1>2. Headers({GenesisBlock}) \subseteq TrueHeights /\ Genesis \in Hashes({GenesisBlock})
  BY TrueHeightsLeast DEF HeightClosed, Headers, Hashes, GenesisBlock
<1>3. Running
  <2>1. /\ blocks = {GenesisBlock} /\ main = {GenesisBlock} /\ disk = {GenesisBlock}
        /\ orphans = {} /\ faults = 0 /\ wentOn = FALSE
    BY DEF FaultyInit, Init
  <2>2. faults \in 0..MaxFaults
    BY <2>1, FaultsAssumption
  <2>3. /\ TypeOK /\ UniqueHashes(orphans) /\ Hashes(orphans) \cap Hashes(blocks) = {}
        /\ IsFiniteSet(blocks) /\ IsFiniteSet(orphans) /\ IsFiniteSet(disk)
    BY <1>1 DEF IInv, OrphansWait
  <2>4. wentOn \in BOOLEAN
    BY <2>1
  <2> QED BY <1>2, <2>1, <2>2, <2>3, <2>4 DEF Running
<1>4. Intact
  BY <1>1 DEF FaultyInit, Init, IInv, MainIsLinked, Intact
<1> QED BY <1>3, <1>4 DEF FaultyInv

\* What a step that leaves tree, chain and headers on the disk alone keeps.
LEMMA QuietStep ==
  ASSUME Running, UNCHANGED <<blocks, main>>,
         TypeOK', faults' \in 0..MaxFaults, wentOn' \in BOOLEAN,
         IsFiniteSet(orphans'), UniqueHashes(orphans'),
         Hashes(orphans') \cap Hashes(blocks) = {},
         IsFiniteSet(disk'), Headers(disk') = Headers(disk)
  PROVE  Running'
<1>1. Genesis \in Hashes(disk')
  <2>1. PICK g \in disk : g.hash = Genesis
    BY DEF Running, Hashes
  <2>2. <<g.hash, g.height>> \in Headers(disk')
    BY DEF Headers
  <2> QED BY <2>1, <2>2 DEF Headers, Hashes
<1> QED BY <1>1 DEF Running

\* Every step of a running node, whether the storage works or raises.
THEOREM FaultyStepInvariant == FaultyInv /\ [FaultyNext]_faultVars => FaultyInv'
<1> SUFFICES ASSUME FaultyInv, [FaultyNext]_faultVars PROVE FaultyInv'
  OBVIOUS
<1>0. /\ Running /\ TypeOK /\ faults \in 0..MaxFaults /\ wentOn \in BOOLEAN
      /\ blocks \in SUBSET Block /\ main \in SUBSET Block /\ orphans \in SUBSET Block
      /\ disk \in SUBSET Block /\ restarts \in 0..MaxRestarts
      /\ ~ wentOn => Intact
  BY DEF FaultyInv, Running, TypeOK
<1>1. ASSUME NEW b \in Offered, AddBlock(b), faults' = faults,
             wentOn' = (wentOn \/ Headers(disk') \notin {Headers(disk), Headers(main')})
      PROVE  FaultyInv'
  <2>0. restarts' = restarts /\ faults' \in 0..MaxFaults /\ wentOn' \in BOOLEAN
    BY <1>0, <1>1 DEF AddBlock
  <2>1. CASE Reject(b) \/ WrongHeight(b)
    <3>1. /\ UNCHANGED <<blocks, main, orphans, disk>>
          /\ res' = NoResult
      BY <2>1 DEF Reject, WrongHeight
    <3>2. TypeOK'
      BY <1>0, <2>0, <3>1 DEF TypeOK, NoResult, AddResult
    <3>3. Running'
      BY <1>0, <2>0, <3>1, <3>2, QuietStep DEF Running
    <3>4. Intact => Intact'
      BY <3>1 DEF Intact, TreeIsConnected, MainIsLinked, TipIsBest, OrphansWait
    <3> QED BY <1>0, <1>1, <3>3, <3>4 DEF FaultyInv
  <2>2. CASE Park(b)
    <3>1. /\ UNCHANGED <<blocks, main, disk>>
          /\ res' = [NoResult EXCEPT !.is_orphan = TRUE, !.missing_parent = {Prev[b.hash]}]
          /\ Parents(blocks, b) = {}
          /\ b.hash \notin Hashes(blocks) /\ b.hash \notin Hashes(orphans)
          /\ orphans' = IF Cardinality(orphans) >= MaxOrphans THEN orphans ELSE orphans \cup {b}
          /\ b \in Block
      BY <2>2, BlockchainAssumption DEF Park, Knows, IsValid, Block, Copy
    <3>2. res' \in AddResult
      BY <3>1, HashAssumption DEF NoResult, AddResult, Block
    <3>3. /\ orphans' \in SUBSET Block /\ IsFiniteSet(orphans')
          /\ UniqueHashes(orphans')
          /\ Hashes(orphans') \cap Hashes(blocks) = {}
      <4>1. CASE orphans' = orphans
        BY <1>0, <4>1 DEF Running
      <4>2. CASE orphans' = orphans \cup {b}
        <5>1. IsFiniteSet(orphans')
          BY <1>0, <4>2, FS_AddElement DEF Running
        <5> QED BY <1>0, <3>1, <4>2, <5>1 DEF Running, UniqueHashes, Hashes
      <4> QED BY <3>1, <4>1, <4>2
    <3>4. TypeOK'
      BY <1>0, <2>0, <3>1, <3>2, <3>3 DEF TypeOK
    <3>5. Running'
      BY <1>0, <2>0, <3>1, <3>3, <3>4, QuietStep DEF Running
    <3>6. ASSUME Intact PROVE Intact'
      <4>1. Cardinality(orphans') <= MaxOrphans
        <5>1. Cardinality(orphans) <= MaxOrphans /\ Cardinality(orphans) \in Nat
          BY <1>0, <3>6, FS_CardinalityType DEF Intact, OrphansWait, Running
        <5>2. Cardinality(orphans \cup {b})
                 = (IF b \in orphans THEN Cardinality(orphans) ELSE Cardinality(orphans) + 1)
          BY <1>0, FS_AddElement DEF Running
        <5> QED BY <3>1, <5>1, <5>2, BlockchainAssumption
      <4>2. \A o \in orphans' : Prev[o.hash] \notin Hashes(blocks)
        BY <3>1, <3>6 DEF Intact, OrphansWait, Hashes, Parents
      <4> QED
        BY <3>1, <3>3, <3>6, <4>1, <4>2
        DEF Intact, TreeIsConnected, MainIsLinked, TipIsBest, OrphansWait
    <3> QED BY <1>0, <1>1, <3>5, <3>6 DEF FaultyInv
  <2>3. CASE Reselect(b) \/ Connect(b)
    <3>1. Reaches(b) /\ \E added \in BOOLEAN : SelectBestTip(Tree(b), added)
      BY <2>3, AddBlockSelects
    <3>2. /\ Tree(b) \in SUBSET Block /\ IsFiniteSet(Tree(b))
          /\ main \in SUBSET Tree(b) /\ main # {}
      BY <1>0, <3>1, ReachedTree DEF Running
    <3>3. /\ res' \in AddResult
          /\ \/ main' = main /\ disk' = disk /\ ~ Better(Best(Tree(b)), Tip(main))
             \/ Renews(Tree(b)) /\ Saves(Tree(b))
      BY <3>1, <3>2, SelectKeepsOrRenews
    <3>4. Running'
      BY <1>0, <2>0, <3>1, <3>3, RunningIsKept
    <3>5. ASSUME ~ wentOn' PROVE Intact'
      <4>1. ~ wentOn /\ Headers(disk') \in {Headers(disk), Headers(main')}
        BY <1>1, <3>5
      <4> QED BY <1>0, <3>1, <3>3, <3>4, <4>1, IntactIsKept
    <3> QED BY <3>4, <3>5 DEF FaultyInv
  <2> QED BY <1>1, <2>1, <2>2, <2>3 DEF AddBlock
<1>2. ASSUME Restart, faults' = faults,
             wentOn' = (wentOn \/ Headers(disk') \notin {Headers(disk), Headers(main')})
      PROVE  FaultyInv'
  <2>1. /\ blocks' = disk /\ main' = disk /\ disk' = disk
        /\ orphans' = {} /\ res' = NoResult
        /\ restarts' \in 0..MaxRestarts
    BY <1>0, <1>2, BlockchainAssumption DEF Restart
  <2>2. TypeOK'
    BY <1>0, <2>1 DEF TypeOK, NoResult, AddResult
  <2>3. Running'
    <3>1. disk # {}
      BY <1>0 DEF Running, Hashes
    <3>2. IsFiniteSet({}) /\ UniqueHashes({}) /\ Hashes({}) = {}
      BY FS_EmptySet DEF UniqueHashes, Hashes
    <3> QED BY <1>0, <1>2, <2>1, <2>2, <3>1, <3>2 DEF Running
  <2>4. ASSUME Linked(disk) PROVE Intact'
    <3>1. UniqueHashes(disk)
      BY <1>0, <2>4, LinkedHasUniqueHashes DEF Running
    <3>2. \A c \in disk : ~ Better(c, Tip(disk))
      <4>1. Tip(disk) \in disk /\ \A c \in disk : c.height <= Tip(disk).height
        BY <1>0, <2>4, TipExists DEF Running, Linked, Rooted
      <4> SUFFICES ASSUME NEW c \in disk, Better(c, Tip(disk)) PROVE FALSE
        OBVIOUS
      <4>2. c.height = Tip(disk).height
        BY <1>0, <4>1, BlockTypes DEF Better
      <4>3. c = Tip(disk)
        BY <2>4, <4>1, <4>2 DEF Linked
      <4> QED BY <1>0, <4>1, <4>3, BetterIsAnOrder
    <3>3. OrphansWait'
      BY <2>1, FS_EmptySet, BlockchainAssumption DEF OrphansWait, Hashes
    <3> QED
      BY <2>1, <2>4, <3>1, <3>2, <3>3
      DEF Intact, TreeIsConnected, MainIsLinked, TipIsBest, Linked
  <2> QED BY <1>0, <1>2, <2>3, <2>4 DEF FaultyInv, Intact
<1>3. ASSUME Prune, faults' = faults,
             wentOn' = (wentOn \/ Headers(disk') \notin {Headers(disk), Headers(main')})
      PROVE  FaultyInv'
  <2> DEFINE h == Tip(disk).height
             pruned == [b \in disk |-> Pruned(b, h)]
  <2>1. /\ UNCHANGED <<blocks, main, orphans, res, restarts>>
        /\ disk' = {Pruned(b, h) : b \in disk}
    BY <1>3 DEF Prune
  <2> HIDE DEF h
  <2>2. \A b \in disk : /\ Pruned(b, h) \in Block
                        /\ Pruned(b, h).hash = b.hash
                        /\ Pruned(b, h).height = b.height
    BY <1>0 DEF Pruned, Block
  <2>3. /\ IsFiniteSet(disk') /\ disk' \in SUBSET Block
        /\ Headers(disk') = Headers(disk)
    <3>1. pruned \in Surjection(disk, disk')
      BY <2>1 DEF Surjection
    <3>2. IsFiniteSet(disk')
      BY <1>0, <3>1, FS_Surjection DEF Running
    <3> HIDE DEF pruned
    <3> QED BY <2>1, <2>2, <3>2 DEF Headers
  <2>4. TypeOK'
    BY <1>0, <2>1, <2>3 DEF TypeOK
  <2>5. Running'
    BY <1>0, <1>3, <2>1, <2>3, <2>4, QuietStep DEF Running
  <2>6. ASSUME Intact PROVE Intact'
    <3>1. Linked(disk) /\ UniqueHashes(disk)
      BY <1>0, <2>6, LinkedHasUniqueHashes DEF Intact, Running
    <3>2. \A b, c \in disk' : b.height = c.height => b = c
      BY <2>1, <2>2, <3>1 DEF Linked
    <3>3. Linked(disk')
      BY <1>0, <2>3, <3>1, <3>2, SameHeadersSameChain DEF Running
    <3> QED
      BY <2>1, <2>6, <3>3
      DEF Intact, TreeIsConnected, MainIsLinked, TipIsBest, OrphansWait
  <2> QED BY <1>0, <1>3, <2>5, <2>6 DEF FaultyInv
<1>4. ASSUME NEW b \in Offered, StorageRaises(b) PROVE FaultyInv'
  <2>1. /\ Reaches(b) /\ Renews(Tree(b)) /\ Saves(Tree(b))
        /\ disk' = disk /\ restarts' = restarts /\ wentOn' = wentOn
        /\ res' = NoResult
    BY <1>4 DEF StorageRaises, Renews, Saves
  <2>2. faults' \in 0..MaxFaults
    BY <1>0, <1>4, FaultsAssumption DEF StorageRaises
  <2>3. res' \in AddResult
    BY <2>1 DEF NoResult, AddResult
  <2>4. Running'
    BY <1>0, <2>1, <2>2, <2>3, RunningIsKept
  <2>5. Intact => Intact'
    BY <1>0, <2>1, <2>4, IntactIsKept
  <2> QED BY <1>0, <2>1, <2>4, <2>5 DEF FaultyInv
<1>5. ASSUME NEW b \in Offered, WalkFails(b) PROVE FaultyInv'
  <2>1. /\ Reaches(b) /\ WalkRaises(Tree(b), Best(Tree(b)))
        /\ UNCHANGED <<main, disk, restarts, faults, wentOn>>
        /\ res' = NoResult
    BY <1>5 DEF WalkFails
  <2>2. res' \in AddResult
    BY <2>1 DEF NoResult, AddResult
  <2>3. Running'
    BY <1>0, <2>1, <2>2, RunningIsKept
  <2>4. ~ Intact
    <3> SUFFICES ASSUME Intact PROVE FALSE
      OBVIOUS
    <3>1. /\ Tree(b) \in SUBSET Block /\ IsFiniteSet(Tree(b))
          /\ Rooted(Tree(b)) /\ UniqueHashes(Tree(b))
      BY <1>0, <2>1, ReachedTree, ReachedTreeIsIntact
    <3>2. Best(Tree(b)) \in Tree(b)
      BY <3>1, BestExists DEF Rooted
    <3> QED BY <2>1, <3>1, <3>2, WalkIsChain
  <2> QED BY <1>0, <2>1, <2>3, <2>4 DEF FaultyInv
<1>6. CASE UNCHANGED faultVars
  BY <1>6
  DEF faultVars, vars, FaultyInv, Running, TypeOK, Intact, TreeIsConnected, MainIsLinked,
      TipIsBest, OrphansWait
<1> QED BY <1>1, <1>2, <1>3, <1>4, <1>5, <1>6 DEF FaultyNext, Works, Next

\* The inductive invariant holds whenever the storage raises and however often.
THEOREM FaultyInvariance == FaultySpec => []FaultyInv
BY FaultyInitInvariant, FaultyStepInvariant, PTL DEF FaultySpec

-----------------------------------------------------------------------------
\* Until a block goes to an incomplete disk, the chain in memory and the one that
\* a restart would load are linked, and the tip is the best block.
THEOREM FaultsAloneAreSafe == FaultySpec => []FailStopIsSafe
<1>1. FaultyInv => FailStopIsSafe
  BY DEF FaultyInv, Intact, FailStopIsSafe
<1> QED BY <1>1, FaultyInvariance, PTL

\* A running node never takes a worse tip, even with a torn tree.
THEOREM TipImprovesDespiteFaults == FaultySpec => RunningTipOnlyImproves
<1> DEFINE Improves == restarts' = restarts =>
                          Tip(main').hash = Tip(main).hash \/ Better(Tip(main'), Tip(main))
<1>1. ASSUME FaultyInv, [FaultyNext]_faultVars PROVE [Improves]_faultVars
  <2>0. Running
    BY <1>1 DEF FaultyInv
  <2>1. ASSUME NEW b \in Offered, Reaches(b), Renews(Tree(b)) PROVE Improves
    <3>1. /\ Tree(b) \in SUBSET Block /\ IsFiniteSet(Tree(b))
          /\ Headers(Tree(b)) \subseteq TrueHeights
          /\ main \in SUBSET Tree(b) /\ main # {}
      BY <2>0, <2>1, ReachedTree DEF Running
    <3>2. Tip(main') = Best(Tree(b))
      BY <2>1, <3>1, NewTip DEF Renews
    <3> QED BY <2>1, <3>2 DEF Renews
  <2>2. ASSUME NEW b \in Offered, AddBlock(b) PROVE Improves
    <3>1. CASE Reject(b) \/ WrongHeight(b) \/ Park(b)
      BY <3>1 DEF Reject, WrongHeight, Park
    <3>2. CASE Reselect(b) \/ Connect(b)
      <4>1. Reaches(b) /\ \E added \in BOOLEAN : SelectBestTip(Tree(b), added)
        BY <3>2, AddBlockSelects
      <4>2. /\ Tree(b) \in SUBSET Block /\ IsFiniteSet(Tree(b))
            /\ main \in SUBSET Tree(b) /\ main # {}
        BY <2>0, <4>1, ReachedTree DEF Running
      <4>3. main' = main \/ Renews(Tree(b))
        BY <4>1, <4>2, SelectKeepsOrRenews
      <4> QED BY <2>1, <4>1, <4>3
    <3> QED BY <2>2, <3>1, <3>2 DEF AddBlock
  <2>3. CASE Restart
    <3>1. restarts' = restarts + 1 /\ restarts \in 0..MaxRestarts
      BY <2>0, <2>3 DEF Restart, Running, TypeOK
    <3>2. restarts' # restarts
      BY <3>1, BlockchainAssumption
    <3> QED BY <3>2
  <2>4. CASE Prune
    BY <2>4 DEF Prune
  <2>5. ASSUME NEW b \in Offered, StorageRaises(b) PROVE Improves
    <3>1. Reaches(b) /\ Renews(Tree(b))
      BY <2>5 DEF StorageRaises, Renews
    <3> QED BY <2>1, <3>1
  <2>6. ASSUME NEW b \in Offered, WalkFails(b) PROVE Improves
    BY <2>6 DEF WalkFails
  <2> HIDE DEF Improves
  <2> QED BY <1>1, <2>2, <2>3, <2>4, <2>5, <2>6 DEF FaultyNext, Works, Next
<1> QED BY <1>1, FaultyInvariance, PTL DEF FaultySpec, RunningTipOnlyImproves
=============================================================================

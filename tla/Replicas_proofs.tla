--------------------------- MODULE Replicas_proofs ---------------------------
(***************************************************************************)
(* Nodes that were handed the same copies agree, and more copies never make*)
(* a node worse, for any number of nodes, any blocks and any order, as long*)
(* as there is one sound copy of each block and no orphan is dropped.  What*)
(* a node has connected or parked is then exactly what it was handed, and  *)
(* the tree, the pool and the main chain follow from that.                 *)
(***************************************************************************)
EXTENDS Replicas, Chain_proofs

\* The chain c holds the copies of S that are not genesis, all of them sound.
Holds(c, S) ==
    /\ c.blocks \cup c.orphans = {GenesisBlock} \cup {b \in S : b.hash # Genesis}
    /\ \A b \in S : b.hash # Genesis => b \in Sound

\* The inductive invariant.
IInv ==
    /\ chain \in [Node -> [blocks : SUBSET Block, main : SUBSET Block, orphans : SUBSET Block]]
    /\ got \in [Node -> SUBSET Offered]
    /\ \A n \in Node : GoodChain(chain[n]) /\ Holds(chain[n], got[n])

-----------------------------------------------------------------------------
\* In a good chain that holds S, genesis is the genesis block and nothing else is.
LEMMA GenesisIsThere ==
  ASSUME NEW c, GoodChain(c), NEW S, Holds(c, S)
  PROVE  /\ GenesisBlock \in c.blocks
         /\ \A b \in c.blocks \cup c.orphans : b.hash = Genesis => b = GenesisBlock
         /\ Genesis \in Hashes(c.blocks)
<1>1. PICK g \in c.blocks : g.hash = Genesis /\ g.height = 0
  BY DEF GoodChain, Rooted
<1>2. g = GenesisBlock
  BY <1>1 DEF Holds
<1>3. \A o \in c.orphans : o.hash # Genesis
  BY <1>1 DEF GoodChain, Hashes
<1> QED BY <1>1, <1>2, <1>3 DEF GoodChain, UniqueHashes, Hashes

\* A copy that is not refused is sound, unless it is one of genesis.
LEMMA NotRefusedIsSound ==
  ASSUME NEW c, GoodChain(c), NEW S, Holds(c, S), NEW b \in Offered, ~ Refused(c, b)
  PROVE  IsValid(b) /\ b \in Block /\ (b.hash # Genesis => b \in Sound)
<1>1. IsValid(b) /\ b \in Block
  BY ReplicasAssumption DEF Refused, IsValid, Copy, Block
<1>2. Prev[b.hash] = Genesis => b.height = 1
  BY GenesisIsThere DEF Refused, Parents, GenesisBlock
<1> QED BY <1>1, <1>2 DEF Sound

\* A copy that is refused changes nothing, if it is handed to add_block at all.
LEMMA RefusedIsDropped ==
  ASSUME NEW c, GoodChain(c), NEW b, Refused(c, b), IsValid(b)
  PROVE  AddBlock(c, b).chain = c
<1>1. /\ Parents(c.blocks, b) # {}
      /\ \E p \in Parents(c.blocks, b) : b.height # p.height + 1
  BY DEF Refused
<1>2. CASE Knows(c, b.hash)
  BY <1>2, SelectedIsStable DEF AddBlock, Result
<1>3. CASE ~ Knows(c, b.hash)
  BY <1>1, <1>3 DEF AddBlock, Result
<1> QED BY <1>2, <1>3

\* A copy of a known block changes nothing, and if it counts as handed over, it is the
\* one that the chain holds.
LEMMA KnownIsHeld ==
  ASSUME OneCopyEach, NEW c, GoodChain(c), NEW S, Holds(c, S),
         NEW b \in Offered, ~ Refused(c, b), Knows(c, b.hash)
  PROVE  AddBlock(c, b).chain = c /\ Holds(c, S \cup {b})
<1>1. AddBlock(c, b).chain = c
  BY SelectedIsStable DEF AddBlock, Result
<1>2. b.hash # Genesis => b \in Sound
  BY NotRefusedIsSound
<1>3. b.hash # Genesis => b \in S
  <2> SUFFICES ASSUME b.hash # Genesis PROVE b \in S
    OBVIOUS
  <2>1. PICK x \in c.blocks \cup c.orphans : x.hash = b.hash
    BY DEF Knows, Hashes
  <2>2. x \in S /\ x \in Sound
    BY <2>1 DEF Holds, GenesisBlock
  <2> QED BY <1>2, <2>1, <2>2 DEF OneCopyEach
<1> QED BY <1>1, <1>2, <1>3 DEF Holds

\* The pool takes an orphan whose parent is not there.
LEMMA OrphanIsHeld ==
  ASSUME PoolHasRoom, NEW c, GoodChain(c), NEW S, Holds(c, S),
         NEW b \in Offered, ~ Refused(c, b), ~ Knows(c, b.hash), Parents(c.blocks, b) = {}
  PROVE  Holds(AddBlock(c, b).chain, S \cup {b})
<1> DEFINE d == AddBlock(c, b).chain
           late == {x \in Sound : Prev[x.hash] # Genesis}
           O == c.orphans \cup {b}
<1>1. Genesis \in Hashes(c.blocks)
  BY GenesisIsThere
<1>2. b.hash # Genesis /\ b \in Sound
  BY <1>1, NotRefusedIsSound DEF Knows
<1>3. Prev[b.hash] # Genesis
  BY <1>1 DEF Parents, Hashes
<1>4. O \in SUBSET late
  <2>1. \A o \in c.orphans : Prev[o.hash] # Genesis /\ o.hash # Genesis
    BY <1>1 DEF GoodChain, Hashes
  <2>2. \A o \in c.orphans : o \in Sound
    BY <2>1 DEF Holds, GenesisBlock
  <2> QED BY <1>2, <1>3, <2>1, <2>2
<1>5. Cardinality(c.orphans) < MaxOrphans
  <2>1. b \notin c.orphans
    BY DEF Knows, Hashes
  <2>2. IsFiniteSet(c.orphans) /\ Cardinality(c.orphans) \in Nat
    BY FS_CardinalityType DEF GoodChain
  <2>3. Cardinality(O) = Cardinality(c.orphans) + 1
    BY <2>1, <2>2, FS_AddElement
  <2>4. IsFiniteSet(late) /\ Cardinality(late) <= MaxOrphans
    BY DEF PoolHasRoom
  <2> HIDE DEF O, late
  <2>5. Cardinality(O) <= Cardinality(late) /\ Cardinality(late) \in Nat
    BY <1>4, <2>4, FS_Subset, FS_CardinalityType
  <2> QED BY <2>2, <2>3, <2>4, <2>5, ChainAssumption
<1>6. d = Parked(c, b)
  BY DEF AddBlock, Result
<1>7. Parked(c, b) = [c EXCEPT !.orphans = O]
  <2>1. Cardinality(c.orphans) \in Nat /\ MaxOrphans \in Nat
    BY FS_CardinalityType, ChainAssumption DEF GoodChain
  <2>2. ~ Cardinality(c.orphans) >= MaxOrphans
    BY <1>5, <2>1
  <2> QED BY <2>2 DEF Parked
<1>8. d.blocks = c.blocks /\ d.orphans = O
  BY <1>6, <1>7 DEF GoodChain
<1> HIDE DEF d
<1> QED BY <1>2, <1>8 DEF Holds, d

\* Of sound copies, _store_and_cascade drops none: an orphan whose parent was stored is
\* one above it, and is adopted.
LEMMA CascadeDropsNone ==
  ASSUME NEW orphs, NEW b, \A p, o \in orphs \cup {b} : Prev[o.hash] = p.hash => o.height = p.height + 1
  PROVE  Cascade(orphs, b) \cup StillParked(orphs, b) = orphs \cup {b}
<1> DEFINE A == Adopted(orphs, b)
<1>1. A \subseteq orphs /\ Cascade(orphs, b) = A \cup {b}
  BY DEF Adopted, Cascade
<1>2. AdoptionClosed(orphs, b, A)
  <2> SUFFICES ASSUME NEW o \in orphs, NEW p \in A \cup {b},
                      p.hash = Prev[o.hash], o.height = p.height + 1,
                      NEW S \in SUBSET orphs, AdoptionClosed(orphs, b, S)
               PROVE  o \in S
    BY DEF AdoptionClosed, Adopted
  <2>1. p \in S \cup {b}
    BY DEF Adopted
  <2> QED BY <2>1 DEF AdoptionClosed
<1> HIDE DEF A
<1>3. ASSUME NEW o \in orphs, o \notin StillParked(orphs, b) PROVE o \in A
  <2>1. PICK p \in A \cup {b} : p.hash = Prev[o.hash]
    BY <1>1, <1>3 DEF StillParked, Hashes
  <2>2. o.height = p.height + 1
    BY <1>1, <2>1
  <2> QED BY <1>2, <2>1, <2>2 DEF AdoptionClosed
<1>4. StillParked(orphs, b) \subseteq orphs
  BY DEF StillParked
<1> QED BY <1>1, <1>3, <1>4

\* A copy with a connected parent is stored, and every orphan is stored or stays parked.
LEMMA ConnectedIsHeld ==
  ASSUME OneCopyEach, NEW c, GoodChain(c), NEW S, Holds(c, S),
         NEW b \in Offered, ~ Refused(c, b), ~ Knows(c, b.hash), Parents(c.blocks, b) # {}
  PROVE  Holds(AddBlock(c, b).chain, S \cup {b})
<1> DEFINE new == PutByHash(c.blocks, Cascade(c.orphans, b))
           parked == StillParked(c.orphans, b)
           e == [c EXCEPT !.blocks = new, !.orphans = parked]
           d == Selected(e)
<1>1. b \in Block /\ b.hash # Genesis /\ b \in Sound
  <2>1. Genesis \in Hashes(c.blocks)
    BY GenesisIsThere
  <2> QED BY <2>1, NotRefusedIsSound DEF Knows
<1>2. ~ \E p \in Parents(c.blocks, b) : b.height # p.height + 1
  BY DEF Refused
<1>3. AddBlock(c, b).chain = d
  BY <1>2 DEF AddBlock, Result
<1>4. \E p \in c.blocks : p.hash = Prev[b.hash] /\ b.height = p.height + 1
  BY <1>2 DEF Parents
<1>5. GoodTree(e) /\ e = [blocks |-> new, main |-> c.main, orphans |-> parked]
  BY <1>1, <1>4, ConnectIsRight
<1>6. c.blocks \subseteq new
  BY <1>1, <1>4, ConnectIsRight
<1>7. new \subseteq c.blocks \cup c.orphans \cup {b}
  BY <1>1, <1>4, ConnectIsRight
<1>8. d = [e EXCEPT !.main = d.main]
  BY <1>5, SelectedIsRight
<1>9. \A p, o \in c.orphans \cup {b} : Prev[o.hash] = p.hash => o.height = p.height + 1
  <2>1. \A o \in c.orphans : o.hash # Genesis
    BY GenesisIsThere DEF GoodChain, Hashes
  <2>2. \A o \in c.orphans : o \in Sound
    BY <2>1 DEF Holds, GenesisBlock
  <2> QED BY <1>1, <2>2 DEF OneCopyEach
<1>10. Cascade(c.orphans, b) \cup parked = c.orphans \cup {b}
  BY <1>9, CascadeDropsNone
<1>11. Cascade(c.orphans, b) \subseteq new /\ parked \subseteq c.orphans
  BY DEF PutByHash, StillParked
<1> HIDE DEF new, parked, d
<1>12. d.blocks = new /\ d.orphans = parked
  BY <1>5, <1>8
<1> HIDE DEF e
<1>13. d.blocks \cup d.orphans = c.blocks \cup c.orphans \cup {b}
  BY <1>6, <1>7, <1>10, <1>11, <1>12
<1> QED BY <1>1, <1>3, <1>13 DEF Holds

-----------------------------------------------------------------------------
\* Initially every node holds genesis, and was handed nothing.
LEMMA InitIInv == Init => IInv
<1> SUFFICES ASSUME Init PROVE IInv
  OBVIOUS
<1>1. GenesisBlock \in Block /\ GenesisBlock.hash = Genesis /\ GenesisBlock.height = 0
  BY HashAssumption DEF GenesisBlock, Block
<1>2. GoodChain(Started({GenesisBlock}))
  BY <1>1, GenesisIsGood
<1>3. Holds(Started({GenesisBlock}), {})
  BY DEF Holds, Started
<1>4. Started({GenesisBlock}) \in [blocks : SUBSET Block, main : SUBSET Block, orphans : SUBSET Block]
  BY <1>1 DEF Started
<1> QED BY <1>2, <1>3, <1>4 DEF Init, IInv

\* Every copy that is handed to a node keeps the invariant.
LEMMA StepIInv ==
  ASSUME OneCopyEach, PoolHasRoom, IInv, [Next]_vars
  PROVE  IInv'
<1>1. CASE UNCHANGED vars
  BY <1>1 DEF IInv, vars
<1>2. ASSUME NEW n \in Node, NEW b \in Offered, Hand(n, b) PROVE IInv'
  <2> DEFINE c == chain[n]
             d == IF IsValid(b) THEN AddBlock(c, b).chain ELSE c
             S == got[n] \cup Taken(c, b)
  <2>1. GoodChain(c) /\ Holds(c, got[n]) /\ got[n] \in SUBSET Offered
    BY DEF IInv
  <2>2. chain' = [chain EXCEPT ![n] = d] /\ got' = [got EXCEPT ![n] = S]
    BY <1>2 DEF Hand, IInv
  <2>3. S \in SUBSET Offered
    BY <2>1 DEF Taken
  <2>4. GoodChain(d)
    <3>1. IsValid(b) => b \in Block
      BY ReplicasAssumption DEF IsValid, Copy, Block
    <3> QED BY <2>1, <3>1, AddBlockIsRight
  <2>5. Holds(d, S)
    <3>1. CASE Refused(c, b)
      BY <2>1, <3>1, RefusedIsDropped DEF Taken
    <3>2. CASE ~ Refused(c, b)
      <4>1. d = AddBlock(c, b).chain /\ S = got[n] \cup {b}
        BY <3>2 DEF Taken, Refused
      <4> HIDE DEF c, d, S
      <4>2. CASE Knows(c, b.hash)
        BY <2>1, <3>2, <4>1, <4>2, KnownIsHeld
      <4>3. CASE ~ Knows(c, b.hash) /\ Parents(c.blocks, b) = {}
        BY <2>1, <3>2, <4>1, <4>3, OrphanIsHeld
      <4>4. CASE ~ Knows(c, b.hash) /\ Parents(c.blocks, b) # {}
        BY <2>1, <3>2, <4>1, <4>4, ConnectedIsHeld
      <4> QED BY <4>2, <4>3, <4>4
    <3> QED BY <3>1, <3>2
  <2> HIDE DEF c, d, S
  <2>6. d \in [blocks : SUBSET Block, main : SUBSET Block, orphans : SUBSET Block]
    BY <2>4 DEF GoodChain
  <2> QED BY <2>2, <2>3, <2>4, <2>5, <2>6 DEF IInv
<1> QED BY <1>1, <1>2 DEF Next

\* If the copies agree and the pool has room, the invariant always holds.
THEOREM HeldInvariant == OneCopyEach /\ PoolHasRoom /\ Spec => []IInv
<1> SUFFICES ASSUME OneCopyEach, PoolHasRoom PROVE Spec => []IInv
  OBVIOUS
<1>1. IInv /\ [Next]_vars => IInv'
  BY StepIInv
<1> QED BY <1>1, InitIInv, PTL DEF Spec

\* What a node with all copies of another one, and more, has connected.
LEMMA MoreIsConnected ==
  ASSUME IInv, NEW n \in Node, NEW m \in Node, got[n] \subseteq got[m]
  PROVE  chain[n].blocks \subseteq chain[m].blocks
BY TreeGrows DEF IInv, Holds

\* The nodes of the network converge whatever the order of the blocks: same copies, same
\* tree, same orphans, same main chain.
THEOREM NodesAgree == OneCopyEach /\ PoolHasRoom /\ Spec => []OrderDoesNotMatter
<1>1. IInv => OrderDoesNotMatter
  <2> SUFFICES ASSUME IInv, NEW n \in Node, NEW m \in Node, got[n] = got[m]
               PROVE  chain[n] = chain[m]
    BY DEF OrderDoesNotMatter
  <2> DEFINE c == chain[n]
             d == chain[m]
  <2>1. /\ GoodChain(c) /\ GoodChain(d)
        /\ c.blocks \cup c.orphans = d.blocks \cup d.orphans
    BY DEF IInv, Holds
  <2> HIDE DEF c, d
  <2>2. c.blocks = d.blocks
    <3>1. c.blocks \subseteq d.blocks
      BY <2>1, TreeGrows
    <3>2. d.blocks \subseteq c.blocks
      BY <2>1, TreeGrows
    <3> QED BY <3>1, <3>2
  <2>3. c.orphans = d.orphans
    <3>1. c.orphans \cap c.blocks = {} /\ d.orphans \cap d.blocks = {}
      BY <2>1 DEF GoodChain, Hashes
    <3> QED BY <2>1, <2>2, <3>1
  <2>4. c.main = d.main
    BY <2>1, <2>2, TreeGivesChain
  <2> QED BY <2>1, <2>2, <2>3, <2>4 DEF GoodChain, c, d
<1> QED BY <1>1, HeldInvariant, PTL

\* A node that was handed everything another one was, and more, is not behind it.
THEOREM MoreBlocksNeverHurt == OneCopyEach /\ PoolHasRoom /\ Spec => []MoreIsNotWorse
<1>1. IInv => MoreIsNotWorse
  <2> SUFFICES ASSUME IInv, NEW n \in Node, NEW m \in Node, got[n] \subseteq got[m]
               PROVE  ~ Better(Tip(chain[n].main), Tip(chain[m].main))
    BY DEF MoreIsNotWorse
  <2>1. GoodChain(chain[n]) /\ GoodChain(chain[m])
    BY DEF IInv
  <2>2. Tip(chain[n].main) \in chain[n].blocks
    <3>1. /\ chain[n].main \in SUBSET Block /\ IsFiniteSet(chain[n].main)
          /\ chain[n].main # {} /\ chain[n].main \subseteq chain[n].blocks
      BY <2>1, FS_Subset DEF GoodChain, Linked, Rooted
    <3> QED BY <3>1, TipExists
  <2>3. chain[n].blocks \subseteq chain[m].blocks
    BY MoreIsConnected
  <2> QED BY <2>1, <2>2, <2>3 DEF GoodChain
<1> QED BY <1>1, HeldInvariant, PTL
=============================================================================

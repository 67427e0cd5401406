---------------------------- MODULE Chain_proofs ----------------------------
(***************************************************************************)
(* add_block and the load of a stored chain are right as functions of one  *)
(* chain: whatever block a good chain is handed, it is a good chain again. *)
(* The theorems about several nodes rest on these lemmas.                  *)
(***************************************************************************)
EXTENDS Chain, BlockTree_proofs

\* What a chain is before and after every add_block.
GoodChain(c) ==
    /\ c \in [blocks : SUBSET Block, main : SUBSET Block, orphans : SUBSET Block]
    /\ IsFiniteSet(c.blocks) /\ IsFiniteSet(c.orphans)
    /\ Cardinality(c.orphans) <= MaxOrphans
    /\ UniqueHashes(c.blocks) /\ UniqueHashes(c.orphans)
    /\ Rooted(c.blocks)
    /\ c.main \subseteq c.blocks
    /\ Linked(c.main)
    /\ \A b \in c.blocks : ~ Better(b, Tip(c.main))
    /\ \A o \in c.orphans : Prev[o.hash] \notin Hashes(c.blocks)
    /\ Hashes(c.orphans) \cap Hashes(c.blocks) = {}

\* The same before a tip is selected.
GoodTree(c) ==
    /\ c \in [blocks : SUBSET Block, main : SUBSET Block, orphans : SUBSET Block]
    /\ IsFiniteSet(c.blocks)
    /\ UniqueHashes(c.blocks)
    /\ Rooted(c.blocks)
    /\ c.main \subseteq c.blocks
    /\ Linked(c.main)

\* The chain of a node with an empty storage is genesis, and it is good.
LEMMA GenesisIsGood ==
  /\ GoodChain(Started({GenesisBlock}))
  /\ Started({GenesisBlock}) \in ChainState
  /\ Tip({GenesisBlock}) = GenesisBlock
<1> DEFINE c == Started({GenesisBlock})
<1>1. GenesisBlock \in Block /\ GenesisBlock.hash = Genesis /\ GenesisBlock.height = 0
  BY HashAssumption DEF GenesisBlock, Block
<1>2. /\ IsFiniteSet({GenesisBlock}) /\ IsFiniteSet({}) /\ Cardinality({}) = 0
      /\ MaxOrphans \in Nat
  BY FS_Singleton, FS_EmptySet, ChainAssumption
<1>3. Linked({GenesisBlock}) /\ Rooted({GenesisBlock}) /\ UniqueHashes({GenesisBlock})
  BY <1>1 DEF Linked, Rooted, UniqueHashes
<1>4. Tip({GenesisBlock}) = GenesisBlock
  BY <1>1, TipIs, BlockTypes
<1>5. GoodChain(c)
  <2>1. /\ c \in [blocks : SUBSET Block, main : SUBSET Block, orphans : SUBSET Block]
        /\ c.blocks = {GenesisBlock} /\ c.main = {GenesisBlock} /\ c.orphans = {}
    BY <1>1 DEF Started
  <2>2. \A b \in {GenesisBlock} : ~ Better(b, Tip({GenesisBlock}))
    BY <1>1, <1>4, BetterIsAnOrder
  <2>3. UniqueHashes({}) /\ Hashes({}) = {}
    BY DEF UniqueHashes, Hashes
  <2> HIDE DEF c
  <2> QED BY <1>2, <1>3, <2>1, <2>2, <2>3 DEF GoodChain
<1>6. c \in ChainState
  BY <1>1, <1>2 DEF ChainState, Started
<1> QED BY <1>4, <1>5, <1>6

\* _select_best_tip over a connected tree: the chain afterwards is linked and ends at
\* the best block; its tip changes whenever the chain does.
LEMMA SelectedIsRight ==
  ASSUME NEW c, GoodTree(c)
  PROVE  LET d == Selected(c) IN
         /\ d = [c EXCEPT !.main = d.main]
         /\ d.main \in SUBSET c.blocks
         /\ Linked(d.main)
         /\ \A b \in c.blocks : ~ Better(b, Tip(d.main))
         /\ d.main = c.main \/ Tip(d.main).hash # Tip(c.main).hash
<1> DEFINE best == Best(c.blocks)
           t == Tip(c.main)
           d == Selected(c)
<1>0. /\ c \in [blocks : SUBSET Block, main : SUBSET Block, orphans : SUBSET Block]
      /\ c = [blocks |-> c.blocks, main |-> c.main, orphans |-> c.orphans]
      /\ c.blocks \in SUBSET Block /\ c.main \in SUBSET c.blocks
      /\ UniqueHashes(c.blocks) /\ Rooted(c.blocks) /\ Linked(c.main)
  BY DEF GoodTree
<1>1. c.blocks # {} /\ c.main # {} /\ IsFiniteSet(c.blocks) /\ IsFiniteSet(c.main)
  BY <1>0, FS_Subset DEF GoodTree, Rooted, Linked
<1>2. best \in c.blocks /\ \A b \in c.blocks : ~ Better(b, best)
  BY <1>0, <1>1, BestExists
<1>3. t \in c.main /\ \A b \in c.main : b.height <= t.height
  BY <1>0, <1>1, TipExists
<1>4. best \in Block /\ t \in Block /\ t \in c.blocks
  BY <1>0, <1>2, <1>3
<1>5. d = IF ~ Better(best, t) THEN c
          ELSE [c EXCEPT !.main = IF Extends(best, t) THEN PutByHeight(c.main, best)
                                                      ELSE Walk(c.blocks, best)]
  BY DEF Selected
<1> HIDE DEF best, d
<1>6. CASE ~ Better(best, t)
  <2>1. d = c
    BY <1>5, <1>6
  <2>2. \A b \in c.blocks : ~ Better(b, t)
    BY <1>0, <1>2, <1>4, <1>6, BetterIsAnOrder
  <2>3. c = [c EXCEPT !.main = c.main]
    BY <1>0
  <2> QED BY <1>0, <2>1, <2>2, <2>3 DEF d
<1>7. CASE Better(best, t) /\ Extends(best, t)
  <2> DEFINE M == PutByHeight(c.main, best)
  <2>1. M = c.main \cup {best} /\ Linked(M) /\ Tip(M) = best
    <3>1. Prev[best.hash] = t.hash /\ best.height = t.height + 1
      BY <1>7 DEF Extends
    <3>2. c.main \in SUBSET Block
      BY <1>0
    <3> QED BY <1>0, <1>1, <1>4, <3>1, <3>2, ExtendedIsChain
  <2> HIDE DEF M
  <2>2. d = [c EXCEPT !.main = M]
    BY <1>5, <1>7 DEF M
  <2>3. d.main = M
    BY <1>0, <2>2
  <2>4. best.hash # t.hash
    BY <1>2, <1>4, <1>7, <1>0, BetterIsAnOrder DEF UniqueHashes
  <2> QED BY <1>0, <1>2, <2>1, <2>2, <2>3, <2>4 DEF d
<1>8. CASE Better(best, t) /\ ~ Extends(best, t)
  <2> DEFINE W == Walk(c.blocks, best)
  <2>1. /\ W \in SUBSET c.blocks
        /\ Linked(W)
        /\ best \in W
        /\ \A b \in W : b.height <= best.height
    BY <1>0, <1>2, WalkIsChain
  <2> HIDE DEF W
  <2>2. Tip(W) = best
    BY <1>0, <2>1, TipIs DEF Linked
  <2>3. d = [c EXCEPT !.main = W]
    BY <1>5, <1>8 DEF W
  <2>4. d.main = W
    BY <1>0, <2>3
  <2>5. best.hash # t.hash
    BY <1>2, <1>4, <1>8, <1>0, BetterIsAnOrder DEF UniqueHashes
  <2> QED BY <1>0, <1>2, <2>1, <2>2, <2>3, <2>4, <2>5 DEF d
<1> QED BY <1>6, <1>7, <1>8

\* A chain whose tip is the best of its tree is kept.
LEMMA SelectedIsStable ==
  ASSUME NEW c, GoodChain(c)
  PROVE  Selected(c) = c
<1>1. c.blocks # {} /\ c.blocks \in SUBSET Block /\ IsFiniteSet(c.blocks)
  BY DEF GoodChain, Rooted
<1>2. Best(c.blocks) \in c.blocks
  BY <1>1, BestExists
<1> QED BY <1>2 DEF GoodChain, Selected

\* A block with a connected parent of the right height is stored with its orphans.
LEMMA ConnectIsRight ==
  ASSUME NEW c, GoodChain(c), NEW b \in Block, ~ Knows(c, b.hash),
         \E p \in c.blocks : p.hash = Prev[b.hash] /\ b.height = p.height + 1
  PROVE  LET new == PutByHash(c.blocks, Cascade(c.orphans, b))
             parked == StillParked(c.orphans, b)
             d == [c EXCEPT !.blocks = new, !.orphans = parked]
         IN  /\ GoodTree(d)
             /\ d = [blocks |-> new, main |-> c.main, orphans |-> parked]
             /\ c.blocks \subseteq new /\ b \in new
             /\ new \subseteq c.blocks \cup c.orphans \cup {b}
             /\ parked \in SUBSET c.orphans /\ IsFiniteSet(parked)
             /\ Cardinality(parked) <= MaxOrphans
             /\ UniqueHashes(parked)
             /\ \A o \in parked : Prev[o.hash] \notin Hashes(new)
             /\ Hashes(parked) \cap Hashes(new) = {}
<1> DEFINE C == Cascade(c.orphans, b)
           new == PutByHash(c.blocks, C)
           parked == StillParked(c.orphans, b)
           d == [c EXCEPT !.blocks = new, !.orphans = parked]
<1>0. /\ c \in [blocks : SUBSET Block, main : SUBSET Block, orphans : SUBSET Block]
      /\ c = [blocks |-> c.blocks, main |-> c.main, orphans |-> c.orphans]
      /\ c.blocks \in SUBSET Block /\ c.main \in SUBSET c.blocks /\ c.orphans \in SUBSET Block
      /\ IsFiniteSet(c.blocks) /\ IsFiniteSet(c.orphans)
      /\ UniqueHashes(c.blocks) /\ UniqueHashes(c.orphans)
      /\ Rooted(c.blocks) /\ Linked(c.main)
      /\ Cardinality(c.orphans) <= MaxOrphans
  BY DEF GoodChain
<1>1. /\ new \in SUBSET Block
      /\ new = c.blocks \cup C
      /\ Rooted(new)
      /\ UniqueHashes(new)
      /\ parked \in SUBSET c.orphans
      /\ Hashes(parked) \cap Hashes(new) = {}
      /\ \A o \in parked : Prev[o.hash] \notin Hashes(new)
  <2>1. /\ Hashes(c.orphans) \cap Hashes(c.blocks) = {}
        /\ \A o \in c.orphans : Prev[o.hash] \notin Hashes(c.blocks)
    BY DEF GoodChain
  <2>2. b.hash \notin Hashes(c.blocks) \cup Hashes(c.orphans)
    BY DEF Knows
  <2> QED BY <1>0, <2>1, <2>2, CascadeKeepsTree
<1>2. C \in SUBSET (c.orphans \cup {b}) /\ b \in C
  BY DEF Cascade, Adopted
<1> HIDE DEF C
<1>3. IsFiniteSet(c.blocks \cup C)
  <2>1. IsFiniteSet(c.orphans \cup {b})
    BY <1>0, FS_AddElement
  <2>2. IsFiniteSet(C)
    BY <1>2, <2>1, FS_Subset
  <2> QED BY <1>0, <2>2, FS_Union
<1> HIDE DEF new, parked
<1>4. IsFiniteSet(parked) /\ Cardinality(parked) <= MaxOrphans
  <2>1. IsFiniteSet(parked) /\ Cardinality(parked) <= Cardinality(c.orphans)
    BY <1>0, <1>1, FS_Subset
  <2>2. Cardinality(parked) \in Nat /\ Cardinality(c.orphans) \in Nat /\ MaxOrphans \in Nat
    BY <1>0, <2>1, FS_CardinalityType, ChainAssumption
  <2> QED BY <1>0, <2>1, <2>2
<1>5. UniqueHashes(parked)
  BY <1>0, <1>1 DEF UniqueHashes
<1>6. d = [blocks |-> new, main |-> c.main, orphans |-> parked]
  <2>1. new \in SUBSET Block /\ parked \in SUBSET Block /\ c.main \in SUBSET Block
    BY <1>0, <1>1
  <2> DEFINE T == [blocks : SUBSET Block, main : SUBSET Block, orphans : SUBSET Block]
  <2>2. c \in T
    BY <1>0
  <2>3. d \in T /\ d.blocks = new /\ d.main = c.main /\ d.orphans = parked
    BY <2>1, <2>2
  <2>4. [blocks |-> new, main |-> c.main, orphans |-> parked] \in T
    BY <2>1
  <2> HIDE DEF d
  <2> QED BY <2>3, <2>4
<1>7. GoodTree(d)
  BY <1>0, <1>1, <1>3, <1>6 DEF GoodTree
<1> QED BY <1>1, <1>2, <1>4, <1>5, <1>6, <1>7 DEF new, parked, C

\* add_block keeps a chain good, forgets no block, brings in nothing but b, and says
\* exactly when and how the main chain changed.
LEMMA AddBlockIsRight ==
  ASSUME NEW c, GoodChain(c), NEW b \in Block
  PROVE  LET r == AddBlock(c, b)
             d == r.chain
         IN  /\ GoodChain(d)
             /\ c.blocks \subseteq d.blocks
             /\ d.blocks \cup d.orphans \subseteq c.blocks \cup c.orphans \cup {b}
             /\ r.extended_tip \in BOOLEAN /\ r.added \in BOOLEAN /\ r.is_orphan \in BOOLEAN
             /\ ~ r.extended_tip => d.main = c.main
             /\ r.is_orphan => d.main = c.main /\ b.hash \notin Hashes(c.blocks)
             /\ r.extended_tip => r.added /\ ~ r.is_orphan
             /\ r.reverted = Missing(c.main, d.main) /\ r.applied = Missing(d.main, c.main)
<1> DEFINE r == AddBlock(c, b)
           Says(d, added, is_orphan) ==
               /\ r.chain = d /\ r.added = added /\ r.is_orphan = is_orphan
               /\ r.extended_tip = (Tip(d.main).hash # Tip(c.main).hash)
               /\ r.reverted = Missing(c.main, d.main) /\ r.applied = Missing(d.main, c.main)
<1> SUFFICES /\ GoodChain(r.chain)
             /\ c.blocks \subseteq r.chain.blocks
             /\ r.chain.blocks \cup r.chain.orphans \subseteq c.blocks \cup c.orphans \cup {b}
             /\ r.extended_tip \in BOOLEAN /\ r.added \in BOOLEAN /\ r.is_orphan \in BOOLEAN
             /\ ~ r.extended_tip => r.chain.main = c.main
             /\ r.is_orphan => r.chain.main = c.main /\ b.hash \notin Hashes(c.blocks)
             /\ r.extended_tip => r.added /\ ~ r.is_orphan
             /\ r.reverted = Missing(c.main, r.chain.main)
             /\ r.applied = Missing(r.chain.main, c.main)
  OBVIOUS
<1>0. /\ c = [blocks |-> c.blocks, main |-> c.main, orphans |-> c.orphans]
      /\ c.blocks \in SUBSET Block /\ c.main \in SUBSET c.blocks /\ c.orphans \in SUBSET Block
      /\ IsFiniteSet(c.orphans)
  BY DEF GoodChain
<1>1. CASE Knows(c, b.hash)
  <2>1. Says(c, FALSE, FALSE)
    BY <1>1, SelectedIsStable DEF AddBlock, Result
  <2> HIDE DEF r
  <2> QED BY <2>1, <1>0
<1>2. CASE ~ Knows(c, b.hash) /\ Parents(c.blocks, b) = {}
  <2> DEFINE d == Parked(c, b)
  <2>1. Says(d, FALSE, TRUE)
    BY <1>2 DEF AddBlock, Result
  <2> HIDE DEF r
  <2>2. b.hash \notin Hashes(c.blocks) /\ b.hash \notin Hashes(c.orphans)
        /\ Prev[b.hash] \notin Hashes(c.blocks)
    BY <1>2 DEF Knows, Parents, Hashes
  <2>3. CASE Cardinality(c.orphans) >= MaxOrphans
    <3>1. d = c
      BY <2>3 DEF Parked
    <3> HIDE DEF d
    <3> QED BY <1>0, <2>1, <2>2, <3>1
  <2>4. CASE ~ Cardinality(c.orphans) >= MaxOrphans
    <3> DEFINE O == c.orphans \cup {b}
    <3>1. d = [blocks |-> c.blocks, main |-> c.main, orphans |-> O]
      BY <1>0, <2>4 DEF Parked
    <3>2. IsFiniteSet(O) /\ Cardinality(O) <= MaxOrphans
      <4>1. /\ IsFiniteSet(O)
            /\ Cardinality(O) = (IF b \in c.orphans THEN Cardinality(c.orphans)
                                                   ELSE Cardinality(c.orphans) + 1)
        BY <1>0, FS_AddElement
      <4>2. Cardinality(c.orphans) \in Nat /\ MaxOrphans \in Nat
        BY <1>0, FS_CardinalityType, ChainAssumption
      <4> QED BY <2>4, <4>1, <4>2
    <3>3. UniqueHashes(O) /\ Hashes(O) \cap Hashes(c.blocks) = {}
          /\ \A o \in O : Prev[o.hash] \notin Hashes(c.blocks)
      BY <2>2 DEF GoodChain, UniqueHashes, Hashes
    <3> HIDE DEF O
    <3>4. O \in SUBSET Block /\ O \subseteq c.orphans \cup {b}
      BY <1>0 DEF O
    <3> HIDE DEF d
    <3>5. GoodChain(d)
      BY <1>0, <3>1, <3>2, <3>3, <3>4 DEF GoodChain
    <3>6. d.main = c.main /\ d.blocks = c.blocks /\ d.orphans = O
      BY <3>1
    <3> QED BY <1>0, <2>1, <2>2, <3>4, <3>5, <3>6
  <2> QED BY <2>3, <2>4
<1>3. CASE /\ ~ Knows(c, b.hash) /\ Parents(c.blocks, b) # {}
           /\ \E p \in Parents(c.blocks, b) : b.height # p.height + 1
  <2>1. Says(c, FALSE, FALSE)
    BY <1>3 DEF AddBlock, Result
  <2> HIDE DEF r
  <2> QED BY <2>1, <1>0
<1>4. CASE /\ ~ Knows(c, b.hash) /\ Parents(c.blocks, b) # {}
           /\ ~ \E p \in Parents(c.blocks, b) : b.height # p.height + 1
  <2> DEFINE new == PutByHash(c.blocks, Cascade(c.orphans, b))
             parked == StillParked(c.orphans, b)
             e == [c EXCEPT !.blocks = new, !.orphans = parked]
             d == Selected(e)
  <2>1. Says(d, TRUE, FALSE)
    BY <1>4 DEF AddBlock, Result
  <2> HIDE DEF r
  <2>2. \E p \in c.blocks : p.hash = Prev[b.hash] /\ b.height = p.height + 1
    BY <1>4 DEF Parents
  <2>3. /\ GoodTree(e)
        /\ e = [blocks |-> new, main |-> c.main, orphans |-> parked]
        /\ c.blocks \subseteq new /\ b \in new
        /\ new \subseteq c.blocks \cup c.orphans \cup {b}
        /\ parked \in SUBSET c.orphans /\ IsFiniteSet(parked)
        /\ Cardinality(parked) <= MaxOrphans
        /\ UniqueHashes(parked)
        /\ \A o \in parked : Prev[o.hash] \notin Hashes(new)
        /\ Hashes(parked) \cap Hashes(new) = {}
    BY <1>4, <2>2, ConnectIsRight
  <2> HIDE DEF new, parked, e
  <2>4. /\ d = [e EXCEPT !.main = d.main]
        /\ d.main \in SUBSET e.blocks
        /\ Linked(d.main)
        /\ \A x \in e.blocks : ~ Better(x, Tip(d.main))
        /\ d.main = e.main \/ Tip(d.main).hash # Tip(e.main).hash
    BY <2>3, SelectedIsRight
  <2> HIDE DEF d
  <2>5. d = [blocks |-> new, main |-> d.main, orphans |-> parked]
    BY <2>3, <2>4
  <2>6. /\ new \in SUBSET Block /\ IsFiniteSet(new) /\ UniqueHashes(new) /\ Rooted(new)
        /\ e.main = c.main /\ e.blocks = new
    BY <2>3 DEF GoodTree
  <2>7. GoodChain(d)
    BY <1>0, <2>3, <2>4, <2>5, <2>6 DEF GoodChain
  <2>8. d.blocks = new /\ d.orphans = parked
    BY <2>5
  <2> QED BY <1>0, <2>1, <2>3, <2>4, <2>6, <2>7, <2>8
<1> QED BY <1>1, <1>2, <1>3, <1>4

\* A chain that is loaded from its stored main chain, with some bodies pruned.
LEMMA ReloadIsRight ==
  ASSUME NEW c, GoodChain(c), NEW old \in SUBSET c.main
  PROVE  LET kept == (c.main \ old) \cup {[b EXCEPT !.body = "header"] : b \in old}
             d == [blocks |-> kept, main |-> kept, orphans |-> {}]
         IN  /\ GoodChain(d)
             /\ Headers(kept) \subseteq Headers(c.blocks)
             /\ Hashes(kept) \subseteq Hashes(c.blocks)
             /\ Tip(kept).hash = Tip(c.main).hash
             /\ Tip(kept).height = Tip(c.main).height
<1> DEFINE Header(b) == [b EXCEPT !.body = "header"]
           kept == (c.main \ old) \cup {Header(b) : b \in old}
           d == [blocks |-> kept, main |-> kept, orphans |-> {}]
<1>0. /\ c.main \in SUBSET Block /\ c.main \in SUBSET c.blocks /\ Linked(c.main)
      /\ IsFiniteSet(c.main) /\ UniqueHashes(c.main) /\ c.blocks \in SUBSET Block
      /\ \A b \in c.blocks : ~ Better(b, Tip(c.main))
  <2>1. IsFiniteSet(c.main)
    BY FS_Subset DEF GoodChain
  <2> QED BY <2>1 DEF GoodChain, UniqueHashes
<1>1. \A b \in Block : /\ Header(b) \in Block
                       /\ Header(b).hash = b.hash /\ Header(b).height = b.height
  BY DEF Block
<1> HIDE DEF Header
<1>2. kept \in SUBSET Block
  BY <1>0, <1>1
<1>3. IsFiniteSet({Header(b) : b \in old})
  <2> DEFINE f == [b \in old |-> Header(b)]
  <2>1. f \in Surjection(old, {Header(b) : b \in old})
    BY DEF Surjection
  <2>2. IsFiniteSet(old)
    BY <1>0, FS_Subset
  <2> QED BY <2>1, <2>2, FS_Surjection
<1>4. IsFiniteSet(kept)
  <2>1. IsFiniteSet(c.main \ old)
    BY <1>0, FS_Difference
  <2> QED BY <1>3, <2>1, FS_Union
<1>5. ASSUME NEW x \in kept
      PROVE  \E b \in c.main : /\ x.hash = b.hash /\ x.height = b.height
                             /\ IF b \in old THEN x = Header(b) ELSE x = b
  BY <1>0, <1>1
<1>6. ASSUME NEW b \in c.main
      PROVE  \E x \in kept : x.hash = b.hash /\ x.height = b.height
  BY <1>0, <1>1
<1>7. \A x, y \in kept : x.height = y.height => x = y
  <2> SUFFICES ASSUME NEW x \in kept, NEW y \in kept, x.height = y.height PROVE x = y
    OBVIOUS
  <2>1. PICK b \in c.main : x.height = b.height /\ IF b \in old THEN x = Header(b) ELSE x = b
    BY <1>5
  <2>2. PICK e \in c.main : y.height = e.height /\ IF e \in old THEN y = Header(e) ELSE y = e
    BY <1>5
  <2>3. b = e
    BY <1>0, <2>1, <2>2 DEF Linked
  <2> QED BY <2>1, <2>2, <2>3
<1> HIDE DEF kept
<1>8. Headers(kept) = Headers(c.main)
  <2>1. Headers(kept) \subseteq Headers(c.main)
    BY <1>5 DEF Headers
  <2>2. Headers(c.main) \subseteq Headers(kept)
    BY <1>6 DEF Headers
  <2> QED BY <2>1, <2>2
<1>9. /\ Linked(kept) /\ UniqueHashes(kept)
      /\ Tip(kept).height = Tip(c.main).height
      /\ Tip(kept).hash = Tip(c.main).hash
  BY <1>0, <1>2, <1>4, <1>7, <1>8, SameHeadersSameChain
<1>10. \A x \in kept : ~ Better(x, Tip(kept))
  <2> SUFFICES ASSUME NEW x \in kept PROVE ~ Better(x, Tip(kept))
    OBVIOUS
  <2>1. PICK b \in c.main : x.hash = b.hash /\ x.height = b.height
    BY <1>5
  <2>2. ~ Better(b, Tip(c.main))
    BY <1>0
  <2> QED BY <1>9, <2>1, <2>2 DEF Better
<1>11. IsFiniteSet({}) /\ Cardinality({}) = 0 /\ MaxOrphans \in Nat
  BY FS_EmptySet, ChainAssumption
<1>12. GoodChain(d)
  BY <1>2, <1>4, <1>9, <1>10, <1>11 DEF GoodChain, Linked, UniqueHashes, Hashes
<1>13. Headers(kept) \subseteq Headers(c.blocks) /\ Hashes(kept) \subseteq Hashes(c.blocks)
  BY <1>0, <1>5 DEF Headers, Hashes
<1> QED BY <1>9, <1>12, <1>13 DEF kept, Header

-----------------------------------------------------------------------------
(* A tree and its main chain are determined by the blocks that were kept *)

\* In a tree with one block per hash there is at most one chain down from a block.
LEMMA ChainIsPartOf ==
  ASSUME NEW blks \in SUBSET Block, UniqueHashes(blks),
         NEW M \in SUBSET blks, NEW N \in SUBSET blks, Linked(M), Linked(N),
         NEW t \in M \cap N, \A b \in M : b.height <= t.height
  PROVE  M \subseteq N
<1> SUFFICES ASSUME NEW b \in M, b \notin N PROVE FALSE
  OBVIOUS
<1>0. \A x \in blks : x \in Block /\ x.height \in Nat
  BY BlockTypes
<1> DEFINE above == {n \in Nat : \E x \in M \cap N : x.height = n /\ b.height < n}
<1>1. t.height \in above
  <2>1. b # t /\ b.height # t.height
    BY DEF Linked
  <2>2. b.height \in Nat /\ t.height \in Nat /\ b.height <= t.height
    BY <1>0
  <2> QED BY <2>1, <2>2
<1>2. PICK n \in above : \A k \in above : n <= k
  <2>1. above \in SUBSET Nat /\ above # {}
    BY <1>1
  <2> HIDE DEF above
  <2> QED BY <2>1, LeastNatural
<1>3. PICK x \in M \cap N : x.height = n /\ b.height < n
  BY <1>2
<1>4. x.hash # Genesis
  <2>1. PICK g \in M : g.hash = Genesis /\ g.height = 0
    BY DEF Linked, Rooted
  <2>2. x.hash = Genesis => x = g
    BY <2>1 DEF UniqueHashes
  <2> QED BY <1>0, <1>3, <2>1, <2>2
<1>5. PICK p \in M : p.hash = Prev[x.hash] /\ x.height = p.height + 1
  BY <1>4 DEF Linked, Rooted
<1>6. PICK q \in N : q.hash = Prev[x.hash] /\ x.height = q.height + 1
  BY <1>4 DEF Linked, Rooted
<1>7. p \in M \cap N
  BY <1>5, <1>6 DEF UniqueHashes
<1>8. p.height = b.height
  <2>1. p.height \in Nat /\ b.height \in Nat /\ n \in Nat
    BY <1>0, <1>2
  <2>2. ~ b.height < p.height
    <3>1. b.height < p.height => p.height \in above
      BY <1>7, <2>1
    <3> HIDE DEF above
    <3> QED BY <1>2, <1>3, <1>5, <2>1, <3>1
  <2> QED BY <1>3, <1>5, <2>1, <2>2
<1> QED BY <1>7, <1>8 DEF Linked

\* Two good chains over one tree are the same: no block of it scores above either tip.
LEMMA TreeGivesChain ==
  ASSUME NEW c, NEW d, GoodChain(c), GoodChain(d), c.blocks = d.blocks
  PROVE  c.main = d.main
<1>1. /\ c.blocks \in SUBSET Block /\ UniqueHashes(c.blocks)
      /\ c.main \in SUBSET c.blocks /\ d.main \in SUBSET c.blocks
      /\ Linked(c.main) /\ Linked(d.main)
      /\ IsFiniteSet(c.main) /\ IsFiniteSet(d.main)
      /\ \A b \in c.blocks : ~ Better(b, Tip(c.main)) /\ ~ Better(b, Tip(d.main))
  BY FS_Subset DEF GoodChain
<1>2. c.main # {} /\ d.main # {}
  BY <1>1 DEF Linked, Rooted
<1>3. /\ Tip(c.main) \in c.main /\ \A b \in c.main : b.height <= Tip(c.main).height
      /\ Tip(d.main) \in d.main /\ \A b \in d.main : b.height <= Tip(d.main).height
  BY <1>1, <1>2, TipExists
<1>4. Tip(c.main) = Tip(d.main)
  <2>1. Tip(c.main).hash = Tip(d.main).hash
    BY <1>1, <1>3, BlockTypes DEF Better
  <2> QED BY <1>1, <1>3, <2>1 DEF UniqueHashes
<1>5. PICK t \in c.main \cap d.main : /\ \A b \in c.main : b.height <= t.height
                                     /\ \A b \in d.main : b.height <= t.height
  BY <1>3, <1>4
<1>6. c.main \subseteq d.main
  BY <1>1, <1>5, ChainIsPartOf
<1>7. d.main \subseteq c.main
  BY <1>1, <1>5, ChainIsPartOf
<1> QED BY <1>6, <1>7

\* What one chain has connected or parked, another one with all of that has connected if
\* the first has: no good chain parks a block whose parent is in its tree.
LEMMA TreeGrows ==
  ASSUME NEW c, NEW d, GoodChain(c), GoodChain(d),
         c.blocks \cup c.orphans \subseteq d.blocks \cup d.orphans
  PROVE  c.blocks \subseteq d.blocks
<1>0. /\ \A x \in c.blocks : x.height \in Nat
      /\ Rooted(c.blocks) /\ Rooted(d.blocks)
      /\ \A o \in d.orphans : Prev[o.hash] \notin Hashes(d.blocks)
      /\ Hashes(d.orphans) \cap Hashes(d.blocks) = {}
  BY BlockTypes DEF GoodChain
<1> SUFFICES ASSUME ~ c.blocks \subseteq d.blocks PROVE FALSE
  OBVIOUS
<1> DEFINE missed == {n \in Nat : \E x \in c.blocks \ d.blocks : x.height = n}
<1>1. PICK n \in missed : \A k \in missed : n <= k
  <2>1. missed \in SUBSET Nat /\ missed # {}
    BY <1>0
  <2> HIDE DEF missed
  <2> QED BY <2>1, LeastNatural
<1>2. PICK b \in c.blocks \ d.blocks : b.height = n
  BY <1>1
<1>3. b \in d.orphans
  BY <1>2
<1>4. b.hash # Genesis
  BY <1>0, <1>3 DEF Rooted, Hashes
<1>5. PICK p \in c.blocks : p.hash = Prev[b.hash] /\ b.height = p.height + 1
  BY <1>0, <1>2, <1>4 DEF Rooted
<1>6. p \in d.blocks
  <2>1. p.height \notin missed
    <3>1. p.height \in Nat /\ n = p.height + 1
      BY <1>0, <1>2, <1>5
    <3> HIDE DEF missed
    <3> QED BY <1>1, <3>1
  <2> QED BY <1>0, <1>5, <2>1
<1> QED BY <1>0, <1>3, <1>5, <1>6 DEF Hashes
=============================================================================

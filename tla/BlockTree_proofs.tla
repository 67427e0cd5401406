--------------------------- MODULE BlockTree_proofs ---------------------------
(***************************************************************************)
(* What the operators of BlockTree return, for every tree of blocks.       *)
(* Before it, induction over the naturals in a form without operator       *)
(* parameters, derived from the pigeonhole principle.                      *)
(***************************************************************************)
EXTENDS BlockTree, FiniteSetTheorems, TLAPS

\* Every nonempty set of naturals has a least member: otherwise each number up to one
\* of its members would be smaller than all of them.
LEMMA LeastNatural ==
  ASSUME NEW S \in SUBSET Nat, S # {}
  PROVE  \E m \in S : \A n \in S : m <= n
<1>1. SUFFICES ASSUME \A m \in S : \E n \in S : n < m PROVE FALSE
  OBVIOUS
<1>2. PICK k \in S : TRUE
  OBVIOUS
<1> DEFINE B == {m \in 0..k : \A n \in S : m <= n}
           f == [m \in B |-> m + 1]
<1>3. 0 \in B
  BY <1>2
<1>4. ASSUME NEW m \in B PROVE m + 1 \in B \ {0}
  <2> SUFFICES ASSUME NEW n \in S PROVE m < n
    BY <1>2
  <2>1. PICK j \in S : j < n
    BY <1>1
  <2> QED BY <2>1
<1>5. IsFiniteSet(B) /\ Cardinality(B) \in Nat
  BY <1>2, FS_Interval, FS_Subset, FS_CardinalityType, B \in SUBSET (0..k), 0 \in Int, k \in Int
<1>6. IsFiniteSet(B \ {0}) /\ Cardinality(B \ {0}) = Cardinality(B) - 1
  BY <1>3, <1>5, FS_RemoveElement
<1>7. f \in [B -> B \ {0}] /\ \A x, y \in B : f[x] = f[y] => x = y
  <2>1. B \in SUBSET Nat
    OBVIOUS
  <2> HIDE DEF B
  <2> QED BY <1>4, <2>1
<1> HIDE DEF B, f
<1> QED BY <1>5, <1>6, <1>7, FS_PigeonHole

\* A set of naturals with 0 and all successors of its members is Nat.
LEMMA SetInduction ==
  ASSUME NEW S \in SUBSET Nat, 0 \in S, \A n \in S : n + 1 \in S
  PROVE  S = Nat
<1>1. SUFFICES ASSUME Nat \ S # {} PROVE FALSE
  OBVIOUS
<1>2. PICK m \in Nat \ S : \A n \in Nat \ S : m <= n
  BY <1>1, LeastNatural
<1>3. m - 1 \in Nat /\ m - 1 \notin Nat \ S
  BY <1>2
<1> QED BY <1>2, <1>3

-----------------------------------------------------------------------------
\* Heights and hashes are naturals, so Better compares numbers.
LEMMA BlockTypes == \A b \in Block : b.height \in Nat /\ b.hash \in Nat
<1>1. Hash \subseteq Nat
  BY HashAssumption
<1> QED BY <1>1 DEF Block

\* Scoring above is transitive and irreflexive, and so is not scoring above.
LEMMA BetterIsAnOrder ==
  /\ \A b \in Block : ~ Better(b, b)
  /\ \A b, c, d \in Block : Better(b, c) /\ ~ Better(d, c) => ~ Better(d, b)
  /\ \A b, c, d \in Block : ~ Better(b, c) /\ ~ Better(c, d) => ~ Better(b, d)
BY BlockTypes DEF Better

\* A finite nonempty set of blocks has one that no other scores above, so the
\* max() of _select_best_tip is defined and is such a block.
LEMMA BestExists ==
  ASSUME NEW S \in SUBSET Block, IsFiniteSet(S), S # {}
  PROVE  Best(S) \in S /\ \A c \in S : ~ Better(c, Best(S))
<1> DEFINE HasBest(T) == \E b \in T : \A c \in T : ~ Better(c, b)
           N == {n \in Nat : \A T \in SUBSET Block :
                    IsFiniteSet(T) /\ Cardinality(T) = n /\ T # {} => HasBest(T)}
<1>1. 0 \in N
  BY FS_EmptySet
<1>2. ASSUME NEW n \in N PROVE n + 1 \in N
  <2> SUFFICES ASSUME NEW T \in SUBSET Block, IsFiniteSet(T), Cardinality(T) = n + 1, T # {}
               PROVE  HasBest(T)
    OBVIOUS
  <2>1. PICK x \in T : TRUE
    OBVIOUS
  <2>2. IsFiniteSet(T \ {x}) /\ Cardinality(T \ {x}) = n
    <3>1. /\ IsFiniteSet(T \ {x})
          /\ Cardinality(T \ {x}) = (IF x \in T THEN Cardinality(T) - 1 ELSE Cardinality(T))
      BY FS_RemoveElement
    <3>2. n \in Nat
      OBVIOUS
    <3> HIDE DEF N
    <3> QED BY <3>1, <3>2
  <2>3. CASE T \ {x} = {}
    <3>1. T = {x}
      BY <2>3
    <3>2. ~ Better(x, x)
      BY BetterIsAnOrder
    <3> QED BY <3>1, <3>2
  <2>4. CASE T \ {x} # {}
    <3>1. T \ {x} \in SUBSET Block
      OBVIOUS
    <3>2. HasBest(T \ {x})
      BY <2>2, <2>4, <3>1
    <3>3. PICK y \in T \ {x} : \A c \in T \ {x} : ~ Better(c, y)
      BY <3>2
    <3>4. CASE Better(x, y)
      <4>1. \A c \in T : ~ Better(c, x)
        BY <3>3, <3>4, BetterIsAnOrder
      <4> QED BY <4>1
    <3>5. CASE ~ Better(x, y)
      BY <3>3, <3>5
    <3> QED BY <3>4, <3>5
  <2> QED BY <2>3, <2>4
<1>3. N = Nat
  <2>1. N \in SUBSET Nat
    OBVIOUS
  <2> HIDE DEF N
  <2> QED BY <1>1, <1>2, <2>1, SetInduction
<1>4. HasBest(S)
  <2>1. Cardinality(S) \in N
    BY <1>3, FS_CardinalityType
  <2> QED BY <2>1
<1> QED BY <1>4 DEF Best

\* So there is a highest block, and Tip returns it.
LEMMA TipExists ==
  ASSUME NEW S \in SUBSET Block, IsFiniteSet(S), S # {}
  PROVE  Tip(S) \in S /\ \A c \in S : c.height <= Tip(S).height
<1>1. \E b \in S : \A c \in S : c.height <= b.height
  BY BestExists DEF Better, Block
<1> QED BY <1>1 DEF Tip

\* In a chain, the tip is the only block of its height.
LEMMA TipIs ==
  ASSUME NEW S \in SUBSET Block, NEW t \in S,
         \A b, c \in S : b.height = c.height => b = c,
         \A c \in S : c.height <= t.height
  PROVE  Tip(S) = t
<1>1. Tip(S) \in S /\ \A c \in S : c.height <= Tip(S).height
  BY DEF Tip
<1>2. Tip(S).height = t.height
  BY <1>1 DEF Block
<1> QED BY <1>1, <1>2

\* The walk from t is the least set that holds t and is closed under parents.
LEMMA WalkLeast ==
  ASSUME NEW blks \in SUBSET Block, NEW t \in blks
  PROVE  /\ t \in Walk(blks, t)
         /\ Walk(blks, t) \in SUBSET blks
         /\ WalkClosed(blks, Walk(blks, t))
         /\ \A S \in SUBSET blks : t \in S /\ WalkClosed(blks, S) => Walk(blks, t) \subseteq S
<1>1. \A b \in Walk(blks, t) : b.hash # Genesis => Parents(blks, b) \subseteq Walk(blks, t)
  BY DEF Walk, WalkClosed, Parents
<1> QED BY <1>1 DEF Walk, WalkClosed

\* In a rooted tree with one block per hash, _reorg never meets a missing parent
\* and rebuilds one chain that ends at t, with nothing above t.
LEMMA WalkIsChain ==
  ASSUME NEW blks \in SUBSET Block, Rooted(blks), UniqueHashes(blks), NEW t \in blks
  PROVE  /\ Walk(blks, t) \in SUBSET blks
         /\ Linked(Walk(blks, t))
         /\ ~ WalkRaises(blks, t)
         /\ t \in Walk(blks, t)
         /\ \A b \in Walk(blks, t) : b.height <= t.height
<1> DEFINE W == Walk(blks, t)
<1>0. /\ t \in W
      /\ W \in SUBSET blks
      /\ WalkClosed(blks, W)
      /\ \A S \in SUBSET blks : t \in S /\ WalkClosed(blks, S) => W \subseteq S
  BY WalkLeast
<1> HIDE DEF W
<1>p. ASSUME NEW b \in blks, b.hash # Genesis
      PROVE  \E p \in blks : Parents(blks, b) = {p} /\ b.height = p.height + 1
  <2>1. PICK p \in blks : p.hash = Prev[b.hash] /\ b.height = p.height + 1
    BY <1>p DEF Rooted
  <2>2. Parents(blks, b) = {p}
    BY <2>1 DEF Parents, UniqueHashes
  <2> QED BY <2>1, <2>2
<1>1. \A b \in W : b.height <= t.height
  <2> DEFINE S == {b \in blks : b.height <= t.height}
  <2>1. WalkClosed(blks, S)
    <3> SUFFICES ASSUME NEW b \in S, b.hash # Genesis, NEW q \in Parents(blks, b)
                 PROVE  q \in S
      BY DEF WalkClosed
    <3>1. PICK p \in blks : Parents(blks, b) = {p} /\ b.height = p.height + 1
      BY <1>p
    <3> QED BY <3>1 DEF Block
  <2>2. t \in S /\ S \in SUBSET blks
    BY DEF Block
  <2> QED BY <2>1, <2>2, <1>0
<1>2. \A b \in W : b.hash # Genesis =>
          \E p \in W : p.hash = Prev[b.hash] /\ b.height = p.height + 1
  <2> SUFFICES ASSUME NEW b \in W, b.hash # Genesis
               PROVE  \E p \in W : p.hash = Prev[b.hash] /\ b.height = p.height + 1
    OBVIOUS
  <2>1. PICK p \in blks : Parents(blks, b) = {p} /\ b.height = p.height + 1
    BY <1>p, <1>0
  <2>2. p \in W /\ p.hash = Prev[b.hash]
    BY <2>1, <1>0 DEF WalkClosed, Parents
  <2> QED BY <2>1, <2>2
<1>3. \E g \in W : g.hash = Genesis /\ g.height = 0
  <2> DEFINE H == {b.height : b \in W}
  <2>1. H \in SUBSET Nat /\ H # {}
    BY <1>0 DEF Block
  <2>2. PICK m \in H : \A n \in H : m <= n
    <3> HIDE DEF H
    <3> QED BY <2>1, LeastNatural
  <2>3. PICK b \in W : b.height = m
    OBVIOUS
  <2>4. b.hash = Genesis
    <3> SUFFICES ASSUME b.hash # Genesis PROVE FALSE
      OBVIOUS
    <3>1. PICK p \in W : b.height = p.height + 1
      BY <1>2
    <3>2. p.height \in H
      OBVIOUS
    <3>3. m <= p.height /\ m = p.height + 1 /\ p.height \in Nat
      BY <3>1, <3>2, <2>2, <2>3, <1>0 DEF Block
    <3> QED BY <3>3
  <2>5. PICK g \in blks : g.hash = Genesis /\ g.height = 0
    BY DEF Rooted
  <2>6. b = g
    BY <2>4, <2>5, <1>0 DEF UniqueHashes
  <2> QED BY <2>5, <2>6
\* Removing a block that is no one's parent leaves a closed set, so the least
\* closed set has no such block but t.
<1>4. ASSUME NEW c \in W, c # t
      PROVE  \E d \in W : d # c /\ d.height = c.height + 1 /\ c.hash = Prev[d.hash]
  <2> SUFFICES ASSUME \A d \in W : d # c =>
                         ~ (d.height = c.height + 1 /\ c.hash = Prev[d.hash])
               PROVE  FALSE
    OBVIOUS
  <2>1. WalkClosed(blks, W \ {c})
    <3> SUFFICES ASSUME NEW d \in W \ {c}, d.hash # Genesis, NEW q \in Parents(blks, d)
                 PROVE  q \in W \ {c}
      BY DEF WalkClosed
    <3>1. q \in W
      BY <1>0 DEF WalkClosed
    <3>2. PICK p \in blks : Parents(blks, d) = {p} /\ d.height = p.height + 1
      BY <1>p, <1>0
    <3>3. q = p /\ q.hash = Prev[d.hash]
      BY <3>2 DEF Parents
    <3> QED BY <3>1, <3>2, <3>3
  <2>2. t \in W \ {c} /\ W \ {c} \in SUBSET blks
    BY <1>0, <1>4
  <2> QED BY <2>1, <2>2, <1>0
<1>5. \A b, c \in W : b.height = c.height => b = c
  <2> DEFINE S == {b \in W : \A c \in W : c.height = b.height => c = b}
  <2>1. t \in S
    <3> SUFFICES ASSUME NEW c \in W, c.height = t.height, c # t PROVE FALSE
      BY <1>0
    <3>1. PICK d \in W : d.height = c.height + 1
      BY <1>4
    <3> QED BY <3>1, <1>1, <1>0 DEF Block
  <2>2. WalkClosed(blks, S)
    <3> SUFFICES ASSUME NEW b \in S, b.hash # Genesis, NEW p \in Parents(blks, b),
                        NEW c \in W, c.height = p.height, c # p
                 PROVE  FALSE
      BY <1>0 DEF WalkClosed
    <3>1. PICK q \in blks : Parents(blks, b) = {q} /\ b.height = q.height + 1
      BY <1>p, <1>0
    <3>2. p = q /\ b \in W /\ b.height = p.height + 1 /\ p.hash = Prev[b.hash]
      BY <3>1 DEF Parents
    <3>3. c # t
      BY <3>2, <1>0, <1>1 DEF Block
    <3>4. PICK d \in W : d.height = c.height + 1 /\ c.hash = Prev[d.hash]
      BY <1>4, <3>3
    <3>5. d = b
      BY <3>2, <3>4
    <3>6. c.hash = p.hash
      BY <3>2, <3>4, <3>5
    <3> QED BY <3>6, <3>2, <1>0 DEF UniqueHashes
  <2>3. W \subseteq S
    <3>1. S \in SUBSET blks
      BY <1>0
    <3> HIDE DEF S
    <3> QED BY <2>1, <2>2, <3>1, <1>0
  <2> QED BY <2>3
<1>6. ~ WalkRaises(blks, t)
  <2>1. \A b \in W : b.hash # Genesis => Parents(blks, b) # {}
    BY <1>2, <1>0 DEF Parents
  <2> QED BY <2>1 DEF WalkRaises, W
<1>7. Linked(W)
  BY <1>2, <1>3, <1>5 DEF Linked, Rooted
<1> QED BY <1>0, <1>1, <1>6, <1>7 DEF W

-----------------------------------------------------------------------------
\* _store_and_cascade: everything adopted was parked and has a parent of the right
\* height that is adopted with it or is b.
LEMMA AdoptedHaveParents ==
  ASSUME NEW orphs \in SUBSET Block, NEW b \in Block
  PROVE  /\ Adopted(orphs, b) \in SUBSET orphs
         /\ \A o \in Adopted(orphs, b) :
               \E p \in Cascade(orphs, b) : p.hash = Prev[o.hash] /\ o.height = p.height + 1
<1> DEFINE A == Adopted(orphs, b)
           Good(o, S) == \E p \in S \cup {b} : p.hash = Prev[o.hash] /\ o.height = p.height + 1
           G == {o \in A : Good(o, A)}
<1>1. A \in SUBSET orphs
  BY DEF Adopted
<1>2. ASSUME NEW o \in orphs, Good(o, A) PROVE o \in A
  <2>1. ASSUME NEW S \in SUBSET orphs, AdoptionClosed(orphs, b, S) PROVE o \in S
    <3>1. A \subseteq S
      BY <2>1 DEF Adopted
    <3>2. Good(o, S)
      BY <1>2, <3>1
    <3> QED BY <2>1, <3>2 DEF AdoptionClosed
  <2> QED BY <2>1 DEF Adopted
<1>3. AdoptionClosed(orphs, b, G)
  <2> SUFFICES ASSUME NEW o \in orphs, Good(o, G) PROVE o \in G
    BY DEF AdoptionClosed
  <2>1. Good(o, A)
    OBVIOUS
  <2> QED BY <2>1, <1>2
<1>4. A \subseteq G
  <2>1. G \in SUBSET orphs
    BY <1>1
  <2> HIDE DEF G
  <2> QED BY <2>1, <1>3 DEF Adopted
<1> QED BY <1>1, <1>4 DEF Cascade

\* Storing a block under a rooted tree of known hashes keeps the tree rooted, and
\* leaves no orphan whose parent is now connected.
LEMMA CascadeKeepsTree ==
  ASSUME NEW blks \in SUBSET Block, NEW orphs \in SUBSET Block, NEW b \in Block,
         Rooted(blks), UniqueHashes(blks), UniqueHashes(orphs),
         Hashes(orphs) \cap Hashes(blks) = {},
         b.hash \notin Hashes(blks) \cup Hashes(orphs),
         \A o \in orphs : Prev[o.hash] \notin Hashes(blks),
         \E p \in blks : p.hash = Prev[b.hash] /\ b.height = p.height + 1
  PROVE  LET new == PutByHash(blks, Cascade(orphs, b)) IN
         /\ new \in SUBSET Block
         /\ new = blks \cup Cascade(orphs, b)
         /\ Rooted(new)
         /\ UniqueHashes(new)
         /\ StillParked(orphs, b) \in SUBSET orphs
         /\ Hashes(StillParked(orphs, b)) \cap Hashes(new) = {}
         /\ \A o \in StillParked(orphs, b) : Prev[o.hash] \notin Hashes(new)
<1> DEFINE C == Cascade(orphs, b)
           new == blks \cup C
<1>1. /\ C \in SUBSET (orphs \cup {b})
      /\ b \in C
      /\ \A o \in C : o # b =>
            \E p \in C : p.hash = Prev[o.hash] /\ o.height = p.height + 1
  BY AdoptedHaveParents DEF Cascade
<1> HIDE DEF C
<1>2. Hashes(C) \cap Hashes(blks) = {}
  BY <1>1 DEF Hashes
<1>3. PutByHash(blks, C) = new
  BY <1>2 DEF PutByHash, Hashes
<1>4. UniqueHashes(new)
  <2>1. UniqueHashes(C)
    BY <1>1 DEF UniqueHashes, Hashes
  <2> QED BY <2>1, <1>2 DEF UniqueHashes, Hashes
<1>5. Rooted(new)
  <2>1. \E g \in new : g.hash = Genesis /\ g.height = 0
    BY DEF Rooted
  <2>2. ASSUME NEW c \in new, c.hash # Genesis
        PROVE  \E p \in new : p.hash = Prev[c.hash] /\ c.height = p.height + 1
    BY <1>1, <2>2 DEF Rooted
  <2> QED BY <2>1, <2>2 DEF Rooted
<1>6. StillParked(orphs, b) \in SUBSET orphs
  BY DEF StillParked
<1>7. \A o \in StillParked(orphs, b) : Prev[o.hash] \notin Hashes(new)
  BY <1>6 DEF StillParked, Hashes, C
<1>8. Hashes(StillParked(orphs, b)) \cap Hashes(new) = {}
  <2> SUFFICES ASSUME NEW o \in StillParked(orphs, b), NEW c \in new, o.hash = c.hash
               PROVE  FALSE
    BY DEF Hashes
  <2>1. c \in C /\ c # b
    BY <1>6 DEF Hashes
  <2>2. Prev[c.hash] \in Hashes(C)
    BY <1>1, <2>1 DEF Hashes
  <2> QED BY <2>2, <1>7 DEF Hashes
<1>9. new \in SUBSET Block
  BY <1>1
<1> QED BY <1>3, <1>4, <1>5, <1>6, <1>7, <1>8, <1>9 DEF C

\* A chain with one more block on its tip is a chain with that block as its tip.
LEMMA ExtendedIsChain ==
  ASSUME NEW S \in SUBSET Block, IsFiniteSet(S), Linked(S), NEW b \in Block,
         Prev[b.hash] = Tip(S).hash, b.height = Tip(S).height + 1
  PROVE  /\ PutByHeight(S, b) = S \cup {b}
         /\ Linked(PutByHeight(S, b))
         /\ Tip(PutByHeight(S, b)) = b
         /\ b \notin S
<1> DEFINE T == S \cup {b}
<1>0. S # {}
  BY DEF Linked, Rooted
<1>1. Tip(S) \in S /\ \A c \in S : c.height <= Tip(S).height
  BY <1>0, TipExists
<1>2. \A c \in S : c.height < b.height
  BY <1>1, BlockTypes
<1>3. PutByHeight(S, b) = T /\ b \notin S
  BY <1>2, BlockTypes DEF PutByHeight
<1>4. Rooted(T)
  BY <1>1 DEF Linked, Rooted
<1>5. \A c, d \in T : c.height = d.height => c = d
  BY <1>2, BlockTypes DEF Linked
<1>6. \A c \in T : c.height <= b.height
  BY <1>2, BlockTypes
<1>7. T \in SUBSET Block /\ b \in T
  OBVIOUS
<1>8. Tip(T) = b
  <2> HIDE DEF T
  <2> QED BY <1>5, <1>6, <1>7, TipIs
<1> QED BY <1>3, <1>4, <1>5, <1>8 DEF Linked

\* A stored chain with the headers of a linked chain is linked and ends at its tip.
LEMMA SameHeadersSameChain ==
  ASSUME NEW S \in SUBSET Block, NEW T \in SUBSET Block, IsFiniteSet(S), IsFiniteSet(T),
         Linked(S), UniqueHashes(S),
         \A b, c \in T : b.height = c.height => b = c,
         Headers(T) = Headers(S)
  PROVE  /\ Linked(T)
         /\ UniqueHashes(T)
         /\ Tip(T).height = Tip(S).height
         /\ Tip(T).hash = Tip(S).hash
<1>1. ASSUME NEW b \in S PROVE \E c \in T : c.hash = b.hash /\ c.height = b.height
  <2>1. <<b.hash, b.height>> \in Headers(T)
    BY DEF Headers
  <2> QED BY <2>1 DEF Headers
<1>2. ASSUME NEW c \in T PROVE \E b \in S : c.hash = b.hash /\ c.height = b.height
  <2>1. <<c.hash, c.height>> \in Headers(S)
    BY DEF Headers
  <2> QED BY <2>1 DEF Headers
<1>3. Rooted(T)
  <2>1. \E g \in T : g.hash = Genesis /\ g.height = 0
    BY <1>1 DEF Linked, Rooted
  <2>2. ASSUME NEW c \in T, c.hash # Genesis
        PROVE  \E p \in T : p.hash = Prev[c.hash] /\ c.height = p.height + 1
    <3>1. PICK b \in S : c.hash = b.hash /\ c.height = b.height
      BY <1>2
    <3>2. PICK q \in S : q.hash = Prev[b.hash] /\ b.height = q.height + 1
      BY <2>2, <3>1 DEF Linked, Rooted
    <3>3. PICK p \in T : p.hash = q.hash /\ p.height = q.height
      BY <1>1
    <3> QED BY <3>1, <3>2, <3>3
  <2> QED BY <2>1, <2>2 DEF Rooted
<1>4. UniqueHashes(T)
  <2> SUFFICES ASSUME NEW c \in T, NEW d \in T, c.hash = d.hash PROVE c = d
    BY DEF UniqueHashes
  <2>1. PICK b \in S : c.hash = b.hash /\ c.height = b.height
    BY <1>2
  <2>2. PICK e \in S : d.hash = e.hash /\ d.height = e.height
    BY <1>2
  <2>3. b = e
    BY <2>1, <2>2 DEF UniqueHashes
  <2> QED BY <2>1, <2>2, <2>3
<1>5. /\ Tip(S) \in S /\ \A b \in S : b.height <= Tip(S).height
      /\ Tip(T) \in T /\ \A c \in T : c.height <= Tip(T).height
  <2>1. S # {} /\ T # {}
    BY <1>3 DEF Linked, Rooted
  <2> QED BY <2>1, TipExists
<1>6. PICK c \in T : c.hash = Tip(S).hash /\ c.height = Tip(S).height
  BY <1>1, <1>5
<1>7. PICK b \in S : b.hash = Tip(T).hash /\ b.height = Tip(T).height
  BY <1>2, <1>5
<1>8. c.height = Tip(T).height
  BY <1>5, <1>6, <1>7, BlockTypes
<1>9. c = Tip(T)
  BY <1>5, <1>8
<1> QED BY <1>3, <1>4, <1>6, <1>9 DEF Linked
=============================================================================

------------------------------ MODULE BlockTree ------------------------------
(***************************************************************************)
(* The pure part of blockchain/chain.py: blocks, their validity, the       *)
(* best-chain order, the adoption of orphans and the walk back to genesis. *)
(* Everything is an operator on sets of blocks, so that one node           *)
(* (Blockchain) and several nodes (Replicas) use the same definitions.     *)
(*                                                                         *)
(* A block hash is the 256-bit number it is compared as.  A header hash    *)
(* covers prev_hash, so the parent of a block is a function of its hash;   *)
(* the height is outside the header, so two copies of one block may claim  *)
(* different heights.  The three Python dicts become sets of blocks:       *)
(* _blocks and _orphans are keyed by hash, _chain is keyed by height.      *)
(***************************************************************************)
EXTENDS Integers, FiniteSets

CONSTANTS
    Hash,       \* the block hashes that occur
    Genesis,    \* the hash of the hardcoded genesis block
    Prev,       \* prev_hash, the parent's hash, of the block with a given hash
    Mined       \* the hashes that are the hash of their header and meet the PoW

ASSUME HashAssumption ==
    /\ Hash \in SUBSET Nat
    /\ Genesis \in Hash
    /\ Prev \in [Hash -> Hash]
    /\ Mined \in SUBSET Hash

\* A stored block: body is "full" if has_body, "hashes" if its transactions are the
\* placeholders of a teammate's answer, "header" if it was received or pruned to its
\* header.  A copy on the wire may also carry a foreign body.
Block == [hash : Hash, height : Nat, body : {"full", "hashes", "header"}]
Copy  == [hash : Hash, height : Nat, body : {"full", "hashes", "header", "foreign"}]

GenesisBlock == [hash |-> Genesis, height |-> 0, body |-> "full"]

\* Mutant of IsValid: the transactions are not compared with txs_hash.
IsValidHeader(b) == b.hash \in Mined

\* verify_header, and verify_txs_hash when the transactions are there.
IsValid(b) == b.hash \in Mined /\ b.body # "foreign"

Hashes(S) == {b.hash : b \in S}

\* The blocks of S without their bodies.
Headers(S) == {<<b.hash, b.height>> : b \in S}

\* _blocks.get(prev_hash): the parent of b among S, as a set of at most one.
Parents(S, b) == {p \in S : p.hash = Prev[b.hash]}

\* Mutant of Better: of two blocks of one height the first to come is kept.
BetterByHeight(b, c) == b.height > c.height

\* _chain_score(b) > _chain_score(c): taller wins, then the smaller hash.
Better(b, c) ==
    \/ b.height > c.height
    \/ b.height = c.height /\ b.hash < c.hash

Best(S) == CHOOSE b \in S : \A c \in S : ~ Better(c, b)

\* _chain[max(_chain)]
Tip(S) == CHOOSE b \in S : \A c \in S : c.height <= b.height

\* Assignment to a dict keyed by hash, and to one keyed by height.
PutByHash(S, T)   == {b \in S : b.hash \notin Hashes(T)} \cup T
PutByHeight(S, b) == {c \in S : c.height # b.height} \cup {b}

-----------------------------------------------------------------------------
\* Mutant of AdoptionClosed: the height an orphan claims is not looked at.
AdoptionOfAnyHeight(orphs, b, S) ==
    \A o \in orphs : Prev[o.hash] \in Hashes(S \cup {b}) => o \in S

(***************************************************************************)
(* _store_and_cascade(b): b and the orphans that connect through it are    *)
(* stored; an orphan whose parent was stored but whose claimed height is   *)
(* not one more than the parent's is dropped.  The stack of the code       *)
(* computes the least set that is closed under adoption.                   *)
(***************************************************************************)
AdoptionClosed(orphs, b, S) ==
    \A o \in orphs :
        (\E p \in S \cup {b} : p.hash = Prev[o.hash] /\ o.height = p.height + 1)
            => o \in S

Adopted(orphs, b) ==
    {o \in orphs : \A S \in SUBSET orphs : AdoptionClosed(orphs, b, S) => o \in S}

Cascade(orphs, b) == Adopted(orphs, b) \cup {b}

\* Mutant of StillParked: adopted orphans are not taken out of the pool.
AllStillParked(orphs, b) == orphs

\* What stays parked: the orphans whose parent was not stored.
StillParked(orphs, b) == {o \in orphs : Prev[o.hash] \notin Hashes(Cascade(orphs, b))}

(***************************************************************************)
(* _reorg(t) walks from t along prev_hash to genesis: the least set that   *)
(* holds t and, with every block but genesis, its parent.  The lookup      *)
(* _blocks[prev_hash] raises KeyError where the parent is not stored.      *)
(***************************************************************************)
WalkClosed(blks, S) ==
    \A b \in S : b.hash # Genesis => Parents(blks, b) \subseteq S

Walk(blks, t) ==
    {b \in blks : \A S \in SUBSET blks : t \in S /\ WalkClosed(blks, S) => b \in S}

WalkRaises(blks, t) == \E b \in Walk(blks, t) : b.hash # Genesis /\ Parents(blks, b) = {}

\* Mutant of Extends: any block one above the tip is appended.
ExtendsByHeight(b, t) == b.height = t.height + 1

(***************************************************************************)
(* _select_best_tip: keep the chain, append the best block if it extends   *)
(* the tip, or rebuild the chain along the walk from the best block.       *)
(***************************************************************************)
Extends(b, t) == Prev[b.hash] = t.hash /\ b.height = t.height + 1

\* Mutant of Missing: only the heights are compared.
MissingHeights(S, T) == {b \in S : ~ \E c \in T : c.height = b.height}

\* Blocks of the chain S that are not at the same height in the chain T.
Missing(S, T) == {b \in S : ~ \E c \in T : c.height = b.height /\ c.hash = b.hash}

-----------------------------------------------------------------------------
\* S hangs together: it holds genesis at height 0, and every other block of it
\* sits one above its parent, which is in S too.
Rooted(S) ==
    /\ \E g \in S : g.hash = Genesis /\ g.height = 0
    /\ \A b \in S : b.hash # Genesis =>
          \E p \in S : p.hash = Prev[b.hash] /\ b.height = p.height + 1

\* S is one chain: rooted, and no two blocks have the same height.
Linked(S) ==
    /\ Rooted(S)
    /\ \A b, c \in S : b.height = c.height => b = c

UniqueHashes(S) == \A b, c \in S : b.hash = c.hash => b = c

-----------------------------------------------------------------------------
\* AddResult, with {} for missing_parent = None.
AddResult == [added : BOOLEAN, extended_tip : BOOLEAN, is_orphan : BOOLEAN,
              missing_parent : SUBSET Hash,
              reverted : SUBSET Block, applied : SUBSET Block]

NoResult == [added |-> FALSE, extended_tip |-> FALSE, is_orphan |-> FALSE,
             missing_parent |-> {}, reverted |-> {}, applied |-> {}]
=============================================================================

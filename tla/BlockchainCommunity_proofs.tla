---------------------- MODULE BlockchainCommunity_proofs ----------------------
(***************************************************************************)
(* The overlay is safe for any number of nodes, any blocks, transactions   *)
(* and bounds: every node's chain keeps the promise of BestChain, its      *)
(* miner works on its tip, and its seen set covers what it holds.          *)
(***************************************************************************)
EXTENDS BlockchainCommunity, Chain_proofs

-----------------------------------------------------------------------------
(* The pool: it never grows beyond its bound, whatever is added to it *)

\* A finite non-empty pool has a worst transaction, the min() of add.
LEMMA WorstExists ==
  ASSUME NEW P \in SUBSET Tx, P # {}
  PROVE  Worst(P) \in P /\ \A u \in P : Worst(P) <= u
<1>1. \E t \in P : \A u \in P : t <= u
  BY LeastNatural, MempoolAssumption
<1> QED BY <1>1 DEF Worst

\* get_pending(k) returns at most k transactions, all of them from the pool.
THEOREM PendingIsBounded ==
  ASSUME NEW P \in SUBSET Tx, IsFiniteSet(P), NEW k \in Nat
  PROVE  /\ Pending(P, k) \in SUBSET P
         /\ IsFiniteSet(Pending(P, k))
         /\ Cardinality(Pending(P, k)) <= k
<1> DEFINE R == Pending(P, k)
<1>1. R \in SUBSET P /\ IsFiniteSet(R)
  BY FS_Subset DEF Pending
<1>2. CASE R = {}
  BY <1>1, <1>2, FS_EmptySet
<1>3. CASE R # {}
  <2> DEFINE w == Worst(R)
             U == {u \in P : u > w}
  <2>1. w \in R /\ \A u \in R : w <= u
    BY <1>1, <1>3, WorstExists
  <2>2. Cardinality(U) < k
    BY <2>1 DEF Pending
  <2>3. IsFiniteSet(U) /\ Cardinality(U) \in Nat
    BY FS_Subset, FS_CardinalityType
  <2>4. R \subseteq U \cup {w}
    <3>1. ASSUME NEW u \in R PROVE u = w \/ u > w
      <4>1. u \in Nat /\ w \in Nat /\ w <= u
        BY <1>1, <2>1, MempoolAssumption
      <4> QED BY <4>1
    <3> QED BY <1>1, <3>1
  <2> HIDE DEF U, w
  <2>5. IsFiniteSet(U \cup {w}) /\ Cardinality(U \cup {w}) <= k
    <3>1. IsFiniteSet(U \cup {w}) /\ Cardinality(U \cup {w}) =
             IF w \in U THEN Cardinality(U) ELSE Cardinality(U) + 1
      BY <2>3, FS_AddElement
    <3> QED BY <2>2, <2>3, <3>1
  <2>6. Cardinality(R) <= Cardinality(U \cup {w}) /\ Cardinality(R) \in Nat
        /\ Cardinality(U \cup {w}) \in Nat
    BY <1>1, <2>4, <2>5, FS_Subset, FS_CardinalityType
  <2> QED BY <1>1, <2>5, <2>6
<1> QED BY <1>1, <1>2, <1>3

\* add(t) keeps the pool within its bound: what it takes above it, it evicts.
THEOREM AddIsBounded ==
  ASSUME NEW P \in SUBSET Tx, IsFiniteSet(P), Cardinality(P) <= MaxSize, NEW t \in Tx
  PROVE  /\ Add(P, t) \in SUBSET (P \cup {t})
         /\ IsFiniteSet(Add(P, t))
         /\ Cardinality(Add(P, t)) <= MaxSize
<1>0. Cardinality(P) \in Nat /\ MaxSize \in Nat \ {0}
  BY FS_CardinalityType, MempoolAssumption
<1>1. CASE t \in P
  BY <1>1 DEF Add
<1>2. CASE t \notin P /\ Cardinality(P) < MaxSize
  <2>1. Add(P, t) = P \cup {t}
    BY <1>2 DEF Add
  <2> QED BY <1>0, <1>2, <2>1, FS_AddElement
<1>3. CASE t \notin P /\ ~ Cardinality(P) < MaxSize
  <2>1. P # {}
    BY <1>0, <1>3, FS_EmptySet
  <2>2. Worst(P) \in P
    BY <2>1, WorstExists
  <2>3. CASE t <= Worst(P)
    BY <1>3, <2>3 DEF Add
  <2>4. CASE ~ t <= Worst(P)
    <3> DEFINE Q == P \ {Worst(P)}
    <3>1. Add(P, t) = Q \cup {t}
      BY <1>3, <2>4 DEF Add
    <3>2. IsFiniteSet(Q) /\ Cardinality(Q) = Cardinality(P) - 1
      BY <2>2, FS_RemoveElement
    <3>3. Q \subseteq P
      OBVIOUS
    <3> HIDE DEF Q
    <3>4. IsFiniteSet(Q \cup {t}) /\ Cardinality(Q \cup {t}) =
             IF t \in Q THEN Cardinality(Q) ELSE Cardinality(Q) + 1
      BY <3>2, FS_AddElement
    <3>5. Cardinality(Q \cup {t}) <= MaxSize
      BY <1>0, <3>2, <3>4
    <3> QED BY <3>1, <3>3, <3>4, <3>5
  <2> QED BY <2>3, <2>4
<1> QED BY <1>1, <1>2, <1>3

\* The pool after the reverted transactions were added is as bounded.
LEMMA AddAllIsBounded ==
  ASSUME NEW P \in SUBSET Tx, IsFiniteSet(P), NEW S \in SUBSET Tx, IsFiniteSet(S)
  PROVE  /\ AddAll(P, S) \in SUBSET (P \cup S)
         /\ IsFiniteSet(AddAll(P, S))
         /\ Cardinality(AddAll(P, S)) <= MaxSize
<1>1. P \cup S \in SUBSET Tx /\ IsFiniteSet(P \cup S) /\ MaxSize \in Nat
  BY FS_Union, MempoolAssumption
<1> QED BY <1>1, PendingIsBounded DEF AddAll

\* remove_included only takes out.
LEMMA RemoveIsBounded ==
  ASSUME NEW P \in SUBSET Tx, IsFiniteSet(P), Cardinality(P) <= MaxSize, NEW S
  PROVE  /\ RemoveIncluded(P, S) \in SUBSET P
         /\ IsFiniteSet(RemoveIncluded(P, S))
         /\ Cardinality(RemoveIncluded(P, S)) <= MaxSize
<1>1. P \ S \in SUBSET P
  OBVIOUS
<1>2. /\ IsFiniteSet(P \ S) /\ Cardinality(P \ S) <= Cardinality(P)
      /\ Cardinality(P) \in Nat /\ Cardinality(P \ S) \in Nat /\ MaxSize \in Nat
  BY <1>1, FS_Subset, FS_CardinalityType, MempoolAssumption
<1> QED BY <1>1, <1>2 DEF RemoveIncluded

-----------------------------------------------------------------------------
(* The invariant *)

TxsAreFinite ==
    /\ \A n \in Node : IsFiniteSet(pool[n]) /\ \A S \in work[n].txs : IsFiniteSet(S)
    /\ \A h \in Hash : IsFiniteSet(content[h])

\* What is stored, parked or sent was found, and nobody sends a block other than genesis
\* at the height 0.
BlocksAreFound ==
    /\ \A n \in Node : Hashes(chain[n].blocks) \cup Hashes(chain[n].orphans) \subseteq found
    /\ \A m \in net : m.type = "BlockResponseInner" =>
          m.block.hash \in found /\ (m.block.hash = Genesis \/ m.block.height > 0)

\* SeenCovers needs BlocksAreFound, as the content of a block that is found later must
\* not change what is confirmed, and all of it needs chains that are good.
IInv ==
    /\ TypeOK
    /\ restarted \in [Node -> Nat]
    /\ \A n \in Node : GoodChain(chain[n])
    /\ TxsAreFinite
    /\ BlocksAreFound
    /\ MinesTheTip
    /\ SeenCovers

\* Initially there is genesis.
LEMMA InitIInv == Init => IInv
<1> SUFFICES ASSUME Init PROVE IInv
  OBVIOUS
<1> DEFINE c == Started({GenesisBlock})
<1>1. GenesisBlock \in Block /\ GenesisBlock.hash = Genesis /\ GenesisBlock.height = 0
  BY HashAssumption DEF GenesisBlock, Block
<1>2. IsFiniteSet({}) /\ Cardinality({}) = 0 /\ MaxSize \in Nat
  BY FS_EmptySet, MempoolAssumption
<1>3. Tip({GenesisBlock}) = GenesisBlock
  BY GenesisIsGood
<1>4. GoodChain(c) /\ c \in ChainState
  BY GenesisIsGood
<1> HIDE DEF c
<1>5. c.blocks = {GenesisBlock} /\ c.main = {GenesisBlock} /\ c.orphans = {}
  BY DEF c, Started
<1>6. /\ chain = [n \in Node |-> c]
      /\ mining = [n \in Node |-> Genesis]
      /\ found = UNION {{Genesis} : n \in Node}
  <2>1. Hashes({GenesisBlock}) = {Genesis}
    BY <1>1 DEF Hashes
  <2> QED BY <1>1, <1>3, <2>1 DEF Init, InitWith, c
<1>7. TypeOK
  <2>1. chain \in [Node -> ChainState] /\ mining \in [Node -> Hash] /\ found \in SUBSET Hash
    BY <1>4, <1>6, HashAssumption
  <2>2. Idle \in Work
    BY DEF Idle, Work
  <2>3. {} \in {S \in SUBSET Tx : Cardinality(S) <= MaxSize}
    BY <1>2
  <2>4. /\ pool \in [Node -> {S \in SUBSET Tx : Cardinality(S) <= MaxSize}]
        /\ seen \in [Node -> SUBSET Tx]
        /\ targets \in [Node -> [Node -> Nat]]
        /\ peers \in [Node -> SUBSET Node]
        /\ work \in [Node -> Work]
    BY <2>2, <2>3 DEF Init, InitWith
  <2>5. /\ net \in SUBSET Message
        /\ content \in [Hash -> SUBSET Tx]
        /\ cut \in BOOLEAN /\ raced \in BOOLEAN
    BY DEF Init, InitWith
  <2>6. lost \in 0..MaxLost
    BY CommunityAssumption DEF Init, InitWith
  <2>7. \A n \in Node : restarted[n] \in 0..MaxRestarts[n]
    <3>1. \A n \in Node : restarted[n] = 0 /\ MaxRestarts[n] \in Nat
      BY CommunityAssumption DEF Init, InitWith
    <3> QED BY <3>1
  <2> QED BY <2>1, <2>4, <2>5, <2>6, <2>7 DEF TypeOK
<1>8. TxsAreFinite
  BY <1>2 DEF Init, InitWith, TxsAreFinite, Idle
<1>9. BlocksAreFound
  <2>1. Hashes(c.blocks) \cup Hashes(c.orphans) = {Genesis} /\ net = {}
    BY <1>1, <1>5 DEF Init, InitWith, Hashes
  <2> QED BY <1>6, <2>1 DEF BlocksAreFound
<1>10. MinesTheTip
  BY <1>1, <1>3, <1>5, <1>6 DEF MinesTheTip
<1>11. SeenCovers
  <2> SUFFICES ASSUME NEW n \in Node PROVE pool[n] \cup Confirmed(n) \subseteq seen[n]
    BY DEF SeenCovers
  <2>1. pool[n] = {} /\ chain[n].main = {GenesisBlock} /\ content[Genesis] = {}
    BY <1>5, <1>6, HashAssumption DEF Init, InitWith
  <2> QED BY <1>1, <2>1 DEF Confirmed, TxHashes
<1> QED BY <1>4, <1>6, <1>7, <1>8, <1>9, <1>10, <1>11 DEF Init, InitWith, IInv

-----------------------------------------------------------------------------
(* Steps *)

\* A step that leaves chains, pools, miners and contents alone and sends nothing but
\* blocks that were found.
LEMMA QuietStep ==
  ASSUME IInv, UNCHANGED <<chain, pool, seen, mining, content, found, restarted>>,
         targets' \in [Node -> [Node -> Nat]],
         peers' \in [Node -> SUBSET Node],
         work' \in [Node -> Work],
         \A n \in Node : \A S \in work'[n].txs : IsFiniteSet(S),
         net' \in SUBSET Message,
         \A m \in net' : m.type = "BlockResponseInner" =>
             m.block.hash \in found /\ (m.block.hash = Genesis \/ m.block.height > 0),
         lost' \in 0..MaxLost, cut' \in BOOLEAN, raced' \in BOOLEAN
  PROVE  IInv'
<1>1. TypeOK'
  BY DEF IInv, TypeOK
<1>2. TxsAreFinite'
  BY DEF IInv, TxsAreFinite
<1>3. BlocksAreFound'
  BY DEF IInv, BlocksAreFound
<1>4. MinesTheTip' /\ SeenCovers'
  BY DEF IInv, MinesTheTip, SeenCovers, Confirmed
<1> QED BY <1>1, <1>2, <1>3, <1>4 DEF IInv

\* What a node puts on the wire about its chain.
LEMMA TipIsTyped ==
  ASSUME IInv, NEW n \in Node
  PROVE  /\ chain[n].main \in SUBSET Block
         /\ Tip(chain[n].main) \in chain[n].main
         /\ Tip(chain[n].main).hash \in Hash
         /\ Height(chain[n]) \in Nat
<1>1. /\ chain[n].main \in SUBSET Block /\ IsFiniteSet(chain[n].main)
      /\ chain[n].main # {}
  <2>1. GoodChain(chain[n])
    BY DEF IInv
  <2> QED BY <2>1, FS_Subset DEF GoodChain, Linked, Rooted
<1>2. Tip(chain[n].main) \in chain[n].main
  BY <1>1, TipExists
<1> QED BY <1>1, <1>2 DEF Height, Block

\* The datagrams of the senders are messages.
LEMMA SendersSendMessages ==
  ASSUME IInv, NEW n \in Node, NEW p \in Node
  PROVE  /\ GetChainHeight(n, p) \in Message
         /\ ChainHeightResponse(n, p) \in Message
         /\ \A h \in Nat, t \in Hash : AnnounceBlock(n, p, h, t) \in Message
         /\ \A h \in Nat : RequestBlock(n, p, h) \in Message
         /\ \A b \in Block : BlockResponseInner(n, p, b) \in Message
         /\ \A t \in Tx : MempoolTransaction(n, p, t) \in Message
         /\ ShareMempoolWith(n, p) \in SUBSET Message
<1>1. Height(chain[n]) \in Nat /\ Tip(chain[n].main).hash \in Hash
  BY TipIsTyped
<1>2. \A t \in Tx : MempoolTransaction(n, p, t) \in Message
  BY DEF MempoolTransaction, Message
<1>3. pool[n] \subseteq Tx
  BY DEF IInv, TypeOK
<1> QED BY <1>1, <1>2, <1>3 DEF Message, GetChainHeight, ChainHeightResponse, AnnounceBlock,
              RequestBlock, BlockResponseInner, ShareMempoolWith

\* Messages other than blocks can be sent at any time.
LEMMA SendStep ==
  ASSUME IInv, UNCHANGED <<state, content, found, history>>, NEW S \in SUBSET Message,
         net' \subseteq net \cup S,
         \A m \in S : m.type # "BlockResponseInner"
  PROVE  IInv'
<1>1. UNCHANGED <<chain, pool, seen, mining, content, found, restarted, targets, peers, work,
                  lost, cut, raced>>
  BY DEF state, history
<1>2. net' \in SUBSET Message
  BY DEF IInv, TypeOK
<1>3. \A m \in net' : m.type = "BlockResponseInner" =>
             m.block.hash \in found /\ (m.block.hash = Genesis \/ m.block.height > 0)
  BY DEF IInv, BlocksAreFound
<1>4. /\ targets' \in [Node -> [Node -> Nat]] /\ peers' \in [Node -> SUBSET Node]
      /\ work' \in [Node -> Work] /\ lost' \in 0..MaxLost /\ cut' \in BOOLEAN /\ raced' \in BOOLEAN
      /\ \A n \in Node : \A T \in work'[n].txs : IsFiniteSet(T)
  BY <1>1 DEF IInv, TypeOK, TxsAreFinite
<1> QED BY <1>1, <1>2, <1>3, <1>4, QuietStep

\* The handlers and timers that only send, and the loss of a datagram.
LEMMA SendingStep ==
  ASSUME IInv,
         \/ \E n \in Node : SyncChains(n)
         \/ \E n, p \in Node : PeerAdded(n, p)
         \/ \E m \in net : m.type = "GetChainHeight" /\ OnGetChainHeight(m.to, m)
         \/ \E m \in net : m.type = "AnnounceBlock" /\ OnAnnounceBlock(m.to, m)
         \/ \E m \in net : m.type = "BlockResponseInner" /\ RefuseBlock(m.to, m)
         \/ \E m \in net : Lose(m)
  PROVE  IInv'
<1>0. net \in SUBSET Message /\ peers \in [Node -> SUBSET Node]
  BY DEF IInv, TypeOK
<1>1. ASSUME NEW n \in Node, SyncChains(n) PROVE IInv'
  <2> DEFINE S == {GetChainHeight(n, p) : p \in peers[n]}
  <2>1. S \in SUBSET Message /\ \A m \in S : m.type # "BlockResponseInner"
    BY <1>0, SendersSendMessages DEF GetChainHeight
  <2>2. net' \subseteq net \cup S /\ UNCHANGED <<state, content, found, history>>
    BY <1>1 DEF SyncChains
  <2> QED BY <2>1, <2>2, SendStep
<1>2. ASSUME NEW n \in Node, NEW p \in Node, PeerAdded(n, p) PROVE IInv'
  <2> DEFINE S == {GetChainHeight(n, p)} \cup ShareMempoolWith(n, p)
  <2>1. S \in SUBSET Message /\ \A m \in S : m.type # "BlockResponseInner"
    <3>1. \A x \in ShareMempoolWith(n, p) : x.type = "MempoolTransaction"
      BY DEF ShareMempoolWith, MempoolTransaction
    <3>2. GetChainHeight(n, p).type = "GetChainHeight"
      BY DEF GetChainHeight
    <3> QED BY <3>1, <3>2, SendersSendMessages
  <2>2. /\ UNCHANGED <<chain, pool, seen, targets, mining, work, content, found,
                       lost, cut, raced, restarted>>
        /\ peers' \in [Node -> SUBSET Node]
    BY <1>0, <1>2 DEF PeerAdded, history
  <2>3. net' \in SUBSET Message
    BY <1>0, <1>2, <2>1 DEF PeerAdded
  <2>4. \A m \in net' : m.type = "BlockResponseInner" =>
             m.block.hash \in found /\ (m.block.hash = Genesis \/ m.block.height > 0)
    BY <1>2, <2>1 DEF PeerAdded, IInv, BlocksAreFound
  <2>5. /\ targets' \in [Node -> [Node -> Nat]] /\ work' \in [Node -> Work]
        /\ lost' \in 0..MaxLost /\ cut' \in BOOLEAN /\ raced' \in BOOLEAN
        /\ \A k \in Node : \A T \in work'[k].txs : IsFiniteSet(T)
    BY <2>2 DEF IInv, TypeOK, TxsAreFinite
  <2> QED BY <2>2, <2>3, <2>4, <2>5, QuietStep
<1>3. ASSUME NEW m \in net, m.type = "GetChainHeight", OnGetChainHeight(m.to, m) PROVE IInv'
  <2> DEFINE S == {ChainHeightResponse(m.to, m.from)} \cup ShareMempoolWith(m.to, m.from)
  <2>1. m.to \in Node /\ m.from \in Node
    BY <1>0, <1>3 DEF Message
  <2>2. S \in SUBSET Message /\ \A x \in S : x.type # "BlockResponseInner"
    <3>1. \A x \in ShareMempoolWith(m.to, m.from) : x.type = "MempoolTransaction"
      BY DEF ShareMempoolWith, MempoolTransaction
    <3>2. ChainHeightResponse(m.to, m.from).type = "ChainHeightResponse"
      BY DEF ChainHeightResponse
    <3> QED BY <2>1, <3>1, <3>2, SendersSendMessages
  <2>3. net' \subseteq net \cup S /\ UNCHANGED <<state, content, found, history>>
    BY <1>3 DEF OnGetChainHeight
  <2> QED BY <2>2, <2>3, SendStep
<1>4. ASSUME NEW m \in net, m.type = "AnnounceBlock", OnAnnounceBlock(m.to, m) PROVE IInv'
  <2> DEFINE S == {RequestBlock(m.to, m.from, m.height)}
  <2>1. m.to \in Node /\ m.from \in Node /\ m.height \in Nat
    BY <1>0, <1>4 DEF Message
  <2>2. S \in SUBSET Message /\ \A x \in S : x.type # "BlockResponseInner"
    BY <2>1, SendersSendMessages DEF RequestBlock
  <2>3. net' \subseteq net \cup S /\ UNCHANGED <<state, content, found, history>>
    BY <1>4 DEF OnAnnounceBlock
  <2> QED BY <2>2, <2>3, SendStep
<1>5. ASSUME NEW m \in net, RefuseBlock(m.to, m) PROVE IInv'
  <2> DEFINE S == {}
  <2>1. S \in SUBSET Message /\ \A x \in S : x.type # "BlockResponseInner"
    OBVIOUS
  <2> HIDE DEF S
  <2>2. net' \subseteq net \cup S /\ UNCHANGED <<state, content, found, history>>
    BY <1>5 DEF RefuseBlock
  <2> QED BY <2>1, <2>2, SendStep
<1>6. ASSUME NEW m \in net, Lose(m) PROVE IInv'
  <2>1. /\ UNCHANGED <<chain, pool, seen, targets, peers, mining, work, content, found,
                       raced, restarted>>
        /\ net' \subseteq net /\ lost < MaxLost /\ lost' = lost + 1
    BY <1>6 DEF Lose, state
  <2>2. lost' \in 0..MaxLost
    BY <2>1, CommunityAssumption DEF IInv, TypeOK
  <2>3. cut' \in BOOLEAN
    <3> DEFINE held == HoldsBackfill({m}, chain)
    <3>1. cut' = (cut \/ held) /\ held \in BOOLEAN /\ cut \in BOOLEAN
      BY <1>6 DEF Lose, HoldsBackfill, IInv, TypeOK
    <3> HIDE DEF held
    <3> QED BY <3>1
  <2>4. /\ targets' \in [Node -> [Node -> Nat]] /\ work' \in [Node -> Work]
        /\ peers' \in [Node -> SUBSET Node] /\ raced' \in BOOLEAN
        /\ \A k \in Node : \A T \in work'[k].txs : IsFiniteSet(T)
        /\ net' \in SUBSET Message
    BY <2>1 DEF IInv, TypeOK, TxsAreFinite
  <2>5. \A x \in net' : x.type = "BlockResponseInner" =>
             x.block.hash \in found /\ (x.block.hash = Genesis \/ x.block.height > 0)
    BY <2>1 DEF IInv, BlocksAreFound
  <2> QED BY <2>1, <2>2, <2>3, <2>4, <2>5, QuietStep
<1> QED BY <1>1, <1>2, <1>3, <1>4, <1>5, <1>6

\* An answer to a height request sends a request or an announcement and sets a target.
LEMMA HeightResponseStep ==
  ASSUME IInv, NEW m \in net, m.type = "ChainHeightResponse", OnChainHeightResponse(m.to, m)
  PROVE  IInv'
<1> DEFINE n == m.to
<1>1. /\ n \in Node /\ m.from \in Node /\ m.height \in Nat
      /\ Height(chain[n]) \in Nat /\ Tip(chain[n].main).hash \in Hash
  <2>1. m \in Message
    BY DEF IInv, TypeOK
  <2>2. n \in Node /\ m.from \in Node /\ m.height \in Nat
    BY <2>1 DEF Message
  <2> QED BY <2>2, TipIsTyped
<1> DEFINE S == {AnnounceBlock(n, m.from, Height(chain[n]), Tip(chain[n].main).hash),
                 RequestBlock(n, m.from, Height(chain[n]) + 1),
                 RequestBlock(n, m.from, m.height)}
<1>2. S \in SUBSET Message /\ \A x \in S : x.type # "BlockResponseInner"
  <2>1. S \in SUBSET Message
    BY <1>1, SendersSendMessages
  <2>2. \A x \in S : x.type # "BlockResponseInner"
    BY DEF AnnounceBlock, RequestBlock
  <2> QED BY <2>1, <2>2
<1>3. net' \subseteq net \cup S
  BY DEF OnChainHeightResponse, NextMissing
<1> HIDE DEF S
<1>4. UNCHANGED <<chain, pool, seen, peers, mining, work, content, found,
                  lost, cut, raced, restarted>>
  BY DEF OnChainHeightResponse, history
<1>5. targets' \in [Node -> [Node -> Nat]]
  <2>1. targets \in [Node -> [Node -> Nat]]
    BY DEF IInv, TypeOK
  <2>2. targets' = targets \/ targets' = [targets EXCEPT ![n][m.from] = m.height]
    BY DEF OnChainHeightResponse
  <2> HIDE DEF n
  <2> QED BY <1>1, <2>1, <2>2
<1>6. /\ peers' \in [Node -> SUBSET Node] /\ work' \in [Node -> Work]
      /\ lost' \in 0..MaxLost /\ cut' \in BOOLEAN /\ raced' \in BOOLEAN
      /\ \A k \in Node : \A T \in work'[k].txs : IsFiniteSet(T)
      /\ net' \in SUBSET Message
  BY <1>2, <1>3, <1>4 DEF IInv, TypeOK, TxsAreFinite
<1>7. \A x \in net' : x.type = "BlockResponseInner" =>
             x.block.hash \in found /\ (x.block.hash = Genesis \/ x.block.height > 0)
  BY <1>2, <1>3 DEF IInv, BlocksAreFound
<1> QED BY <1>4, <1>5, <1>6, <1>7, QuietStep

\* Only blocks of a main chain are sent.
LEMMA RequestStep ==
  ASSUME IInv, NEW m \in net, m.type = "RequestBlock", OnRequestBlock(m.to, m)
  PROVE  IInv'
<1> DEFINE n == m.to
           S == {BlockResponseInner(n, m.from, b) : b \in {x \in chain[n].main : x.height = m.height}}
<1>1. /\ n \in Node /\ m.from \in Node
      /\ chain[n].main \in SUBSET Block
      /\ chain[n].main \subseteq chain[n].blocks /\ Linked(chain[n].main)
  <2>1. m \in Message
    BY DEF IInv, TypeOK
  <2>2. n \in Node /\ m.from \in Node
    BY <2>1 DEF Message
  <2> QED BY <2>2 DEF IInv, GoodChain
<1>2. net' \subseteq net \cup S /\ UNCHANGED <<state, content, found, history>>
  BY DEF OnRequestBlock
<1>3. S \in SUBSET Message
  BY <1>1, SendersSendMessages
<1>4. ASSUME NEW b \in chain[n].main
      PROVE  b.hash \in found /\ (b.hash = Genesis \/ b.height > 0)
  <2>1. b.hash \in found
    BY <1>1 DEF IInv, BlocksAreFound, Hashes
  <2>2. ASSUME b.hash # Genesis PROVE b.height > 0
    <3>1. PICK q \in chain[n].main : b.height = q.height + 1
      BY <1>1, <2>2 DEF Linked, Rooted
    <3> QED BY <1>1, <3>1, BlockTypes
  <2> QED BY <2>1, <2>2
<1>5. \A x \in S : x.block.hash \in found /\ (x.block.hash = Genesis \/ x.block.height > 0)
  <2>1. \A b : BlockResponseInner(n, m.from, b).block = b
    BY DEF BlockResponseInner
  <2> QED BY <1>4, <2>1
<1> HIDE DEF S
<1>6. UNCHANGED <<chain, pool, seen, targets, peers, mining, work, content, found,
                  lost, cut, raced, restarted>>
  BY <1>2 DEF state, history
<1>7. /\ peers' \in [Node -> SUBSET Node] /\ work' \in [Node -> Work]
      /\ targets' \in [Node -> [Node -> Nat]]
      /\ lost' \in 0..MaxLost /\ cut' \in BOOLEAN /\ raced' \in BOOLEAN
      /\ \A k \in Node : \A T \in work'[k].txs : IsFiniteSet(T)
      /\ net' \in SUBSET Message
  BY <1>2, <1>3, <1>6 DEF IInv, TypeOK, TxsAreFinite
<1>8. \A x \in net' : x.type = "BlockResponseInner" =>
             x.block.hash \in found /\ (x.block.hash = Genesis \/ x.block.height > 0)
  BY <1>2, <1>5 DEF IInv, BlocksAreFound
<1> QED BY <1>6, <1>7, <1>8, QuietStep

\* A worker takes the tip, or the pending transactions.
LEMMA WorkStep ==
  ASSUME IInv, NEW n \in Node, TakeTip(n) \/ TakePending(n)
  PROVE  IInv'
<1>1. UNCHANGED <<chain, pool, seen, targets, peers, mining, net, content, found,
                  lost, cut, restarted>>
  BY DEF TakeTip, TakePending, history
<1>2. /\ pool[n] \in SUBSET Tx /\ IsFiniteSet(pool[n]) /\ MaxCount \in Nat
      /\ mining[n] \in Hash /\ work \in [Node -> Work] /\ raced \in BOOLEAN
      /\ \A k \in Node : \A T \in work[k].txs : IsFiniteSet(T)
  BY CommunityAssumption DEF IInv, TypeOK, TxsAreFinite
<1>3. Pending(pool[n], MaxCount) \in SUBSET Tx /\ IsFiniteSet(Pending(pool[n], MaxCount))
  BY <1>2, PendingIsBounded
<1>4. /\ work' \in [Node -> Work] /\ raced' \in BOOLEAN
      /\ \A k \in Node : \A T \in work'[k].txs : IsFiniteSet(T)
  <2>1. CASE TakeTip(n)
    <3>1. work' = [work EXCEPT ![n] = [tip |-> {mining[n]}, txs |-> {}]] /\ raced' = raced
      BY <2>1 DEF TakeTip, history
    <3>2. [tip |-> {mining[n]}, txs |-> {}] \in Work
      BY <1>2 DEF Work
    <3> QED BY <1>2, <3>1, <3>2
  <2>2. CASE TakePending(n)
    <3> DEFINE w == [work[n] EXCEPT !.txs = {Pending(pool[n], MaxCount)}]
    <3>1. work' = [work EXCEPT ![n] = w]
      BY <1>2, <2>2 DEF TakePending
    <3>2. w \in Work /\ w.txs = {Pending(pool[n], MaxCount)}
      BY <1>2, <1>3 DEF Work
    <3>3. raced' \in BOOLEAN
      BY <1>2, <2>2 DEF TakePending
    <3> HIDE DEF w
    <3> QED BY <1>2, <1>3, <3>1, <3>2, <3>3
  <2> QED BY <2>1, <2>2
<1>5. /\ peers' \in [Node -> SUBSET Node] /\ targets' \in [Node -> [Node -> Nat]]
      /\ lost' \in 0..MaxLost /\ cut' \in BOOLEAN
      /\ net' \in SUBSET Message
      /\ \A x \in net' : x.type = "BlockResponseInner" =>
             x.block.hash \in found /\ (x.block.hash = Genesis \/ x.block.height > 0)
  BY <1>1 DEF IInv, TypeOK, BlocksAreFound
<1> QED BY <1>1, <1>4, <1>5, QuietStep

\* A transaction from the server or from a peer.
LEMMA TransactionStep ==
  ASSUME IInv, NEW n \in Node, NEW t \in Tx, NEW Q \in SUBSET Node, NEW msgs \in SUBSET net,
         AddTransaction(n, t, Q, msgs),
         UNCHANGED <<chain, targets, peers, work, content, found, history>>
  PROVE  IInv'
<1>0. /\ pool \in [Node -> {S \in SUBSET Tx : Cardinality(S) <= MaxSize}]
      /\ seen \in [Node -> SUBSET Tx] /\ mining \in [Node -> Hash]
      /\ \A k \in Node : IsFiniteSet(pool[k])
      /\ Tip(chain[n].main).hash \in Hash
  BY TipIsTyped DEF IInv, TypeOK, TxsAreFinite
<1>1. /\ Add(pool[n], t) \in SUBSET (pool[n] \cup {t})
      /\ IsFiniteSet(Add(pool[n], t))
      /\ Cardinality(Add(pool[n], t)) <= MaxSize
  BY <1>0, AddIsBounded
<1>2. /\ pool' \in [Node -> {S \in SUBSET Tx : Cardinality(S) <= MaxSize}]
      /\ \A k \in Node : IsFiniteSet(pool'[k])
  <2>1. CASE pool' = pool
    BY <1>0, <2>1
  <2>2. CASE pool' = [pool EXCEPT ![n] = Add(@, t)]
    <3>1. Add(pool[n], t) \in {S \in SUBSET Tx : Cardinality(S) <= MaxSize}
      BY <1>0, <1>1
    <3> QED BY <1>0, <1>1, <2>2, <3>1
  <2> QED BY <2>1, <2>2 DEF AddTransaction
<1>3. seen' \in [Node -> SUBSET Tx]
  <2>1. seen' = seen \/ seen' = [seen EXCEPT ![n] = @ \cup {t}]
    BY DEF AddTransaction
  <2> QED BY <1>0, <2>1
<1>4. mining' = mining \/ mining' = [mining EXCEPT ![n] = Tip(chain[n].main).hash]
  BY DEF AddTransaction
<1>5. ASSUME NEW k \in Node, pool[k] \cup Confirmed(k) \subseteq seen[k]
      PROVE  pool'[k] \cup Confirmed(k) \subseteq seen'[k]
  <2>1. \/ pool' = pool /\ seen' = seen
        \/ pool' = pool /\ seen' = [seen EXCEPT ![n] = @ \cup {t}]
        \/ pool' = [pool EXCEPT ![n] = Add(@, t)] /\ seen' = [seen EXCEPT ![n] = @ \cup {t}]
    BY DEF AddTransaction
  <2> QED BY <1>0, <1>1, <1>5, <2>1
<1> DEFINE S == {MempoolTransaction(n, p, t) : p \in Q}
<1>6. S \in SUBSET Message /\ \A m \in S : m.type = "MempoolTransaction"
  BY SendersSendMessages DEF MempoolTransaction
<1>7. net' \subseteq net \cup S
  BY DEF AddTransaction
<1> HIDE DEF S
<1>8. TypeOK'
  <2>1. mining' \in [Node -> Hash]
    BY <1>0, <1>4
  <2>2. net' \in SUBSET Message
    BY <1>6, <1>7 DEF IInv, TypeOK
  <2> QED BY <1>2, <1>3, <2>1, <2>2 DEF IInv, TypeOK, history
<1>9. TxsAreFinite'
  BY <1>2 DEF IInv, TxsAreFinite
<1>10. BlocksAreFound'
  BY <1>6, <1>7 DEF IInv, BlocksAreFound
<1>11. MinesTheTip'
  BY <1>0, <1>4 DEF IInv, MinesTheTip
<1>12. SeenCovers'
  <2> SUFFICES ASSUME NEW k \in Node, restarted'[k] = 0
               PROVE  pool'[k] \cup Confirmed(k)' \subseteq seen'[k]
    BY DEF SeenCovers
  <2>1. restarted[k] = 0 /\ Confirmed(k)' = Confirmed(k)
    BY DEF history, Confirmed
  <2>2. pool[k] \cup Confirmed(k) \subseteq seen[k]
    BY <2>1 DEF IInv, SeenCovers
  <2> QED BY <1>5, <2>1, <2>2
<1> QED BY <1>8, <1>9, <1>10, <1>11, <1>12 DEF IInv, history

-----------------------------------------------------------------------------
(* A chain that changes *)

\* The transactions of finitely many blocks are finitely many.
LEMMA BodiesAreFinite ==
  ASSUME NEW S \in SUBSET Block, IsFiniteSet(S), NEW txs \in [Hash -> SUBSET Tx],
         \A h \in Hash : IsFiniteSet(txs[h])
  PROVE  Bodies(S, txs) \in SUBSET Tx /\ IsFiniteSet(Bodies(S, txs))
<1> DEFINE R == {x \in S : x.body = "full"}
           f == [b \in R |-> txs[b.hash]]
           T == {txs[b.hash] : b \in R}
<1>1. IsFiniteSet(R)
  BY FS_Subset
<1>2. f \in Surjection(R, T)
  BY DEF Surjection
<1>3. IsFiniteSet(T)
  <2> HIDE DEF R, f, T
  <2> QED BY <1>1, <1>2, FS_Surjection
<1>4. \A X \in T : IsFiniteSet(X) /\ X \in SUBSET Tx
  BY DEF Block
<1>5. IsFiniteSet(UNION T)
  BY <1>3, <1>4, FS_UNION
<1> QED BY <1>4, <1>5 DEF Bodies

\* The types of what a change of chain is reconciled with, and of the contents of blocks.
PoolsAreTyped ==
    /\ pool \in [Node -> {S \in SUBSET Tx : Cardinality(S) <= MaxSize}]
    /\ \A k \in Node : IsFiniteSet(pool[k])
    /\ seen \in [Node -> SUBSET Tx]
    /\ mining \in [Node -> Hash]

ContentIsTyped == content \in [Hash -> SUBSET Tx] /\ \A h \in Hash : IsFiniteSet(content[h])

\* What _reconcile_after_chain_update(r), or the restart of the miner alone when the
\* tip did not change, does to pool, seen set and miner after add_block(b).
LEMMA ReconcileIsRight ==
  ASSUME NEW n \in Node, GoodChain(chain[n]), NEW b \in Block,
         PoolsAreTyped, ContentIsTyped',
         NEW r, r = AddBlock(chain[n], b),
         \/ Reconcile(n, r, content')
         \/ /\ ~ r.extended_tip
            /\ mining' = [mining EXCEPT ![n] = Tip(r.chain.main).hash]
            /\ UNCHANGED <<pool, seen>>
  PROVE  /\ PoolsAreTyped'
         /\ mining[n] = Tip(chain[n].main).hash => mining'[n] = Tip(r.chain.main).hash
         /\ pool[n] \cup TxHashes(chain[n].main, content') \subseteq seen[n]
               => pool'[n] \cup TxHashes(r.chain.main, content') \subseteq seen'[n]
         /\ \A k \in Node \ {n} :
               pool'[k] = pool[k] /\ seen'[k] = seen[k] /\ mining'[k] = mining[k]
<1>0. /\ pool \in [Node -> {S \in SUBSET Tx : Cardinality(S) <= MaxSize}]
      /\ \A k \in Node : IsFiniteSet(pool[k])
      /\ seen \in [Node -> SUBSET Tx]
      /\ mining \in [Node -> Hash]
      /\ content' \in [Hash -> SUBSET Tx] /\ \A h \in Hash : IsFiniteSet(content'[h])
  BY DEF PoolsAreTyped, ContentIsTyped
<1>1. /\ GoodChain(r.chain)
      /\ chain[n].blocks \subseteq r.chain.blocks
      /\ r.extended_tip \in BOOLEAN
      /\ ~ r.extended_tip => r.chain.main = chain[n].main
      /\ r.reverted = Missing(chain[n].main, r.chain.main)
      /\ r.applied = Missing(r.chain.main, chain[n].main)
  BY AddBlockIsRight
<1> DEFINE d == r.chain
<1>2. /\ chain[n].main \in SUBSET Block /\ IsFiniteSet(chain[n].main)
      /\ chain[n].main \subseteq d.blocks
      /\ d.main \in SUBSET Block /\ IsFiniteSet(d.main) /\ d.main # {} /\ d.main \subseteq d.blocks
      /\ UniqueHashes(d.blocks)
  BY <1>1, FS_Subset DEF GoodChain, Linked, Rooted
<1>3. Tip(d.main).hash \in Hash
  <2>1. Tip(d.main) \in d.main
    BY <1>2, TipExists
  <2> QED BY <1>2, <2>1 DEF Block
<1>4. CASE ~ r.extended_tip
  <2>1. /\ pool' = pool /\ seen' = seen
        /\ mining' = mining \/ mining' = [mining EXCEPT ![n] = Tip(d.main).hash]
    BY <1>4 DEF Reconcile
  <2> QED BY <1>0, <1>1, <1>3, <1>4, <2>1 DEF PoolsAreTyped
<1>5. CASE r.extended_tip
  <2> DEFINE Back == Bodies(r.reverted, content')
             In == TxHashes(r.applied, content')
             P == RemoveIncluded(AddAll(pool[n], Back), In)
  <2>1. /\ pool' = [pool EXCEPT ![n] = P]
        /\ seen' = [seen EXCEPT ![n] = @ \cup In]
        /\ mining' = [mining EXCEPT ![n] = Tip(d.main).hash]
    BY <1>5 DEF Reconcile
  <2>2. /\ r.reverted \subseteq chain[n].main /\ IsFiniteSet(r.reverted)
        /\ r.reverted \in SUBSET Block
        /\ r.applied \subseteq d.main /\ r.applied \in SUBSET Block
    <3>1. r.reverted \subseteq chain[n].main /\ r.applied \subseteq d.main
      BY <1>1 DEF Missing
    <3> QED BY <1>2, <3>1, FS_Subset
  <2>3. Back \in SUBSET Tx /\ IsFiniteSet(Back) /\ Back \subseteq TxHashes(chain[n].main, content')
    <3>1. Back \subseteq TxHashes(chain[n].main, content')
      BY <2>2 DEF Bodies, TxHashes
    <3> QED BY <1>0, <2>2, <3>1, BodiesAreFinite
  <2>4. In \in SUBSET Tx
    BY <1>0, <2>2 DEF TxHashes, Block
  <2>5. TxHashes(d.main, content') \subseteq TxHashes(chain[n].main, content') \cup In
    <3>1. \A x \in d.main : x \in chain[n].main \/ x \in r.applied
      BY <1>1, <1>2 DEF Missing, UniqueHashes
    <3> QED BY <3>1 DEF TxHashes
  <2> HIDE DEF Back, In
  <2>6. /\ P \subseteq pool[n] \cup Back /\ IsFiniteSet(P) /\ Cardinality(P) <= MaxSize
        /\ P \in SUBSET Tx
    <3>1. pool[n] \in SUBSET Tx /\ IsFiniteSet(pool[n])
      BY <1>0
    <3>2. /\ AddAll(pool[n], Back) \in SUBSET (pool[n] \cup Back)
          /\ IsFiniteSet(AddAll(pool[n], Back))
          /\ Cardinality(AddAll(pool[n], Back)) <= MaxSize
      BY <2>3, <3>1, AddAllIsBounded
    <3>3. AddAll(pool[n], Back) \in SUBSET Tx
      BY <2>3, <3>1, <3>2
    <3>4. P \in SUBSET AddAll(pool[n], Back) /\ IsFiniteSet(P) /\ Cardinality(P) <= MaxSize
      BY <3>2, <3>3, RemoveIsBounded
    <3> HIDE DEF P
    <3> QED BY <3>2, <3>3, <3>4
  <2> HIDE DEF P
  <2>7. pool' \in [Node -> {S \in SUBSET Tx : Cardinality(S) <= MaxSize}]
    BY <1>0, <2>1, <2>6
  <2>8. \A k \in Node : IsFiniteSet(pool'[k])
    BY <1>0, <2>1, <2>6
  <2>9. pool'[n] = P /\ seen'[n] = seen[n] \cup In /\ mining'[n] = Tip(d.main).hash
    BY <1>0, <2>1
  <2>10. seen' \in [Node -> SUBSET Tx] /\ mining' \in [Node -> Hash]
    BY <1>0, <1>3, <2>1, <2>4
  <2>11. \A k \in Node \ {n} :
               pool'[k] = pool[k] /\ seen'[k] = seen[k] /\ mining'[k] = mining[k]
    BY <1>0, <2>1
  <2> QED BY <2>3, <2>5, <2>6, <2>7, <2>8, <2>9, <2>10, <2>11
        DEF PoolsAreTyped
<1> QED BY <1>1, <1>4, <1>5

\* A block that was found keeps its transactions, so what is confirmed stays so.
LEMMA ConfirmedIsStable ==
  ASSUME IInv, \A h \in found : content'[h] = content[h], NEW n \in Node
  PROVE  TxHashes(chain[n].main, content') = Confirmed(n)
<1>1. \A x \in chain[n].main : x.hash \in found
  BY DEF IInv, BlocksAreFound, GoodChain, Hashes
<1> DEFINE Q == {x \in chain[n].main : x.body # "header"}
<1>2. \A x \in Q : content'[x.hash] = content[x.hash]
  BY <1>1
<1>3. {content'[x.hash] : x \in Q} = {content[x.hash] : x \in Q}
  <2> HIDE DEF Q
  <2> QED BY <1>2
<1> QED BY <1>3 DEF TxHashes, Confirmed

\* A step that adds one block to one chain and reconciles.
LEMMA ChainStep ==
  ASSUME IInv, NEW n \in Node, NEW b \in Block, NEW r, r = AddBlock(chain[n], b),
         chain' = [chain EXCEPT ![n] = r.chain],
         ContentIsTyped',
         \A h \in found : content'[h] = content[h],
         found \subseteq found', found' \in SUBSET Hash, b.hash \in found',
         \/ Reconcile(n, r, content')
         \/ /\ ~ r.extended_tip
            /\ mining' = [mining EXCEPT ![n] = Tip(r.chain.main).hash]
            /\ UNCHANGED <<pool, seen>>,
         targets' \in [Node -> [Node -> Nat]],
         work' \in [Node -> Work],
         \A k \in Node : \A S \in work'[k].txs : IsFiniteSet(S),
         net' \in SUBSET Message,
         \A x \in net' : x.type = "BlockResponseInner" =>
             x.block.hash \in found /\ (x.block.hash = Genesis \/ x.block.height > 0),
         UNCHANGED <<peers, lost, cut, raced, restarted>>
  PROVE  IInv'
<1>0. GoodChain(chain[n]) /\ PoolsAreTyped /\ chain \in [Node -> ChainState]
  BY DEF IInv, TypeOK, TxsAreFinite, PoolsAreTyped
<1>1. /\ GoodChain(r.chain)
      /\ r.chain.blocks \cup r.chain.orphans \subseteq chain[n].blocks \cup chain[n].orphans \cup {b}
  BY <1>0, AddBlockIsRight
<1>2. /\ PoolsAreTyped'
      /\ mining[n] = Tip(chain[n].main).hash => mining'[n] = Tip(r.chain.main).hash
      /\ pool[n] \cup TxHashes(chain[n].main, content') \subseteq seen[n]
            => pool'[n] \cup TxHashes(r.chain.main, content') \subseteq seen'[n]
      /\ \A k \in Node \ {n} :
            pool'[k] = pool[k] /\ seen'[k] = seen[k] /\ mining'[k] = mining[k]
  BY <1>0, ReconcileIsRight
<1>3. /\ chain'[n] = r.chain
      /\ \A k \in Node \ {n} : chain'[k] = chain[k]
  BY <1>0
<1>4. chain' \in [Node -> ChainState]
  <2>1. r.chain \in ChainState
    BY <1>1 DEF GoodChain, ChainState
  <2> QED BY <1>0, <2>1
<1>5. \A k \in Node : GoodChain(chain'[k])
  BY <1>1, <1>3 DEF IInv
<1>6. TypeOK'
  BY <1>2, <1>4 DEF IInv, TypeOK, PoolsAreTyped, ContentIsTyped
<1>7. TxsAreFinite'
  BY <1>2 DEF TxsAreFinite, PoolsAreTyped, ContentIsTyped
<1>8. BlocksAreFound'
  <2>1. ASSUME NEW k \in Node
        PROVE  Hashes(chain'[k].blocks) \cup Hashes(chain'[k].orphans) \subseteq found'
    <3>1. Hashes(chain[k].blocks) \cup Hashes(chain[k].orphans) \subseteq found
      BY DEF IInv, BlocksAreFound
    <3>2. CASE k # n
      BY <1>3, <3>1, <3>2
    <3>3. CASE k = n
      BY <1>1, <1>3, <3>1, <3>3 DEF Hashes
    <3> QED BY <3>2, <3>3
  <2> QED BY <2>1 DEF BlocksAreFound
<1>9. MinesTheTip'
  BY <1>2, <1>3 DEF IInv, MinesTheTip
<1>10. SeenCovers'
  <2> SUFFICES ASSUME NEW k \in Node, restarted'[k] = 0
               PROVE  pool'[k] \cup TxHashes(chain'[k].main, content') \subseteq seen'[k]
    BY DEF SeenCovers, Confirmed
  <2>1. TxHashes(chain[k].main, content') = Confirmed(k)
    BY ConfirmedIsStable
  <2>2. pool[k] \cup TxHashes(chain[k].main, content') \subseteq seen[k]
    BY <2>1 DEF IInv, SeenCovers, Confirmed
  <2> QED BY <1>2, <1>3, <2>2
<1> QED BY <1>5, <1>6, <1>7, <1>8, <1>9, <1>10 DEF IInv

\* A block from a peer.
LEMMA BlockResponseStep ==
  ASSUME IInv, NEW m \in net, m.type = "BlockResponseInner", OnBlockResponse(m.to, m)
  PROVE  IInv'
<1> DEFINE n == m.to
           b == [m.block EXCEPT !.body = "hashes"]
           r == AddBlock(chain[n], b)
<1>1. CASE RefuseBlock(n, m)
  BY <1>1, SendingStep
<1>2. CASE /\ chain' = [chain EXCEPT ![n] = r.chain]
           /\ Backfill(n, m, r) \/ TakeBlock(n, m, r)
           /\ UNCHANGED <<peers, work, content, found, history>>
  <2>1. /\ n \in Node /\ m.from \in Node /\ m.block \in Block
        /\ m.block.hash \in found /\ (m.block.hash = Genesis \/ m.block.height > 0)
    <3>1. m \in Message
      BY DEF IInv, TypeOK
    <3> QED BY <3>1 DEF Message, IInv, BlocksAreFound
  <2>2. b \in Block /\ b.hash = m.block.hash
    BY <2>1 DEF Block
  <2>3. /\ GoodChain(chain[n])
        /\ targets \in [Node -> [Node -> Nat]] /\ net \in SUBSET Message
    BY <2>1 DEF IInv, TypeOK
  <2> HIDE DEF b
  <2>4. /\ GoodChain(r.chain) /\ r.extended_tip \in BOOLEAN
        /\ r.is_orphan => b.hash \notin Hashes(chain[n].blocks)
        /\ r.extended_tip => ~ r.is_orphan
    BY <2>2, <2>3, AddBlockIsRight
  <2> HIDE DEF r, n
  <2>5. Height(r.chain) \in Nat
    <3>1. r.chain.main \in SUBSET Block /\ IsFiniteSet(r.chain.main) /\ r.chain.main # {}
      BY <2>4, FS_Subset DEF GoodChain, Linked, Rooted
    <3> QED BY <3>1, TipExists DEF Height, Block
  <2>6. Reconcile(n, r, content)
    <3>1. CASE Backfill(n, m, r)
      BY <2>4, <3>1 DEF Backfill, Reconcile
    <3>2. CASE TakeBlock(n, m, r)
      BY <3>2 DEF TakeBlock
    <3> QED BY <1>2, <3>1, <3>2
  <2> DEFINE next == NextMissing(n, m.from, r.chain, targets[n][m.from])
  <2>7. /\ next.target \in Nat
        /\ next.sent \in SUBSET Message
        /\ \A x \in next.sent : x.type = "RequestBlock"
    BY <2>1, <2>3, <2>5, SendersSendMessages DEF NextMissing, RequestBlock
  <2>8. \E S \in SUBSET Message : /\ net' \subseteq net \cup S
                                 /\ \A x \in S : x.type = "RequestBlock"
    <3>1. CASE Backfill(n, m, r)
      <4>1. m.block.hash # Genesis
        <5>1. Genesis \in Hashes(chain[n].blocks)
          BY <2>3 DEF GoodChain, Rooted, Hashes
        <5> QED BY <2>2, <2>4, <3>1, <5>1 DEF Backfill
      <4>2. m.block.height - 1 \in Nat
        BY <2>1, <4>1, BlockTypes
      <4> DEFINE q == RequestBlock(n, m.from, m.block.height - 1)
      <4>3. q \in Message /\ q.type = "RequestBlock"
        BY <2>1, <4>2, SendersSendMessages DEF RequestBlock
      <4>4. net' = (net \ {m}) \cup {q}
        BY <3>1 DEF Backfill
      <4>5. {q} \in SUBSET Message /\ \A x \in {q} : x.type = "RequestBlock"
        BY <4>3
      <4> HIDE DEF q
      <4> QED BY <4>4, <4>5
    <3>2. CASE TakeBlock(n, m, r)
      <4>1. net' \subseteq net \cup next.sent
        BY <3>2 DEF TakeBlock
      <4> HIDE DEF next
      <4> QED BY <2>7, <4>1
    <3> QED BY <1>2, <3>1, <3>2
  <2>9. targets' \in [Node -> [Node -> Nat]]
    <3>1. targets' = targets \/ targets' = [targets EXCEPT ![n][m.from] = next.target]
      BY <1>2 DEF Backfill, TakeBlock
    <3> HIDE DEF next
    <3> QED BY <2>1, <2>3, <2>7, <3>1
  <2>10. /\ net' \in SUBSET Message
         /\ \A x \in net' : x.type = "BlockResponseInner" =>
             x.block.hash \in found /\ (x.block.hash = Genesis \/ x.block.height > 0)
    BY <2>3, <2>8 DEF IInv, BlocksAreFound
  <2>11. /\ content' = content /\ found' = found
         /\ ContentIsTyped'
         /\ found' \in SUBSET Hash
         /\ work' \in [Node -> Work] /\ \A k \in Node : \A S \in work'[k].txs : IsFiniteSet(S)
         /\ UNCHANGED <<peers, lost, cut, raced, restarted>>
    BY <1>2 DEF IInv, TypeOK, TxsAreFinite, history, ContentIsTyped
  <2>12. r = AddBlock(chain[n], b)
    BY DEF r
  <2> QED BY <1>2, <2>1, <2>2, <2>6, <2>9, <2>10, <2>11, <2>12, ChainStep
<1> QED BY <1>1, <1>2 DEF OnBlockResponse

\* A block found on this node: nothing stored, parked or sent has its hash, its parent
\* is stored, so add_block takes it.
LEMMA BlockMinedStep ==
  ASSUME IInv, NEW n \in Node, NEW h \in Hash, OnBlockMined(n, h)
  PROVE  IInv'
<1>0. /\ GoodChain(chain[n]) /\ chain[n].blocks \in SUBSET Block
      /\ work \in [Node -> Work] /\ content \in [Hash -> SUBSET Tx] /\ found \in SUBSET Hash
      /\ peers \in [Node -> SUBSET Node] /\ net \in SUBSET Message
      /\ targets \in [Node -> [Node -> Nat]]
      /\ \A k \in Node : \A S \in work[k].txs : IsFiniteSet(S)
      /\ \A g \in Hash : IsFiniteSet(content[g])
  BY DEF IInv, TypeOK, TxsAreFinite, GoodChain
<1> PICK p \in Parents(chain[n].blocks, [hash |-> h]), txs \in work[n].txs :
       LET b == [hash |-> h, height |-> p.height + 1, body |-> "full"]
           r == AddBlock(chain[n], b)
       IN
       /\ content' = [content EXCEPT ![h] = txs]
       /\ chain' = [chain EXCEPT ![n] = r.chain]
       /\ IF r.added /\ r.extended_tip THEN Reconcile(n, r, content')
          ELSE mining' = [mining EXCEPT ![n] = Tip(r.chain.main).hash] /\ UNCHANGED <<pool, seen>>
       /\ net' = net \cup (IF r.added THEN {AnnounceBlock(n, q, b.height, h) : q \in peers[n]}
                           ELSE {})
  BY DEF OnBlockMined
<1> DEFINE b == [hash |-> h, height |-> p.height + 1, body |-> "full"]
           r == AddBlock(chain[n], b)
           S == IF r.added THEN {AnnounceBlock(n, q, b.height, h) : q \in peers[n]} ELSE {}
<1>1. /\ content' = [content EXCEPT ![h] = txs]
      /\ chain' = [chain EXCEPT ![n] = r.chain]
      /\ IF r.added /\ r.extended_tip THEN Reconcile(n, r, content')
         ELSE mining' = [mining EXCEPT ![n] = Tip(r.chain.main).hash] /\ UNCHANGED <<pool, seen>>
      /\ net' = net \cup S
  OBVIOUS
<1>2. p \in chain[n].blocks /\ p \in Block /\ p.height \in Nat
  BY <1>0 DEF Parents, Block
<1>3. b \in Block /\ b.hash = h /\ b.height \in Nat
  BY <1>2 DEF Block
<1> HIDE DEF b
<1>4. r.extended_tip => r.added
  BY <1>0, <1>3, AddBlockIsRight
<1>5. S \in SUBSET Message /\ \A x \in S : x.type = "AnnounceBlock"
  BY <1>0, <1>3, SendersSendMessages DEF AnnounceBlock
<1> HIDE DEF S
<1>6. r = AddBlock(chain[n], b)
  OBVIOUS
<1> HIDE DEF r
<1>7. txs \in SUBSET Tx /\ IsFiniteSet(txs)
  BY <1>0 DEF Work
<1>8. h \notin found /\ found' = found \cup {h} /\ work' = [work EXCEPT ![n] = Idle]
      /\ UNCHANGED <<targets, peers, lost, cut, raced, restarted>>
  BY DEF OnBlockMined, history
<1>9. ContentIsTyped' /\ \A g \in found : content'[g] = content[g]
  BY <1>0, <1>1, <1>7, <1>8 DEF ContentIsTyped
<1>10. /\ work' \in [Node -> Work]
       /\ \A k \in Node : \A T \in work'[k].txs : IsFiniteSet(T)
  BY <1>0, <1>8 DEF Idle, Work
<1>11. /\ net' \in SUBSET Message
       /\ \A x \in net' : x.type = "BlockResponseInner" =>
             x.block.hash \in found /\ (x.block.hash = Genesis \/ x.block.height > 0)
  BY <1>0, <1>1, <1>5 DEF IInv, BlocksAreFound
<1>12. found \subseteq found' /\ found' \in SUBSET Hash /\ b.hash \in found'
       /\ targets' \in [Node -> [Node -> Nat]]
  BY <1>0, <1>3, <1>8
<1>13. \/ Reconcile(n, r, content')
       \/ /\ ~ r.extended_tip
          /\ mining' = [mining EXCEPT ![n] = Tip(r.chain.main).hash]
          /\ UNCHANGED <<pool, seen>>
  BY <1>1, <1>4
<1> QED BY <1>1, <1>3, <1>6, <1>8, <1>9, <1>10, <1>11, <1>12, <1>13, ChainStep

\* A restart keeps the main chain and forgets the rest; SeenCovers is about the nodes
\* that did not restart.
LEMMA RestartStep ==
  ASSUME IInv, NEW n \in Node, Restart(n)
  PROVE  IInv'
<1> PICK old \in SUBSET {b \in chain[n].main : Height(chain[n]) - b.height >= PruneAfter},
         S \in SUBSET {m \in net : m.to = n} :
       LET kept == (chain[n].main \ old) \cup {[b EXCEPT !.body = "header"] : b \in old} IN
       /\ chain' = [chain EXCEPT ![n] = [blocks |-> kept, main |-> kept, orphans |-> {}]]
       /\ net' = net \ S
       /\ cut' = (cut \/ HoldsBackfill(S, chain'))
  BY DEF Restart, Started
<1> DEFINE kept == (chain[n].main \ old) \cup {[b EXCEPT !.body = "header"] : b \in old}
           d == [blocks |-> kept, main |-> kept, orphans |-> {}]
<1>1. chain' = [chain EXCEPT ![n] = d] /\ net' \subseteq net
      /\ cut' = (cut \/ HoldsBackfill(S, chain'))
  OBVIOUS
<1>2. /\ GoodChain(d)
      /\ Hashes(kept) \subseteq Hashes(chain[n].blocks)
      /\ Tip(kept).hash = Tip(chain[n].main).hash
  <2>1. GoodChain(chain[n]) /\ old \in SUBSET chain[n].main
    BY DEF IInv
  <2> QED BY <2>1, ReloadIsRight
<1> HIDE DEF kept
<1>3. d.main = kept /\ d.blocks = kept /\ d.orphans = {}
  OBVIOUS
<1>4. d \in ChainState
  BY <1>2 DEF GoodChain, ChainState
<1> HIDE DEF d
<1>5. /\ chain'[n] = d /\ \A k \in Node \ {n} : chain'[k] = chain[k]
      /\ chain' \in [Node -> ChainState]
  <2>1. chain \in [Node -> ChainState]
    BY DEF IInv, TypeOK
  <2> QED BY <1>1, <1>4, <2>1
<1>6. /\ restarted[n] < MaxRestarts[n] /\ restarted' = [restarted EXCEPT ![n] = @ + 1]
      /\ pool' = [pool EXCEPT ![n] = {}] /\ seen' = [seen EXCEPT ![n] = {}]
      /\ targets' = [targets EXCEPT ![n] = [p \in Node |-> 0]]
      /\ peers' = [peers EXCEPT ![n] = {}]
      /\ mining' = [mining EXCEPT ![n] = Tip(chain[n].main).hash]
      /\ work' = [work EXCEPT ![n] = Idle]
      /\ UNCHANGED <<content, found, lost, raced>>
  BY DEF Restart, Started
<1>7. /\ restarted' \in [Node -> Nat] /\ restarted'[n] > 0
      /\ \A k \in Node : restarted'[k] \in 0..MaxRestarts[k]
      /\ \A k \in Node \ {n} : restarted'[k] = restarted[k]
  <2>1. /\ restarted \in [Node -> Nat] /\ MaxRestarts \in [Node -> Nat]
        /\ \A k \in Node : restarted[k] \in 0..MaxRestarts[k]
    BY CommunityAssumption DEF IInv, TypeOK
  <2>2. \A k \in Node : restarted'[k] = IF k = n THEN restarted[n] + 1 ELSE restarted[k]
    BY <1>6, <2>1
  <2>3. restarted' \in [Node -> Nat]
    BY <1>6, <2>1
  <2> QED BY <1>6, <2>1, <2>2, <2>3
<1>8. /\ pool' \in [Node -> {T \in SUBSET Tx : Cardinality(T) <= MaxSize}]
      /\ \A k \in Node : IsFiniteSet(pool'[k])
      /\ \A k \in Node \ {n} : pool'[k] = pool[k] /\ seen'[k] = seen[k] /\ mining'[k] = mining[k]
      /\ mining'[n] = Tip(chain[n].main).hash
  <2>1. {} \in {T \in SUBSET Tx : Cardinality(T) <= MaxSize} /\ IsFiniteSet({})
    BY FS_EmptySet, MempoolAssumption
  <2> QED BY <1>6, <2>1 DEF IInv, TypeOK, TxsAreFinite
<1>9. /\ work' \in [Node -> Work]
      /\ \A k \in Node : \A T \in work'[k].txs : IsFiniteSet(T)
  BY <1>6 DEF IInv, TypeOK, TxsAreFinite, Idle, Work
<1>10. TypeOK'
  <2>1. mining' \in [Node -> Hash]
    BY <1>6, TipIsTyped DEF IInv, TypeOK
  <2>2. cut' \in BOOLEAN
    <3> DEFINE held == HoldsBackfill(S, chain')
    <3>1. cut' = (cut \/ held) /\ held \in BOOLEAN /\ cut \in BOOLEAN
      BY <1>1 DEF HoldsBackfill, IInv, TypeOK
    <3> HIDE DEF held
    <3> QED BY <3>1
  <2>3. /\ seen' \in [Node -> SUBSET Tx] /\ targets' \in [Node -> [Node -> Nat]]
        /\ peers' \in [Node -> SUBSET Node] /\ net' \in SUBSET Message
        /\ content' \in [Hash -> SUBSET Tx] /\ found' \in SUBSET Hash
        /\ lost' \in 0..MaxLost /\ raced' \in BOOLEAN
    BY <1>1, <1>6 DEF IInv, TypeOK
  <2> QED BY <1>5, <1>7, <1>8, <1>9, <2>1, <2>2, <2>3 DEF TypeOK
<1>11. \A k \in Node : GoodChain(chain'[k])
  BY <1>2, <1>5 DEF IInv
<1>12. TxsAreFinite'
  BY <1>6, <1>8, <1>9 DEF IInv, TxsAreFinite
<1>13. BlocksAreFound'
  <2>1. ASSUME NEW k \in Node
        PROVE  Hashes(chain'[k].blocks) \cup Hashes(chain'[k].orphans) \subseteq found'
    <3>1. Hashes(chain[k].blocks) \cup Hashes(chain[k].orphans) \subseteq found
      BY DEF IInv, BlocksAreFound
    <3>2. Hashes({}) = {}
      BY DEF Hashes
    <3> QED BY <1>2, <1>3, <1>5, <1>6, <3>1, <3>2
  <2> QED BY <1>1, <1>6, <2>1 DEF IInv, BlocksAreFound
<1>14. MinesTheTip'
  BY <1>2, <1>3, <1>5, <1>8 DEF IInv, MinesTheTip
<1>15. SeenCovers'
  BY <1>5, <1>6, <1>7, <1>8 DEF IInv, SeenCovers, Confirmed
<1> QED BY <1>7, <1>10, <1>11, <1>12, <1>13, <1>14, <1>15 DEF IInv

\* Every step keeps the invariant.
LEMMA NextIInv == IInv /\ [Next]_vars => IInv'
<1> SUFFICES ASSUME IInv, [Next]_vars PROVE IInv'
  OBVIOUS
<1>1. CASE \E n \in Node, t \in Tx : SubmitTransaction(n, t)
  <2> PICK n \in Node, t \in Tx : SubmitTransaction(n, t)
    BY <1>1
  <2>1. peers[n] \in SUBSET Node /\ net \in SUBSET net
    BY DEF IInv, TypeOK
  <2>2. /\ AddTransaction(n, t, peers[n], net)
        /\ UNCHANGED <<chain, targets, peers, work, content, found, history>>
    BY DEF SubmitTransaction
  <2> QED BY <2>1, <2>2, TransactionStep
<1>2. CASE \E n, p \in Node : PeerAdded(n, p)
  BY <1>2, SendingStep
<1>3. CASE \E n \in Node : SyncChains(n)
  BY <1>3, SendingStep
<1>4. CASE \E m \in net : Receive(m)
  <2> PICK m \in net : Receive(m)
    BY <1>4
  <2>1. CASE m.type = "GetChainHeight" /\ OnGetChainHeight(m.to, m)
    BY <2>1, SendingStep
  <2>2. CASE m.type = "ChainHeightResponse" /\ OnChainHeightResponse(m.to, m)
    BY <2>2, HeightResponseStep
  <2>3. CASE m.type = "AnnounceBlock" /\ OnAnnounceBlock(m.to, m)
    BY <2>3, SendingStep
  <2>4. CASE m.type = "RequestBlock" /\ OnRequestBlock(m.to, m)
    BY <2>4, RequestStep
  <2>5. CASE m.type = "BlockResponseInner" /\ OnBlockResponse(m.to, m)
    BY <2>5, BlockResponseStep
  <2>6. CASE m.type = "MempoolTransaction" /\ OnMempoolTransaction(m.to, m)
    <3>1. m \in Message
      BY DEF IInv, TypeOK
    <3>2. m.to \in Node /\ m.tx \in Tx
      BY <2>6, <3>1 DEF Message
    <3>3. peers[m.to] \ {m.from} \in SUBSET Node /\ net \ {m} \in SUBSET net
      BY <3>2 DEF IInv, TypeOK
    <3>4. /\ AddTransaction(m.to, m.tx, peers[m.to] \ {m.from}, net \ {m})
          /\ UNCHANGED <<chain, targets, peers, work, content, found, history>>
      BY <2>6 DEF OnMempoolTransaction
    <3> QED BY <3>2, <3>3, <3>4, TransactionStep
  <2> QED BY <2>1, <2>2, <2>3, <2>4, <2>5, <2>6 DEF Receive
<1>5. CASE \E n \in Node : TakeTip(n) \/ TakePending(n)
  BY <1>5, WorkStep
<1>6. CASE \E n \in Node, h \in Hash : OnBlockMined(n, h)
  BY <1>6, BlockMinedStep
<1>7. CASE \E m \in net : Lose(m)
  BY <1>7, SendingStep
<1>8. CASE \E n \in Node : Restart(n)
  BY <1>8, RestartStep
<1>9. CASE UNCHANGED vars
  BY <1>9 DEF vars, state, history, IInv, TypeOK, TxsAreFinite, BlocksAreFound, MinesTheTip,
              SeenCovers, Confirmed
<1> QED BY <1>1, <1>2, <1>3, <1>4, <1>5, <1>6, <1>7, <1>8, <1>9 DEF Next

-----------------------------------------------------------------------------
(* Theorems *)

\* The inductive invariant holds throughout.
LEMMA Invariance == Spec => []IInv
<1>1. Init => IInv
  BY InitIInv
<1>2. IInv /\ [Next]_vars => IInv'
  BY NextIInv
<1> QED BY <1>1, <1>2, PTL DEF Spec

\* Whatever the network does, chains, orphan pools, mempools and miners stay within
\* their types and bounds (max_orphans, max_size).
THEOREM TypeCorrect == Spec => []TypeOK
<1>1. IInv => TypeOK
  BY DEF IInv
<1> QED BY <1>1, Invariance, PTL

\* After every handler every miner works on the tip of its chain.
THEOREM MinersFollow == Spec => []MinesTheTip
<1>1. IInv => MinesTheTip
  BY DEF IInv
<1> QED BY <1>1, Invariance, PTL

\* What a node holds or has confirmed is in its seen set, so that gossip cannot bring a
\* confirmed transaction back, unless the node was restarted.
THEOREM SeenCoversAll == Spec => []SeenCovers
<1>1. IInv => SeenCovers
  BY DEF IInv
<1> QED BY <1>1, Invariance, PTL

\* A step keeps a node's chain, adds blocks to its tree, or restarts it.
LEMMA ChainsGrowOrRestart ==
  ASSUME IInv, [Next]_vars, NEW n \in Node
  PROVE  \/ chain'[n] = chain[n]
         \/ chain[n].blocks \subseteq chain'[n].blocks
         \/ /\ Headers(chain'[n].blocks) \subseteq Headers(chain[n].blocks)
            /\ Tip(chain'[n].main).hash = Tip(chain[n].main).hash
            /\ Tip(chain'[n].main).height = Tip(chain[n].main).height
<1>0. chain \in [Node -> ChainState] /\ net \in SUBSET Message
      /\ \A k \in Node : GoodChain(chain[k])
  BY DEF IInv, TypeOK
<1>1. ASSUME NEW k \in Node, NEW b \in Block,
             chain' = [chain EXCEPT ![k] = AddBlock(chain[k], b).chain]
      PROVE  chain'[n] = chain[n] \/ chain[n].blocks \subseteq chain'[n].blocks
  <2>1. chain[k].blocks \subseteq AddBlock(chain[k], b).chain.blocks
    BY <1>0, AddBlockIsRight
  <2> QED BY <1>0, <1>1, <2>1
<1>2. CASE \E m \in net : Receive(m)
  <2> PICK m \in net : Receive(m)
    BY <1>2
  <2>1. CASE m.type = "BlockResponseInner" /\ OnBlockResponse(m.to, m)
    <3>1. m \in Message
      BY <1>0
    <3>2. m.to \in Node /\ m.block \in Block
      BY <2>1, <3>1 DEF Message
    <3> DEFINE b == [m.block EXCEPT !.body = "hashes"]
    <3>3. b \in Block
      BY <3>2 DEF Block
    <3>4. chain' = chain \/ chain' = [chain EXCEPT ![m.to] = AddBlock(chain[m.to], b).chain]
      BY <2>1 DEF OnBlockResponse, RefuseBlock, state
    <3> HIDE DEF b
    <3> QED BY <1>1, <3>2, <3>3, <3>4
  <2>2. CASE m.type = "MempoolTransaction" /\ OnMempoolTransaction(m.to, m)
    BY <2>2 DEF OnMempoolTransaction
  <2>3. CASE \/ OnGetChainHeight(m.to, m)
             \/ OnChainHeightResponse(m.to, m)
             \/ OnAnnounceBlock(m.to, m)
             \/ OnRequestBlock(m.to, m)
    BY <2>3 DEF OnGetChainHeight, OnChainHeightResponse, OnAnnounceBlock, OnRequestBlock, state
  <2> QED BY <2>1, <2>2, <2>3 DEF Receive
<1>3. ASSUME NEW k \in Node, NEW h \in Hash, OnBlockMined(k, h)
      PROVE  chain'[n] = chain[n] \/ chain[n].blocks \subseteq chain'[n].blocks
  <2>1. PICK p \in Parents(chain[k].blocks, [hash |-> h]) :
           chain' = [chain EXCEPT ![k] =
              AddBlock(chain[k], [hash |-> h, height |-> p.height + 1, body |-> "full"]).chain]
    BY <1>3 DEF OnBlockMined
  <2>2. p \in Block
    BY <1>0 DEF GoodChain, Parents
  <2>3. [hash |-> h, height |-> p.height + 1, body |-> "full"] \in Block
    BY <2>2 DEF Block
  <2> QED BY <1>1, <2>1, <2>3
<1>4. ASSUME NEW k \in Node, Restart(k)
      PROVE  \/ chain'[n] = chain[n]
             \/ /\ Headers(chain'[n].blocks) \subseteq Headers(chain[n].blocks)
                /\ Tip(chain'[n].main).hash = Tip(chain[n].main).hash
                /\ Tip(chain'[n].main).height = Tip(chain[n].main).height
  <2> PICK old \in SUBSET {b \in chain[k].main : Height(chain[k]) - b.height >= PruneAfter} :
         LET kept == (chain[k].main \ old) \cup {[b EXCEPT !.body = "header"] : b \in old}
         IN chain' = [chain EXCEPT ![k] = [blocks |-> kept, main |-> kept, orphans |-> {}]]
    BY <1>4 DEF Restart, Started
  <2> DEFINE kept == (chain[k].main \ old) \cup {[b EXCEPT !.body = "header"] : b \in old}
  <2>1. chain' = [chain EXCEPT ![k] = [blocks |-> kept, main |-> kept, orphans |-> {}]]
    OBVIOUS
  <2>2. /\ Headers(kept) \subseteq Headers(chain[k].blocks)
        /\ Tip(kept).hash = Tip(chain[k].main).hash
        /\ Tip(kept).height = Tip(chain[k].main).height
    <3>1. GoodChain(chain[k]) /\ old \in SUBSET chain[k].main
      BY <1>0
    <3> QED BY <3>1, ReloadIsRight
  <2> DEFINE d == [blocks |-> kept, main |-> kept, orphans |-> {}]
  <2>3. chain' = [chain EXCEPT ![k] = d] /\ d.blocks = kept /\ d.main = kept
    BY <2>1
  <2> HIDE DEF kept, d
  <2>4. chain'[k] = d /\ (n # k => chain'[n] = chain[n])
    BY <1>0, <2>3
  <2> QED BY <2>2, <2>3, <2>4
<1>5. CASE \/ \E k \in Node, t \in Tx : SubmitTransaction(k, t)
           \/ \E k, p \in Node : PeerAdded(k, p)
           \/ \E k \in Node : SyncChains(k)
           \/ \E k \in Node : TakeTip(k) \/ TakePending(k)
           \/ \E m \in net : Lose(m)
           \/ UNCHANGED vars
  BY <1>5 DEF SubmitTransaction, PeerAdded, SyncChains, TakeTip, TakePending, Lose, vars, state
<1> QED BY <1>2, <1>3, <1>4, <1>5 DEF Next

\* The tip of a node is the best block that it knows.
TipsAreBest ==
    \A n \in Node : TipOf(n) \in Known(n) /\ \A x \in Known(n) : ~ BC(n)!Beats(x, TipOf(n))

\* Every node of the overlay implements BestChain: through gossip, mining, lost messages
\* and restarts its tip is the best of what it knows and a restart forgets no tip.
THEOREM NodesKeepBestChain == Spec => NodesAreBestChains
<1>1. IInv => TipsAreBest
  <2> SUFFICES ASSUME IInv, NEW n \in Node
               PROVE  TipOf(n) \in Known(n) /\ \A x \in Known(n) : ~ BC(n)!Beats(x, TipOf(n))
    BY DEF TipsAreBest
  <2>1. GoodChain(chain[n])
    BY DEF IInv
  <2>2. Tip(chain[n].main) \in chain[n].blocks
    <3>1. chain[n].main \in SUBSET Block /\ IsFiniteSet(chain[n].main) /\ chain[n].main # {}
      BY <2>1, FS_Subset DEF GoodChain, Linked, Rooted
    <3> QED BY <2>1, <3>1, TipExists DEF GoodChain
  <2>3. TipOf(n) \in Known(n)
    BY <2>2 DEF TipOf, Known, Headers
  <2>4. ASSUME NEW x \in Known(n) PROVE ~ BC(n)!Beats(x, TipOf(n))
    <3>1. PICK b \in chain[n].blocks : x = <<b.hash, b.height>>
      BY DEF Known, Headers
    <3>2. ~ Better(b, Tip(chain[n].main))
      BY <2>1 DEF GoodChain
    <3> QED BY <3>1, <3>2 DEF Better, TipOf, BC!Beats
  <2> QED BY <2>3, <2>4
<1>2. IInv' => TipsAreBest'
  BY <1>1, PTL
<1>3. ASSUME IInv, IInv', [Next]_vars, NEW n \in Node
      PROVE  BC(n)!Learn \/ BC(n)!Forget \/ UNCHANGED <<Known(n), TipOf(n)>>
  <2>1. TipOf(n)' \in Known(n)' /\ \A x \in Known(n)' : ~ BC(n)!Beats(x, TipOf(n)')
    BY <1>2, <1>3 DEF TipsAreBest
  <2>2. CASE chain'[n] = chain[n]
    BY <2>2 DEF Known, TipOf
  <2>3. CASE chain[n].blocks \subseteq chain'[n].blocks
    <3>1. Known(n) \subseteq Known(n)'
      BY <2>3 DEF Known, Headers
    <3> QED BY <2>1, <3>1 DEF BC!Learn
  <2>4. CASE /\ Headers(chain'[n].blocks) \subseteq Headers(chain[n].blocks)
             /\ Tip(chain'[n].main).hash = Tip(chain[n].main).hash
             /\ Tip(chain'[n].main).height = Tip(chain[n].main).height
    <3>1. Known(n)' \subseteq Known(n) /\ TipOf(n)' = TipOf(n)
      BY <2>4 DEF Known, TipOf
    <3> QED BY <2>1, <3>1 DEF BC!Forget
  <2> QED BY <1>3, <2>2, <2>3, <2>4, ChainsGrowOrRestart
<1>4. Init => \A n \in Node : TipOf(n) \in Known(n)
  BY <1>1, InitIInv DEF TipsAreBest
<1>5. IInv /\ IInv' /\ [Next]_vars
        => [\A n \in Node : BC(n)!Learn \/ BC(n)!Forget \/ UNCHANGED <<Known(n), TipOf(n)>>]_vars
  BY <1>3
<1> QED BY <1>4, <1>5, Invariance, PTL DEF Spec, NodesAreBestChains
-----------------------------------------------------------------------------
(* Transactions are confirmed once *)

\* With every block but genesis, A holds its parent: A holds the branch below each block.
Line(A) == \A h \in A : h # Genesis => Prev[h] \in A

\* No transaction of S is in the block h or below it on its branch.
Fresh(S, h) ==
    \E A \in SUBSET found : Line(A) /\ h \in A /\ \A x \in A : S \cap content[x] = {}

\* ConfirmedOnce is about the nodes as long as this holds.
Undisturbed == ~ raced /\ \A n \in Node : restarted[n] = 0

\* ConfirmedOnce is not inductive: a main chain can be replaced by any branch, and a
\* block found on a tip that was left meanwhile.  So every block found, on whatever
\* branch, repeats nothing below it, and so will the block that a worker searches.
Once ==
    /\ \A n \in Node : \A b \in chain[n].blocks \cup chain[n].orphans : b.body # "header"
    /\ \A h \in found : h # Genesis => Fresh(content[h], Prev[h])
    /\ \A n \in Node : \A t \in work[n].tip, S \in work[n].txs : Fresh(S, t)
    /\ \A n \in Node : pool[n] \cap Confirmed(n) = {}

OnceInv == Undisturbed => Once

\* A set that holds the parent of b holds all that is below b on a chain, by induction
\* over the distance from b.
LEMMA LineHoldsBranch ==
  ASSUME NEW S \in SUBSET Block, Linked(S), UniqueHashes(S),
         NEW A, Line(A), NEW b \in S, Prev[b.hash] \in A,
         NEW c \in S, c.height < b.height
  PROVE  c.hash \in A
<1> DEFINE K == {k \in Nat : k + 1 <= b.height =>
                    \E x \in S : x.height + k + 1 = b.height /\ x.hash \in A}
<1>1. ASSUME NEW x \in S, x.height > 0
      PROVE  x.hash # Genesis /\ \E p \in S : p.hash = Prev[x.hash] /\ x.height = p.height + 1
  <2>1. x.hash # Genesis
    <3>1. PICK g \in S : g.hash = Genesis /\ g.height = 0
      BY DEF Linked, Rooted
    <3>2. x # g
      BY <1>1, <3>1
    <3> QED BY <3>1, <3>2 DEF UniqueHashes
  <2> QED BY <2>1 DEF Linked, Rooted
<1>2. b.height \in Nat /\ c.height \in Nat
  BY BlockTypes
<1>3. 0 \in K
  <2>1. PICK p \in S : p.hash = Prev[b.hash] /\ b.height = p.height + 1
    BY <1>1, <1>2
  <2>2. p.height + 0 + 1 = b.height
    BY <2>1, BlockTypes
  <2> QED BY <2>1, <2>2
<1>4. ASSUME NEW k \in K PROVE k + 1 \in K
  <2> SUFFICES ASSUME k + 1 + 1 <= b.height
               PROVE  \E x \in S : x.height + (k + 1) + 1 = b.height /\ x.hash \in A
    OBVIOUS
  <2>1. PICK x \in S : x.height + k + 1 = b.height /\ x.hash \in A
    BY <1>2
  <2>2. x.height \in Nat /\ x.height > 0
    BY <1>2, <2>1, BlockTypes
  <2>3. PICK p \in S : p.hash = Prev[x.hash] /\ x.height = p.height + 1
    BY <1>1, <2>2
  <2>4. p.hash \in A
    BY <1>1, <2>1, <2>2, <2>3 DEF Line
  <2>5. p.height + (k + 1) + 1 = b.height
    BY <1>2, <2>1, <2>2, <2>3, BlockTypes
  <2> QED BY <2>4, <2>5
<1>5. K = Nat
  <2>1. K \in SUBSET Nat
    OBVIOUS
  <2> HIDE DEF K
  <2> QED BY <1>3, <1>4, <2>1, SetInduction
<1>6. b.height - c.height - 1 \in K
  BY <1>2, <1>5
<1>7. PICK x \in S : x.height + (b.height - c.height - 1) + 1 = b.height /\ x.hash \in A
  BY <1>2, <1>6
<1>8. x.height = c.height
  BY <1>2, <1>7, BlockTypes
<1> QED BY <1>7, <1>8 DEF Linked

\* So no transaction is twice on a main chain.
LEMMA MainConfirmsOnce ==
  ASSUME IInv, Once, NEW n \in Node,
         NEW b \in chain[n].main, NEW c \in chain[n].main, b # c
  PROVE  content[b.hash] \cap content[c.hash] = {}
<1>1. /\ chain[n].main \in SUBSET Block /\ Linked(chain[n].main)
      /\ UniqueHashes(chain[n].main)
      /\ Hashes(chain[n].main) \subseteq found
  BY DEF IInv, GoodChain, UniqueHashes, BlocksAreFound, Hashes
<1>2. ASSUME NEW x \in chain[n].main, NEW y \in chain[n].main, y.height < x.height
      PROVE  content[x.hash] \cap content[y.hash] = {}
  <2>1. x.hash # Genesis
    <3>1. PICK g \in chain[n].main : g.hash = Genesis /\ g.height = 0
      BY <1>1 DEF Linked, Rooted
    <3>2. x # g
      BY <1>1, <1>2, <3>1, BlockTypes
    <3> QED BY <1>1, <3>1, <3>2 DEF UniqueHashes
  <2>2. Fresh(content[x.hash], Prev[x.hash])
    BY <1>1, <2>1 DEF Once, Hashes
  <2>3. PICK A \in SUBSET found : /\ Line(A) /\ Prev[x.hash] \in A
                                  /\ \A h \in A : content[x.hash] \cap content[h] = {}
    BY <2>2 DEF Fresh
  <2>4. y.hash \in A
    BY <1>1, <1>2, <2>3, LineHoldsBranch
  <2> QED BY <2>3, <2>4
<1>3. b.height < c.height \/ c.height < b.height
  BY <1>1, BlockTypes DEF Linked
<1> QED BY <1>2, <1>3

\* A line of blocks that were found is fresh for S as long as it was.
LEMMA FreshIsStable ==
  ASSUME NEW S, NEW h, Fresh(S, h),
         found \subseteq found', \A x \in found : content'[x] = content[x]
  PROVE  Fresh(S, h)'
BY DEF Fresh, Line

\* The conditions of ConfirmedOnce never come back.
LEMMA DisturbedForever ==
  ASSUME IInv, [Next]_vars, Undisturbed'
  PROVE  Undisturbed /\ UNCHANGED restarted /\ \A n \in Node : ~ Restart(n)
<1>1. restarted \in [Node -> Nat]
  BY DEF IInv
<1>2. ASSUME NEW n \in Node, Restart(n) PROVE FALSE
  <2>1. restarted' = [restarted EXCEPT ![n] = @ + 1]
    BY <1>2 DEF Restart, Started
  <2>2. restarted'[n] = restarted[n] + 1
    BY <1>1, <2>1
  <2> QED BY <1>1, <2>2 DEF Undisturbed
<1>3. ASSUME NEW n \in Node, NEW h \in Hash, OnBlockMined(n, h)
      PROVE  UNCHANGED <<raced, restarted>>
  BY <1>3 DEF OnBlockMined, history
<1>4. ASSUME NEW m \in net, Receive(m) PROVE UNCHANGED <<raced, restarted>>
  <2>1. ASSUME OnBlockResponse(m.to, m) PROVE UNCHANGED <<raced, restarted>>
    BY <2>1 DEF OnBlockResponse, RefuseBlock, history
  <2> QED BY <1>4, <2>1 DEF Receive, OnGetChainHeight, OnChainHeightResponse, OnAnnounceBlock,
              OnRequestBlock, OnMempoolTransaction, history
<1>5. ASSUME NEW n \in Node, TakeTip(n) \/ TakePending(n)
      PROVE  (raced => raced') /\ UNCHANGED restarted
  <2>1. CASE TakeTip(n)
    BY <2>1 DEF TakeTip, history
  <2>2. CASE TakePending(n)
    <3> DEFINE late == work[n].tip # {mining[n]}
    <3>1. raced' = (raced \/ late) /\ late \in BOOLEAN /\ raced \in BOOLEAN
      BY <2>2 DEF TakePending, IInv, TypeOK
    <3>2. UNCHANGED restarted
      BY <2>2 DEF TakePending
    <3> HIDE DEF late
    <3> QED BY <3>1, <3>2
  <2> QED BY <1>5, <2>1, <2>2
<1>6. ASSUME \/ \E n \in Node, t \in Tx : SubmitTransaction(n, t)
             \/ \E n, p \in Node : PeerAdded(n, p)
             \/ \E n \in Node : SyncChains(n)
             \/ \E m \in net : Lose(m)
             \/ UNCHANGED vars
      PROVE  UNCHANGED <<raced, restarted>>
  BY <1>6 DEF SubmitTransaction, PeerAdded, SyncChains, Lose, vars, history
<1>7. (raced => raced') /\ UNCHANGED restarted
  BY <1>2, <1>3, <1>4, <1>5, <1>6 DEF Next
<1> QED BY <1>2, <1>7 DEF Undisturbed
\* A step that changes no chain and finds no block.
LEMMA QuietOnce ==
  ASSUME Once, UNCHANGED <<chain, content, found>>,
         \A n \in Node : pool'[n] \cap Confirmed(n) = {},
         \A n \in Node : \A t \in work'[n].tip, S \in work'[n].txs : Fresh(S, t)
  PROVE  Once'
<1>1. \A n \in Node : Confirmed(n)' = Confirmed(n)
  BY DEF Confirmed
<1>2. \A S, h : Fresh(S, h) => Fresh(S, h)'
  BY FreshIsStable
<1> QED BY <1>1, <1>2 DEF Once

\* A transaction that is taken into a pool was not seen, so it is not confirmed.
LEMMA TransactionOnce ==
  ASSUME IInv, Once, Undisturbed, NEW n \in Node, NEW t \in Tx, NEW Q, NEW msgs,
         AddTransaction(n, t, Q, msgs), UNCHANGED <<chain, work, content, found>>
  PROVE  Once'
<1>1. pool \in [Node -> SUBSET Tx]
  BY DEF IInv, TypeOK
<1>2. ASSUME NEW k \in Node PROVE pool'[k] \cap Confirmed(k) = {}
  <2>1. pool[k] \cap Confirmed(k) = {} /\ Confirmed(k) \subseteq seen[k]
    BY DEF Once, IInv, SeenCovers, Undisturbed
  <2>2. CASE pool' = pool
    BY <2>1, <2>2
  <2>3. CASE pool' = [pool EXCEPT ![n] = Add(@, t)] /\ t \notin seen[n] \cup pool[n]
    <3>1. Add(pool[n], t) \subseteq pool[n] \cup {t}
      BY DEF Add
    <3> QED BY <1>1, <2>1, <2>3, <3>1
  <2> QED BY <2>2, <2>3 DEF AddTransaction
<1>3. \A k \in Node : \A u \in work'[k].tip, S \in work'[k].txs : Fresh(S, u)
  BY DEF Once
<1> QED BY <1>2, <1>3, QuietOnce

\* What a worker takes from the pool while it searches on the tip of the main chain is
\* not confirmed on that chain, which is then the branch of the block.
LEMMA WorkOnce ==
  ASSUME IInv, Once, NEW n \in Node, TakeTip(n) \/ TakePending(n), ~ raced'
  PROVE  Once'
<1>1. UNCHANGED <<chain, content, found, pool>> /\ work \in [Node -> Work]
  BY DEF TakeTip, TakePending, IInv, TypeOK
<1>2. \A k \in Node : pool'[k] \cap Confirmed(k) = {}
  BY <1>1 DEF Once
<1>3. ASSUME NEW k \in Node, NEW t \in work'[k].tip, NEW S \in work'[k].txs
      PROVE  Fresh(S, t)
  <2>1. CASE k # n
    <3>1. work'[k] = work[k]
      BY <1>1, <2>1 DEF TakeTip, TakePending
    <3> QED BY <1>3, <3>1 DEF Once
  <2>2. CASE k = n /\ TakeTip(n)
    <3>1. work'[n].txs = {}
      BY <1>1, <2>2 DEF TakeTip
    <3> QED BY <1>3, <2>2, <3>1
  <2>3. CASE k = n /\ TakePending(n)
    <3> DEFINE A == Hashes(chain[n].main)
               late == work[n].tip # {mining[n]}
    <3>1. work' = [work EXCEPT ![n].txs = {Pending(pool[n], MaxCount)}]
      BY <2>3 DEF TakePending
    <3>2. ~ late
      <4>1. raced' = (raced \/ late) /\ raced \in BOOLEAN /\ late \in BOOLEAN
        BY <2>3 DEF TakePending, IInv, TypeOK
      <4> HIDE DEF late
      <4> QED BY <4>1
    <3>3. t = mining[n] /\ S = Pending(pool[n], MaxCount)
      <4>1. work[n] \in Work
        BY <1>1
      <4>2. work'[n].txs = {Pending(pool[n], MaxCount)} /\ work'[n].tip = work[n].tip
        BY <1>1, <3>1, <4>1 DEF Work
      <4> QED BY <1>3, <2>3, <3>2, <4>2
    <3>4. /\ GoodChain(chain[n]) /\ Hashes(chain[n].blocks) \subseteq found
          /\ mining[n] = Tip(chain[n].main).hash
      BY DEF IInv, BlocksAreFound, MinesTheTip
    <3>5. A \in SUBSET found /\ Line(A)
      BY <3>4 DEF GoodChain, Linked, Rooted, Hashes, Line
    <3>6. t \in A
      <4>1. chain[n].main \in SUBSET Block /\ IsFiniteSet(chain[n].main) /\ chain[n].main # {}
        BY <3>4, FS_Subset DEF GoodChain, Linked, Rooted
      <4> QED BY <3>3, <3>4, <4>1, TipExists DEF Hashes
    <3>7. ASSUME NEW x \in A PROVE S \cap content[x] = {}
      <4>1. PICK b \in chain[n].main : x = b.hash
        BY DEF Hashes
      <4>2. b.body # "header"
        BY <3>4 DEF Once, GoodChain
      <4>3. content[x] \subseteq Confirmed(n)
        BY <4>1, <4>2 DEF Confirmed, TxHashes
      <4>4. S \subseteq pool[n]
        BY <3>3 DEF Pending
      <4> QED BY <4>3, <4>4 DEF Once
    <3> HIDE DEF A
    <3> QED BY <3>5, <3>6, <3>7 DEF Fresh
  <2> QED BY <2>1, <2>2, <2>3
<1> QED BY <1>1, <1>2, <1>3, QuietOnce

\* A reorganisation returns the transactions of the reverted blocks.  They are in none of
\* the blocks that stay, and what the applied blocks hold is taken out again.
LEMMA ReconcileOnce ==
  ASSUME IInv, Once, NEW n \in Node, NEW b \in Block, NEW r, r = AddBlock(chain[n], b),
         \A x \in found : content'[x] = content[x],
         \/ Reconcile(n, r, content')
         \/ /\ ~ r.extended_tip
            /\ mining' = [mining EXCEPT ![n] = Tip(r.chain.main).hash]
            /\ UNCHANGED <<pool, seen>>
  PROVE  pool'[n] \cap TxHashes(r.chain.main, content') = {}
<1> DEFINE c == chain[n]
           d == r.chain
<1>1. /\ pool \in [Node -> SUBSET Tx] /\ GoodChain(c) /\ Hashes(c.blocks) \subseteq found
      /\ pool[n] \cap Confirmed(n) = {}
      /\ TxHashes(c.main, content') = Confirmed(n)
  BY ConfirmedIsStable DEF IInv, TypeOK, BlocksAreFound, Once
<1>2. /\ GoodChain(d) /\ c.blocks \subseteq d.blocks
      /\ r.extended_tip \in BOOLEAN
      /\ ~ r.extended_tip => d.main = c.main
      /\ r.reverted = Missing(c.main, d.main)
      /\ r.applied = Missing(d.main, c.main)
  BY <1>1, AddBlockIsRight
<1> HIDE DEF d
<1>3. CASE ~ r.extended_tip
  <2>1. pool' = pool
    BY <1>3 DEF Reconcile
  <2> QED BY <1>1, <1>2, <1>3, <2>1 DEF d
<1>4. CASE r.extended_tip
  <2> DEFINE Back == Bodies(r.reverted, content')
             In == TxHashes(r.applied, content')
  <2>1. pool'[n] \subseteq (pool[n] \cup Back) \ In
    <3>1. pool' = [pool EXCEPT ![n] = RemoveIncluded(AddAll(@, Back), In)]
      BY <1>4 DEF Reconcile
    <3>2. RemoveIncluded(AddAll(pool[n], Back), In) \subseteq (pool[n] \cup Back) \ In
      BY DEF RemoveIncluded, AddAll, Pending
    <3> HIDE DEF Back, In
    <3> QED BY <1>1, <3>1, <3>2
  <2> SUFFICES ASSUME NEW t \in pool'[n], NEW x \in d.main, x.body # "header",
                      t \in content'[x.hash]
               PROVE  FALSE
    BY DEF TxHashes, d
  <2>2. x \notin r.applied
    BY <2>1 DEF TxHashes
  <2>3. x \in c.main
    <3>1. PICK y \in c.main : y.height = x.height /\ y.hash = x.hash
      BY <1>2, <2>2 DEF Missing
    <3>2. x \in d.blocks /\ y \in d.blocks /\ UniqueHashes(d.blocks)
      BY <1>1, <1>2 DEF GoodChain
    <3> QED BY <3>1, <3>2 DEF UniqueHashes
  <2>4. t \in Confirmed(n)
    BY <1>1, <2>3 DEF TxHashes
  <2>5. PICK y \in r.reverted : t \in content'[y.hash]
    BY <1>1, <2>1, <2>4 DEF Bodies
  <2>6. y \in c.main /\ y # x
    BY <1>2, <2>5 DEF Missing
  <2>7. content'[x.hash] = content[x.hash] /\ content'[y.hash] = content[y.hash]
    <3>1. x.hash \in found /\ y.hash \in found
      BY <1>1, <2>3, <2>6 DEF GoodChain, Hashes
    <3> QED BY <3>1
  <2>8. content[x.hash] \cap content[y.hash] = {}
    BY <2>3, <2>6, MainConfirmsOnce
  <2> QED BY <2>5, <2>7, <2>8
<1> QED BY <1>2, <1>3, <1>4

\* A step that adds one block, with its transactions, to one chain.
LEMMA ChainOnce ==
  ASSUME IInv, Once, NEW n \in Node, NEW b \in Block, b.body # "header",
         NEW r, r = AddBlock(chain[n], b), chain' = [chain EXCEPT ![n] = r.chain],
         ContentIsTyped', \A x \in found : content'[x] = content[x], found \subseteq found',
         \A h \in found' \ found : Fresh(content'[h], Prev[h]),
         \/ Reconcile(n, r, content')
         \/ /\ ~ r.extended_tip
            /\ mining' = [mining EXCEPT ![n] = Tip(r.chain.main).hash]
            /\ UNCHANGED <<pool, seen>>,
         \A k \in Node : \A t \in work'[k].tip, S \in work'[k].txs : Fresh(S, t)
  PROVE  Once'
<1>0. /\ GoodChain(chain[n]) /\ PoolsAreTyped /\ chain \in [Node -> ChainState]
  BY DEF IInv, TypeOK, TxsAreFinite, PoolsAreTyped
<1>1. chain'[n] = r.chain /\ \A k \in Node \ {n} : chain'[k] = chain[k]
  BY <1>0
<1>2. \A S, h : Fresh(S, h) => Fresh(S, h)'
  BY FreshIsStable
<1>3. ASSUME NEW k \in Node, NEW x \in chain'[k].blocks \cup chain'[k].orphans
      PROVE  x.body # "header"
  <2>1. CASE k = n
    <3>1. x \in chain[n].blocks \cup chain[n].orphans \cup {b}
      BY <1>0, <1>1, <1>3, <2>1, AddBlockIsRight
    <3> QED BY <3>1 DEF Once
  <2>2. CASE k # n
    BY <1>1, <1>3, <2>2 DEF Once
  <2> QED BY <2>1, <2>2
<1>4. ASSUME NEW h \in found', h # Genesis PROVE Fresh(content[h], Prev[h])'
  <2>1. Fresh(content'[h], Prev[h])
    BY <1>4 DEF Once
  <2> QED BY <1>2, <2>1
<1>5. \A k \in Node : \A t \in work'[k].tip, S \in work'[k].txs : Fresh(S, t)'
  BY <1>2
<1>6. ASSUME NEW k \in Node PROVE pool'[k] \cap Confirmed(k)' = {}
  <2>1. CASE k = n
    BY <1>1, <2>1, ReconcileOnce DEF Confirmed
  <2>2. CASE k # n
    <3>1. pool'[k] = pool[k] /\ chain'[k] = chain[k]
      BY <1>0, <1>1, <2>2, ReconcileIsRight
    <3>2. Confirmed(k)' = Confirmed(k)
      BY <3>1, ConfirmedIsStable DEF Confirmed
    <3> QED BY <3>1, <3>2 DEF Once
  <2> QED BY <2>1, <2>2
<1> QED BY <1>3, <1>4, <1>5, <1>6 DEF Once

\* A block from a peer has no header body in the tree, and was found before.
LEMMA BlockResponseOnce ==
  ASSUME IInv, Once, ContentIsTyped, NEW m \in net, m.type = "BlockResponseInner",
         OnBlockResponse(m.to, m)
  PROVE  Once'
<1> DEFINE n == m.to
           b == [m.block EXCEPT !.body = "hashes"]
           r == AddBlock(chain[n], b)
<1>1. n \in Node /\ m.block \in Block
  <2>1. m \in Message
    BY DEF IInv, TypeOK
  <2> QED BY <2>1 DEF Message
<1>2. CASE RefuseBlock(n, m)
  <2>1. UNCHANGED <<chain, pool, work, content, found>>
    BY <1>2 DEF RefuseBlock, state
  <2> QED BY <2>1, QuietOnce DEF Once
<1>3. CASE /\ chain' = [chain EXCEPT ![n] = r.chain]
           /\ Backfill(n, m, r) \/ TakeBlock(n, m, r)
           /\ UNCHANGED <<peers, work, content, found, history>>
  <2>1. b \in Block /\ b.body # "header"
    BY <1>1 DEF Block
  <2> HIDE DEF b
  <2>2. r.extended_tip => ~ r.is_orphan
    BY <1>1, <2>1, AddBlockIsRight DEF IInv
  <2>3. r = AddBlock(chain[n], b)
    OBVIOUS
  <2> HIDE DEF r, n
  <2>4. Reconcile(n, r, content)
    BY <1>3, <2>2 DEF Backfill, TakeBlock, Reconcile
  <2>5. /\ content' = content /\ found' = found /\ ContentIsTyped'
        /\ \A k \in Node : \A t \in work'[k].tip, S \in work'[k].txs : Fresh(S, t)
    BY <1>3 DEF ContentIsTyped, Once
  <2> QED BY <1>1, <1>3, <2>1, <2>3, <2>4, <2>5, ChainOnce
<1> QED BY <1>2, <1>3 DEF OnBlockResponse

\* A block that is found has the transactions of the worker, which were fresh for its
\* branch from the time they were taken.
LEMMA BlockMinedOnce ==
  ASSUME IInv, Once, ContentIsTyped', NEW n \in Node, NEW h \in Hash, OnBlockMined(n, h)
  PROVE  Once'
<1>0. /\ GoodChain(chain[n]) /\ chain[n].blocks \in SUBSET Block
      /\ work \in [Node -> Work] /\ content \in [Hash -> SUBSET Tx] /\ found \in SUBSET Hash
  BY DEF IInv, TypeOK, GoodChain
<1>p. PICK p \in Parents(chain[n].blocks, [hash |-> h]), txs \in work[n].txs :
       LET b == [hash |-> h, height |-> p.height + 1, body |-> "full"]
           r == AddBlock(chain[n], b)
       IN
       /\ content' = [content EXCEPT ![h] = txs]
       /\ chain' = [chain EXCEPT ![n] = r.chain]
       /\ IF r.added /\ r.extended_tip THEN Reconcile(n, r, content')
          ELSE mining' = [mining EXCEPT ![n] = Tip(r.chain.main).hash] /\ UNCHANGED <<pool, seen>>
  BY DEF OnBlockMined
<1> DEFINE b == [hash |-> h, height |-> p.height + 1, body |-> "full"]
           r == AddBlock(chain[n], b)
<1>1. /\ content' = [content EXCEPT ![h] = txs]
      /\ chain' = [chain EXCEPT ![n] = r.chain]
      /\ IF r.added /\ r.extended_tip THEN Reconcile(n, r, content')
         ELSE mining' = [mining EXCEPT ![n] = Tip(r.chain.main).hash] /\ UNCHANGED <<pool, seen>>
  BY <1>p
<1>2. p \in Block /\ p.height \in Nat
  BY <1>0 DEF Parents, Block
<1>3. b \in Block /\ b.body # "header"
  BY <1>2 DEF Block
<1> HIDE DEF b
<1>4. r.extended_tip => r.added
  BY <1>0, <1>3, AddBlockIsRight
<1>5. r = AddBlock(chain[n], b)
  OBVIOUS
<1> HIDE DEF r
<1>6. \/ Reconcile(n, r, content')
      \/ /\ ~ r.extended_tip
         /\ mining' = [mining EXCEPT ![n] = Tip(r.chain.main).hash]
         /\ UNCHANGED <<pool, seen>>
  BY <1>1, <1>4
<1>7. /\ h \notin found /\ found' = found \cup {h}
      /\ work[n].tip = {Prev[h]} /\ work' = [work EXCEPT ![n] = Idle]
  BY DEF OnBlockMined
<1>8. \A x \in found : content'[x] = content[x]
  BY <1>0, <1>1, <1>7
<1>9. \A x \in found' \ found : Fresh(content'[x], Prev[x])
  <2>1. Fresh(txs, Prev[h])
    BY <1>7 DEF Once
  <2>2. content'[h] = txs
    BY <1>0, <1>1
  <2> QED BY <1>7, <2>1, <2>2
<1>10. \A k \in Node : \A t \in work'[k].tip, S \in work'[k].txs : Fresh(S, t)
  BY <1>0, <1>7 DEF Once, Idle
<1>11. found \subseteq found' /\ chain' = [chain EXCEPT ![n] = r.chain]
  BY <1>1, <1>7
<1> QED BY <1>3, <1>5, <1>6, <1>8, <1>9, <1>10, <1>11, ChainOnce

\* Every step keeps the invariant; a restart ends what it is about.
LEMMA NextOnce ==
  ASSUME IInv, IInv', OnceInv, [Next]_vars
  PROVE  OnceInv'
<1> SUFFICES ASSUME Undisturbed' PROVE Once'
  BY DEF OnceInv
<1>0. /\ Undisturbed /\ Once /\ ~ raced' /\ \A n \in Node : ~ Restart(n)
      /\ ContentIsTyped /\ ContentIsTyped'
  BY DisturbedForever DEF OnceInv, Undisturbed, IInv, TypeOK, TxsAreFinite, ContentIsTyped
<1>1. ASSUME UNCHANGED <<chain, pool, work, content, found>> PROVE Once'
  BY <1>0, <1>1, QuietOnce DEF Once
<1>2. CASE \E n \in Node, t \in Tx : SubmitTransaction(n, t)
  BY <1>0, <1>2, TransactionOnce DEF SubmitTransaction
<1>3. CASE \E m \in net : Receive(m)
  <2> PICK m \in net : Receive(m)
    BY <1>3
  <2>1. CASE m.type = "BlockResponseInner" /\ OnBlockResponse(m.to, m)
    BY <1>0, <2>1, BlockResponseOnce
  <2>2. CASE m.type = "MempoolTransaction" /\ OnMempoolTransaction(m.to, m)
    <3>1. m \in Message
      BY DEF IInv, TypeOK
    <3>2. m.to \in Node /\ m.tx \in Tx
      BY <2>2, <3>1 DEF Message
    <3>3. /\ AddTransaction(m.to, m.tx, peers[m.to] \ {m.from}, net \ {m})
          /\ UNCHANGED <<chain, work, content, found>>
      BY <2>2 DEF OnMempoolTransaction
    <3> QED BY <1>0, <3>2, <3>3, TransactionOnce
  <2>3. CASE \/ OnGetChainHeight(m.to, m)
             \/ OnChainHeightResponse(m.to, m)
             \/ OnAnnounceBlock(m.to, m)
             \/ OnRequestBlock(m.to, m)
    BY <1>1, <2>3 DEF OnGetChainHeight, OnChainHeightResponse, OnAnnounceBlock, OnRequestBlock,
       state
  <2> QED BY <2>1, <2>2, <2>3 DEF Receive
<1>4. CASE \E n \in Node : TakeTip(n) \/ TakePending(n)
  BY <1>0, <1>4, WorkOnce
<1>5. CASE \E n \in Node, h \in Hash : OnBlockMined(n, h)
  BY <1>0, <1>5, BlockMinedOnce
<1>6. CASE \/ \E n, p \in Node : PeerAdded(n, p)
           \/ \E n \in Node : SyncChains(n)
           \/ \E m \in net : Lose(m)
           \/ UNCHANGED vars
  BY <1>1, <1>6 DEF PeerAdded, SyncChains, Lose, vars, state
<1> QED BY <1>0, <1>2, <1>3, <1>4, <1>5, <1>6 DEF Next

\* Initially nothing is in a block, a pool or a worker.
LEMMA InitOnce == Init => OnceInv
<1> SUFFICES ASSUME Init PROVE Once
  BY DEF OnceInv
<1>1. \A n \in Node : /\ chain[n].blocks = {GenesisBlock} /\ chain[n].orphans = {}
                      /\ pool[n] = {} /\ work[n] = Idle
  BY DEF Init, InitWith, Started
<1>2. found \subseteq {Genesis}
  BY DEF Init, InitWith, Started, Hashes, GenesisBlock
<1> QED BY <1>1, <1>2 DEF Once, Idle, GenesisBlock

\* Through gossip, mining and reorganisations no transaction is confirmed twice on a main
\* chain, and none waits in a pool that is confirmed, for any number of nodes and any
\* branches, as long as nobody restarts and no worker takes transactions for a stale tip.
THEOREM NothingIsConfirmedTwice == Spec => []ConfirmedOnce
<1>1. IInv /\ OnceInv => ConfirmedOnce
  <2> SUFFICES ASSUME IInv, Once
               PROVE  \A n \in Node :
                         /\ pool[n] \cap Confirmed(n) = {}
                         /\ \A b, c \in chain[n].main :
                               content[b.hash] \cap content[c.hash] # {} => b = c
    BY DEF OnceInv, ConfirmedOnce, Undisturbed
  <2> QED BY MainConfirmsOnce DEF Once
<1>2. Init => OnceInv
  BY InitOnce
<1>3. IInv /\ IInv' /\ OnceInv /\ [Next]_vars => OnceInv'
  BY NextOnce
<1> QED BY <1>1, <1>2, <1>3, Invariance, PTL DEF Spec
=============================================================================

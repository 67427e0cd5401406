------------------------- MODULE BlockchainCommunity -------------------------
(***************************************************************************)
(* The nodes of the overlay of network/blockchain_community.py: each has a *)
(* chain, a mempool and a miner, and they exchange transactions, heights   *)
(* and blocks over UDP.  A handler runs to its end on the event loop, so   *)
(* every message that is received is one step.                             *)
(*                                                                         *)
(* The network is the set of messages under way: it reorders and loses     *)
(* them; two equal ones count as one.  The search of a block is two steps  *)
(* of a worker thread, which takes the tip and, later, the pending         *)
(* transactions, and a third, the event-loop callback of the block.        *)
(***************************************************************************)
EXTENDS Chain, Mempool

CONSTANTS
    Node,           \* the teammates
    MaxCount,       \* max_count, the transactions that a worker puts into a block
    PruneAfter,     \* prune_after of the storage
    MaxFlight,      \* bound on the datagrams under way when a sync timer fires
    MaxLost,        \* bound on the messages lost
    MaxRestarts     \* bound on the restarts of each node

ASSUME CommunityAssumption ==
    /\ MaxCount \in Nat
    /\ PruneAfter \in Nat
    /\ MaxFlight \in Nat
    /\ MaxLost \in Nat
    /\ MaxRestarts \in [Node -> Nat]

VARIABLES
    chain,      \* _chain: the tree, the main chain and the orphans of a node
    pool,       \* _mempool
    seen,       \* _seen_tx_hashes
    targets,    \* _sync_targets: a height per peer, 0 for none
    peers,      \* get_peers(), without the server
    mining,     \* the tip that mine() was last called with
    work,       \* what a worker searches on: a tip and a set of transactions, or less
    net,        \* the messages under way
    content,    \* the transactions of a block, fixed when it is found
    found,      \* the blocks found so far
    lost,       \* counter for the bound
    cut,        \* history: was a message of a backfill lost?
    raced,      \* history: was a stale tip searched with newer transactions?
    restarted   \* history: how often each node restarted

state   == <<chain, pool, seen, targets, peers, mining, work>>
history == <<lost, cut, raced, restarted>>
vars    == <<state, net, content, found, history>>

Work == [tip : SUBSET Hash, txs : SUBSET (SUBSET Tx)]
Idle == [tip |-> {}, txs |-> {}]

Message ==
    [type : {"GetChainHeight"}, from : Node, to : Node]
        \cup [type : {"ChainHeightResponse"}, from : Node, to : Node, height : Nat, tip : Hash]
        \cup [type : {"AnnounceBlock"}, from : Node, to : Node, height : Nat, tip : Hash]
        \cup [type : {"RequestBlock"}, from : Node, to : Node, height : Nat]
        \cup [type : {"BlockResponseInner"}, from : Node, to : Node, block : Block]
        \cup [type : {"MempoolTransaction"}, from : Node, to : Node, tx : Tx]

TypeOK ==
    /\ chain \in [Node -> ChainState]
    /\ pool \in [Node -> {S \in SUBSET Tx : Cardinality(S) <= MaxSize}]
    /\ seen \in [Node -> SUBSET Tx]
    /\ targets \in [Node -> [Node -> Nat]]
    /\ peers \in [Node -> SUBSET Node]
    /\ mining \in [Node -> Hash]
    /\ work \in [Node -> Work]
    /\ net \in SUBSET Message
    /\ content \in [Hash -> SUBSET Tx]
    /\ found \in SUBSET Hash
    /\ lost \in 0..MaxLost /\ cut \in BOOLEAN /\ raced \in BOOLEAN
    /\ \A n \in Node : restarted[n] \in 0..MaxRestarts[n]

Height(c) == Tip(c.main).height

\* The nodes with given main chains and peers, and nothing else.
InitWith(start, P) ==
    /\ chain = [n \in Node |-> Started(start[n])]
    /\ pool = [n \in Node |-> {}] /\ seen = [n \in Node |-> {}]
    /\ targets = [n \in Node |-> [p \in Node |-> 0]]
    /\ peers = P
    /\ mining = [n \in Node |-> Tip(start[n]).hash]
    /\ work = [n \in Node |-> Idle]
    /\ net = {}
    /\ content = [h \in Hash |-> {}]
    /\ found = UNION {Hashes(start[n]) : n \in Node}
    /\ lost = 0 /\ cut = FALSE /\ raced = FALSE
    /\ restarted = [n \in Node |-> 0]

Init == InitWith([n \in Node |-> {GenesisBlock}], [n \in Node |-> {}])

-----------------------------------------------------------------------------
(* Sending *)

GetChainHeight(n, p) == [type |-> "GetChainHeight", from |-> n, to |-> p]
ChainHeightResponse(n, p) ==
    [type |-> "ChainHeightResponse", from |-> n, to |-> p,
     height |-> Height(chain[n]), tip |-> Tip(chain[n].main).hash]
AnnounceBlock(n, p, height, tip) ==
    [type |-> "AnnounceBlock", from |-> n, to |-> p, height |-> height, tip |-> tip]
RequestBlock(n, p, height) ==
    [type |-> "RequestBlock", from |-> n, to |-> p, height |-> height]
BlockResponseInner(n, p, b) ==
    [type |-> "BlockResponseInner", from |-> n, to |-> p, block |-> b]
MempoolTransaction(n, p, t) ==
    [type |-> "MempoolTransaction", from |-> n, to |-> p, tx |-> t]

ShareMempoolWith(n, p) == {MempoolTransaction(n, p, t) : t \in pool[n]}

\* _request_next_missing_block(p) on the chain c: the new target and the request.
NextMissing(n, p, c, target) ==
    IF Height(c) + 1 > target THEN [target |-> 0, sent |-> {}]
    ELSE [target |-> target, sent |-> {RequestBlock(n, p, Height(c) + 1)}]

-----------------------------------------------------------------------------
(* Transactions *)

\* _add_transaction_to_mempool(t) and the broadcast of a new one to Q.
AddTransaction(n, t, Q, msgs) ==
    \/ /\ t \in seen[n] \cup pool[n]
       /\ seen' = [seen EXCEPT ![n] = @ \cup {t}]
       /\ net' = msgs
       /\ UNCHANGED <<pool, mining>>
    \/ /\ t \notin seen[n] \cup pool[n]
       /\ ~ Accepts(pool[n], t)
       /\ net' = msgs
       /\ UNCHANGED <<pool, seen, mining>>
    \/ /\ t \notin seen[n] \cup pool[n]
       /\ Accepts(pool[n], t)
       /\ pool' = [pool EXCEPT ![n] = Add(@, t)]
       /\ seen' = [seen EXCEPT ![n] = @ \cup {t}]
       /\ mining' = [mining EXCEPT ![n] = Tip(chain[n].main).hash]
       /\ net' = msgs \cup {MempoolTransaction(n, p, t) : p \in Q}

\* on_submit_transaction: a transaction with a valid signature, from the server.
SubmitTransaction(n, t) ==
    /\ AddTransaction(n, t, peers[n], net)
    /\ UNCHANGED <<chain, targets, peers, work, content, found, history>>

OnMempoolTransaction(n, m) ==
    /\ AddTransaction(n, m.tx, peers[n] \ {m.from}, net \ {m})
    /\ UNCHANGED <<chain, targets, peers, work, content, found, history>>

-----------------------------------------------------------------------------
(* Chain sync *)

\* peer_added: the walker finds a peer, which is asked for its height.
PeerAdded(n, p) ==
    /\ p \notin peers[n] \cup {n}
    /\ peers' = [peers EXCEPT ![n] = @ \cup {p}]
    /\ net' = net \cup {GetChainHeight(n, p)} \cup ShareMempoolWith(n, p)
    /\ UNCHANGED <<chain, pool, seen, targets, mining, work, content, found, history>>

\* _sync_chains, every CHAIN_SYNC_INTERVAL_S seconds.
SyncChains(n) ==
    /\ Cardinality(net) < MaxFlight
    /\ net' = net \cup {GetChainHeight(n, p) : p \in peers[n]}
    /\ UNCHANGED <<state, content, found, history>>

OnGetChainHeight(n, m) ==
    /\ net' = (net \ {m}) \cup {ChainHeightResponse(n, m.from)} \cup ShareMempoolWith(n, m.from)
    /\ UNCHANGED <<state, content, found, history>>

OnChainHeightResponse(n, m) ==
    /\ \/ /\ m.height > Height(chain[n])
          /\ targets' = [targets EXCEPT ![n][m.from] = m.height]
          /\ net' = (net \ {m}) \cup NextMissing(n, m.from, chain[n], m.height).sent
       \/ /\ m.height < Height(chain[n])
          /\ net' = (net \ {m})
                 \cup {AnnounceBlock(n, m.from, Height(chain[n]), Tip(chain[n].main).hash)}
          /\ UNCHANGED targets
       \/ /\ m.height = Height(chain[n])
          /\ net' = (net \ {m}) \cup (IF m.tip = Tip(chain[n].main).hash THEN {}
                                      ELSE {RequestBlock(n, m.from, m.height)})
          /\ UNCHANGED targets
    /\ UNCHANGED <<chain, pool, seen, peers, mining, work, content, found, history>>

OnAnnounceBlock(n, m) ==
    /\ net' = (net \ {m}) \cup
          (IF \/ m.height > Height(chain[n])
              \/ m.height = Height(chain[n]) /\ m.tip \notin Hashes(chain[n].main)
           THEN {RequestBlock(n, m.from, m.height)} ELSE {})
    /\ UNCHANGED <<state, content, found, history>>

OnRequestBlock(n, m) ==
    /\ net' = (net \ {m}) \cup
          {BlockResponseInner(n, m.from, b) : b \in {x \in chain[n].main : x.height = m.height}}
    /\ UNCHANGED <<state, content, found, history>>

\* _block_from_internal_response: the body must hash to txs_hash, so a block that
\* was pruned to its header is refused, unless it never had transactions.
Decodes(b) == b.hash \in Mined /\ (b.body = "header" => content[b.hash] = {})

TxHashes(S, txs) == UNION {txs[b.hash] : b \in {x \in S : x.body # "header"}}
Bodies(S, txs)   == UNION {txs[b.hash] : b \in {x \in S : x.body = "full"}}

\* Mutant of Reconcile: the applied transactions are not entered in the seen set.
ReconcileUnseen(n, r, txs) ==
    IF r.extended_tip
    THEN /\ pool' = [pool EXCEPT ![n] =
                        RemoveIncluded(AddAll(@, Bodies(r.reverted, txs)), TxHashes(r.applied, txs))]
         /\ mining' = [mining EXCEPT ![n] = Tip(r.chain.main).hash]
         /\ UNCHANGED seen
    ELSE UNCHANGED <<pool, seen, mining>>

\* Mutant of Reconcile: what was applied is removed before what was reverted returns.
ReconcileReadds(n, r, txs) ==
    IF r.extended_tip
    THEN /\ pool' = [pool EXCEPT ![n] =
                        AddAll(RemoveIncluded(@, TxHashes(r.applied, txs)), Bodies(r.reverted, txs))]
         /\ seen' = [seen EXCEPT ![n] = @ \cup TxHashes(r.applied, txs)]
         /\ mining' = [mining EXCEPT ![n] = Tip(r.chain.main).hash]
    ELSE UNCHANGED <<pool, seen, mining>>

\* _reconcile_after_chain_update(r), where txs are the transactions of the blocks.
Reconcile(n, r, txs) ==
    IF r.extended_tip
    THEN /\ pool' = [pool EXCEPT ![n] =
                        RemoveIncluded(AddAll(@, Bodies(r.reverted, txs)), TxHashes(r.applied, txs))]
         /\ seen' = [seen EXCEPT ![n] = @ \cup TxHashes(r.applied, txs)]
         /\ mining' = [mining EXCEPT ![n] = Tip(r.chain.main).hash]
    ELSE UNCHANGED <<pool, seen, mining>>

RefuseBlock(n, m) ==
    /\ ~ Decodes(m.block)
    /\ net' = net \ {m}
    /\ UNCHANGED <<state, content, found, history>>

\* Mutant of Backfill: the parked block itself is asked for again.
BackfillSame(n, m, r) ==
    /\ r.is_orphan
    /\ net' = (net \ {m}) \cup {RequestBlock(n, m.from, m.block.height)}
    /\ UNCHANGED <<pool, seen, targets, mining>>

\* The block is parked, and the block below it is asked for.
Backfill(n, m, r) ==
    /\ r.is_orphan
    /\ net' = (net \ {m}) \cup {RequestBlock(n, m.from, m.block.height - 1)}
    /\ UNCHANGED <<pool, seen, targets, mining>>

\* The block is taken, known or refused; unless refused, the next one is asked for.
TakeBlock(n, m, r) ==
    LET next == NextMissing(n, m.from, r.chain, targets[n][m.from]) IN
    /\ ~ r.is_orphan
    /\ Reconcile(n, r, content)
    /\ IF r.added \/ Knows(r.chain, m.block.hash)
       THEN /\ targets' = [targets EXCEPT ![n][m.from] = next.target]
            /\ net' = (net \ {m}) \cup next.sent
       ELSE net' = net \ {m} /\ UNCHANGED targets

\* on_block_response_internal
OnBlockResponse(n, m) ==
    \/ RefuseBlock(n, m)
    \/ LET r == AddBlock(chain[n], [m.block EXCEPT !.body = "hashes"]) IN
       /\ Decodes(m.block)
       /\ chain' = [chain EXCEPT ![n] = r.chain]
       /\ Backfill(n, m, r) \/ TakeBlock(n, m, r)
       /\ UNCHANGED <<peers, work, content, found, history>>

Receive(m) ==
    \/ m.type = "GetChainHeight"      /\ OnGetChainHeight(m.to, m)
    \/ m.type = "ChainHeightResponse" /\ OnChainHeightResponse(m.to, m)
    \/ m.type = "AnnounceBlock"       /\ OnAnnounceBlock(m.to, m)
    \/ m.type = "RequestBlock"        /\ OnRequestBlock(m.to, m)
    \/ m.type = "BlockResponseInner"  /\ OnBlockResponse(m.to, m)
    \/ m.type = "MempoolTransaction"  /\ OnMempoolTransaction(m.to, m)

-----------------------------------------------------------------------------
(* Mining *)

\* A worker takes the tip of the miner ...
TakeTip(n) ==
    /\ work[n].tip # {mining[n]} \/ work[n].txs \notin {{}, {Pending(pool[n], MaxCount)}}
    /\ work' = [work EXCEPT ![n] = [tip |-> {mining[n]}, txs |-> {}]]
    /\ UNCHANGED <<chain, pool, seen, targets, peers, mining, net, content, found, history>>

\* ... and then the pending transactions.
TakePending(n) ==
    /\ work[n].tip # {} /\ work[n].txs = {}
    /\ work' = [work EXCEPT ![n].txs = {Pending(pool[n], MaxCount)}]
    /\ raced' = (raced \/ work[n].tip # {mining[n]})
    /\ UNCHANGED <<chain, pool, seen, targets, peers, mining, net, content, found>>
    /\ UNCHANGED <<lost, cut, restarted>>

\* _on_block_mined: the block h is found on the worker's tip and added to the chain.
OnBlockMined(n, h) ==
    /\ h \in Mined \ found
    /\ work[n].tip = {Prev[h]}
    /\ \E p \in Parents(chain[n].blocks, [hash |-> h]), txs \in work[n].txs :
       LET b == [hash |-> h, height |-> p.height + 1, body |-> "full"]
           r == AddBlock(chain[n], b)
       IN
       /\ content' = [content EXCEPT ![h] = txs]
       /\ chain' = [chain EXCEPT ![n] = r.chain]
       /\ IF r.added /\ r.extended_tip THEN Reconcile(n, r, content')
          ELSE mining' = [mining EXCEPT ![n] = Tip(r.chain.main).hash] /\ UNCHANGED <<pool, seen>>
       /\ net' = net \cup (IF r.added THEN {AnnounceBlock(n, q, b.height, h) : q \in peers[n]}
                           ELSE {})
    /\ found' = found \cup {h}
    /\ work' = [work EXCEPT ![n] = Idle]
    /\ UNCHANGED <<targets, peers, history>>

-----------------------------------------------------------------------------
(* Faults *)

\* S holds a request or an answer for the block below an orphan of the requester.
HoldsBackfill(S, chains) ==
    \E m \in S :
        \/ m.type = "RequestBlock"
           /\ \E o \in chains[m.from].orphans : o.height = m.height + 1
        \/ m.type = "BlockResponseInner"
           /\ \E o \in chains[m.to].orphans : o.height = m.block.height + 1

\* A datagram is lost.
Lose(m) ==
    /\ lost < MaxLost
    /\ net' = net \ {m}
    /\ lost' = lost + 1
    /\ cut' = (cut \/ HoldsBackfill({m}, chain))
    /\ UNCHANGED <<state, content, found, raced, restarted>>

\* A node dies and starts again from its stored main chain, which may have lost old
\* bodies.  Datagrams that reach it in between are lost.
Restart(n) ==
    /\ restarted[n] < MaxRestarts[n]
    /\ restarted' = [restarted EXCEPT ![n] = @ + 1]
    /\ \E old \in SUBSET {b \in chain[n].main : Height(chain[n]) - b.height >= PruneAfter},
          S \in SUBSET {m \in net : m.to = n} :
       LET kept == (chain[n].main \ old) \cup {[b EXCEPT !.body = "header"] : b \in old} IN
       /\ chain' = [chain EXCEPT ![n] = Started(kept)]
       /\ net' = net \ S
       /\ cut' = (cut \/ HoldsBackfill(S, chain'))
    /\ pool' = [pool EXCEPT ![n] = {}]
    /\ seen' = [seen EXCEPT ![n] = {}]
    /\ targets' = [targets EXCEPT ![n] = [p \in Node |-> 0]]
    /\ peers' = [peers EXCEPT ![n] = {}]
    /\ mining' = [mining EXCEPT ![n] = Tip(chain[n].main).hash]
    /\ work' = [work EXCEPT ![n] = Idle]
    /\ UNCHANGED <<content, found, lost, raced>>

-----------------------------------------------------------------------------
Next ==
    \/ \E n \in Node, t \in Tx : SubmitTransaction(n, t)
    \/ \E n, p \in Node : PeerAdded(n, p)
    \/ \E n \in Node : SyncChains(n)
    \/ \E m \in net : Receive(m)
    \/ \E n \in Node : TakeTip(n) \/ TakePending(n)
    \/ \E n \in Node, h \in Hash : OnBlockMined(n, h)
    \/ \E m \in net : Lose(m)
    \/ \E n \in Node : Restart(n)

HeightOf(m) ==
    IF m.type \in {"GetChainHeight", "MempoolTransaction"} THEN 0
    ELSE IF m.type = "BlockResponseInner" THEN m.block.height ELSE m.height

\* The datagrams to n about the height k are received in the end, unless others to n
\* about k are received for ever instead.  Some could be received whenever there are
\* some: this is weak fairness of their reception.
Delivery(n, k) ==
    LET about == {m \in net : m.to = n /\ HeightOf(m) = k} IN
    \/ []<>(about = {})
    \/ []<><<\E m \in about : m \notin net'>>_vars

\* The walker finds the peers, the sync timer fires, and a datagram that is not lost
\* arrives.  Nothing makes anyone submit a transaction or find a block.
Fairness ==
    /\ \A n, p \in Node : WF_vars(PeerAdded(n, p))
    /\ \A n \in Node : SF_vars(SyncChains(n))
    /\ \A n \in Node, k \in 0..Cardinality(Mined) : Delivery(n, k)

Spec == Init /\ [][Next]_vars
FairSpec == Spec /\ Fairness

-----------------------------------------------------------------------------
(* Properties *)

Confirmed(n) == TxHashes(chain[n].main, content)

\* After every handler the miner works on the tip of the main chain (started,
\* _reconcile_after_chain_update and _on_block_mined each call mine()).
MinesTheTip == \A n \in Node : mining[n] = Tip(chain[n].main).hash

\* A node that never restarted has seen all that it holds or has confirmed, so that no
\* peer's gossip brings a confirmed transaction back into its pool (line 188).
SeenCovers == \A n \in Node : restarted[n] = 0 => pool[n] \cup Confirmed(n) \subseteq seen[n]

\* As long as no node lost its seen set and no worker took a tip before a change of
\* chain and the transactions after it, no transaction is twice on a main chain and
\* none that waits in a pool is confirmed, through all reorganisations.
ConfirmedOnce ==
    ~ raced /\ (\A n \in Node : restarted[n] = 0) =>
        \A n \in Node :
            /\ pool[n] \cap Confirmed(n) = {}
            /\ \A b, c \in chain[n].main : content[b.hash] \cap content[c.hash] # {} => b = c

\* Every node keeps the promise of BestChain through handlers, mining and restarts.
Known(n)   == Headers(chain[n].blocks)
TipOf(n)   == <<Tip(chain[n].main).hash, Tip(chain[n].main).height>>
BC(n)      == INSTANCE BestChain WITH known <- Known(n), tip <- TipOf(n)
NodesAreBestChains ==
    /\ \A n \in Node : TipOf(n) \in Known(n)
    /\ [][\A n \in Node : BC(n)!Learn \/ BC(n)!Forget \/ UNCHANGED <<Known(n), TipOf(n)>>]_vars

SameTip == \A n, p \in Node : Tip(chain[n].main).hash = Tip(chain[p].main).hash

\* A block of a main chain whose body was pruned is refused by every other node, unless
\* it never had transactions.
Serves(n) == \A b \in chain[n].main : b.hash \in Mined => Decodes(b)

\* Once no more blocks are found, the nodes agree on one tip for good, if no message of
\* a backfill is lost and no node pruned a body that others need; all other losses are
\* made up for by the next height request.
CatchesUpUnlessCut == [](~ cut /\ \A n \in Node : Serves(n)) => <>[]SameTip

\* network/README.md: a node behind a peer requests its missing blocks "until caught up".
CatchesUp == <>[]SameTip
=============================================================================

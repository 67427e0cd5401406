# Verification of the blockchain node

TLA+ models, TLC runs and TLAPS proofs about the blockchain of `assignment_3`
and the signature rounds of `assignment_2`. The code is the
reference: every definition names the lines it translates in `PROJECT.json`
(`map`), and where a comment or a README of the code says something else the
model follows the code.

## 1. The system

A node is one Python process: an asyncio event loop that runs the IPv8
communities, four miner threads and a storage compaction thread. Three team
nodes and a grading server talk over UDP.

| part | state | operations | talks to |
|---|---|---|---|
| `Blockchain` (chain.py) | tree `_blocks`, main chain `_chain`, orphan pool | `add_block` (store, adopt orphans, select the tip, reorganise), start from storage | storage (append, replace_all), result to the community |
| `IndexedStorage` (storage.py) | data and index file, their tmp files, index in memory, epoch, lock | append, replace_all, load, compaction, close, recovery | the file system; event loop and compaction thread share it |
| `Miner` (miner.py) | tip and generation, `_found`, three events, the workers | start, stop, mine, the search loop | emits blocks to the event loop with `call_soon_threadsafe` |
| `Mempool` (mempool.py) | pending transactions | add with eviction, remove_included, get_pending | workers read it, the community fills it |
| `BlockchainCommunity` | seen transactions, a sync target per peer | message handlers, periodic height exchange | peers (UDP), chain, mempool, miner |
| `RegisteringCommunity` | server peer, submitted, passed | register, re-register timer | server |
| difficulty policies | moving average | get_difficulty | miner |
| `Lab2Community` (assignment_2) | cached peers, who is ready, the current round, per round its nonce, signatures, events | discovery, handshake, three timed rounds | two teammates, server |

What is hard: blocks arrive in any order and several times, and nodes must agree
without talking about it; the chain in memory and its image on disk are two
things that must stay equal through crashes; the compaction thread rewrites the
files while the event loop appends to them; the workers, each at its own place,
share one pause, one interrupt and one claim; messages are lost, repeated and
reordered, and the handlers keep no timers.

What makes each part correct:

* chain: the main chain is linked and is the best of all connected blocks; every
  connected block hangs off genesis; the order of arrival does not matter; the
  caller is told exactly what changed; memory and disk agree;
* storage: whatever a call returned for survives a crash at any point and any
  compaction; nothing else is loaded; a corrupted record costs the running process
  that block, and a start no more than it has to truncate;
* miner: paused workers are woken, stale searches end, `stop()` ends them all,
  and mined blocks do not pile up on their way to the chain;
* community and mempool: no transaction is lost by a reorganisation, a node that
  is behind catches up under message loss;
* rounds: nobody passes a round that is still open or takes a round for its own
  that the server did not give it; when nothing is late every round is won;
* registration: a lost request is sent again.

`PROJECT.json` lists the parts with what is modelled of each, and the hazards
line by line with the properties that cover them.

## 2. Modules

| module | models | state and actions |
|---|---|---|
| `BlockTree` | the pure part of chain.py | operators on sets of blocks: `IsValid`, `Better` (`_chain_score`), `Cascade` and `StillParked` (`_store_and_cascade`), `Walk` and `WalkRaises` (`_reorg`), `Missing` (reverted / applied) |
| `Blockchain` | class `Blockchain`, one node | `blocks`, `main`, `orphans` are the three dicts, `disk` what `load()` would return, `res` the last `AddResult`. `AddBlock(b)` has one disjunct per way through `add_block`: `Reject`, `Reselect` (known), `Park`, `WrongHeight`, `Connect`; the last and `Reselect` end in `KeepTip`, `ExtendTip` or `Reorg`. `Restart` is a crash and a start, `Prune` a pass of the compaction |
| `BestChain` | abstract specification | a set of known headers and its best one; learning may only improve the tip, a restart may forget headers but not the tip |
| `Chain` | class `Blockchain` as a function | `AddBlock(c, b)` is what `add_block(b)` makes of a chain record `c` (tree, main chain, orphans) and what it returns; for the modules with several nodes |
| `Replicas` | several nodes that are handed the same blocks | `chain` is the chain record of each node, `got` remembers the copies it was handed and did not refuse; `Hand(n, b)` is `add_block(b)` on node `n` |
| `BlockchainFaults` | `Blockchain` with a storage that raises | `StorageRaises`: memory has changed, the disk has not, the exception reaches the event loop; `WalkFails`: the KeyError of `_reorg` |
| `Storage` | class `IndexedStorage` | files are inodes, names point to them, each write, rename and lock section is a step of the event loop (`Replace...`) or of the compaction thread (`Compact...`); `Crash` between any two of them, `AppendDies` inside an append, `Close`, `Recover`, `BitFlip` |
| `ChainStore` | abstract specification of the storage | the stored chain and the chain that a `replace_all` asked for; `Append`, `Ask`, `TakeEffect`, `Die`, and nothing else changes what is stored |
| `Miner` | class `Miner` and its callbacks | one program counter per worker with a step for each access to shared state, one for the event loop inside `mine()` and `stop()`, the queue of callbacks |
| `Mempool` | class `Mempool` | operators on a set of transactions: `Add` with its eviction, `Accepts` (its return value), `Pending` (`get_pending`), `RemoveIncluded`; `AddAll` is `add` in a loop |
| `BlockchainCommunity` | class `BlockchainCommunity` on several nodes, with their chains, pools and miners | `chain`, `pool`, `seen`, `targets`, `peers`, `mining` (the tip of the miner) and `work` (what a worker searches on) per node, the messages `net` for all. One action per handler (`On...`), `PeerAdded`, the timer `SyncChains`, `TakeTip` and `TakePending` of a worker thread, the callback `OnBlockMined`; `Lose` and `Restart` are the faults |
| `Rounds` | class `Lab2Community`, all members and the server | `pc` is the await at which `run_all_rounds` stands; its steps (`Discover` to `EndRound`), `TimeOut` of each wait, one action per handler, `Lose`; the server's `AnswerRequest` and `JudgeBundle` are external |

Definitions called "Mutant of X" are X with a plausible mistake. No run uses
them; with X replaced by its mutant TLC finds the property listed beside it in
`PROJECT.json` violated.

How the modules fit together: `Blockchain` sees the storage as the set that
`load()` would return and takes `append` and `replace_all` for atomic and
durable, which is what `Storage` shows (`IsChainStore`, `CrashKeepsTheChain`,
`ReadsSeeTheChain`), and for never failing, which `BlockchainFaults` drops.
`Miner` sees the chain as a sequence of tips: a mined block becomes the tip or
lands on a side branch, which is all the miner can tell. `BlockchainCommunity`
puts them together the other way round: `add_block` is `Chain`'s operator
`AddBlock` on a node's chain, over the same operators of `BlockTree` as
`Blockchain`'s actions, and each node is shown to implement `BestChain` as well; of the miner only what
it reads remains, the tip and, in a later step, the pending transactions, since
the threads are `Miner`'s subject.

In `BlockchainCommunity` a handler is one step, because it runs to its end on the
event loop. `net` is a set: it reorders, and `Lose` drops; a message that is
under way twice counts once. Heights are what the code asks by, so the model
keeps the code's confusion of blocks of one height. The transactions of a block
are in `content`, fixed when it is found, and a block from a peer has the body
"hashes", the placeholders of line 451. A transaction is its rank in the pool.
`cut`, `raced`, `restarted` (and `announced` in `Rounds`) only record what
happened; the properties use them to name the cases that the code does not
survive, each of which is a finding or a hazard.
Against the worker threads a handler is not one step in the code: it changes chain,
pool and miner in turn (blockchain_community.py:506-516) while a worker may read tip and pool
(miner.py:104-116). What a worker reads in that window it puts on the tip that is about to be
replaced, as it does when it reads just after the handler, which the model
records in `raced`; the properties exempt both.

In `Rounds` a nonce is the number of its round and a signature is its signer's
name. A member signs in the step in which it learns a nonce, so that it has the
nonce exactly when it has its own signature. There are as many rounds as members,
three in the code. That only the server sends challenges is an assumption on the
environment: `_on_challenge_response` does not look at the sender, whereas the
handlers of signatures, results and readiness do.

Abstractions: a block hash is a number (the order of hashes decides ties),
`prev_hash` a function of the hash, since a header hash covers it; the height is
a field of its own, since no hash covers it; a body is there, missing or foreign.
The dicts are sets, with the key in the element. `_store_and_cascade`'s stack and
`_reorg`'s loop are least fixed points, "in every set closed under the step",
which proofs can use and recursion would not allow. In `Storage` all records
have one size, so that offsets are positions; blocks with transactions do differ
in size, and a stale offset would then miss a record's start and fail its CRC,
whereas here it may hit another record: the model is the worse case.

## 3. Runs

| run | what it asks | bounds |
|---|---|---|
| `blockchain` | do the six invariants hold, does the tip only improve, is the result exact, is `BestChain` implemented, does `Chain`'s function say the same? | genesis, branches of length 3 and 2 where the smaller hash wins at heights 1 and 2, one block whose parent never comes; refused copies of every kind; two orphans (the pool overflows), two restarts, pruning at distance 2 |
| `replicas` | do nodes agree, whatever the order? | two nodes, two branches of length 2 and a fork at the end of one, refused copies, a pool that does not overflow |
| `chain_faults` | what does a raising storage break? | one fault, one restart, six blocks, pruning at distance 2 |
| `storage` | are files and index right after a crash at any point? is `ChainStore` implemented? what does a corrupted record cost the process, and what the next start? | height 2, two blocks per height, three rewrites, one crash, one corrupted record |
| `miner` | do pauses, stale searches and the miner end? how many mined blocks can be on their way? does the miner follow the tip? | two workers, two tips, one `mine()` that no mined block causes, two blocks found |
| `community` | is a transaction confirmed once, through gossip, mining on two branches and reorganisations? does the miner follow? | two connected nodes, one transaction, branches of length 2 and 1 where the tip changes branches at both heights, a pool of one, one lost message |
| `sync` | do two nodes that mined apart agree in the end? | branches of length 3 and 1, an orphan pool of one (it overflows), one lost message, one restart that may prune, one request per sync timer under way |
| `rounds` | does each member win a round? who knows what of whom? | two members, two rounds, one loss or time-out |
| `disk_gap`, `replace_race`, `lost_backfill`, `unshared_ready` | claims of the code's documentation that do not hold, see section 6 | as the passing run of the module; `lost_backfill` has room for two orphans and more messages |

Why the bounds suffice: every interesting case needs two branches that tie and
overtake each other, an orphan chain of length two, and a tip that is adopted
rather than delivered; all are in the trees used. In `Storage` a second rewrite
is needed for a stale index and a third for a compaction of a compacted file;
blocks of one height are interchangeable, hence the symmetry. In `Miner` a second
worker is needed for every race, and two blocks for the duplicates; more workers
only repeat the roles of searching, claiming and waiting, and the proofs cover
any number of them.

`community` and `sync` start in states that `Init` reaches: nodes that have found
each other, nodes that have mined alone. Starting there leaves the discovery out
of the first, where it changes nothing, and the mining out of the second, where
no block is found any more, as its liveness property supposes. Three nodes are
beyond TLC in either; a third node is only another source of the same messages,
and the proofs cover any number. Likewise three members in `rounds`: with two,
each has a teammate that can be early, late, ahead or silent. `ConfirmedOnce`
needs two branches that replace each other and a worker that reads the pool
before, between and after the handlers that do it.

`MCReplicas` keeps to what the theorems about `Replicas` suppose, and TLC
evaluates it there: one acceptable copy of each block whose height is right
(`OneCopyEach`), and a pool that does not overflow (`PoolHasRoom`). Without
them two nodes do differ: of two copies with different bodies the first to come
stays, a wrong height is noticed only when the parent is there, and what the pool
drops is missing until it is delivered again.

`storage` keeps phase 1 of a compaction and `replace_all` apart (`Overlap =
FALSE`). The code does not; `replace_race` shows what happens then.

Deadlock is checked in the runs of the chain, the storage and the miner.
`Storage!Exhausted` and `Miner!Finished` are the only idle ends: all bounds used
up, all workers gone. The runs of `BlockchainCommunity` and `Rounds` do not check
it: a program whose messages have all been handled waits, and what must not wait
for ever is stated as liveness.

### Fairness

`Miner`: assumed is weak fairness of every worker
thread (the operating system schedules it; between two accesses to shared state
it computes for a bounded time, one chunk of nonces at most) and of the event
loop on callbacks that are queued or begun. Nothing is assumed of finding a
nonce, of peers, or of `stop()` being called.

`BlockchainCommunity`: the walker finds each peer (weak fairness), the timer
fires for ever, and a message that is not lost arrives. The timer is bounded by
`MaxFlight`, the messages under way, so that it is enabled only now and then:
hence strong fairness, which the unbounded timer of the code gives. For messages,
`Delivery` says that those to a node about one height are received in the end;
fairness for each message alone would be the same assumption, with many more
formulas. Losses are bounded, so what is sent again and again gets through once.
Nobody has to submit, find or restart anything.

`Rounds`: weak fairness of each member's coroutine and of each message under
way. `TimeOut` has none: a wait that could still end need not time out.

## 4. Proofs

`BlockTree_proofs` holds what the chain rests on: a best block
exists in every finite set, the cascade keeps a connected tree connected and
leaves no orphan with a connected parent, the walk from any block of a connected
tree is a linked chain that ends in it, `_reorg` cannot raise there. The two
fixed points are used by their least-set property; where a height descends, the
induction is the least element of a set of naturals (`LeastNatural`, which
follows from the pigeonhole principle of the library), since
tlapm's provers cannot instantiate induction theorems over operators. In the same
way `SetInduction` puts an induction over a finite set into a set of
subsets.

`Blockchain_proofs`: for all trees of hashes, all offered copies and all bounds,

* `TypeCorrect`, `TipStaysBest`, `MainStaysLinked`, `TreeStaysConnected`,
  `OrphansStayParked`, `DiskStaysMain`: the invariants of the run `blockchain`;
* `TipImproves`, `ResultIsExact`: its action properties;
* `ImplementsBestChain`: the refinement of `BestChain`;
* `AddBlockIsChains`: the project models `add_block` twice, as an action on one
  node's chain and storage and as the function that `Replicas` and
  `BlockchainCommunity` apply to the chain record of each node; in every reachable
  state and for every valid block they agree on the tree, the chain, the orphans
  and the result.

The inductive invariant `IInv` is the conjunction of the six invariants with
what they need of each other: tree, pool and disk are finite, hashes are unique in
the tree and in the pool, the chain is part of the tree, and the disk has one
block per height.
Without the unique hashes `_blocks[prev_hash]` would not name a parent; without
one block per height on the disk a restart could load two and not keep the tip.

The second half of the module is about `BlockchainFaults`, for any number of
faults and restarts. `FaultsAloneAreSafe`: until a block is appended to a disk
that a fault left behind, all of `IInv` holds but that the disk is the main chain;
it is some linked chain (`Intact`). `TipImprovesDespiteFaults` holds of a torn
tree too, in which blocks have lost their parents and only part of it hangs off
genesis. What is left to rely on (`Running`) is that every header has the height
that its ancestors give it, as a least fixed point over all hashes
(`TrueHeights`), and that the chain is a part of the tree: then a selection that
changes the tip makes the best block the tip, however incomplete the chain is.

`Chain_proofs` shows `AddBlock` right as a function of the chain: on a good chain
(connected tree with unique hashes, linked best main chain, orphans that wait)
every way through it gives a good chain whose tip is no worse, and so does a
start. Two good chains with the same tree have the same main chain
(`TreeGivesChain`); a good chain with a larger tree has no worse a tip.

`Replicas_proofs`: for any number of nodes, any tree and any copies that
`OneCopyEach` and `PoolHasRoom` allow, `NodesAgree` and `MoreBlocksNeverHurt`. The
inductive invariant is that every chain is good and that what a node has
connected or parked is exactly what it was handed: `blocks` and `orphans` are
then functions of `got`, because the connected part of a set of copies is the
least set that contains genesis and the children of its members. The two
hypotheses are on the constants; `MCReplicas` has a state space that meets them.

`Miner_proofs`: for any number of workers, `TypeCorrect`, `PausesAreEnded`,
`FewBlocksEverWait` and `TipIsMined`. A block is on its way from the claim until
its callback has run; `mine()` opens the next claim without waiting for it. In
`IInv` a claim that is open, and one that a `mine()` under way will open, count
like a block on its way: the sum never exceeds one more than the calls of
`mine()` that no mined block caused, as each callback of a mined block takes one
off the queue for the claim that it opens. A `mine()` that has yet to set the
tip carries the chain's, which `TipIsMined` needs.

`BlockchainCommunity_proofs` starts with the lemmas about the pool that it needs,
`PendingIsBounded` and `AddIsBounded`. In a finite pool a worst transaction exists,
an eviction takes out one for the one that comes in, and among more than
`max_count` transactions the ranks of the taken ones differ, so there are at most
`max_count` of them.

Then, for any number of nodes, any tree and all bounds,
`TypeCorrect`, `MinersFollow`, `SeenCoversAll` and `NodesKeepBestChain`. The
inductive invariant: every
node's chain is good, whatever is stored, parked or under way was found, blocks
under way lie above genesis or are genesis, and the two properties themselves.
There is one lemma per handler. That blocks were found matters for
`SeenCovers`, because the transactions of a block are written into `content` only
when it is found: they never change for a block somebody has.

`NothingIsConfirmedTwice` proves `ConfirmedOnce`. The property is about main
chains, but any branch may become one, so its invariant
(`Once`) is about all found blocks: as long as no worker has raced and no node
restarted, no block repeats a transaction of a block below it on its branch, what
a worker searches on repeats nothing below it either, and no pool holds what its node's
chain has confirmed.

`Rounds_proofs`: for any number of members, `TypeCorrect`, `WinnersAreRecorded`,
`NobodyRunsAhead` and `SignedRoundsAreIssued`. The inductive invariant relates
the messages to the server's record: a nonce or a signature under way is of a
round that the server has opened, a `RoundResult` with success names a recorded
winner, and no result counts more rounds than are won.

`Storage_proofs`: for every height, `prune_after` and number of rewrites and
crashes, where `replace_all` and phase 1 of a compaction do not overlap
(hypothesis `~ Overlap`: without it the properties are false, see
`replace_race`). Four invariants:

* `Shape` (`ShapeInvariant`, `StorageTypes`): files are sequences of cells, the
  lock is held by the thread that is swapping files, a thread writes to the inode
  that the name of the tmp file still points to, and a compaction reads the one that
  is still the data file. It holds whatever is corrupted.
* `Kept` (`KeptInvariant`): as long as nothing was corrupted there is a `g` such
  that the first `g` cells of the data file are a header and the records of the
  heights from 0 up, one record each, with at most a torn one after them; the
  index in memory is that of these cells; the index file is of an earlier epoch
  or is right about a part of them; what `replace_all` has written is the
  beginning of its new chain; and what a compaction that will not give up has
  written is a copy of the beginning of the data file, at the same offsets.

The argument in short: every file is written in the order of heights, so that an
offset is a height plus two in every file there ever is; hence an index can be
wrong only about the length and the flags, and those the epoch tells apart. From
`Kept` and the lemma about recovery (`RecoverGood`: whether it adopts the index
or scans, it gives back the good cells) follow `CrashesKeepTheChain`,
`ReadsKeepSeeingTheChain`, `RecentBodiesStay`, `AdoptedIndexStaysRight` and the
refinement `StorageIsChainStore`, in which a `replace_all` takes effect at the
rename of the data file.

* `Local` (`LocalInvariant`), of states in which records may be corrupted. The chain
  meant is the caller's (`main`): what `load()` gave at the last start, with the appends and
  replacements since. `Kept`
  says nothing of them, because recovery skips a torn cell and a compaction that skips a
  record enters the later ones under smaller names, so that a name, a height and
  an offset no longer tell each other. What stays: every file
  holds blocks of the chain in the order of their heights, with torn cells between
  them; each index leads to every record of its file, in that order, and a name is
  never above the height it leads to; and the heights of the chain that an index does not
  lead to are no more than `flips`, the corruptions since the first start.
* `FileHasMost` (`FileInvariant`): of the chain that a start should find (`Stored`), the
  data file misses at most `flips` blocks, while the process runs and after it died.

The difficult part of `Local` is its last. A compaction under way works on a snapshot while
records rot in the data file, so that what it will lose is not what the data file
has lost; and a name above the tip (left by a torn tip) hides the block appended
at that height from phase 2. Both are counted in one set of heights per index:
the lost ones and the names above the tip. A corruption adds at most one
member to each such set, and no other step adds any. `CorruptionStaysLocal`
(`CorruptionIsLocal`) follows, as blocks of a chain differ in their heights. It speaks
of the time between two starts, and it cannot count only the corruptions of that
time: a tip that a start left out can hide a block that is appended after it (section 6).

What a start costs is `StartsLoseOnlyTheTail` (`StartLosesOnlyTheTail`). A start
without an index that fits scans the file and truncates it at the first torn record
(storage.py:378-396), good records behind it included: one corruption may cost the whole
chain. It costs nothing worse. What the data file misses is `FileHasMost`;
of what it holds, recovery keeps the cells up to the first torn one that the index does
not cover (`ScanStops`), and as the heights rise along the file, what is truncated lies above
all that is kept. `Recover` then makes what was loaded the caller's chain.

Assumptions are those on the constants: `HashAssumption`,
`BlockchainAssumption`, `FaultsAssumption`, `ChainAssumption`,
`ReplicasAssumption`, `StorageAssumption`, `MinerAssumption`,
`MempoolAssumption`, `CommunityAssumption`, `RoundsAssumption`. TLC evaluates
them in every run of the module.

## 5. Only model-checked, and not modelled

Only checked by TLC: everything about liveness (`PauseEnds`, `StaleSearchEnds`,
`StopEnds`, `CatchesUpUnlessCut`, `WinsUnlessLateOrSilent`), which is beyond this
prover, and `AddAllIsAdds` in `MCCommunity`: that `AddAll` is `add` in a loop is
an induction over a set, checked for small pools.

Not modelled: see the components in `PROJECT.json`. Hashing, signatures and
encodings are pure and are represented by their outcome. A torn `chain.index`
is discarded by its CRC and is the case of a missing index. `InMemoryStorage`
has no behaviour of interest. `GetBlock` is a read for the server. The dynamic
difficulty policy is arithmetic on floats that no node uses (client.py:52).
Assignment 1 is a one-shot client. A message that arrives twice is not modelled:
all handlers but `on_get_chain_height`'s answer are idempotent on what they
store.

## 6. Where code and documentation disagree

* `disk_gap`: chain.py:359 "Every stored block must connect to genesis". After one
  `append` that raises, the next one is written above a gap, and a restart loads
  a chain with a hole.
* `replace_race`: storage.py:226 "Atomically replace the stored chain". Both
  writers use `chain.blocks.tmp`, one of them without the lock.
* `lost_backfill`: network/README.md:81 "request its missing blocks one height at
  a time until caught up". The parent of an orphan is asked for when the orphan is
  parked and never again, as later copies are known. One lost message separates
  two nodes until one of them mines the taller branch onto a block the other has.
* `unshared_ready`: phase_2_community.py:386 "local peer cache full — announcing
  readiness". A member whose teammates are all ready by then announces nothing,
  and they wait for it until they time out.

More were met that no run states. By blockchain/README.md:113 the index "holds no
unique state; losing it can never corrupt or lose data". When a record is corrupted, a start that
adopts the index keeps the records behind it, and one that lost the index truncates them:
`StartLosesOnlyTheTail` bounds both, and its `Truncated` is the difference. If the record
of block 0 is corrupted under an adopted index, `load()` leaves it out and the chain's
constructor raises KeyError at `self._chain[0]` (chain.py:238): the node does not start,
whereas `Storage` only says what would be loaded. storage.py:44 has blocks pruned
"more than this many heights behind the tip"; the code prunes at that distance itself
(434), and the model with it.

A start that adopts an index whose record for
the tip is corrupted leaves that height out (storage.py:193-195), and the chain
appends a block at it. If a compaction has taken its snapshot in between, phase 1
skips the unreadable record and phase 2 (storage.py:448) takes the height for a
copied one, so that the swap loses a block that `append` had returned for;
storage.py:414 says that phase 2 "folds in appends made during phase 1". After a
compaction that skipped a corrupted record, every later block is read at the height before its own until the next
start (storage.py:432, 503, against 255). A worker that is still searching the
old tip when `mine()` resets the claim may claim a second block on that tip
(miner.py:91, against 27 and blockchain/README.md:73). And by `CatchesUpUnlessCut`
a condition remains that the code does not give: a node that pruned, restarted
and is asked for an old block with transactions sends it without them, and the
peer refuses it.

## 7. Plan

Done: the chain and its faults, replicas, the storage, the miner, the mempool,
the community on several nodes, the signature rounds; proofs of every safety
property of the runs, and of the refinements of `BestChain` and `ChainStore`.

Left:

1. `Registration`: request, answer, timer, a server that comes and goes.

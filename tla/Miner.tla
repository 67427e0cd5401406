-------------------------------- MODULE Miner --------------------------------
(***************************************************************************)
(* class Miner of blockchain/miner.py and the callbacks with which the     *)
(* event loop drives it: worker threads search blocks on a shared tip,     *)
(* pause when one of them claims a block, and are woken by mine().         *)
(* Every access to an Event, to a lock's section or to the loop's queue is *)
(* a step of its own, so that the threads interleave as they do in Python. *)
(*                                                                         *)
(* Tips are numbered in the order in which the chain adopts them.          *)
(***************************************************************************)
EXTENDS Integers, Sequences, FiniteSets

CONSTANTS
    Worker,         \* the worker threads
    MaxTips,        \* bound on the tips the chain adopts
    MaxCalls,       \* bound on the calls of mine() that no mined block causes
    MaxBlocks       \* bound on the blocks found

ASSUME MinerAssumption ==
    IsFiniteSet(Worker) /\ MaxTips \in Nat /\ MaxCalls \in Nat /\ MaxBlocks \in Nat

VARIABLES
    resume, interrupt, stop,    \* the three events: set or not
    tip, generation,            \* _tip, _tip_generation
    found,                      \* _found
    pc, wtip, wgen,             \* per worker: where it is, the tip it took, its generation
    queue,                      \* callbacks scheduled with call_soon_threadsafe
    loop,                       \* the event loop: where it is, the tip it passes to mine()
    chainTip,                   \* the tip of the chain
    calls, blocks               \* calls of mine() that no mined block caused, blocks found

events  == <<resume, interrupt, stop>>
worker  == <<pc, wtip, wgen>>
vars == <<events, tip, generation, found, worker, queue, loop, chainTip, calls, blocks>>

Tip == 0..MaxTips

WorkerPC == {"check", "wait", "read", "clear", "search", "claim", "pause", "flag", "emit", "exit"}
LoopPC   == {"idle", "tip", "found", "interrupt", "resume", "stop2", "stop3"}

TypeOK ==
    /\ resume \in BOOLEAN /\ interrupt \in BOOLEAN /\ stop \in BOOLEAN /\ found \in BOOLEAN
    /\ tip \in Tip /\ chainTip \in Tip /\ generation \in Nat
    /\ pc \in [Worker -> WorkerPC]
    /\ wtip \in [Worker -> Tip] /\ wgen \in [Worker -> Nat]
    /\ queue \in Seq(Tip)
    /\ loop \in [pc : LoopPC, tip : Tip]
    /\ calls \in Nat /\ blocks \in Nat

\* start(tip) in started(): the workers run, not paused, on the tip of the chain.
Init ==
    /\ resume = TRUE /\ interrupt = FALSE /\ stop = FALSE
    /\ tip = 0 /\ generation = 0 /\ found = FALSE
    /\ pc = [w \in Worker |-> "check"]
    /\ wtip = [w \in Worker |-> 0] /\ wgen = [w \in Worker |-> 0]
    /\ queue = << >>
    /\ loop = [pc |-> "idle", tip |-> 0]
    /\ chainTip = 0
    /\ calls = 0 /\ blocks = 0

-----------------------------------------------------------------------------
(* A worker thread: _mine_loop and _mine_one_block *)

Goto(w, from, to) == pc[w] = from /\ pc' = [pc EXCEPT ![w] = to]

\* _mine_one_block returns: its locals are gone.
Leave(w, from) ==
    /\ Goto(w, from, "check")
    /\ wtip' = [wtip EXCEPT ![w] = 0]
    /\ wgen' = [wgen EXCEPT ![w] = 0]

Shared == <<tip, generation, found, queue, loop, chainTip, calls, blocks>>

\* while not _stop_event.is_set()
Check(w) ==
    /\ Goto(w, "check", IF stop THEN "exit" ELSE "wait")
    /\ UNCHANGED <<events, wtip, wgen, Shared>>

\* _resume.wait()
Wait(w) ==
    /\ resume
    /\ Goto(w, "wait", "read")
    /\ UNCHANGED <<events, wtip, wgen, Shared>>

\* Leave if stopped, else take the tip and its generation under _tip_lock.
Read(w) ==
    /\ Goto(w, "read", IF stop THEN "exit" ELSE "clear")
    /\ wtip' = [wtip EXCEPT ![w] = tip]
    /\ wgen' = [wgen EXCEPT ![w] = generation]
    /\ UNCHANGED <<events, Shared>>

ClearInterrupt(w) ==
    /\ Goto(w, "clear", "search")
    /\ interrupt' = FALSE
    /\ UNCHANGED <<resume, stop, wtip, wgen, Shared>>

\* Mutant of Nothing: the generation of the tip is not compared.
NothingButInterrupt(w) ==
    /\ interrupt \/ stop
    /\ Leave(w, "search")
    /\ UNCHANGED <<events, Shared>>

\* Mutant of Nothing: the loop does not test the stop flag.
NothingUntilMoved(w) ==
    /\ generation # wgen[w] \/ interrupt
    /\ Leave(w, "search")
    /\ UNCHANGED <<events, Shared>>

\* A chunk of nonces without a block: leave if the tip is another one, the search is
\* to be interrupted, or (at the loop's test) stopped; else nothing changes.
Nothing(w) ==
    /\ generation # wgen[w] \/ interrupt \/ stop
    /\ Leave(w, "search")
    /\ UNCHANGED <<events, Shared>>

\* A nonce is found.
Finds(w) ==
    /\ blocks < MaxBlocks
    /\ Goto(w, "search", "claim")
    /\ blocks' = blocks + 1
    /\ UNCHANGED <<events, wtip, wgen, tip, generation, found, queue, loop, chainTip, calls>>

\* Mutant of Claim: a worker claims whether or not another one has.
ClaimAnyway(w) ==
    /\ Goto(w, "claim", "pause")
    /\ found' = TRUE
    /\ UNCHANGED <<events, wtip, wgen, tip, generation, queue, loop, chainTip, calls, blocks>>

\* Under _found_lock: leave if another worker has claimed, else claim.
Claim(w) ==
    /\ \/ /\ found
          /\ Leave(w, "claim")
          /\ UNCHANGED found
       \/ /\ ~ found
          /\ Goto(w, "claim", "pause")
          /\ found' = TRUE
          /\ UNCHANGED <<wtip, wgen>>
    /\ UNCHANGED <<events, tip, generation, queue, loop, chainTip, calls, blocks>>

Pause(w) ==
    /\ Goto(w, "pause", "flag")
    /\ resume' = FALSE
    /\ UNCHANGED <<interrupt, stop, wtip, wgen, Shared>>

Flag(w) ==
    /\ Goto(w, "flag", "emit")
    /\ interrupt' = TRUE
    /\ UNCHANGED <<resume, stop, wtip, wgen, Shared>>

\* _on_block_mined: schedule the block in the event loop.
Emit(w) ==
    /\ Leave(w, "emit")
    /\ queue' = Append(queue, wtip[w])
    /\ UNCHANGED <<events, tip, generation, found, loop, chainTip, calls, blocks>>

WorkerStep(w) ==
    \/ Check(w) \/ Wait(w) \/ Read(w) \/ ClearInterrupt(w) \/ Nothing(w)
    \/ Claim(w) \/ Pause(w) \/ Flag(w) \/ Emit(w)

-----------------------------------------------------------------------------
(* The event loop *)

\* Mutant of BlockMined: a block on a side branch does not restart the miner.
BlockMinedAside ==
    /\ loop.pc = "idle" /\ queue # << >>
    /\ \/ Head(queue) # chainTip /\ UNCHANGED <<chainTip, loop>>
       \/ /\ chainTip < MaxTips /\ chainTip' = chainTip + 1
          /\ loop' = [pc |-> "tip", tip |-> chainTip']
    /\ queue' = Tail(queue)
    /\ UNCHANGED <<events, tip, generation, found, worker, calls, blocks>>

\* Mutant of BlockMined: after a block on a side branch, mining goes on there.
BlockMinedOnItself ==
    /\ loop.pc = "idle" /\ queue # << >>
    /\ \/ /\ Head(queue) # chainTip /\ UNCHANGED chainTip
          /\ loop' = [pc |-> "tip", tip |-> Head(queue)]
       \/ /\ chainTip < MaxTips /\ chainTip' = chainTip + 1
          /\ loop' = [pc |-> "tip", tip |-> chainTip']
    /\ queue' = Tail(queue)
    /\ UNCHANGED <<events, tip, generation, found, worker, calls, blocks>>

\* A mined block is added to the chain.  On the current tip it becomes the tip; on
\* an older one it is a side branch, or wins a tie and is the tip.  Either way
\* mine() is called with the tip of the chain.
BlockMined ==
    /\ loop.pc = "idle" /\ queue # << >>
    /\ \/ Head(queue) # chainTip /\ UNCHANGED chainTip
       \/ chainTip < MaxTips /\ chainTip' = chainTip + 1
       \/ chainTip = MaxTips /\ UNCHANGED chainTip
    /\ queue' = Tail(queue)
    /\ loop' = [pc |-> "tip", tip |-> chainTip']
    /\ UNCHANGED <<events, tip, generation, found, worker, calls, blocks>>

\* A peer's block becomes the tip, or a new transaction is to be mined: mine(tip).
PeerEvent ==
    /\ loop.pc = "idle" /\ calls < MaxCalls
    /\ calls' = calls + 1
    /\ \/ chainTip < MaxTips /\ chainTip' = chainTip + 1
       \/ UNCHANGED chainTip
    /\ loop' = [pc |-> "tip", tip |-> chainTip']
    /\ UNCHANGED <<events, tip, generation, found, worker, queue, blocks>>

\* mine(tip): the tip, the claim, the interrupt, the wake-up, each in its own step.
SetTip ==
    /\ loop.pc = "tip"
    /\ tip' = loop.tip /\ generation' = generation + 1
    /\ loop' = [pc |-> "found", tip |-> 0]
    /\ UNCHANGED <<events, found, worker, queue, chainTip, calls, blocks>>

ResetFound ==
    /\ loop.pc = "found"
    /\ found' = FALSE
    /\ loop' = [loop EXCEPT !.pc = "interrupt"]
    /\ UNCHANGED <<events, tip, generation, worker, queue, chainTip, calls, blocks>>

SetInterrupt ==
    /\ loop.pc = "interrupt"
    /\ interrupt' = TRUE
    /\ loop' = [loop EXCEPT !.pc = "resume"]
    /\ UNCHANGED <<resume, stop, tip, generation, found, worker, queue, chainTip, calls, blocks>>

SetResume ==
    /\ loop.pc = "resume"
    /\ resume' = TRUE
    /\ loop' = [loop EXCEPT !.pc = "idle"]
    /\ UNCHANGED <<interrupt, stop, tip, generation, found, worker, queue, chainTip, calls, blocks>>

\* stop(): the three events.  The joins that follow give up after a timeout, and
\* the loop then goes on with its callbacks.
Stop ==
    /\ loop.pc = "idle" /\ ~ stop
    /\ stop' = TRUE
    /\ loop' = [loop EXCEPT !.pc = "stop2"]
    /\ UNCHANGED <<resume, interrupt, tip, generation, found, worker, queue, chainTip, calls, blocks>>

StopInterrupt ==
    /\ loop.pc = "stop2"
    /\ interrupt' = TRUE
    /\ loop' = [loop EXCEPT !.pc = "stop3"]
    /\ UNCHANGED <<resume, stop, tip, generation, found, worker, queue, chainTip, calls, blocks>>

StopResume ==
    /\ loop.pc = "stop3"
    /\ resume' = TRUE
    /\ loop' = [loop EXCEPT !.pc = "idle"]
    /\ UNCHANGED <<interrupt, stop, tip, generation, found, worker, queue, chainTip, calls, blocks>>

MineStep == SetTip \/ ResetFound \/ SetInterrupt \/ SetResume
StopStep == StopInterrupt \/ StopResume

\* All workers have left and no callback is pending.
Finished ==
    /\ \A w \in Worker : pc[w] = "exit"
    /\ loop.pc = "idle" /\ queue = << >>
    /\ UNCHANGED vars

Next ==
    \/ \E w \in Worker : WorkerStep(w) \/ Finds(w)
    \/ BlockMined \/ PeerEvent \/ MineStep
    \/ Stop \/ StopStep
    \/ Finished

\* The operating system runs every thread; the event loop runs every callback that
\* is scheduled.  Nobody promises that a nonce is ever found.
Fairness ==
    /\ \A w \in Worker : WF_vars(WorkerStep(w))
    /\ WF_vars(BlockMined \/ MineStep \/ StopStep)

Spec == Init /\ [][Next]_vars /\ Fairness

-----------------------------------------------------------------------------
(* Properties *)

\* Whenever the workers are paused, something is under way that will wake them: a
\* block being emitted, a block waiting in the loop, or a mine() or stop() in the
\* loop that has yet to set _resume ("so the pause can never deadlock").
PauseHasAWaker ==
    ~ resume =>
        \/ \E w \in Worker : pc[w] \in {"flag", "emit"}
        \/ queue # << >>
        \/ loop.pc # "idle"

\* Between callbacks, and once mine() has set it, the miner's tip is the tip of the
\* chain: every way in which a block lands ends in a mine() on the chain's tip
\* ("mine() is always called after a block lands").
MinesTheTip == loop.pc # "tip" => tip = chainTip

\* The workers that have claimed a block and have not yet handed it to the event loop.
Claimed == {w \in Worker : pc[w] \in {"pause", "flag", "emit"}}

\* mine() resets the claim while a block of the last one may still be on its way, so that
\* several blocks, even of one tip, can wait to be added.  However the workers and the loop
\* interleave, they are at most one more than the calls of mine() that no mined block
\* caused: mined blocks alone never bring two on their way.
FewBlocksWait == Cardinality(Claimed) + Len(queue) <= 1 + calls

\* A pause ends.
PauseEnds == ~ resume ~> resume

\* A worker does not go on searching on a tip that was replaced, although the
\* workers clear each other's interrupt.
StaleSearchEnds ==
    \A w \in Worker :
        (pc[w] = "search" /\ wgen[w] # generation) ~> (pc[w] # "search" \/ wgen[w] = generation)

\* After stop() every worker leaves, even one that pauses the others just then, and
\* although the interrupt that stop() sets may be cleared by another worker.
StopEnds == stop ~> \A w \in Worker : pc[w] = "exit"
=============================================================================

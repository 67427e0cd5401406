----------------------------- MODULE Miner_proofs -----------------------------
(***************************************************************************)
(* For any number of worker threads and any bounds: the types, that a      *)
(* pause always has something under way that ends it, how many mined       *)
(* blocks can be on their way to the chain, and that the miner's tip is    *)
(* the chain's between callbacks.                                          *)
(*                                                                         *)
(* IInv adds what the last two depend on: a claim that is still open, and  *)
(* one that the mine() under way will open, are counted like a block on    *)
(* its way, and a mine() about to set the tip carries the chain's.         *)
(***************************************************************************)
EXTENDS Miner, SequenceTheorems, FiniteSetTheorems, TLAPS

\* The blocks on their way, the claim that is open while _found is unset, and the one that
\* the mine() under way opens, are one and one more for each call no mined block caused.
OpenClaim == IF found THEN 0 ELSE 1
NextClaim == IF loop.pc \in {"tip", "found"} THEN 1 ELSE 0
ClaimsAreFew == Cardinality(Claimed) + Len(queue) + OpenClaim + NextClaim <= 1 + calls

\* A mine() that has yet to set the tip was called with the chain's.
LoopHasTip == loop.pc = "tip" => loop.tip = chainTip

IInv == TypeOK /\ PauseHasAWaker /\ ClaimsAreFew /\ LoopHasTip /\ MinesTheTip

-----------------------------------------------------------------------------
\* After start() nothing is claimed and nobody is paused.
LEMMA InitInvariant == Init => IInv
<1> SUFFICES ASSUME Init PROVE IInv
    OBVIOUS
<1>1. TypeOK
  <2>1. 0 \in Tip
    BY MinerAssumption DEF MinerAssumption, Tip
  <2>2. queue \in Seq(Tip)
    BY DEF Init
  <2>3. loop \in [pc : LoopPC, tip : Tip]
    BY <2>1 DEF Init, LoopPC
  <2>4. /\ pc \in [Worker -> WorkerPC]
        /\ wtip \in [Worker -> Tip]
        /\ wgen \in [Worker -> Nat]
    BY <2>1 DEF Init, WorkerPC
  <2> QED
    BY <2>1, <2>2, <2>3, <2>4 DEF Init, TypeOK
<1>2. PauseHasAWaker /\ LoopHasTip /\ MinesTheTip
    BY DEF Init, PauseHasAWaker, LoopHasTip, MinesTheTip
<1>3. ClaimsAreFew
  <2>1. Claimed = {}
    BY DEF Init, Claimed
  <2>2. Cardinality(Claimed) = 0 /\ Len(queue) = 0 /\ OpenClaim = 1 /\ NextClaim = 0 /\ calls = 0
    BY <2>1, FS_EmptySet DEF Init, OpenClaim, NextClaim
  <2> QED
    BY <2>2 DEF ClaimsAreFew
<1> QED
    BY <1>1, <1>2, <1>3 DEF IInv

-----------------------------------------------------------------------------
\* The program counters and locals of the workers keep their types.
LEMMA WorkerTypes ==
    ASSUME TypeOK, Next
    PROVE  /\ pc' \in [Worker -> WorkerPC]
           /\ wtip' \in [Worker -> Tip]
           /\ wgen' \in [Worker -> Nat]
<1> USE MinerAssumption DEF MinerAssumption, TypeOK, Tip, WorkerPC
<1>1. ASSUME NEW w \in Worker, WorkerStep(w) \/ Finds(w)
      PROVE  /\ pc' \in [Worker -> WorkerPC]
             /\ wtip' \in [Worker -> Tip]
             /\ wgen' \in [Worker -> Nat]
  <2>1. 0 \in Tip /\ 0 \in Nat
      OBVIOUS
  <2>2. PICK to \in WorkerPC : pc' = [pc EXCEPT ![w] = to]
      BY <1>1 DEF WorkerStep, Finds, Check, Wait, Read, ClearInterrupt, Nothing, Claim, Pause,
                  Flag, Emit, Goto, Leave
  <2>3. PICK t \in Tip : wtip' = wtip \/ wtip' = [wtip EXCEPT ![w] = t]
      BY <1>1, <2>1 DEF WorkerStep, Finds, Check, Wait, Read, ClearInterrupt, Nothing, Claim, Pause,
                  Flag, Emit, Leave
  <2>4. PICK n \in Nat : wgen' = wgen \/ wgen' = [wgen EXCEPT ![w] = n]
      BY <1>1, <2>1 DEF WorkerStep, Finds, Check, Wait, Read, ClearInterrupt, Nothing, Claim, Pause,
                  Flag, Emit, Leave
  <2> QED
      BY <2>2, <2>3, <2>4
<1>2. CASE UNCHANGED worker
    BY <1>2 DEF worker
<1> QED
    BY <1>1, <1>2 DEF Next, BlockMined, PeerEvent, MineStep, SetTip, ResetFound, SetInterrupt,
        SetResume, Stop, StopStep, StopInterrupt, StopResume, Finished, vars, worker

\* Everything else keeps its type.
LEMMA OtherTypes ==
    ASSUME TypeOK, Next
    PROVE  /\ resume' \in BOOLEAN /\ interrupt' \in BOOLEAN /\ stop' \in BOOLEAN /\ found' \in BOOLEAN
           /\ tip' \in Tip /\ chainTip' \in Tip /\ generation' \in Nat
           /\ queue' \in Seq(Tip)
           /\ loop' \in [pc : LoopPC, tip : Tip]
           /\ calls' \in Nat /\ blocks' \in Nat
<1> DEFINE Goal == /\ resume' \in BOOLEAN /\ interrupt' \in BOOLEAN /\ stop' \in BOOLEAN
                   /\ found' \in BOOLEAN
                   /\ tip' \in Tip /\ chainTip' \in Tip /\ generation' \in Nat
                   /\ queue' \in Seq(Tip)
                   /\ loop' \in [pc : LoopPC, tip : Tip]
                   /\ calls' \in Nat /\ blocks' \in Nat
<1> USE MinerAssumption DEF MinerAssumption, TypeOK, LoopPC
<1>1. ASSUME NEW w \in Worker, WorkerStep(w) \/ Finds(w) PROVE Goal
  <2>1. CASE Emit(w)
    <3>1. wtip[w] \in Tip
        OBVIOUS
    <3>2. queue' \in Seq(Tip)
        BY <2>1, <3>1 DEF Emit
    <3>4. resume' \in BOOLEAN /\ interrupt' \in BOOLEAN /\ stop' \in BOOLEAN /\ found' \in BOOLEAN
        BY <2>1, Zenon DEF Emit, events
    <3>5. /\ tip' \in Tip /\ chainTip' \in Tip /\ generation' \in Nat
          /\ loop' \in [pc : LoopPC, tip : Tip]
          /\ calls' \in Nat /\ blocks' \in Nat
        BY <2>1, Zenon DEF Emit, events
    <3> QED
        BY <3>2, <3>4, <3>5
  <2>2. CASE Claim(w)
    <3>1. found' \in BOOLEAN
        BY <2>2, Zenon DEF Claim
    <3> QED
        BY <2>2, <3>1, Zenon DEF Claim, events
  <2>3. CASE Finds(w)
      BY <2>3 DEF Finds, events
  <2>4. CASE Check(w) \/ Wait(w) \/ Read(w) \/ ClearInterrupt(w) \/ Nothing(w) \/ Pause(w) \/ Flag(w)
      BY <2>4 DEF Check, Wait, Read, ClearInterrupt, Nothing, Pause, Flag, Shared, events
  <2> QED
      BY <1>1, <2>1, <2>2, <2>3, <2>4 DEF WorkerStep
<1>2. CASE BlockMined
    BY <1>2 DEF BlockMined, events, Tip
<1>3. CASE PeerEvent
    BY <1>3 DEF PeerEvent, events, Tip
<1>4. CASE MineStep
  <2>1. CASE SetTip
    <3>1. 0 \in Tip
        BY DEF Tip
    <3>2. loop.tip \in Tip /\ loop' \in [pc : LoopPC, tip : Tip]
        BY <2>1, <3>1 DEF SetTip
    <3> QED
        BY <2>1, <3>2 DEF SetTip, events
  <2>2. CASE ResetFound \/ SetInterrupt \/ SetResume
    <3>1. loop' \in [pc : LoopPC, tip : Tip]
        BY <2>2 DEF ResetFound, SetInterrupt, SetResume
    <3> QED
        BY <2>2, <3>1, Zenon DEF ResetFound, SetInterrupt, SetResume, events
  <2> QED
      BY <1>4, <2>1, <2>2 DEF MineStep
<1>5. CASE Stop \/ StopStep
    BY <1>5 DEF Stop, StopStep, StopInterrupt, StopResume
<1>6. CASE Finished
    BY <1>6 DEF Finished, vars, events
<1> QED
    BY <1>1, <1>2, <1>3, <1>4, <1>5, <1>6 DEF Next

\* The workers with a claimed block are a finite set, which changes with one of them.
LEMMA ClaimedChanges ==
    ASSUME TypeOK
    PROVE  /\ IsFiniteSet(Claimed) /\ Cardinality(Claimed) \in Nat
           /\ \A w \in Worker :
                 /\ w \in Claimed => Cardinality(Claimed \ {w}) = Cardinality(Claimed) - 1
                 /\ w \notin Claimed => Cardinality(Claimed \cup {w}) = Cardinality(Claimed) + 1
<1>1. IsFiniteSet(Claimed) /\ Cardinality(Claimed) \in Nat
  <2>1. Claimed \in SUBSET Worker /\ IsFiniteSet(Worker)
      BY MinerAssumption DEF Claimed
  <2> QED
      BY <2>1, FS_Subset, FS_CardinalityType
<1> QED
    BY <1>1, FS_AddElement, FS_RemoveElement

\* A worker adds a block to those on their way by closing the open claim, and takes itself
\* from them by putting its block into the queue.
LEMMA WorkerClaims ==
    ASSUME TypeOK, ClaimsAreFew, NEW w \in Worker, WorkerStep(w) \/ Finds(w)
    PROVE  ClaimsAreFew'
<1>1. /\ queue \in Seq(Tip) /\ calls \in Nat /\ pc \in [Worker -> WorkerPC]
      /\ wtip[w] \in Tip /\ Len(queue) \in Nat /\ found \in BOOLEAN
    BY DEF TypeOK
<1>2. Cardinality(Claimed) + Len(queue) + OpenClaim + NextClaim <= 1 + calls
    BY DEF ClaimsAreFew
<1>3. OpenClaim \in {0, 1} /\ NextClaim \in {0, 1} /\ Cardinality(Claimed) \in Nat
    BY ClaimedChanges DEF OpenClaim, NextClaim
<1>4. calls' = calls /\ loop' = loop
    BY DEF WorkerStep, Finds, Check, Wait, Read, ClearInterrupt, Nothing, Claim, Pause, Flag, Emit,
           Shared
<1>5. NextClaim' = NextClaim
    BY <1>4 DEF NextClaim
<1>6. CASE Claim(w) /\ ~ found
  <2>1. /\ pc[w] = "claim" /\ pc' = [pc EXCEPT ![w] = "pause"] /\ found' /\ queue' = queue
      BY <1>6 DEF Claim, Goto
  <2>2. Claimed' = Claimed \cup {w} /\ w \notin Claimed
      BY <1>1, <2>1 DEF Claimed
  <2>3. Cardinality(Claimed') = Cardinality(Claimed) + 1
      BY <2>2, ClaimedChanges
  <2>4. OpenClaim = 1 /\ OpenClaim' = 0
      BY <1>6, <2>1 DEF OpenClaim
  <2> QED
      BY <1>1, <1>2, <1>3, <1>4, <1>5, <2>1, <2>3, <2>4 DEF ClaimsAreFew
<1>7. CASE Emit(w)
  <2>1. /\ pc[w] = "emit" /\ pc' = [pc EXCEPT ![w] = "check"] /\ found' = found
        /\ queue' = Append(queue, wtip[w])
      BY <1>7 DEF Emit, Leave, Goto
  <2>2. Claimed' = Claimed \ {w} /\ w \in Claimed
      BY <1>1, <2>1 DEF Claimed
  <2>3. Cardinality(Claimed') = Cardinality(Claimed) - 1
      BY <2>2, ClaimedChanges
  <2>4. Len(queue') = Len(queue) + 1
      BY <1>1, <2>1, AppendProperties
  <2>5. OpenClaim' = OpenClaim
      BY <2>1 DEF OpenClaim
  <2> QED
      BY <1>1, <1>2, <1>3, <1>4, <1>5, <2>3, <2>4, <2>5 DEF ClaimsAreFew
<1>8. CASE ~ (Claim(w) /\ ~ found) /\ ~ Emit(w)
  <2>1. queue' = queue /\ found' = found
      BY <1>8 DEF WorkerStep, Finds, Check, Wait, Read, ClearInterrupt, Nothing, Claim, Pause, Flag,
             Shared
  <2>2. PICK to : /\ pc' = [pc EXCEPT ![w] = to]
                  /\ pc[w] \in {"pause", "flag", "emit"} <=> to \in {"pause", "flag", "emit"}
    <3>1. CASE Claim(w)
        BY <1>8, <3>1 DEF Claim, Goto, Leave
    <3>2. CASE Pause(w) \/ Flag(w)
        BY <3>2 DEF Pause, Flag, Goto
    <3>3. CASE Check(w) \/ Wait(w) \/ Read(w) \/ ClearInterrupt(w)
        BY <3>3 DEF Check, Wait, Read, ClearInterrupt, Goto
    <3>4. CASE Nothing(w) \/ Finds(w)
        BY <3>4 DEF Nothing, Finds, Goto, Leave
    <3> QED
        BY <1>8, <3>1, <3>2, <3>3, <3>4 DEF WorkerStep
  <2>3. Claimed' = Claimed
      BY <1>1, <2>2 DEF Claimed
  <2>4. OpenClaim' = OpenClaim
      BY <2>1 DEF OpenClaim
  <2> QED
      BY <1>2, <1>4, <1>5, <2>1, <2>3, <2>4 DEF ClaimsAreFew
<1> QED
    BY <1>6, <1>7, <1>8

\* The loop takes a block from the queue only to call mine(); mine() opens the claim.
LEMMA LoopClaims ==
    ASSUME TypeOK, ClaimsAreFew, BlockMined \/ PeerEvent \/ MineStep \/ Stop \/ StopStep \/ Finished
    PROVE  ClaimsAreFew'
<1>1. /\ queue \in Seq(Tip) /\ calls \in Nat /\ Len(queue) \in Nat
      /\ loop \in [pc : LoopPC, tip : Tip]
    BY DEF TypeOK
<1>2. Cardinality(Claimed) + Len(queue) + OpenClaim + NextClaim <= 1 + calls
    BY DEF ClaimsAreFew
<1>3. Claimed' = Claimed /\ Cardinality(Claimed) \in Nat /\ OpenClaim \in {0, 1}
  <2>1. pc' = pc
      BY DEF BlockMined, PeerEvent, MineStep, SetTip, ResetFound, SetInterrupt, SetResume, Stop,
             StopStep, StopInterrupt, StopResume, Finished, vars, worker
  <2> QED
      BY <2>1, ClaimedChanges DEF Claimed, OpenClaim
<1>4. CASE BlockMined
  <2>1. /\ loop.pc = "idle" /\ loop'.pc = "tip" /\ queue # << >> /\ queue' = Tail(queue)
        /\ found' = found /\ calls' = calls
      BY <1>4 DEF BlockMined
  <2>2. Len(queue') = Len(queue) - 1
      BY <1>1, <2>1
  <2>3. NextClaim = 0 /\ NextClaim' = 1 /\ OpenClaim' = OpenClaim
      BY <2>1 DEF NextClaim, OpenClaim
  <2> QED
      BY <1>1, <1>2, <1>3, <2>1, <2>2, <2>3 DEF ClaimsAreFew
<1>5. CASE PeerEvent
  <2>1. /\ loop.pc = "idle" /\ loop'.pc = "tip" /\ queue' = queue
        /\ found' = found /\ calls' = calls + 1
      BY <1>5 DEF PeerEvent
  <2>2. NextClaim = 0 /\ NextClaim' = 1 /\ OpenClaim' = OpenClaim
      BY <2>1 DEF NextClaim, OpenClaim
  <2> QED
      BY <1>1, <1>2, <1>3, <2>1, <2>2 DEF ClaimsAreFew
<1>6. CASE ResetFound
  <2>1. /\ loop.pc = "found" /\ loop'.pc = "interrupt" /\ queue' = queue
        /\ calls' = calls /\ found' = FALSE
      BY <1>1, <1>6 DEF ResetFound
  <2>2. NextClaim = 1 /\ NextClaim' = 0 /\ OpenClaim' = 1
      BY <2>1 DEF NextClaim, OpenClaim
  <2> QED
      BY <1>1, <1>2, <1>3, <2>1, <2>2 DEF ClaimsAreFew
<1>7. CASE SetTip
  <2>1. /\ loop.pc = "tip" /\ loop'.pc = "found" /\ UNCHANGED <<queue, found, calls>>
      BY <1>7 DEF SetTip
  <2> QED
      BY <1>2, <1>3, <2>1 DEF ClaimsAreFew, NextClaim, OpenClaim
<1>8. CASE SetInterrupt \/ SetResume \/ Stop \/ StopStep \/ Finished
  <2>1. /\ NextClaim' = NextClaim /\ UNCHANGED <<queue, found, calls>>
      BY <1>1, <1>8 DEF SetInterrupt, SetResume, Stop, StopStep, StopInterrupt, StopResume, Finished,
         vars, NextClaim
  <2> QED
      BY <1>2, <1>3, <2>1 DEF ClaimsAreFew, OpenClaim
<1> QED
    BY <1>4, <1>5, <1>6, <1>7, <1>8 DEF MineStep

\* A step of a worker keeps the four: only Pause clears _resume, and the worker is then on
\* its way to emit.
LEMMA WorkerKeeps ==
    ASSUME IInv, NEW w \in Worker, WorkerStep(w) \/ Finds(w)
    PROVE  PauseHasAWaker' /\ ClaimsAreFew' /\ LoopHasTip' /\ MinesTheTip'
<1> USE DEF IInv, TypeOK
<1>1. LoopHasTip' /\ MinesTheTip'
    BY DEF WorkerStep, Finds, Check, Wait, Read, ClearInterrupt, Nothing, Claim, Pause, Flag, Emit,
           Shared, LoopHasTip, MinesTheTip
<1>2. ClaimsAreFew'
  <2>1. TypeOK /\ ClaimsAreFew
      OBVIOUS
  <2> QED
      BY <2>1, WorkerClaims
<1>3. PauseHasAWaker'
  <2>1. CASE Pause(w)
      BY <2>1 DEF Pause, Goto, PauseHasAWaker
  <2>2. CASE Flag(w)
      BY <2>2 DEF Flag, Goto, Shared, PauseHasAWaker
  <2>3. CASE Emit(w)
    <3>1. queue \in Seq(Tip) /\ wtip[w] \in Tip
        OBVIOUS
    <3>2. queue' # << >>
        BY <2>3, <3>1, AppendProperties DEF Emit
    <3> QED
        BY <3>2 DEF PauseHasAWaker
  <2>4. CASE ~ (Pause(w) \/ Flag(w) \/ Emit(w))
    <3>1. /\ resume' = resume /\ queue' = queue /\ loop' = loop
          /\ pc[w] \notin {"flag", "emit"}
          /\ \A v \in Worker : v # w => pc'[v] = pc[v]
        BY <2>4 DEF WorkerStep, Finds, Check, Wait, Read, ClearInterrupt, Nothing, Claim, Goto, Leave,
                    Shared, events
    <3> QED
        BY <3>1 DEF PauseHasAWaker
  <2> QED
      BY <2>1, <2>2, <2>3, <2>4
<1> QED
    BY <1>1, <1>2, <1>3

\* A step of the event loop keeps them: it takes a block from the queue only to call
\* mine(), and mine() and stop() return only after they have set _resume.
LEMMA LoopKeeps ==
    ASSUME IInv, BlockMined \/ PeerEvent \/ MineStep \/ Stop \/ StopStep \/ Finished
    PROVE  PauseHasAWaker' /\ ClaimsAreFew' /\ LoopHasTip' /\ MinesTheTip'
<1>1. ClaimsAreFew'
    BY LoopClaims DEF IInv
<1>2. PauseHasAWaker' /\ LoopHasTip' /\ MinesTheTip'
  <2> USE DEF IInv, TypeOK, PauseHasAWaker, LoopHasTip, MinesTheTip
  <2>1. CASE BlockMined
      BY <2>1 DEF BlockMined, events
  <2>2. CASE PeerEvent
      BY <2>2 DEF PeerEvent, events
  <2>3. CASE MineStep
      BY <2>3 DEF MineStep, SetTip, ResetFound, SetInterrupt, SetResume, events, worker
  <2>4. CASE Stop \/ StopStep
      BY <2>4 DEF Stop, StopStep, StopInterrupt, StopResume, worker
  <2>5. CASE Finished
      BY <2>5 DEF Finished, vars, events, worker
  <2> QED
      BY <2>1, <2>2, <2>3, <2>4, <2>5
<1> QED
    BY <1>1, <1>2

\* Every step keeps the invariant.
LEMMA StepInvariant == IInv /\ [Next]_vars => IInv'
<1> SUFFICES ASSUME IInv, [Next]_vars PROVE IInv'
    OBVIOUS
<1>1. CASE Next
  <2>1. TypeOK'
      BY <1>1, WorkerTypes, OtherTypes DEF IInv, TypeOK
  <2> QED
      BY <1>1, <2>1, WorkerKeeps, LoopKeeps DEF Next, IInv
<1>2. CASE UNCHANGED vars
    BY <1>2 DEF vars, events, worker, IInv, TypeOK, PauseHasAWaker, ClaimsAreFew, Claimed,
                OpenClaim, NextClaim, LoopHasTip, MinesTheTip
<1> QED
    BY <1>1, <1>2

-----------------------------------------------------------------------------
\* The invariant holds in every state of the miner.
THEOREM Invariance == Spec => []IInv
    BY InitInvariant, StepInvariant, PTL DEF Spec

\* The variables of the miner keep their types.
THEOREM TypeCorrect == Spec => []TypeOK
<1>1. IInv => TypeOK
    BY DEF IInv
<1> QED
    BY <1>1, Invariance, PTL

\* Paused workers can count on being woken: an emission, a queued block or a call
\* in the event loop that will set _resume is under way (_mine_one_block, mine, stop).
THEOREM PausesAreEnded == Spec => []PauseHasAWaker
<1>1. IInv => PauseHasAWaker
    BY DEF IInv
<1> QED
    BY <1>1, Invariance, PTL

\* However many workers there are and however they interleave with mine(), the mined
\* blocks on their way to the chain are at most one more than the calls of mine() that
\* peers' blocks and transactions caused.
THEOREM FewBlocksEverWait == Spec => []FewBlocksWait
<1>1. IInv => FewBlocksWait
  <2> SUFFICES ASSUME IInv PROVE FewBlocksWait
      OBVIOUS
  <2>1. /\ Cardinality(Claimed) \in Nat /\ Len(queue) \in Nat /\ calls \in Nat
        /\ OpenClaim \in {0, 1} /\ NextClaim \in {0, 1}
      BY ClaimedChanges DEF IInv, TypeOK, OpenClaim, NextClaim
  <2> QED
      BY <2>1 DEF IInv, ClaimsAreFew, FewBlocksWait
<1> QED
    BY <1>1, Invariance, PTL

\* The miner is left on the tip of the chain by every callback that moves it.
THEOREM TipIsMined == Spec => []MinesTheTip
<1>1. IInv => MinesTheTip
    BY DEF IInv
<1> QED
    BY <1>1, Invariance, PTL
=============================================================================

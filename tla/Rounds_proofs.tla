---------------------------- MODULE Rounds_proofs ----------------------------
(***************************************************************************)
(* The safety of the signature rounds, for any number of members, losses   *)
(* and waits that time out.                                                *)
(***************************************************************************)
EXTENDS Rounds, TLAPS, FiniteSetTheorems

\* The rounds of the signatures, and what the datagrams under way say, are never ahead
\* of the server's record.
NetFollowsTheServer ==
    \A msg \in net :
        /\ msg.type \in {"NonceSig", "ChallengeResponse"} => msg.round <= completed + 1
        /\ msg.type = "RoundResult" => msg.completed <= completed
        /\ msg.type = "RoundResult" /\ msg.success => msg.to \in winners

SignaturesFollowTheServer ==
    \A m \in Member, r \in 1..N : sigs[m][r] # {} => r <= completed + 1

\* WonIsRecorded and AheadOnlyAsWinner are inductive together with these two, as what
\* a member believes comes from datagrams and signatures only.
IInv ==
    /\ TypeOK
    /\ NetFollowsTheServer
    /\ SignaturesFollowTheServer
    /\ WonIsRecorded
    /\ AheadOnlyAsWinner

-----------------------------------------------------------------------------
\* There is at least one round.
LEMMA NIsNat == N \in Nat \ {0}
BY RoundsAssumption, FS_CardinalityType, FS_EmptySet DEF N

\* The server never records more rounds than there are members.
LEMMA CompletedBound ==
  ASSUME NEW W \in SUBSET Member
  PROVE  /\ IsFiniteSet(W)
         /\ Cardinality(W) \in 0..N
         /\ \A m \in Member \ W : /\ Cardinality(W \cup {m}) = Cardinality(W) + 1
                                  /\ Cardinality(W) + 1 \in 0..N
<1>1. IsFiniteSet(W) /\ Cardinality(W) <= N /\ Cardinality(W) \in Nat
  BY RoundsAssumption, FS_Subset, FS_CardinalityType DEF N
<1>2. ASSUME NEW m \in Member \ W
      PROVE  Cardinality(W \cup {m}) = Cardinality(W) + 1 /\ Cardinality(W) + 1 \in 0..N
  <2>1. Cardinality(W \cup {m}) = Cardinality(W) + 1
    BY <1>1, FS_AddElement
  <2>2. Cardinality(W \cup {m}) <= N
    BY RoundsAssumption, FS_Subset DEF N
  <2> QED BY <1>1, <2>1, <2>2, NIsNat
<1> QED BY <1>1, <1>2, NIsNat

\* Initially no round is complete, signed or won.
LEMMA InitIInv == Init => IInv
<1> SUFFICES ASSUME Init PROVE IInv
  OBVIOUS
<1>1. completed = 0
  BY FS_EmptySet DEF Init, completed
<1>2. TypeOK
  BY NIsNat, RoundsAssumption DEF Init, TypeOK
<1> QED BY <1>1, <1>2, NIsNat DEF Init, IInv, NetFollowsTheServer, SignaturesFollowTheServer,
        WonIsRecorded, AheadOnlyAsWinner

\* A step that leaves the record, the signatures and what is won alone preserves all
\* but the type invariant if it adds no datagram but requests, bundles and Readys, and
\* takes no member further than its own signatures.
LEMMA QuietStep ==
  ASSUME IInv, TypeOK', UNCHANGED <<sigs, won, winners>>, late' \in {late, late + 1},
         \A msg \in net' : msg \in net
            \/ msg.type \in {"Ready", "ChallengeRequest", "SignatureBundle"},
         late' = 0 => \A m \in Member :
            \/ current'[m] = current[m]
            \/ current'[m] <= completed + 1
            \/ won[m] /\ current'[m] = completed + 2
  PROVE  IInv'
<1>1. completed' = completed
  BY DEF completed
<1>2. NetFollowsTheServer'
  BY <1>1 DEF NetFollowsTheServer, IInv
<1>3. SignaturesFollowTheServer'
  BY <1>1 DEF SignaturesFollowTheServer, IInv
<1>4. WonIsRecorded'
  BY DEF WonIsRecorded, IInv
<1>5. AheadOnlyAsWinner'
  <2> SUFFICES ASSUME late' = 0, NEW m \in Member
               PROVE  current'[m] <= completed + 1 \/ (won[m] /\ current'[m] = completed + 2)
    BY <1>1 DEF AheadOnlyAsWinner
  <2>1. late = 0
    BY DEF IInv, TypeOK
  <2> QED BY <2>1 DEF IInv, AheadOnlyAsWinner
<1> QED BY <1>2, <1>3, <1>4, <1>5 DEF IInv

\* The end of _do_round, for a member that is in the round and has not run ahead.
LEMMA ReturnStep ==
  ASSUME IInv, NEW m \in Member, Return(m), late' \in {late, late + 1}, late' \in 0..MaxLate,
         late' = 0 => Advanced(m, loop[m]) \/ (SigsFull(m, loop[m]) /\ won[m])
  PROVE  IInv'
<1>1. /\ current \in [Member -> 1..(N + 1)] /\ loop \in [Member -> 1..N] /\ N \in Nat \ {0}
      /\ completed \in 0..N
  BY NIsNat, CompletedBound DEF IInv, TypeOK, completed
<1>2. /\ current' = [current EXCEPT ![m] = IF loop[m] + 1 > @ THEN loop[m] + 1 ELSE @]
      /\ UNCHANGED <<cached, heard, announced, sigs, won, winners>>
  BY DEF Return, AdvanceTo
<1>3. /\ pc' \in [Member -> {"discover", "handshake", "nonce", "sigs", "result", "done", "failed"}]
      /\ loop' \in [Member -> 1..N]
      /\ net' \in SUBSET Message
      /\ \A msg \in net' : msg \in net \/ msg.type = "ChallengeRequest"
  <2>1. CASE loop[m] = N
    BY <2>1, <1>1 DEF Return, IInv, TypeOK
  <2>2. CASE loop[m] # N
    <3>1. Begin(m, loop[m] + 1)
      BY <2>2 DEF Return
    <3>2. loop[m] + 1 \in 1..N
      BY <1>1, <2>2
    <3>3. [type |-> "ChallengeRequest", from |-> m] \in Message
      BY DEF Message
    <3> QED BY <3>1, <3>2, <3>3 DEF Begin, IInv, TypeOK
  <2> QED BY <2>1, <2>2
<1>4. current' \in [Member -> 1..(N + 1)]
  BY <1>1, <1>2
<1>5. TypeOK'
  BY <1>2, <1>3, <1>4 DEF IInv, TypeOK
<1>6. ASSUME late' = 0, NEW k \in Member
      PROVE  \/ current'[k] = current[k]
             \/ current'[k] <= completed + 1
             \/ won[k] /\ current'[k] = completed + 2
  <2>1. CASE k = m /\ ~ Advanced(m, loop[m])
    <3>1. SigsFull(m, loop[m]) /\ won[m]
      BY <1>6, <2>1
    <3>2. loop[m] <= completed + 1
      BY <3>1, <1>1, RoundsAssumption DEF SigsFull, IInv, SignaturesFollowTheServer
    <3>3. current'[m] = loop[m] + 1 \/ current'[m] = current[m]
      BY <1>1, <1>2
    <3> QED BY <1>1, <2>1, <3>1, <3>2, <3>3
  <2>2. CASE k # m \/ Advanced(m, loop[m])
    BY <1>1, <1>2, <2>2 DEF Advanced
  <2> QED BY <2>1, <2>2
<1> QED BY <1>2, <1>3, <1>5, <1>6, QuietStep

\* The handlers of a nonce, from the server or from a member.
LEMMA NonceStep ==
  ASSUME IInv, NEW m \in Member, NEW msg \in net, NEW S \in SUBSET Member,
         msg.type \in {"NonceSig", "ChallengeResponse"},
         msg.round \in 1..N,
         AdvanceTo(m, msg.round),
         sigs' = [sigs EXCEPT ![m][msg.round] = @ \cup S],
         net' \subseteq (net \ {msg}) \cup NonceSigs(m, msg.round),
         UNCHANGED <<cached, heard, announced, pc, loop, won, winners, late>>
  PROVE  IInv'
<1>1. /\ current \in [Member -> 1..(N + 1)] /\ N \in Nat \ {0} /\ completed \in 0..N
      /\ sigs \in [Member -> [1..N -> SUBSET Member]]
  BY NIsNat, CompletedBound DEF IInv, TypeOK, completed
<1>2. completed' = completed /\ msg.round <= completed + 1
  BY DEF completed, IInv, NetFollowsTheServer
<1>3. /\ current' = [current EXCEPT ![m] = IF msg.round > @ THEN msg.round ELSE @]
      /\ current' \in [Member -> 1..(N + 1)]
  BY <1>1 DEF AdvanceTo
<1>4. \A x \in NonceSigs(m, msg.round) :
         x \in Message /\ x.type = "NonceSig" /\ x.round = msg.round
  BY DEF NonceSigs, Message, IInv, TypeOK
<1>5. sigs' \in [Member -> [1..N -> SUBSET Member]]
  BY <1>1
<1>6. TypeOK'
  BY <1>3, <1>4, <1>5 DEF IInv, TypeOK
<1>7. NetFollowsTheServer'
  BY <1>2, <1>4 DEF IInv, NetFollowsTheServer
<1>8. SignaturesFollowTheServer'
  <2> SUFFICES ASSUME NEW k \in Member, NEW r \in 1..N, sigs'[k][r] # {}
               PROVE  r <= completed + 1
    BY <1>2 DEF SignaturesFollowTheServer
  <2>1. CASE k = m /\ r = msg.round
    BY <1>2, <2>1
  <2>2. CASE ~ (k = m /\ r = msg.round)
    <3>1. sigs'[k][r] = sigs[k][r]
      BY <1>1, <2>2
    <3> QED BY <3>1 DEF IInv, SignaturesFollowTheServer
  <2> QED BY <2>1, <2>2
<1>9. AheadOnlyAsWinner'
  BY <1>1, <1>2, <1>3 DEF IInv, AheadOnlyAsWinner
<1> QED BY <1>6, <1>7, <1>8, <1>9 DEF IInv, WonIsRecorded

\* The server's verdict marks a round won only if it recorded it, and moves no one past
\* the live round.
LEMMA ResultStep ==
  ASSUME IInv, NEW msg \in net, msg.type = "RoundResult", OnRoundResult(msg.to, msg)
  PROVE  IInv'
<1> DEFINE m == msg.to
<1>0. msg \in Message /\ m \in Member /\ msg.success \in BOOLEAN /\ msg.completed \in 0..N
  BY DEF IInv, TypeOK, Message
<1>1. /\ current \in [Member -> 1..(N + 1)] /\ N \in Nat \ {0} /\ completed \in 0..N
      /\ won \in [Member -> BOOLEAN]
  BY NIsNat, CompletedBound DEF IInv, TypeOK, completed
<1>2. completed' = completed
  BY DEF completed, OnRoundResult
<1>3. current' = [current EXCEPT ![m] = IF msg.completed + 1 > @ THEN msg.completed + 1 ELSE @]
  BY DEF OnRoundResult, AdvanceTo
<1>4. /\ current' \in [Member -> 1..(N + 1)]
      /\ \A k \in Member : current'[k] = current[k] \/ current'[k] <= completed + 1
  <2>1. msg.completed <= completed
    BY DEF IInv, NetFollowsTheServer
  <2> QED BY <1>0, <1>1, <1>3, <2>1
<1>5. /\ won' \in [Member -> BOOLEAN]
      /\ \A k \in Member : won'[k] => won[k] \/ (k = m /\ msg.success)
      /\ \A k \in Member : won[k] => won'[k]
  <2>1. won' = [won EXCEPT ![m] = @ \/ (msg.success /\ msg.round >= current[m])]
    BY DEF OnRoundResult
  <2> DEFINE g == msg.success /\ msg.round >= current[m]
  <2>2. won' = [won EXCEPT ![m] = @ \/ g]
    BY <2>1
  <2>3. g \in BOOLEAN /\ (g => msg.success)
    OBVIOUS
  <2> HIDE DEF g
  <2> QED BY <1>0, <1>1, <2>2, <2>3, Zenon
<1>6. TypeOK'
  BY <1>4, <1>5 DEF IInv, TypeOK, OnRoundResult
<1>7. NetFollowsTheServer'
  BY <1>2 DEF IInv, NetFollowsTheServer, OnRoundResult
<1>8. SignaturesFollowTheServer'
  BY <1>2 DEF IInv, SignaturesFollowTheServer, OnRoundResult
<1>9. WonIsRecorded'
  BY <1>5 DEF IInv, WonIsRecorded, NetFollowsTheServer, OnRoundResult
<1>10. AheadOnlyAsWinner'
  BY <1>2, <1>4, <1>5 DEF IInv, AheadOnlyAsWinner, OnRoundResult
<1> QED BY <1>6, <1>7, <1>8, <1>9, <1>10 DEF IInv

\* A verdict completes at most the live round; a nonce is the live round's.
LEMMA ServerStep ==
  ASSUME IInv, NEW msg \in net,
         \/ msg.type = "ChallengeRequest" /\ AnswerRequest(msg)
         \/ msg.type = "SignatureBundle" /\ JudgeBundle(msg)
  PROVE  IInv'
<1>1. /\ N \in Nat \ {0} /\ completed \in 0..N /\ winners \in SUBSET Member
      /\ current \in [Member -> 1..(N + 1)]
      /\ msg \in Message /\ net \in SUBSET Message
  BY NIsNat, CompletedBound DEF IInv, TypeOK, completed
<1>2. CASE msg.type = "ChallengeRequest" /\ AnswerRequest(msg)
  <2> DEFINE x == IF completed = N THEN RoundResult(msg.from, FALSE, N, N)
                  ELSE [type |-> "ChallengeResponse", to |-> msg.from, round |-> completed + 1]
  <2>1. msg.from \in Member
    BY <1>1, <1>2 DEF Message
  <2>2. x \in Message
    BY <1>1, <2>1 DEF Message, RoundResult
  <2>3. /\ net' = (net \ {msg}) \cup {x}
        /\ UNCHANGED <<local, winners, late>>
    BY <1>2 DEF AnswerRequest
  <2>4. completed' = completed
    BY <2>3 DEF completed
  <2>5. TypeOK'
    BY <2>2, <2>3 DEF IInv, TypeOK, local
  <2>6. NetFollowsTheServer'
    <3>1. /\ x.type \in {"NonceSig", "ChallengeResponse"} => x.round <= completed + 1
          /\ x.type = "RoundResult" => x.completed <= completed /\ x.success = FALSE
      BY <1>1 DEF RoundResult
    <3> HIDE DEF x
    <3> QED BY <2>3, <2>4, <3>1 DEF IInv, NetFollowsTheServer
  <2> QED BY <2>3, <2>4, <2>5, <2>6 DEF IInv, SignaturesFollowTheServer, WonIsRecorded,
        AheadOnlyAsWinner, local
<1>3. CASE msg.type = "SignatureBundle" /\ JudgeBundle(msg)
  <2> DEFINE success == msg.round = completed + 1 /\ msg.from \notin winners
             x == RoundResult(msg.from, success, msg.round, Cardinality(winners'))
  <2>1. msg.from \in Member /\ msg.round \in 1..N
    BY <1>1, <1>3 DEF Message
  <2>2. /\ winners' = IF success THEN winners \cup {msg.from} ELSE winners
        /\ net' = (net \ {msg}) \cup {x}
        /\ UNCHANGED <<local, late>>
    BY <1>3 DEF JudgeBundle
  <2>3. /\ winners \subseteq winners' /\ winners' \in SUBSET Member
        /\ success => msg.from \in winners'
        /\ success \in BOOLEAN
    BY <1>1, <2>1, <2>2
  <2>4. /\ completed' \in {completed, completed + 1}
        /\ completed' \in 0..N
        /\ completed' = Cardinality(winners')
        /\ ~ success => completed' = completed
    BY <1>1, <2>1, <2>2, CompletedBound DEF completed
  <2> HIDE DEF success
  <2>5. x \in Message
    BY <2>1, <2>3, <2>4 DEF Message, RoundResult
  <2>6. /\ x.type = "RoundResult" /\ x.completed = completed'
        /\ x.success => x.to \in winners'
    BY <2>3, <2>4 DEF RoundResult
  <2> HIDE DEF x
  <2>7. TypeOK'
    BY <2>2, <2>3, <2>5 DEF IInv, TypeOK, local
  <2>8. NetFollowsTheServer'
    <3> SUFFICES ASSUME NEW y \in net'
        PROVE /\ y.type \in {"NonceSig", "ChallengeResponse"} => y.round <= completed' + 1
              /\ y.type = "RoundResult" => y.completed <= completed'
              /\ y.type = "RoundResult" /\ y.success => y.to \in winners'
      BY DEF NetFollowsTheServer
    <3>1. CASE y = x
      BY <2>4, <2>6, <3>1
    <3>2. CASE y \in net
      <4>1. /\ y.type \in {"NonceSig", "ChallengeResponse"} => y.round <= completed + 1
            /\ y.type = "RoundResult" => y.completed <= completed
            /\ y.type = "RoundResult" /\ y.success => y.to \in winners
        BY <3>2 DEF IInv, NetFollowsTheServer
      <4>2. /\ y.type \in {"NonceSig", "ChallengeResponse"} => y.round \in 1..N
            /\ y.type = "RoundResult" => y.completed \in 0..N
        BY <1>1, <3>2 DEF Message
      <4> QED BY <1>1, <2>3, <2>4, <4>1, <4>2
    <3> QED BY <2>2, <3>1, <3>2
  <2>9. SignaturesFollowTheServer'
    BY <1>1, <2>2, <2>4 DEF IInv, SignaturesFollowTheServer, local
  <2>10. WonIsRecorded'
    BY <2>2, <2>3 DEF IInv, WonIsRecorded, local
  <2>11. AheadOnlyAsWinner'
    BY <1>1, <2>2, <2>4 DEF IInv, AheadOnlyAsWinner, local
  <2> QED BY <2>7, <2>8, <2>9, <2>10, <2>11 DEF IInv
<1> QED BY <1>2, <1>3

\* Every step keeps the invariant.
LEMMA NextIInv == IInv /\ [Next]_vars => IInv'
<1> SUFFICES ASSUME IInv, [Next]_vars PROVE IInv'
  OBVIOUS
<1>0. late \in 0..MaxLate /\ MaxLate \in Nat /\ N \in Nat \ {0}
  BY NIsNat, RoundsAssumption DEF IInv, TypeOK
<1>1. ASSUME NEW m \in Member, Discover(m) \/ EndDiscovery(m) \/ GetNonce(m) PROVE IInv'
  <2>1. UNCHANGED <<heard, announced, loop, current, sigs, won, net, winners, late>>
    BY <1>1 DEF Discover, EndDiscovery, GetNonce
  <2>2. cached' \in [Member -> SUBSET (Member \cup {Server})]
    <3>1. CASE Discover(m)
      BY <3>1 DEF Discover, IInv, TypeOK, Others
    <3>2. CASE EndDiscovery(m) \/ GetNonce(m)
      BY <3>2 DEF EndDiscovery, GetNonce, IInv, TypeOK
    <3> QED BY <1>1, <3>1, <3>2
  <2>3. pc' = pc \/ pc' = [pc EXCEPT ![m] = "handshake"] \/ pc' = [pc EXCEPT ![m] = "sigs"]
    BY <1>1 DEF Discover, EndDiscovery, GetNonce
  <2>4. TypeOK'
    BY <2>1, <2>2, <2>3 DEF IInv, TypeOK
  <2> QED BY <2>1, <2>4, QuietStep
<1>2. ASSUME NEW m \in Member, BroadcastReady(m) PROVE IInv'
  <2>1. \A x \in Ready(m) : x \in Message /\ x.type = "Ready"
    BY DEF Ready, Message, IInv, TypeOK
  <2>2. UNCHANGED <<current, sigs, won, winners, late>> /\ TypeOK'
    BY <1>2, <2>1 DEF BroadcastReady, IInv, TypeOK
  <2>3. \A x \in net' : x \in net \/ x.type = "Ready"
    BY <1>2, <2>1 DEF BroadcastReady
  <2> QED BY <2>2, <2>3, QuietStep
<1>3. ASSUME NEW m \in Member, StartRounds(m) PROVE IInv'
  <2>1. [type |-> "ChallengeRequest", from |-> m] \in Message
    BY DEF Message
  <2>2. UNCHANGED <<current, sigs, won, winners, late>> /\ TypeOK'
    BY <1>0, <1>3, <2>1 DEF StartRounds, Begin, IInv, TypeOK
  <2>3. \A x \in net' : x \in net \/ x.type = "ChallengeRequest"
    BY <1>3 DEF StartRounds, Begin
  <2> QED BY <2>2, <2>3, QuietStep
<1>4. ASSUME NEW m \in Member, Submit(m) PROVE IInv'
  <2>1. [type |-> "SignatureBundle", from |-> m, round |-> loop[m]] \in Message
    BY DEF Message, IInv, TypeOK
  <2>2. UNCHANGED <<current, sigs, won, winners, late>> /\ TypeOK'
    BY <1>4, <2>1 DEF Submit, IInv, TypeOK
  <2>3. \A x \in net' : x \in net \/ x.type = "SignatureBundle"
    BY <1>4 DEF Submit
  <2> QED BY <2>2, <2>3, QuietStep
<1>5. ASSUME NEW m \in Member, Skip(m) \/ EndRound(m) PROVE IInv'
  <2>1. Return(m) /\ late' = late
    BY <1>5 DEF Skip, EndRound
  <2>2. Advanced(m, loop[m]) \/ (SigsFull(m, loop[m]) /\ won[m])
    BY <1>5 DEF Skip, EndRound
  <2> QED BY <1>0, <2>1, <2>2, ReturnStep
<1>6. ASSUME NEW m \in Member, TimeOut(m) PROVE IInv'
  <2>1. late' = late + 1 /\ late' \in 0..MaxLate /\ late' # 0
    BY <1>0, <1>6 DEF TimeOut
  <2>2. CASE Return(m)
    BY <2>1, <2>2, ReturnStep
  <2>3. CASE ~ Return(m)
    <3>1. UNCHANGED <<current, sigs, won, net, winners>> /\ TypeOK'
      BY <1>6, <2>1, <2>3 DEF TimeOut, IInv, TypeOK
    <3> QED BY <2>1, <3>1, QuietStep
  <2> QED BY <2>2, <2>3
<1>7. ASSUME NEW msg \in net, Receive(msg) PROVE IInv'
  <2>0. msg \in Message
    BY DEF IInv, TypeOK
  <2>1. CASE msg.type = "Ready" /\ OnReady(msg.to, msg)
    <3>1. msg.to \in Member /\ msg.from \in Member
      BY <2>0, <2>1 DEF Message
    <3>2. UNCHANGED <<current, sigs, won, winners, late>> /\ TypeOK' /\ net' \subseteq net
      BY <2>1, <3>1 DEF OnReady, IInv, TypeOK
    <3> QED BY <3>2, QuietStep
  <2>2. CASE msg.type = "ChallengeResponse" /\ OnChallengeResponse(msg.to, msg)
    <3>1. msg.to \in Member /\ msg.round \in 1..N
      BY <2>0, <2>2 DEF Message
    <3>2. /\ AdvanceTo(msg.to, msg.round)
          /\ sigs' = [sigs EXCEPT ![msg.to][msg.round] = @ \cup {msg.to}]
          /\ net' \subseteq (net \ {msg}) \cup NonceSigs(msg.to, msg.round)
          /\ UNCHANGED <<cached, heard, announced, pc, loop, won, winners, late>>
      BY <2>2 DEF OnChallengeResponse
    <3>3. {msg.to} \in SUBSET Member
      BY <3>1
    <3> QED BY <2>2, <3>1, <3>2, <3>3, NonceStep
  <2>3. CASE msg.type = "NonceSig" /\ OnNonceSig(msg.to, msg)
    <3>1. msg.to \in Member /\ msg.from \in Member /\ msg.round \in 1..N
      BY <2>0, <2>3 DEF Message
    <3>2. /\ AdvanceTo(msg.to, msg.round)
          /\ sigs' = [sigs EXCEPT ![msg.to][msg.round] = @ \cup {msg.to, msg.from}]
          /\ net' \subseteq (net \ {msg}) \cup NonceSigs(msg.to, msg.round)
          /\ UNCHANGED <<cached, heard, announced, pc, loop, won, winners, late>>
      BY <2>3 DEF OnNonceSig
    <3>3. {msg.to, msg.from} \in SUBSET Member
      BY <3>1
    <3> QED BY <2>3, <3>1, <3>2, <3>3, NonceStep
  <2>4. CASE msg.type = "RoundResult" /\ OnRoundResult(msg.to, msg)
    BY <2>4, ResultStep
  <2>5. CASE \/ msg.type = "ChallengeRequest" /\ AnswerRequest(msg)
             \/ msg.type = "SignatureBundle" /\ JudgeBundle(msg)
    BY <2>5, ServerStep
  <2> QED BY <1>7, <2>1, <2>2, <2>3, <2>4, <2>5 DEF Receive
<1>8. ASSUME NEW msg \in net, Lose(msg) PROVE IInv'
  <2>1. UNCHANGED <<current, sigs, won, winners>> /\ TypeOK' /\ net' \subseteq net
    BY <1>0, <1>8 DEF Lose, local, IInv, TypeOK
  <2>2. late' = late + 1
    BY <1>8 DEF Lose
  <2> QED BY <2>1, <2>2, QuietStep
<1>9. CASE UNCHANGED vars
  <2>1. UNCHANGED <<current, sigs, won, net, winners, late>> /\ TypeOK'
    BY <1>9 DEF vars, local, IInv, TypeOK
  <2> QED BY <2>1, QuietStep
<1> QED BY <1>1, <1>2, <1>3, <1>4, <1>5, <1>6, <1>7, <1>8, <1>9 DEF Next, Proceed

-----------------------------------------------------------------------------
\* The inductive invariant holds throughout.
LEMMA Invariance == Spec => []IInv
  BY InitIInv, NextIInv, PTL DEF Spec

\* For any number of members, losses and timeouts, every variable has its type: no
\* round beyond the last is ever entered, signed or counted.
THEOREM TypeCorrect == Spec => []TypeOK
<1>1. IInv => TypeOK
  BY DEF IInv
<1> QED BY <1>1, Invariance, PTL

\* No member believes to have won a round that the server did not record as its own.
THEOREM WinnersAreRecorded == Spec => []WonIsRecorded
<1>1. IInv => WonIsRecorded
  BY DEF IInv
<1> QED BY <1>1, Invariance, PTL

\* Without losses and timeouts only an earlier winner is ahead of the server, by one.
THEOREM NobodyRunsAhead == Spec => []AheadOnlyAsWinner
<1>1. IInv => AheadOnlyAsWinner
  BY DEF IInv
<1> QED BY <1>1, Invariance, PTL

\* No member signs for a round, or takes a signature for one, before the server has
\* issued its nonce: the rounds of all signatures are complete or live.
THEOREM SignedRoundsAreIssued == Spec => []SignaturesFollowTheServer
<1>1. IInv => SignaturesFollowTheServer
  BY DEF IInv
<1> QED BY <1>1, Invariance, PTL
=============================================================================

------------------------------- MODULE Rounds -------------------------------
(***************************************************************************)
(* The signature rounds of assignment_2/phase_2_community.py: the members  *)
(* find each other and the server, agree that they are ready, and then win *)
(* the server's rounds, each submitted by another member.                  *)
(*                                                                         *)
(* run_all_rounds is a coroutine: pc says which await it is at.  Handlers  *)
(* run between its steps, at any pc.  A nonce is the number of its round,  *)
(* as the server keeps to one nonce per round; sig_cache is the set of the *)
(* members whose signature is there.  A member signs in the step in which  *)
(* it learns the nonce, so it has the nonce iff it has its own signature.  *)
(*                                                                         *)
(* An assumption on the environment: only the server sends challenges.     *)
(* The code does not check it (_on_challenge_response takes a nonce from   *)
(* any peer of the community), whereas a signature must be a member's.     *)
(***************************************************************************)
EXTENDS Integers, FiniteSets

CONSTANTS
    Member,     \* the registered members; there are as many rounds
    MaxLate     \* bound on the waits that time out and the datagrams lost

ASSUME RoundsAssumption == IsFiniteSet(Member) /\ Member # {} /\ MaxLate \in Nat

N == Cardinality(Member)
Server == "server"

VARIABLES
    cached,     \* _server_peer and _teammate_peers
    heard,      \* _teammates_ready
    announced,  \* history: who ever broadcast a Ready
    pc,         \* where run_all_rounds waits
    loop,       \* the round of _do_round
    current,    \* _current_round; advance_event is set for the rounds below
    sigs,       \* sig_cache of every round
    won,        \* _has_won
    net,        \* the datagrams under way
    winners,    \* the server's record: who submitted the accepted bundle of each round
    late        \* counter for the bound

local == <<cached, heard, announced, pc, loop, current, sigs, won>>
vars  == <<local, net, winners, late>>

Message ==
    [type : {"Ready"}, from : Member, to : Member]
        \cup [type : {"NonceSig"}, from : Member, to : Member, round : 1..N]
        \cup [type : {"ChallengeRequest"}, from : Member]
        \cup [type : {"ChallengeResponse"}, to : Member, round : 1..N]
        \cup [type : {"SignatureBundle"}, from : Member, round : 1..N]
        \cup [type : {"RoundResult"}, to : Member, success : BOOLEAN, round : 1..N,
              completed : 0..N]

TypeOK ==
    /\ cached \in [Member -> SUBSET (Member \cup {Server})]
    /\ heard \in [Member -> SUBSET Member]
    /\ announced \in SUBSET Member
    /\ pc \in [Member -> {"discover", "handshake", "nonce", "sigs", "result", "done", "failed"}]
    /\ loop \in [Member -> 1..N]
    /\ current \in [Member -> 1..(N + 1)]
    /\ sigs \in [Member -> [1..N -> SUBSET Member]]
    /\ won \in [Member -> BOOLEAN]
    /\ net \in SUBSET Message
    /\ winners \in SUBSET Member
    /\ late \in 0..MaxLate

Init ==
    /\ cached = [m \in Member |-> {}]
    /\ heard = [m \in Member |-> {}]
    /\ announced = {}
    /\ pc = [m \in Member |-> "discover"]
    /\ loop = [m \in Member |-> 1]
    /\ current = [m \in Member |-> 1]
    /\ sigs = [m \in Member |-> [r \in 1..N |-> {}]]
    /\ won = [m \in Member |-> FALSE]
    /\ net = {}
    /\ winners = {}
    /\ late = 0

Others(m) == Member \ {m}
completed == Cardinality(winners)

\* _my_cache_ready, and _all_ready, which is looked at whenever either part changes.
CacheReady(m) == cached[m] = Others(m) \cup {Server}
AllReady(m)   == CacheReady(m) /\ heard[m] = Others(m)

HasNonce(m, r) == m \in sigs[m][r]
SigsFull(m, r) == sigs[m][r] = Member
Advanced(m, r) == r < current[m]

\* _advance_to(r)
AdvanceTo(m, r) == current' = [current EXCEPT ![m] = IF r > @ THEN r ELSE @]

Ready(m) == {[type |-> "Ready", from |-> m, to |-> p] : p \in cached[m] \ {Server}}

\* _broadcast_nonce_sig
NonceSigs(m, r) ==
    {[type |-> "NonceSig", from |-> m, to |-> p, round |-> r] : p \in cached[m] \ {Server}}

-----------------------------------------------------------------------------
(* Discovery and the handshake *)

\* _discover_all_peers finds a peer.
Discover(m) ==
    /\ pc[m] = "discover"
    /\ \E p \in (Others(m) \cup {Server}) \ cached[m] :
          cached' = [cached EXCEPT ![m] = @ \cup {p}]
    /\ UNCHANGED <<heard, announced, pc, loop, current, sigs, won, net, winners, late>>

\* The poll after the cache is full ends the discovery.
EndDiscovery(m) ==
    /\ pc[m] = "discover"
    /\ CacheReady(m)
    /\ pc' = [pc EXCEPT ![m] = "handshake"]
    /\ UNCHANGED <<cached, heard, announced, loop, current, sigs, won, net, winners, late>>

\* _readiness_handshake: until all are ready, Ready is broadcast every 0.2 seconds.
BroadcastReady(m) ==
    /\ pc[m] = "handshake"
    /\ ~ AllReady(m)
    /\ announced' = announced \cup {m}
    /\ net' = net \cup Ready(m)
    /\ UNCHANGED <<cached, heard, pc, loop, current, sigs, won, winners, late>>

OnReady(m, msg) ==
    /\ cached' = [cached EXCEPT ![m] = @ \cup {msg.from}]
    /\ heard' = [heard EXCEPT ![m] = @ \cup {msg.from}]
    /\ net' = net \ {msg}
    /\ UNCHANGED <<announced, pc, loop, current, sigs, won, winners, late>>

-----------------------------------------------------------------------------
(* The rounds *)

\* _do_round(r) begins: the server is asked unless the nonce is known already.
Begin(m, r) ==
    /\ pc' = [pc EXCEPT ![m] = "nonce"]
    /\ loop' = [loop EXCEPT ![m] = r]
    /\ net' = IF HasNonce(m, r) THEN net ELSE net \cup {[type |-> "ChallengeRequest", from |-> m]}

StartRounds(m) ==
    /\ pc[m] = "handshake"
    /\ AllReady(m)
    /\ Begin(m, 1)
    /\ UNCHANGED <<cached, heard, announced, current, sigs, won, winners, late>>

\* _do_round returns; the next one begins, unless it was the last.
Return(m) ==
    /\ AdvanceTo(m, loop[m] + 1)
    /\ IF loop[m] = N THEN pc' = [pc EXCEPT ![m] = "done"] /\ UNCHANGED <<loop, net>>
                      ELSE Begin(m, loop[m] + 1)
    /\ UNCHANGED <<cached, heard, announced, sigs, won, winners>>

GetNonce(m) ==
    /\ pc[m] = "nonce"
    /\ HasNonce(m, loop[m])
    /\ pc' = [pc EXCEPT ![m] = "sigs"]
    /\ UNCHANGED <<cached, heard, announced, loop, current, sigs, won, net, winners, late>>

\* The round is over, or this member has won one before.
Skip(m) ==
    /\ pc[m] = "sigs"
    /\ \/ Advanced(m, loop[m])
       \/ SigsFull(m, loop[m]) /\ won[m]
    /\ Return(m)
    /\ UNCHANGED late

Submit(m) ==
    /\ pc[m] = "sigs"
    /\ SigsFull(m, loop[m]) /\ ~ Advanced(m, loop[m]) /\ ~ won[m]
    /\ pc' = [pc EXCEPT ![m] = "result"]
    /\ net' = net \cup {[type |-> "SignatureBundle", from |-> m, round |-> loop[m]]}
    /\ UNCHANGED <<cached, heard, announced, loop, current, sigs, won, winners, late>>

EndRound(m) ==
    /\ pc[m] = "result"
    /\ Advanced(m, loop[m])
    /\ Return(m)
    /\ UNCHANGED late

\* A wait ends without its event: the handshake raises, a round is given up.
TimeOut(m) ==
    /\ late < MaxLate
    /\ late' = late + 1
    /\ \/ /\ \/ pc[m] = "discover" /\ ~ CacheReady(m)
             \/ pc[m] = "handshake" /\ ~ AllReady(m)
          /\ pc' = [pc EXCEPT ![m] = "failed"]
          /\ UNCHANGED <<cached, heard, announced, loop, current, sigs, won, net, winners>>
       \/ /\ \/ pc[m] = "nonce" /\ ~ HasNonce(m, loop[m])
             \/ pc[m] = "sigs" /\ ~ SigsFull(m, loop[m]) /\ ~ Advanced(m, loop[m])
             \/ pc[m] = "result" /\ ~ Advanced(m, loop[m])
          /\ Return(m)

-----------------------------------------------------------------------------
(* Handlers *)

\* Mutant of OnChallengeResponse: the round of the nonce is taken for a finished one.
OnChallengeResponseAhead(m, msg) ==
    /\ AdvanceTo(m, msg.round + 1)
    /\ sigs' = [sigs EXCEPT ![m][msg.round] = @ \cup {m}]
    /\ net' = (net \ {msg}) \cup (IF HasNonce(m, msg.round) THEN {} ELSE NonceSigs(m, msg.round))
    /\ UNCHANGED <<cached, heard, announced, pc, loop, won, winners, late>>

OnChallengeResponse(m, msg) ==
    /\ AdvanceTo(m, msg.round)
    /\ sigs' = [sigs EXCEPT ![m][msg.round] = @ \cup {m}]
    /\ net' = (net \ {msg}) \cup (IF HasNonce(m, msg.round) THEN {} ELSE NonceSigs(m, msg.round))
    /\ UNCHANGED <<cached, heard, announced, pc, loop, won, winners, late>>

\* Mutant of OnNonceSig: the signature that brings the nonce is not kept.
OnNonceSigForgets(m, msg) ==
    /\ AdvanceTo(m, msg.round)
    /\ sigs' = [sigs EXCEPT ![m][msg.round] =
                   @ \cup {m} \cup (IF HasNonce(m, msg.round) THEN {msg.from} ELSE {})]
    /\ net' = (net \ {msg}) \cup (IF HasNonce(m, msg.round) THEN {} ELSE NonceSigs(m, msg.round))
    /\ UNCHANGED <<cached, heard, announced, pc, loop, won, winners, late>>

OnNonceSig(m, msg) ==
    /\ AdvanceTo(m, msg.round)
    /\ sigs' = [sigs EXCEPT ![m][msg.round] = @ \cup {m, msg.from}]
    /\ net' = (net \ {msg}) \cup (IF HasNonce(m, msg.round) THEN {} ELSE NonceSigs(m, msg.round))
    /\ UNCHANGED <<cached, heard, announced, pc, loop, won, winners, late>>

\* Mutant of OnRoundResult: every answer for a round that is not over counts as won.
OnRoundResultWins(m, msg) ==
    /\ won' = [won EXCEPT ![m] = @ \/ msg.round >= current[m]]
    /\ AdvanceTo(m, msg.completed + 1)
    /\ net' = net \ {msg}
    /\ UNCHANGED <<cached, heard, announced, pc, loop, sigs, winners, late>>

\* Mutant of OnRoundResult: the next round is taken to be the one after it.
OnRoundResultLeaps(m, msg) ==
    /\ won' = [won EXCEPT ![m] = @ \/ (msg.success /\ msg.round >= current[m])]
    /\ AdvanceTo(m, msg.completed + 2)
    /\ net' = net \ {msg}
    /\ UNCHANGED <<cached, heard, announced, pc, loop, sigs, winners, late>>

OnRoundResult(m, msg) ==
    /\ won' = [won EXCEPT ![m] = @ \/ (msg.success /\ msg.round >= current[m])]
    /\ AdvanceTo(m, msg.completed + 1)
    /\ net' = net \ {msg}
    /\ UNCHANGED <<cached, heard, announced, pc, loop, sigs, winners, late>>

-----------------------------------------------------------------------------
(* The server and the network *)

RoundResult(m, success, r, n) ==
    [type |-> "RoundResult", to |-> m, success |-> success, round |-> r, completed |-> n]

\* The server's answer to a request: the nonce of the live round, if there is one.
AnswerRequest(msg) ==
    /\ net' = (net \ {msg}) \cup
          {IF completed = N THEN RoundResult(msg.from, FALSE, N, N)
           ELSE [type |-> "ChallengeResponse", to |-> msg.from, round |-> completed + 1]}
    /\ UNCHANGED <<local, winners, late>>

\* Its verdict: right if the round is live and the submitter has won none before.
JudgeBundle(msg) ==
    LET success == msg.round = completed + 1 /\ msg.from \notin winners IN
    /\ winners' = IF success THEN winners \cup {msg.from} ELSE winners
    /\ net' = (net \ {msg}) \cup
          {RoundResult(msg.from, success, msg.round, Cardinality(winners'))}
    /\ UNCHANGED <<local, late>>

Receive(msg) ==
    \/ msg.type = "Ready"             /\ OnReady(msg.to, msg)
    \/ msg.type = "ChallengeResponse" /\ OnChallengeResponse(msg.to, msg)
    \/ msg.type = "NonceSig"          /\ OnNonceSig(msg.to, msg)
    \/ msg.type = "RoundResult"       /\ OnRoundResult(msg.to, msg)
    \/ msg.type = "ChallengeRequest"  /\ AnswerRequest(msg)
    \/ msg.type = "SignatureBundle"   /\ JudgeBundle(msg)

Lose(msg) ==
    /\ late < MaxLate
    /\ late' = late + 1
    /\ net' = net \ {msg}
    /\ UNCHANGED <<local, winners>>

Proceed(m) ==
    \/ Discover(m) \/ EndDiscovery(m) \/ BroadcastReady(m) \/ StartRounds(m)
    \/ GetNonce(m) \/ Skip(m) \/ Submit(m) \/ EndRound(m)

Next ==
    \/ \E m \in Member : Proceed(m) \/ TimeOut(m)
    \/ \E msg \in net : Receive(msg) \/ Lose(msg)

\* The peers are found, the coroutines resume, and what is not lost arrives.  A wait
\* that could still end does not time out by fairness: TimeOut has none.
Fairness ==
    /\ \A m \in Member : WF_vars(Proceed(m))
    /\ \A msg \in Message : WF_vars(msg \in net /\ Receive(msg))

Spec == Init /\ [][Next]_vars
FairSpec == Spec /\ Fairness

-----------------------------------------------------------------------------
(* Properties *)

\* A member that thinks it has won is the recorded submitter of a round, so it never
\* withholds the signatures of a round that it could still win (line 185).
WonIsRecorded == \A m \in Member : won[m] => m \in winners

\* As long as no wait times out, a member is past a round that the server has not
\* completed only by skipping it as an earlier winner, and only by one round.
AheadOnlyAsWinner ==
    late = 0 => \A m \in Member :
        \/ current[m] <= completed + 1
        \/ won[m] /\ current[m] = completed + 2

\* A member that was ready before it ever announced itself never does (line 353).
Silent(m) == AllReady(m) /\ m \notin announced
Started(m) == pc[m] \in {"nonce", "sigs", "result", "done"}

\* If nothing is lost and no wait times out, every round is won, each by another
\* member, provided that every member announced itself before it was ready to start.
WinsUnlessLateOrSilent ==
    [](late = 0 /\ \A m \in Member : ~ Silent(m)) => <>(winners = Member)

\* The log of _check_my_cache_ready: "local peer cache full -- announcing readiness".
\* So if nothing is lost and no wait times out, every member starts.
EverybodyStarts == [](late = 0) => <>(\A m \in Member : Started(m))
=============================================================================

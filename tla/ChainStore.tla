------------------------------ MODULE ChainStore ------------------------------
(***************************************************************************)
(* What the storage promises to Blockchain, without files: a start finds   *)
(* the chain that was stored last.  append puts one block on top of it,    *)
(* replace_all is asked for another chain and at one moment takes effect;  *)
(* if the process dies before that, it never does.  Nothing else, not the  *)
(* compaction, not a crash and not a start, changes what is stored.        *)
(***************************************************************************)
EXTENDS Integers

VARIABLES stored,   \* the blocks that load() would return
          asked     \* the chain of the replace_all that has yet to take effect, if any

Heights(S) == {b.h : b \in S}

Init == stored = {} /\ asked = {}

Append ==
    /\ asked = {} /\ UNCHANGED asked
    /\ \E b \in stored' : Heights(stored) = 0..b.h - 1 /\ stored' = stored \cup {b}

\* The chain that is asked for is not shorter.
Ask ==
    /\ asked = {}
    /\ \E chain \in asked' : Heights(stored) \subseteq Heights(chain) /\ asked' = {chain}
    /\ UNCHANGED stored

TakeEffect == stored' \in asked /\ asked' = {}

Die == asked' = {} /\ UNCHANGED stored

Next == Die \/ Append \/ Ask \/ TakeEffect

Spec == Init /\ [][Next]_<<stored, asked>>
===============================================================================

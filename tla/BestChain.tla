------------------------------ MODULE BestChain ------------------------------
(***************************************************************************)
(* What a node's blockchain promises to the rest of the program, without   *)
(* orphans, reorganisations or storage: it knows a growing set of headers  *)
(* and its tip is the best of them; a restart may forget headers, never    *)
(* the tip.                                                                *)
(***************************************************************************)
EXTENDS Integers

CONSTANTS Hash, Genesis

VARIABLES known,    \* the headers <<hash, height>> connected to genesis
          tip       \* the hash and height of the best one

\* x is taller than y, or as tall with a smaller hash.
Beats(x, y) == x[2] > y[2] \/ (x[2] = y[2] /\ x[1] < y[1])

Init == known = {<<Genesis, 0>>} /\ tip = <<Genesis, 0>>

Learn ==
    /\ known \subseteq known'
    /\ tip' \in known'
    /\ \A x \in known' : ~ Beats(x, tip')

Forget ==
    /\ known' \subseteq known
    /\ tip' \in known'
    /\ tip' = tip

Spec == Init /\ [][Learn \/ Forget]_<<known, tip>>
=============================================================================

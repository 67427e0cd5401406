------------------------------- MODULE Mempool -------------------------------
(***************************************************************************)
(* class Mempool of blockchain/mempool.py: the pending transactions, as    *)
(* many as max_size, the ones with the highest priority first.             *)
(*                                                                         *)
(* A transaction is the number it is ranked by, its timestamp (the default *)
(* key_fn); two transactions with one timestamp are left out.              *)
(***************************************************************************)
EXTENDS Integers, FiniteSets

CONSTANTS
    Tx,         \* the transactions that occur
    MaxSize     \* max_size

ASSUME MempoolAssumption == Tx \in SUBSET Nat /\ MaxSize \in Nat \ {0}

Worst(pool) == CHOOSE t \in pool : \A u \in pool : t <= u

\* add(t): a full pool drops its worst transaction, if t ranks above it.
Add(pool, t) ==
    IF t \in pool \/ Cardinality(pool) < MaxSize THEN pool \cup {t}
    ELSE IF t <= Worst(pool) THEN pool
    ELSE (pool \ {Worst(pool)}) \cup {t}

\* The value that add(t) returns.
Accepts(pool, t) == t \notin pool /\ t \in Add(pool, t)

\* The max_count best of the pool, in no order: get_pending.
Pending(pool, max_count) == {t \in pool : Cardinality({u \in pool : u > t}) < max_count}

\* add called for every transaction of S, in any order, leaves the best of all.
AddAll(pool, S) == Pending(pool \cup S, MaxSize)

RemoveIncluded(pool, S) == pool \ S
=============================================================================

--------------------------- MODULE DiscoveryLog ---------------------------
(***************************************************************************)
(* What the hash cache promises, without threads, locks, batches or        *)
(* failures: every discovery of an info hash is counted once, it is        *)
(* pending until it is persisted, and persisting moves counts from one     *)
(* side to the other.  HashCache is shown to implement this module.        *)
(***************************************************************************)
EXTENDS Naturals

CONSTANT Hash

VARIABLES
    pending,      \* discoveries of each hash held in memory
    persisted     \* discoveries of each hash written to the database

logVars == <<pending, persisted>>

LogInit ==
    /\ pending = [h \in Hash |-> 0]
    /\ persisted = [h \in Hash |-> 0]

Discover(h) ==
    /\ pending' = [pending EXCEPT ![h] = @ + 1]
    /\ UNCHANGED persisted

\* A batch is part of what is pending; all of it moves in one step.
Persist(batch) ==
    /\ \A h \in Hash : batch[h] <= pending[h]
    /\ pending' = [h \in Hash |-> pending[h] - batch[h]]
    /\ persisted' = [h \in Hash |-> persisted[h] + batch[h]]

\* The batch of a step is what the step adds to persisted, which lets TLC
\* evaluate the quantifier without enumerating all batches.
LogNext ==
    \/ \E h \in Hash : Discover(h)
    \/ Persist([h \in Hash |-> persisted'[h] - persisted[h]])
        /\ \A h \in Hash : persisted'[h] >= persisted[h]

LogSpec == LogInit /\ [][LogNext]_logVars
=============================================================================

---------------------------- MODULE LedgerStream ----------------------------
(***************************************************************************)
(* What the ledger ingestion of the Rust SDK promises its caller, without  *)
(* processes, restarts and sources: every call that brings a ledger brings *)
(* the one that is due.  A source is taken at its word: what is due        *)
(* follows from the last number a source has given, whether or not that    *)
(* was the number of the ledger it had been asked for.                     *)
(***************************************************************************)
EXTENDS Integers, Sequences

CONSTANTS
    First,      \* the ledger to begin with
    Last,       \* the largest sequence number
    NONE

VARIABLES
    handed,     \* what the call has brought: << the ledger that was due, the number
                \* it came with, or NONE >>; << >> while it has brought nothing
    behind,     \* the last number a ledger came with
    passed      \* ledgers brought without a number since

streamVars == << handed, behind, passed >>

StreamInit == handed = << >> /\ behind = First - 1 /\ passed = {}

\* Every ledger between the last one with a number and k has been brought.  One
\* without a number stays due as well: after a restart it is asked for again, and
\* so is the ledger with the largest number there is.
Due(k) ==
    \/ behind < k /\ k <= Last /\ behind + 1 .. k - 1 \subseteq passed
    \/ k = Last /\ k = behind

Call == handed' = << >> /\ UNCHANGED << behind, passed >>

BringNumbered(k, number) ==
    /\ handed = << >> /\ Due(k)
    /\ handed' = << k, number >>
    /\ behind' = number
    /\ passed' = {}

BringUnnumbered(k) ==
    /\ handed = << >> /\ Due(k)
    /\ handed' = << k, NONE >>
    /\ passed' = passed \cup {k}
    /\ UNCHANGED behind

StreamNext ==
    \/ Call
    \/ \E k \in 0 .. Last : BringUnnumbered(k)
    \/ \E k \in 0 .. Last, number \in 0 .. Last : BringNumbered(k, number)

StreamSpec == StreamInit /\ [][StreamNext]_streamVars

=============================================================================

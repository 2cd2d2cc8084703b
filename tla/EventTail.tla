------------------------------ MODULE EventTail ------------------------------
(***************************************************************************)
(* What a bookmarked tail of several append-only logs promises, whatever    *)
(* the way it reads them.  A log's records are named by their position.     *)
(* The tail keeps a durable checkpoint per log, remembers nothing else      *)
(* across a restart, and lets a checkpoint pass a record only when that     *)
(* record is accounted for: read, given up as unreadable, or older than     *)
(* the look-back window of a query that had no checkpoint.                  *)
(***************************************************************************)
EXTENDS Integers

CONSTANT NumLogs        \* how many logs are tailed

Logs == 1..NumLogs

VARIABLES
    written,        \* written[c]: the records of log c so far that matter, as positions
    accounted,      \* the <<c, i>> read, given up or out of the window
    checkpoint,     \* checkpoint[c]: the durable position of log c, 0 when there is none
    trusted         \* FALSE while a tail runs that could not read its checkpoints

tailVars == <<written, accounted, checkpoint, trusted>>

Init ==
    /\ written = [c \in Logs |-> {}]
    /\ accounted = {}
    /\ checkpoint = [c \in Logs |-> 0]
    /\ trusted = TRUE

\* Logs grow; what is already checkpointed cannot be written any more.
Write ==
    /\ written' \in [Logs -> SUBSET Nat]
    /\ \A c \in Logs : /\ written[c] \subseteq written'[c]
                       /\ \A i \in written'[c] \ written[c] : i > checkpoint[c]
    /\ UNCHANGED <<accounted, checkpoint, trusted>>

\* The tail settles some records, and never unsettles one.
Account ==
    /\ accounted \subseteq accounted'
    /\ UNCHANGED <<written, checkpoint, trusted>>

\* The tail moves its checkpoints.  They cover settled records only, and a tail
\* that trusts its checkpoints moves none of them back.
Checkpoint ==
    /\ checkpoint' \in [Logs -> Nat]
    /\ \A c \in Logs : \A i \in written[c] :
           i <= checkpoint'[c] => <<c, i>> \in accounted
    /\ trusted => \A c \in Logs : checkpoint[c] <= checkpoint'[c]
    /\ UNCHANGED <<written, accounted, trusted>>

\* A restart, with checkpoints that could be read or not.
Restart ==
    /\ trusted' \in BOOLEAN
    /\ UNCHANGED <<written, accounted, checkpoint>>

Next ==
    \/ Write
    \/ Account
    \/ Checkpoint
    \/ Restart

Spec == Init /\ [][Next]_tailVars

=============================================================================

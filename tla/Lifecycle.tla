------------------------------ MODULE Lifecycle ------------------------------
(***************************************************************************)
(* What a scheduler of jobs promises to the host that turns it on and off,  *)
(* whatever threads, locks and files it is made of.  It is turned on once   *)
(* and off once.  A worker takes up a job only while it is on, and only     *)
(* when no worker has one: jobs never overlap.  One of the workers, the     *)
(* walker, runs jobs by walks: a walk takes some of the jobs that are       *)
(* registered, each of them once, and the registered jobs do not change     *)
(* until the walk is over.  When the scheduler says that it is off the      *)
(* walker is in no job, and never will be.                                  *)
(***************************************************************************)

CONSTANTS
    Jobs,     \* what can be registered
    Workers,  \* who runs jobs
    Walker    \* the worker that walks through the registered jobs

VARIABLES
    phase,      \* "off", "on", "ending" (told to turn off) or "over"
    registered, \* the jobs that are registered
    walking,    \* is a walk under way
    due,        \* the jobs that the walk has still to come to
    busy        \* the workers that have taken up a job, and not ended it

vars == <<phase, registered, walking, due, busy>>

Init ==
    /\ phase = "off"
    /\ registered = {}
    /\ walking = FALSE
    /\ due = {}
    /\ busy = {}

TurnOn ==
    /\ phase = "off"
    /\ phase' = "on"
    /\ UNCHANGED <<registered, walking, due, busy>>

\* Jobs may be interrupted.
TurnOff ==
    /\ phase = "on"
    /\ phase' = "ending"
    /\ busy' \subseteq busy
    /\ UNCHANGED <<registered, walking, due>>

Over ==
    /\ phase = "ending"
    /\ ~walking
    /\ phase' = "over"
    /\ UNCHANGED <<registered, walking, due, busy>>

Register ==
    /\ ~walking
    /\ registered' \in SUBSET Jobs
    /\ UNCHANGED <<phase, walking, due, busy>>

BeginWalk ==
    /\ ~walking
    /\ walking' = TRUE
    /\ due' \in SUBSET registered
    /\ UNCHANGED <<phase, registered, busy>>

\* The walk comes to a job, and runs it if the scheduler is on.
Visit(j) ==
    /\ walking
    /\ busy = {}
    /\ j \in due
    /\ due' = due \ {j}
    /\ busy' = IF phase = "on" THEN {Walker} ELSE busy
    /\ UNCHANGED <<phase, registered, walking>>

EndWalk ==
    /\ walking
    /\ Walker \notin busy
    /\ due = {}
    /\ walking' = FALSE
    /\ UNCHANGED <<phase, registered, due, busy>>

\* The other workers run jobs of their own.
BeginJob(w) ==
    /\ phase = "on"
    /\ busy = {}
    /\ busy' = {w}
    /\ UNCHANGED <<phase, registered, walking, due>>

EndJob(w) ==
    /\ w \in busy
    /\ busy' = busy \ {w}
    /\ UNCHANGED <<phase, registered, walking, due>>

\* The walker is killed with the process, wherever it is.
Kill ==
    /\ walking' = FALSE
    /\ due' = {}
    /\ busy' = busy \ {Walker}
    /\ UNCHANGED <<phase, registered>>

Next ==
    \/ TurnOn \/ TurnOff \/ Over
    \/ Register
    \/ BeginWalk \/ EndWalk \/ Kill
    \/ \E j \in Jobs : Visit(j)
    \/ \E w \in Workers : EndJob(w) \/ (w # Walker /\ BeginJob(w))

Spec == Init /\ [][Next]_vars

=============================================================================

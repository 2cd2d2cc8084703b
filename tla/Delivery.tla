------------------------------- MODULE Delivery -------------------------------
(***************************************************************************)
(* What a caller may expect of a sender that retries over a lossy network,  *)
(* however the sender logs in.  A call makes at most Attempts attempts.  An *)
(* attempt that the receiver takes either is answered, which ends the call  *)
(* with "ok", or stays unheard, and then the sender may try again.  Between *)
(* two calls nothing is sent, so an answer once given stands.               *)
(***************************************************************************)
EXTENDS Integers

CONSTANT Attempts   \* how many attempts a call makes at most

VARIABLES
    calling,    \* is a call under way
    taken,      \* how often the receiver has taken what the call sends
    unheard,    \* has an attempt been taken without an answer that came through
    answer      \* what the last call returned, "none" before that

vars == <<calling, taken, unheard, answer>>

Init ==
    /\ calling = FALSE
    /\ taken = 0
    /\ unheard = FALSE
    /\ answer = "none"

Call ==
    /\ ~calling
    /\ calling' = TRUE
    /\ taken' = 0
    /\ unheard' = FALSE
    /\ answer' = "none"

Take == calling /\ taken < Attempts /\ taken' = taken + 1

TakeHeard ==
    /\ Take
    /\ calling' = FALSE
    /\ answer' = "ok"
    /\ UNCHANGED unheard

TakeUnheard ==
    /\ Take
    /\ unheard' = TRUE
    /\ \/ UNCHANGED <<calling, answer>>
       \/ calling' = FALSE /\ answer' = "failed"

GiveUp ==
    /\ calling
    /\ calling' = FALSE
    /\ answer' = "failed"
    /\ UNCHANGED <<taken, unheard>>

Next == Call \/ TakeHeard \/ TakeUnheard \/ GiveUp

Spec == Init /\ [][Next]_vars

=============================================================================

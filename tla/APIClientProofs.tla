-------------------------- MODULE APIClientProofs ---------------------------
(***************************************************************************)
(* What APIClient does for any backoff, any request duration and any number *)
(* of faults and changes: an undisturbed call delivers, the caller is told  *)
(* what the backend holds, and a sender is the one Delivery describes.      *)
(***************************************************************************)
EXTENDS APIClient, TLAPS

\* The header is built from the token, always.
HeaderInv == header = token

\* A running call has told nothing yet; each body the backend took in an earlier
\* attempt has lost its answer.
ProgressInv ==
    pc # "idle" =>
        /\ result = "none"
        /\ copies <= attempt
        /\ copies > 0 => unanswered

\* A clean call meets at most one 401, in its first attempt, and the login that
\* follows is not barred.
CleanInv ==
    clean =>
        /\ result # "failed"
        /\ pc # "idle" => hasCredentials /\ accepted
        /\ pc = "send" /\ attempt = 1 => header = "valid"
        /\ pc \in {"refresh", "login", "authenticating"} => attempt = 0
        /\ pc = "login" => rejected \/ backoff = 0
        /\ pc = "refresh" => rejected

\* TypeOK in two parts: the truth values, and the rest.
Flags ==
    /\ hasCredentials \in BOOLEAN /\ accepted \in BOOLEAN
    /\ rejected \in BOOLEAN
    /\ clean \in BOOLEAN /\ unanswered \in BOOLEAN

Data ==
    /\ token \in AccessTokens /\ header \in AccessTokens
    /\ refresh \in RefreshTokens
    /\ backoff \in 0..Backoff
    /\ pc \in {"idle", "login", "authenticating", "refresh", "send"}
    /\ attempt \in 0..1
    /\ result \in {"none", "ok", "failed"}
    /\ copies \in 0..2
    /\ faults \in 0..MaxFaults /\ changes \in 0..MaxChanges

IInv ==
    /\ TypeOK
    /\ HeaderInv
    /\ ProgressInv
    /\ AnswerTellsDelivery
    /\ CleanInv
-----------------------------------------------------------------------------

LEMMA AfterType ==
    ASSUME NEW t \in 0..Backoff, NEW d \in Nat
    PROVE  After(t, d) \in 0..Backoff /\ (t = 0 => After(t, d) = 0)
BY APIClientAssumption DEF After

LEMMA InitEstablishes == Init => IInv
<1> SUFFICES ASSUME Init PROVE IInv
    OBVIOUS
<1>1. Flags
    BY Zenon DEF Init, Flags
<1>2. Data
    BY APIClientAssumption DEF Init, Data, AccessTokens, RefreshTokens
<1>3. HeaderInv /\ ProgressInv /\ AnswerTellsDelivery /\ CleanInv
    BY DEF Init, HeaderInv, ProgressInv, AnswerTellsDelivery, CleanInv
<1> QED
    BY <1>1, <1>2, <1>3 DEF IInv, TypeOK, Flags, Data

LEMMA FlagStep == IInv /\ [Next]_vars => Flags'
<1> SUFFICES ASSUME IInv, [Next]_vars PROVE Flags'
    OBVIOUS
<1> USE DEF IInv, TypeOK, Flags, Return, configVars, tokenVars, callVars, histVars
<1>1. CASE CheckToken
    BY Zenon, <1>1 DEF CheckToken
<1>2. CASE LoginBarred
    BY Zenon, <1>2 DEF LoginBarred
<1>3. CASE LoginWithoutCredentials
    BY Zenon, <1>3 DEF LoginWithoutCredentials
<1>4. CASE LoginBegin
    BY Zenon, <1>4 DEF LoginBegin
<1>5. CASE LoginSucceeds
    BY Zenon, <1>5 DEF LoginSucceeds, TakeToken, Proceed, Retry
<1>6. ASSUME NEW d \in Durations, Accept(d)
     PROVE  Flags'
    BY Zenon, <1>6 DEF Accept
<1>7. ASSUME NEW d \in Durations, Reject(d)
     PROVE  Flags'
    BY Zenon, <1>7 DEF Reject
<1>8. ASSUME NEW d \in Durations, RefreshSucceeds(d)
     PROVE  Flags'
    BY Zenon, <1>8 DEF RefreshSucceeds, TakeToken, Proceed, Retry
<1>9. ASSUME NEW d \in Durations, RefreshRefused(d)
     PROVE  Flags'
    BY Zenon, <1>9 DEF RefreshRefused
<1>10. ASSUME NEW d \in Durations, LoginRefused(d)
     PROVE  Flags'
    BY Zenon, <1>10 DEF LoginRefused, LoginFails
<1>11. ASSUME NEW d \in Durations, HttpError(d)
     PROVE  Flags'
    BY Zenon, <1>11 DEF HttpError
<1>12. ASSUME NEW d \in Durations, LoginLost(d)
     PROVE  Flags'
    BY Zenon, <1>12 DEF LoginLost, LoginFails
<1>13. ASSUME NEW d \in Durations, NEW taken \in BOOLEAN, Lost(d, taken)
     PROVE  Flags'
    BY Zenon, <1>13 DEF Lost, Retry
<1>14. ASSUME NEW d \in Durations, NEW taken \in BOOLEAN, RefreshLost(d, taken)
     PROVE  Flags'
    BY Zenon, <1>14 DEF RefreshLost
<1>15. CASE Expire
    BY Zenon, <1>15 DEF Expire, Expired
<1>16. CASE ChangeAccount
    BY Zenon, <1>16 DEF ChangeAccount
<1>17. CASE Tick
    BY Zenon, <1>17 DEF Tick
<1>18. CASE UNCHANGED vars
    BY Zenon, <1>18 DEF vars
<1> QED
    BY <1>1, <1>2, <1>3, <1>4, <1>5, <1>6, <1>7, <1>8, <1>9, <1>10, <1>11, <1>12, <1>13, <1>14, <1>15, <1>16, <1>17, <1>18
    DEF Next, Work, Disturbance

LEMMA TypeStep == IInv /\ [Next]_vars => TypeOK'
<1> SUFFICES ASSUME IInv, [Next]_vars PROVE Data'
    BY FlagStep DEF TypeOK, Flags, Data
<1> USE APIClientAssumption, AfterType
    DEF IInv, TypeOK, Data, ProgressInv, AccessTokens, RefreshTokens, Durations, Return, Waits, Fault,
        configVars, tokenVars, callVars, histVars
<1>1. CASE CheckToken
    BY <1>1 DEF CheckToken
<1>2. CASE LoginBarred
    BY <1>2 DEF LoginBarred
<1>3. CASE LoginWithoutCredentials
    BY <1>3 DEF LoginWithoutCredentials
<1>4. CASE LoginBegin
    BY <1>4 DEF LoginBegin
<1>5. CASE LoginSucceeds
    BY <1>5 DEF LoginSucceeds, TakeToken, Proceed, Retry
<1>6. ASSUME NEW d \in Durations, Accept(d)
     PROVE  Data'
    <2>1. pc = "send" /\ pc' = "idle" /\ result' = "ok" /\ copies' = copies + 1
        BY <1>6 DEF Accept
    <2>2. copies <= 1
        BY <2>1
    <2>3. backoff' \in 0..Backoff
        BY <1>6 DEF Accept
    <2> QED
        BY <1>6, <2>1, <2>2, <2>3 DEF Accept
<1>7. ASSUME NEW d \in Durations, Reject(d)
     PROVE  Data'
    BY <1>7 DEF Reject
<1>8. ASSUME NEW d \in Durations, RefreshSucceeds(d)
     PROVE  Data'
    <2>1. backoff' \in 0..Backoff
        BY <1>8 DEF RefreshSucceeds
    <2>2. pc' \in {"idle", "send"} /\ attempt' \in 0..1 /\ result' \in {"none", "ok", "failed"}
        <3>1. Proceed
            BY <1>8 DEF RefreshSucceeds
        <3>2. CASE rejected
            BY <3>1, <3>2 DEF Proceed, Retry
        <3>3. CASE ~rejected
            BY <3>1, <3>3 DEF Proceed
        <3> QED
            BY <3>2, <3>3
    <2> QED
        BY <1>8, <2>1, <2>2 DEF RefreshSucceeds, TakeToken
<1>9. ASSUME NEW d \in Durations, RefreshRefused(d)
     PROVE  Data'
    BY <1>9 DEF RefreshRefused
<1>10. ASSUME NEW d \in Durations, LoginRefused(d)
     PROVE  Data'
    BY <1>10 DEF LoginRefused, LoginFails
<1>11. ASSUME NEW d \in Durations, HttpError(d)
     PROVE  Data'
    BY <1>11 DEF HttpError
<1>12. ASSUME NEW d \in Durations, LoginLost(d)
     PROVE  Data'
    BY <1>12 DEF LoginLost, LoginFails
<1>13. ASSUME NEW d \in Durations, NEW taken \in BOOLEAN, Lost(d, taken)
     PROVE  Data'
    <2>1. copies <= 1 /\ copies' \in 0..2
        <3>1. pc = "send"
            BY <1>13 DEF Lost
        <3>2. copies <= 1
            BY <3>1
        <3>3. CASE taken
            BY <1>13, <3>2, <3>3 DEF Lost
        <3>4. CASE ~taken
            BY <1>13, <3>2, <3>4 DEF Lost
        <3> QED
            BY <3>2, <3>3, <3>4
    <2>2. backoff' \in 0..Backoff
        BY <1>13 DEF Lost
    <2>3. pc' \in {"idle", "send"} /\ attempt' \in 0..1 /\ result' \in {"none", "ok", "failed"}
        <3>1. Retry
            BY <1>13 DEF Lost
        <3> QED
            BY <3>1 DEF Retry
    <2> QED
        BY <1>13, <2>1, <2>2, <2>3 DEF Lost
<1>14. ASSUME NEW d \in Durations, NEW taken \in BOOLEAN, RefreshLost(d, taken)
     PROVE  Data'
    BY <1>14 DEF RefreshLost
<1>15. CASE Expire
    BY <1>15 DEF Expire, Expired
<1>16. CASE ChangeAccount
    BY <1>16 DEF ChangeAccount
<1>17. CASE Tick
    BY <1>17 DEF Tick
<1>18. CASE UNCHANGED vars
    BY <1>18 DEF vars
<1> QED
    BY <1>1, <1>2, <1>3, <1>4, <1>5, <1>6, <1>7, <1>8, <1>9, <1>10, <1>11, <1>12, <1>13, <1>14, <1>15, <1>16, <1>17, <1>18
    DEF Next, Work, Disturbance

LEMMA InvStep == IInv /\ [Next]_vars => IInv'
<1> SUFFICES ASSUME IInv, [Next]_vars
    PROVE  HeaderInv' /\ ProgressInv' /\ AnswerTellsDelivery' /\ CleanInv'
    BY TypeStep DEF IInv
<1> USE APIClientAssumption, AfterType
    DEF IInv, TypeOK, HeaderInv, ProgressInv, AnswerTellsDelivery, CleanInv, Durations,
        Return, Waits, configVars, tokenVars, callVars, histVars
<1>1. CASE CheckToken
    <2>1. HeaderInv'
        BY <1>1 DEF CheckToken
    <2>2. ProgressInv'
        BY <1>1 DEF CheckToken
    <2>3. AnswerTellsDelivery'
        BY <1>1 DEF CheckToken
    <2>4. CleanInv'
        <3>1. clean' => hasCredentials /\ accepted /\ (token # "none" \/ backoff = 0)
            BY Zenon, <1>1 DEF CheckToken
        <3> QED
            BY <1>1, <3>1 DEF CheckToken
    <2> QED
        BY <2>1, <2>2, <2>3, <2>4
<1>2. CASE LoginBarred
    BY <1>2 DEF LoginBarred
<1>3. CASE LoginWithoutCredentials
    BY <1>3 DEF LoginWithoutCredentials
<1>4. CASE LoginBegin
    BY <1>4 DEF LoginBegin
<1>5. CASE LoginSucceeds
    BY <1>5 DEF LoginSucceeds, TakeToken, Proceed, Retry
<1>6. ASSUME NEW d \in Durations, Accept(d)
     PROVE  HeaderInv' /\ ProgressInv' /\ AnswerTellsDelivery' /\ CleanInv'
    <2>1. HeaderInv'
        BY <1>6 DEF Accept
    <2>2. ProgressInv'
        BY <1>6 DEF Accept
    <2>3. AnswerTellsDelivery'
        BY <1>6 DEF Accept
    <2>4. CleanInv'
        BY <1>6 DEF Accept
    <2> QED
        BY <2>1, <2>2, <2>3, <2>4
<1>7. ASSUME NEW d \in Durations, Reject(d)
     PROVE  HeaderInv' /\ ProgressInv' /\ AnswerTellsDelivery' /\ CleanInv'
    BY <1>7 DEF Reject
<1>8. ASSUME NEW d \in Durations, RefreshSucceeds(d)
     PROVE  HeaderInv' /\ ProgressInv' /\ AnswerTellsDelivery' /\ CleanInv'
    <2>1. HeaderInv'
        BY <1>8 DEF RefreshSucceeds, TakeToken, Proceed, Retry
    <2>2. ProgressInv'
        <3>1. pc = "refresh" /\ Proceed /\ copies' = copies /\ (unanswered' <=> unanswered)
            BY <1>8 DEF RefreshSucceeds
        <3>2. CASE rejected
            BY <3>1, <3>2 DEF Proceed, Retry
        <3>3. CASE ~rejected
            BY <3>1, <3>3 DEF Proceed
        <3> QED
            BY <3>2, <3>3
    <2>3. AnswerTellsDelivery'
        BY <1>8 DEF RefreshSucceeds, TakeToken, Proceed, Retry
    <2>4. CleanInv'
        BY <1>8 DEF RefreshSucceeds, TakeToken, Proceed, Retry
    <2> QED
        BY <2>1, <2>2, <2>3, <2>4
<1>9. ASSUME NEW d \in Durations, RefreshRefused(d)
     PROVE  HeaderInv' /\ ProgressInv' /\ AnswerTellsDelivery' /\ CleanInv'
    BY <1>9 DEF RefreshRefused
<1>10. ASSUME NEW d \in Durations, LoginRefused(d)
     PROVE  HeaderInv' /\ ProgressInv' /\ AnswerTellsDelivery' /\ CleanInv'
    BY <1>10 DEF LoginRefused, LoginFails
<1>11. ASSUME NEW d \in Durations, HttpError(d)
     PROVE  HeaderInv' /\ ProgressInv' /\ AnswerTellsDelivery' /\ CleanInv'
    BY <1>11 DEF HttpError
<1>12. ASSUME NEW d \in Durations, LoginLost(d)
     PROVE  HeaderInv' /\ ProgressInv' /\ AnswerTellsDelivery' /\ CleanInv'
    BY <1>12 DEF LoginLost, LoginFails
<1>13. ASSUME NEW d \in Durations, NEW taken \in BOOLEAN, Lost(d, taken)
     PROVE  HeaderInv' /\ ProgressInv' /\ AnswerTellsDelivery' /\ CleanInv'
    <2>1. HeaderInv'
        BY <1>13 DEF Lost, Retry
    <2>2. ProgressInv'
        <3>1. pc = "send" /\ Retry /\ (unanswered' <=> unanswered \/ taken)
            BY <1>13 DEF Lost
        <3>2. copies' = IF taken THEN copies + 1 ELSE copies
            BY <1>13 DEF Lost
        <3>3. CASE taken
            BY <3>1, <3>2, <3>3 DEF Retry
        <3>4. CASE ~taken
            BY <3>1, <3>2, <3>4 DEF Retry
        <3> QED
            BY <3>3, <3>4
    <2>3. AnswerTellsDelivery'
        BY <1>13 DEF Lost, Retry
    <2>4. CleanInv'
        BY <1>13 DEF Lost, Retry
    <2> QED
        BY <2>1, <2>2, <2>3, <2>4
<1>14. ASSUME NEW d \in Durations, NEW taken \in BOOLEAN, RefreshLost(d, taken)
     PROVE  HeaderInv' /\ ProgressInv' /\ AnswerTellsDelivery' /\ CleanInv'
    BY <1>14 DEF RefreshLost
<1>15. CASE Expire
    BY <1>15 DEF Expire, Expired
<1>16. CASE ChangeAccount
    BY <1>16 DEF ChangeAccount
<1>17. CASE Tick
    BY <1>17 DEF Tick
<1>18. CASE UNCHANGED vars
    BY <1>18 DEF vars
<1> QED
    BY <1>1, <1>2, <1>3, <1>4, <1>5, <1>6, <1>7, <1>8, <1>9, <1>10, <1>11, <1>12, <1>13, <1>14, <1>15, <1>16, <1>17, <1>18
    DEF Next, Work, Disturbance

-----------------------------------------------------------------------------

\* The inductive invariant holds in every reachable state.
THEOREM Invariance == Spec => []IInv
<1>1. Init => IInv
    BY InitEstablishes
<1>2. IInv /\ [Next]_vars => IInv'
    BY InvStep
<1> QED
    BY <1>1, <1>2, PTL DEF Spec

\* Every variable keeps its type; a body reaches the backend at most twice.
THEOREM TypeCorrect == Spec => []TypeOK
<1>1. IInv => TypeOK
    BY DEF IInv
<1> QED
    BY <1>1, Invariance, PTL

\* _send_post and _send_get with login(force=True): one recovery is always enough
\* for a call that nothing disturbs, whatever tokens it starts from.
THEOREM OneRecoveryIsEnough == Spec => []CleanCallDelivers
<1>1. IInv => CleanCallDelivers
    BY DEF IInv, CleanInv, CleanCallDelivers
<1> QED
    BY <1>1, Invariance, PTL

\* What a sender returns agrees with what the backend took, lost answers apart.
THEOREM AnswersAreSound == Spec => []AnswerTellsDelivery
<1>1. IInv => AnswerTellsDelivery
    BY DEF IInv
<1> QED
    BY <1>1, Invariance, PTL

-----------------------------------------------------------------------------

LEMMA DeliveryInit == Init => CallDelivery!Init
BY DEF Init, CallDelivery!Init

\* A step of the call that neither sends to the backend nor returns is one that
\* the caller does not see, and so is what happens between two calls.
LEMMA DeliveryStep == IInv /\ [Next]_vars => [CallDelivery!Next]_CallDelivery!vars
<1> SUFFICES ASSUME IInv, [Next]_vars PROVE [CallDelivery!Next]_CallDelivery!vars
    OBVIOUS
<1> USE DEF configVars, tokenVars, callVars, histVars, Return
<1> DEFINE Unseen == UNCHANGED <<(pc # "idle"), copies, unanswered, result>>
           Ends == CallDelivery!GiveUp
<1>t. /\ pc # "idle" => result = "none" /\ copies <= attempt
      /\ copies \in 0..2 /\ attempt \in 0..1
    BY DEF IInv, TypeOK, ProgressInv
<1>r. ASSUME pc # "idle", Retry, UNCHANGED <<copies, unanswered>> PROVE Unseen \/ Ends
    BY <1>r DEF Retry, CallDelivery!GiveUp
<1>p. ASSUME pc # "idle", Proceed, UNCHANGED <<copies, unanswered>> PROVE Unseen \/ Ends
    <2>1. CASE rejected
        BY <1>p, <1>r, <2>1 DEF Proceed
    <2>2. CASE ~rejected
        BY <1>p, <2>2 DEF Proceed
    <2> QED
        BY <2>1, <2>2
<1>1. CASE CheckToken
    <2>1. pc = "idle" /\ pc' # "idle" /\ copies' = 0 /\ ~unanswered' /\ result' = "none"
        BY <1>1 DEF CheckToken
    <2>2. unanswered' = FALSE
        BY <1>1, Zenon DEF CheckToken
    <2> QED
        BY <2>1, <2>2 DEF CallDelivery!Next, CallDelivery!Call
<1>2. CASE LoginBarred \/ LoginWithoutCredentials
    BY <1>2 DEF LoginBarred, LoginWithoutCredentials, CallDelivery!Next, CallDelivery!GiveUp
<1>3. CASE LoginBegin
    BY <1>3 DEF LoginBegin, CallDelivery!vars
<1>4. CASE LoginSucceeds
    BY <1>4, <1>p DEF LoginSucceeds, CallDelivery!Next, CallDelivery!vars
<1>5. ASSUME NEW d \in Durations, Accept(d) PROVE CallDelivery!TakeHeard
    BY <1>t, <1>5 DEF Accept, CallDelivery!TakeHeard, CallDelivery!Take
<1>6. ASSUME NEW d \in Durations, Reject(d) \/ RefreshRefused(d) PROVE Unseen
    BY <1>6 DEF Reject, RefreshRefused
<1>7. ASSUME NEW d \in Durations, RefreshSucceeds(d) PROVE Unseen \/ Ends
    BY <1>7, <1>p DEF RefreshSucceeds
<1>8. ASSUME NEW d \in Durations, LoginRefused(d) \/ LoginLost(d) \/ HttpError(d)
      PROVE  Ends
    BY <1>8 DEF LoginRefused, LoginLost, LoginFails, HttpError, CallDelivery!GiveUp
<1>9. ASSUME NEW d \in Durations, NEW taken \in BOOLEAN, Lost(d, taken)
      PROVE  Unseen \/ Ends \/ CallDelivery!TakeUnheard
    <2>1. /\ pc = "send" /\ Retry
          /\ copies' = IF taken THEN copies + 1 ELSE copies
          /\ unanswered' = (unanswered \/ taken)
        BY <1>9 DEF Lost
    <2>2. CASE taken
        <3>1. unanswered' = TRUE
            BY <2>1, <2>2, Zenon
        <3>2. CallDelivery!Take
            BY <1>t, <2>1, <2>2 DEF CallDelivery!Take
        <3>3. \/ UNCHANGED <<(pc # "idle"), result>>
              \/ (pc' # "idle") = FALSE /\ result' = "failed"
            BY <2>1 DEF Retry
        <3> QED
            BY <3>1, <3>2, <3>3 DEF CallDelivery!TakeUnheard
    <2>3. CASE ~taken
        <3>1. UNCHANGED unanswered
            <4>1. unanswered \in BOOLEAN
                BY DEF IInv, TypeOK
            <4> QED
                BY <2>1, <2>3, <4>1, Zenon
        <3> QED
            BY <1>r, <2>1, <2>3, <3>1
    <2> QED
        BY <2>2, <2>3
<1>10. ASSUME NEW d \in Durations, NEW taken \in BOOLEAN, RefreshLost(d, taken)
       PROVE  Unseen
    BY <1>10 DEF RefreshLost
<1>11. CASE Expire \/ ChangeAccount \/ Tick
    BY <1>11 DEF Expire, ChangeAccount, Tick, CallDelivery!vars
<1>12. CASE UNCHANGED vars
    BY <1>12 DEF vars, CallDelivery!vars
<1>13. Unseen => UNCHANGED CallDelivery!vars
    BY DEF CallDelivery!vars
<1> HIDE DEF Unseen
<1> QED
    BY <1>1, <1>2, <1>3, <1>4, <1>5, <1>6, <1>7, <1>8, <1>9, <1>10, <1>11, <1>12, <1>13
       DEF Next, Work, Disturbance, CallDelivery!Next

\* _send_post and _send_get are the sender of Delivery: two attempts at most, and
\* nothing sent once the caller has its answer.
THEOREM ImplementsASender == Spec => ImplementsDelivery
<1> QED
    BY DeliveryInit, DeliveryStep, Invariance, PTL
       DEF Spec, ImplementsDelivery, CallDelivery!Spec

=============================================================================

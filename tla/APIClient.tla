------------------------------ MODULE APIClient ------------------------------
(***************************************************************************)
(* The agent's REST client (agent/api_client.py) against the backend's      *)
(* JSON Web Tokens (backend/core/settings.py, SIMPLE_JWT).                  *)
(*                                                                         *)
(* One call at a time goes through _send_post or _send_get, which share     *)
(* their control: make sure there is a token, send, and on a 401 recover by *)
(* the refresh token or by a new login and send a second time.  A token is  *)
(* what the backend would say of it: "none", "valid" or "expired"; a        *)
(* refresh token may also be "spent": the backend rotates it on use and     *)
(* blacklists the old one, and the client keeps the old one.                *)
(*                                                                         *)
(* Time is counted in ticks.  A request lasts 0..MaxWait ticks (a timeout   *)
(* lasts as long as the login backoff in the code, 10 seconds); backoff is  *)
(* what is left of _auth_retry_after.                                       *)
(***************************************************************************)
EXTENDS Integers

CONSTANTS
    Backoff,     \* _auth_failure_backoff, in ticks
    MaxWait,     \* how long a request may last, in ticks
    MaxFaults,   \* bound: requests that fail for no reason of the client's
    MaxChanges   \* bound: expiries, and changes of the account on the backend

ASSUME APIClientAssumption ==
    /\ Backoff \in Nat /\ MaxWait \in Nat
    /\ MaxFaults \in Nat /\ MaxChanges \in Nat

VARIABLES
    hasCredentials, \* whether username and password are configured
    accepted,       \* whether the backend accepts them
    token,          \* self.token
    header,         \* the token in self.headers
    refresh,        \* self.refresh_token
    backoff,        \* ticks left until _auth_retry_after
    pc,             \* where the call is
    attempt,        \* the loop variable of the two attempts
    rejected,       \* whether the call has met a 401: a login is then forced, and
                    \* a new token is for the second attempt
    result,         \* what the call returned: "none" so far, "ok" or "failed"
    copies,         \* how often the backend has taken this call's body
    faults,         \* how many requests have failed
    changes         \* how often the backend has changed

\* History of the call, read by the properties only.
VARIABLES
    clean,          \* the call began with credentials that work and no login
                    \* barred, and nothing outside the client has disturbed it
    unanswered      \* TRUE once the backend's answer to a taken body got lost

configVars == <<hasCredentials, accepted>>
tokenVars  == <<token, header, refresh>>
callVars   == <<attempt, rejected, result, copies>>
histVars   == <<clean, unanswered>>
vars == <<configVars, tokenVars, backoff, pc, callVars, faults, changes, histVars>>

AccessTokens  == {"none", "valid", "expired"}
RefreshTokens == {"none", "valid", "expired", "spent"}

Fault == faults < MaxFaults /\ faults' = faults + 1

\* What is left of t ticks after d of them.
After(t, d) == IF t > d THEN t - d ELSE 0

Waits(d) == backoff' = After(backoff, d)

\* The tokens come from config.json, which may be old; they have been in no
\* request yet.
Init ==
    /\ hasCredentials \in BOOLEAN
    /\ accepted \in BOOLEAN
    /\ token \in AccessTokens
    /\ header = token
    /\ refresh \in RefreshTokens
    /\ backoff = 0
    /\ pc = "idle"
    /\ attempt = 0
    /\ rejected = FALSE
    /\ result = "none"
    /\ copies = 0
    /\ faults = 0
    /\ changes = 0
    /\ clean = TRUE
    /\ unanswered = FALSE

-----------------------------------------------------------------------------
(* Slips: wrong forms of operators defined below, for no specification here. *)

\* A backoff that bars forced logins, too.
LoginBarredForced ==
    /\ pc = "login"
    /\ backoff > 0
    /\ pc' = "idle"
    /\ result' = "failed"
    /\ UNCHANGED <<configVars, tokenVars, backoff, attempt, rejected, copies,
                   faults, changes, histVars>>

\* A success reported for what the backend rejected.
RejectAsOk(d) ==
    /\ pc = "send"
    /\ header # "valid"
    /\ pc' = "idle"
    /\ result' = "ok"
    /\ Waits(d)
    /\ UNCHANGED <<configVars, tokenVars, attempt, rejected, copies,
                   faults, changes, histVars>>

\* A new token that does not get into the header.
TakeTokenNoHeader == token' = "valid" /\ UNCHANGED header

\* A third attempt after two lost answers.
RetryTwice ==
    IF attempt < 2
    THEN attempt' = attempt + 1 /\ pc' = "send" /\ UNCHANGED result
    ELSE pc' = "idle" /\ result' = "failed" /\ UNCHANGED attempt

-----------------------------------------------------------------------------
(* A job calls one of the senders.                                           *)

\* check_token: a token at hand is used unseen, otherwise login().
CheckToken ==
    /\ pc = "idle"
    /\ attempt' = 0
    /\ rejected' = FALSE
    /\ result' = "none"
    /\ copies' = 0
    /\ unanswered' = FALSE
    /\ clean' = (hasCredentials /\ accepted /\ (token # "none" \/ backoff = 0))
    /\ pc' = IF token # "none" THEN "send" ELSE "login"
    /\ UNCHANGED <<configVars, tokenVars, backoff, faults, changes>>

Return(r) == pc' = "idle" /\ result' = r

\* The call goes on after login() or refresh_access_token() found a token: to
\* its first attempt, or after a 401 to its second, if it has one left.
Retry ==
    IF attempt = 0
    THEN attempt' = 1 /\ pc' = "send" /\ UNCHANGED result
    ELSE Return("failed") /\ UNCHANGED attempt

Proceed ==
    IF rejected
    THEN Retry
    ELSE pc' = "send" /\ UNCHANGED <<attempt, result>>

\* The backend takes the body and its answer arrives.
Accept(d) ==
    /\ pc = "send"
    /\ header = "valid"
    /\ copies' = copies + 1
    /\ Waits(d)
    /\ Return("ok")
    /\ UNCHANGED <<configVars, tokenVars, attempt, rejected,
                   faults, changes, histVars>>

\* 401: the refresh token comes first, then a forced login.
Reject(d) ==
    /\ pc = "send"
    /\ header # "valid"
    /\ pc' = "refresh"
    /\ rejected' = TRUE
    /\ Waits(d)
    /\ UNCHANGED <<configVars, tokenVars, attempt, result, copies,
                   faults, changes, histVars>>

\* Any other status: the call gives up at once.
HttpError(d) ==
    /\ pc = "send"
    /\ Fault
    /\ clean' = FALSE
    /\ Waits(d)
    /\ Return("failed")
    /\ UNCHANGED <<configVars, tokenVars, attempt, rejected, copies,
                   changes, unanswered>>

\* RequestException: the request or its answer got lost.  The first time the
\* call sleeps 2 seconds and tries again.
Lost(d, taken) ==
    /\ pc = "send"
    /\ Fault
    /\ taken => header = "valid"
    /\ copies' = IF taken THEN copies + 1 ELSE copies
    /\ unanswered' = (unanswered \/ taken)
    /\ clean' = FALSE
    /\ Waits(d)
    /\ Retry
    /\ UNCHANGED <<configVars, tokenVars, rejected, changes>>

-----------------------------------------------------------------------------
(* refresh_access_token and login.                                           *)

\* _set_auth_header follows every new token.
TakeToken == token' = "valid" /\ header' = "valid"

\* 200: the backend has rotated the refresh token, and the client keeps the one
\* it sent.
RefreshSucceeds(d) ==
    /\ pc = "refresh"
    /\ refresh = "valid"
    /\ TakeToken
    /\ refresh' = "spent"
    /\ Waits(d)
    /\ Proceed
    /\ UNCHANGED <<configVars, rejected, copies, faults, changes, histVars>>

\* No refresh token, or one the backend refuses.
RefreshRefused(d) ==
    /\ pc = "refresh"
    /\ refresh # "valid"
    /\ pc' = "login"
    /\ Waits(d)
    /\ UNCHANGED <<configVars, tokenVars, attempt, rejected, result, copies,
                   faults, changes, histVars>>

\* The request or its answer got lost; the backend may have rotated the token.
RefreshLost(d, taken) ==
    /\ pc = "refresh"
    /\ refresh # "none"
    /\ Fault
    /\ taken => refresh = "valid"
    /\ refresh' = IF taken THEN "spent" ELSE refresh
    /\ clean' = FALSE
    /\ pc' = "login"
    /\ Waits(d)
    /\ UNCHANGED <<configVars, token, header, attempt, rejected, result, copies,
                   changes, unanswered>>

\* A login that does not get to the backend: within the backoff and not forced,
\* or without a username or password.
LoginBarred ==
    /\ pc = "login"
    /\ ~rejected /\ backoff > 0
    /\ Return("failed")
    /\ UNCHANGED <<configVars, tokenVars, backoff, attempt, rejected, copies,
                   faults, changes, histVars>>

LoginWithoutCredentials ==
    /\ pc = "login"
    /\ rejected \/ backoff = 0
    /\ ~hasCredentials
    /\ backoff' = Backoff
    /\ Return("failed")
    /\ UNCHANGED <<configVars, tokenVars, attempt, rejected, copies,
                   faults, changes, histVars>>

LoginBegin ==
    /\ pc = "login"
    /\ rejected \/ backoff = 0
    /\ hasCredentials
    /\ pc' = "authenticating"
    /\ UNCHANGED <<configVars, tokenVars, backoff, callVars, faults, changes, histVars>>

LoginSucceeds ==
    /\ pc = "authenticating"
    /\ accepted
    /\ TakeToken
    /\ refresh' = "valid"
    /\ backoff' = 0
    /\ Proceed
    /\ UNCHANGED <<configVars, rejected, copies, faults, changes, histVars>>

\* The backoff runs from `now`, read before the request: a request of d ticks
\* has used up d of it.
LoginFails(d) ==
    /\ pc = "authenticating"
    /\ backoff' = After(Backoff, d)
    /\ Return("failed")
    /\ UNCHANGED <<configVars, tokenVars, attempt, rejected, copies,
                   changes, unanswered>>

\* 401: wrong username or password.
LoginRefused(d) ==
    /\ ~accepted
    /\ LoginFails(d)
    /\ UNCHANGED <<faults, clean>>

\* Another status, a body without an access token, or no answer.
LoginLost(d) ==
    /\ Fault
    /\ clean' = FALSE
    /\ LoginFails(d)

-----------------------------------------------------------------------------
(* Time and the backend's own changes.                                       *)

\* The scheduler sleeps between the jobs.
Tick ==
    /\ pc = "idle"
    /\ backoff > 0
    /\ Waits(1)
    /\ UNCHANGED <<configVars, tokenVars, pc, callVars, faults, changes, histVars>>

Expired(t) == IF t = "valid" THEN "expired" ELSE t

\* ACCESS_TOKEN_LIFETIME or REFRESH_TOKEN_LIFETIME is over, or the user is gone:
\* from now on a 401.
Expire ==
    /\ changes < MaxChanges
    /\ changes' = changes + 1
    /\ token' = Expired(token)
    /\ header' = Expired(header)
    /\ refresh' \in {refresh, Expired(refresh)}
    /\ clean' = FALSE
    /\ UNCHANGED <<configVars, backoff, pc, callVars, faults, unanswered>>

\* The account is locked or unlocked, its password changed or restored.
ChangeAccount ==
    /\ changes < MaxChanges
    /\ changes' = changes + 1
    /\ accepted' = ~accepted
    /\ clean' = FALSE
    /\ UNCHANGED <<hasCredentials, tokenVars, backoff, pc, callVars, faults, unanswered>>

Durations == 0..MaxWait

\* The steps of a call that nothing disturbs.
Work ==
    \/ CheckToken
    \/ LoginBarred \/ LoginWithoutCredentials \/ LoginBegin \/ LoginSucceeds
    \/ \E d \in Durations :
           Accept(d) \/ Reject(d) \/ RefreshSucceeds(d) \/ RefreshRefused(d)
           \/ LoginRefused(d)

Disturbance ==
    \/ \E d \in Durations :
           HttpError(d) \/ LoginLost(d)
           \/ \E taken \in BOOLEAN : Lost(d, taken) \/ RefreshLost(d, taken)
    \/ Expire \/ ChangeAccount

Next == Work \/ Disturbance \/ Tick

Spec == Init /\ [][Next]_vars

\* Every request carries a timeout and jobs keep calling, so a call goes on;
\* between two jobs time passes, and often enough for the backoff to run out.
FairSpec == Spec /\ WF_vars(Work) /\ SF_vars(Tick)

-----------------------------------------------------------------------------
(* Properties.                                                               *)

\* Types; a body reaches the backend at most twice.
TypeOK ==
    /\ hasCredentials \in BOOLEAN /\ accepted \in BOOLEAN
    /\ token \in AccessTokens /\ header \in AccessTokens
    /\ refresh \in RefreshTokens
    /\ backoff \in 0..Backoff
    /\ pc \in {"idle", "login", "authenticating", "refresh", "send"}
    /\ attempt \in 0..1
    /\ rejected \in BOOLEAN
    /\ result \in {"none", "ok", "failed"}
    /\ copies \in 0..2
    /\ faults \in 0..MaxFaults /\ changes \in 0..MaxChanges
    /\ clean \in BOOLEAN /\ unanswered \in BOOLEAN

\* A call that nothing disturbs delivers its body, whatever mix of missing,
\* expired and spent tokens it starts from: one recovery is always enough, and
\* the backoff of earlier failures does not stand in its way once the backend
\* has answered 401 (_send_post and _send_get with login(force=True)).
CleanCallDelivers == clean => result # "failed"

\* What a sender returns agrees with what the backend holds: "ok" means that the
\* body arrived, and only a lost answer explains a body that arrived twice or
\* whose sender was told it had failed.
AnswerTellsDelivery ==
    /\ result = "ok" => copies > 0
    /\ unanswered \/ copies = (IF result = "ok" THEN 1 ELSE 0)

\* The call as its caller sees it: two attempts, a taken one heard or unheard.
CallDelivery == INSTANCE Delivery WITH
    Attempts <- 2,
    calling  <- pc # "idle",
    taken    <- copies,
    unheard  <- unanswered,
    answer   <- result

\* A sender is such a call, whatever it does about tokens on the way: it sends
\* its body at most twice, a second time only when the first was not answered,
\* reports success in the step in which the backend answers, and has nothing
\* left to send after it has returned (_send_post, _send_get).
ImplementsDelivery == CallDelivery!Spec

\* Once the configured credentials work for good, calls succeed again and again:
\* spent refresh tokens, stale headers and the backoff never lock the client
\* out (check_token, login).
SendingRecovers == (hasCredentials /\ <>[]accepted) => []<>(result = "ok")

\* "Prevent continuous authentication spam when credentials are invalid"
\* (agent/api_client.py:85-86): no login request within the backoff of a failed
\* one.  The login after a 401 is forced, and a stale token is never cleared.
NoLoginDuringBackoff == pc = "authenticating" => backoff = 0

=============================================================================

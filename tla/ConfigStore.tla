----------------------------- MODULE ConfigStore -----------------------------
(***************************************************************************)
(* agent/config.json among those who write it (agent/utils.py): the API     *)
(* client, which loads it when it is constructed and writes its whole copy  *)
(* back with each new token (_save_auth_tokens), and an operator, who opens *)
(* it in an editor and writes it back later.                                *)
(*                                                                         *)
(* A content is the version of the settings, the access token and the       *)
(* refresh token.  A login issues both; a refresh issues an access token    *)
(* and spends the refresh token, in whose place the client keeps it         *)
(* (settings.py:357-359).  open(path, 'w') truncates the file, closing it   *)
(* writes the text.  A truncated or garbled file reads as {}: no settings   *)
(* (0), no token (0).  The scheduler's own reading of the file is part of   *)
(* AgentScheduler.                                                          *)
(***************************************************************************)
EXTENDS Integers

CONSTANTS
    MaxEdits,  \* bound: edits by the operator
    MaxTokens, \* bound: access tokens that are issued
    MaxFaults  \* bound: crashes, lost answers and failed saves

ASSUME ConfigAssumption ==
    /\ MaxEdits \in Nat
    /\ MaxTokens \in Nat
    /\ MaxFaults \in Nat

Versions == 0..(MaxEdits + 1)
Tokens == 0..MaxTokens
Contents == [settings : Versions, access : Tokens, refresh : Tokens]
Empty == [settings |-> 0, access |-> 0, refresh |-> 0]

\* The first login comes later; a restart after it begins with tokens.
First == [Empty EXCEPT !.settings = 1]

VARIABLES
    file,   \* what the file holds
    agent,  \* "down", "up" or "saving"
    client, \* self.config of the client
    editor, \* "closed", "open" or "writing"
    draft,  \* what the editor will write
    edits,  \* how many edits there have been
    issued, \* the newest access token, or the login that issued a refresh token
    spent,  \* the refresh tokens the backend has blacklisted
    faults  \* how many failures have happened

\* History, read by the properties only.
VARIABLES
    broken,   \* did the last write break off or run into another one
    edited,   \* the version of the settings the operator wrote last
    seen,     \* has a client loaded that version
    behind,   \* is the newest token missing in the file since it was issued
    overtaken \* was a token issued since the editor was opened

storeVars == <<file, agent, client, editor, draft, edits, issued, spent, faults>>
histVars == <<broken, edited, seen, behind, overtaken>>
vars == <<storeVars, histVars>>

Fault == faults < MaxFaults /\ faults' = faults + 1

Init ==
    /\ file = First
    /\ agent = "down"
    /\ client = First
    /\ editor = "closed"
    /\ draft = First
    /\ edits = 0
    /\ issued = 0
    /\ spent = {}
    /\ faults = 0
    /\ broken = FALSE /\ edited = 1 /\ seen = TRUE
    /\ behind = FALSE /\ overtaken = FALSE

-----------------------------------------------------------------------------
(* Slips: wrong forms of operators defined below, for no specification here. *)

\* Only the tokens are written.
TokensOnly == [client EXCEPT !.settings = 0]

\* The tokens are put into the settings the agent came with.
OverTemplate == [client EXCEPT !.settings = 1]

\* The new tokens do not get into self.config.
TokensForgotten == client

-----------------------------------------------------------------------------
(* save_config: the text goes over what is in the file by then.              *)

\* Over another text that was written meanwhile the shorter one leaves garbage.
Written(content) == IF file = Empty THEN {content} ELSE {content, Empty}

-----------------------------------------------------------------------------
(* The agent.                                                                *)

\* APIClient.__init__ loads.
StartClient ==
    /\ agent = "down"
    /\ agent' = "up"
    /\ client' = file
    /\ seen' = (seen \/ file.settings = edited)
    /\ UNCHANGED <<file, editor, draft, edits, issued, spent, faults>>
    /\ UNCHANGED <<broken, edited, behind, overtaken>>

\* The service is stopped.
StopClient ==
    /\ agent = "up"
    /\ agent' = "down"
    /\ UNCHANGED <<file, client, editor, draft, edits, issued, spent, faults, histVars>>

\* The copy after a login: the new access and refresh token.
AfterLogin == [client EXCEPT !.access = issued + 1, !.refresh = issued + 1]

\* The copy after a refresh: the new access token, and the refresh token as it was.
AfterRefresh == [client EXCEPT !.access = issued + 1]

Login == client' = AfterLogin /\ spent' = spent

\* The backend rotates the refresh token and blacklists the one it was given.
CanRefresh == client.refresh # 0 /\ client.refresh \notin spent

Refresh ==
    /\ CanRefresh
    /\ client' = AfterRefresh
    /\ spent' = spent \cup {client.refresh}

\* A login or a refresh succeeds, and _save_auth_tokens follows.
NewToken ==
    /\ agent = "up"
    /\ issued < MaxTokens
    /\ issued' = issued + 1
    /\ Login \/ Refresh
    /\ behind' = TRUE
    /\ overtaken' = TRUE
    /\ UNCHANGED <<editor, draft, edits, broken, edited, seen>>

\* save_config opens the file.
BeginSave ==
    /\ NewToken
    /\ agent' = "saving"
    /\ file' = Empty
    /\ UNCHANGED faults

\* The file cannot be opened: the tokens are only in memory.
OpenFails ==
    /\ NewToken
    /\ Fault
    /\ UNCHANGED <<file, agent>>

\* The answer to a refresh is lost: the token is spent and none is gained.
RefreshLost ==
    /\ agent = "up"
    /\ CanRefresh
    /\ Fault
    /\ spent' = spent \cup {client.refresh}
    /\ UNCHANGED <<file, agent, client, editor, draft, edits, issued, histVars>>

\* The whole copy is written.
ToSave == client

EndSave ==
    /\ agent = "saving"
    /\ agent' = "up"
    /\ file' \in Written(ToSave)
    /\ broken' = (file # Empty)
    /\ behind' = FALSE
    /\ UNCHANGED <<client, editor, draft, edits, issued, spent, faults, edited, seen, overtaken>>

\* A part of the text is written, nothing or what garbles another text.
PartWritten ==
    /\ Fault
    /\ file' \in {file, Empty}
    /\ broken' = TRUE
    /\ UNCHANGED <<client, editor, draft, edits, issued, spent, edited, seen, behind, overtaken>>

SaveFails == agent = "saving" /\ agent' = "up" /\ PartWritten
Crash == agent = "saving" /\ agent' = "down" /\ PartWritten

-----------------------------------------------------------------------------
(* The operator.                                                             *)

OpenEditor ==
    /\ editor = "closed"
    /\ edits < MaxEdits
    /\ file # Empty
    /\ edits' = edits + 1
    /\ draft' = [file EXCEPT !.settings = edits + 2]
    /\ editor' = "open"
    /\ overtaken' = (agent = "saving")
    /\ UNCHANGED <<file, agent, client, issued, spent, faults, broken, edited, seen, behind>>

BeginWrite ==
    /\ editor = "open"
    /\ editor' = "writing"
    /\ file' = Empty
    /\ UNCHANGED <<agent, client, draft, edits, issued, spent, faults, histVars>>

EndWrite ==
    /\ editor = "writing"
    /\ editor' = "closed"
    /\ file' \in Written(draft)
    /\ broken' = (file # Empty)
    /\ edited' = draft.settings
    /\ seen' = FALSE
    /\ behind' = (behind \/ overtaken)
    /\ UNCHANGED <<agent, client, draft, edits, issued, spent, faults, overtaken>>

Agent == StartClient \/ StopClient \/ BeginSave \/ EndSave
Failure == OpenFails \/ RefreshLost \/ SaveFails \/ Crash
Operator == OpenEditor \/ BeginWrite \/ EndWrite

Next == Agent \/ Failure \/ Operator

Spec == Init /\ [][Next]_vars

-----------------------------------------------------------------------------
(* Properties.                                                               *)

TypeOK ==
    /\ file \in Contents
    /\ agent \in {"down", "up", "saving"}
    /\ client \in Contents
    /\ editor \in {"closed", "open", "writing"}
    /\ draft \in Contents
    /\ edits \in 0..MaxEdits
    /\ issued \in Tokens
    /\ spent \subseteq Tokens
    /\ faults \in 0..MaxFaults
    /\ broken \in BOOLEAN
    /\ edited \in Versions
    /\ seen \in BOOLEAN
    /\ behind \in BOOLEAN
    /\ overtaken \in BOOLEAN

\* Nobody writes, and the last write was whole.
AtRest == agent # "saving" /\ editor # "writing" /\ ~broken

\* The settings are lost only when a write breaks off or runs into another one,
\* or when the client has loaded such a file and saves its copy of it.
SettingsOutlast == AtRest => file.settings # 0 \/ client.settings = 0

\* An edit that a client has loaded is not undone: the file has it, or has lost its
\* settings, until the next edit.  (One that no client has loaded yet is undone by
\* the next save.)
LoadedStays == seen => file.settings \in {0, edited}

\* A restart finds the newest access token, unless its save failed or an editor that
\* was opened before put the old one back.  The refresh token with it came with it,
\* or has been spent to get it.
TokensMatch ==
    (AtRest /\ ~behind) =>
        /\ file.access = issued
        /\ file.refresh # file.access => file.refresh \in spent

=============================================================================

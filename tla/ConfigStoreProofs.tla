-------------------------- MODULE ConfigStoreProofs --------------------------
(***************************************************************************)
(* What becomes of config.json for any number of edits, tokens and failures: *)
(* unless a write breaks off or meets another one the settings stay, an edit *)
(* that a client has loaded is not undone, and the newest token is there     *)
(* unless its save failed or an old draft came over it.                      *)
(***************************************************************************)
EXTENDS ConfigStore, TLAPS

\* At rest the file has a text, and whoever may write has settings for it, unless
\* the client has loaded none.
SettingsInv ==
    /\ draft.settings # 0
    /\ AtRest => file # Empty
    /\ (file # Empty /\ file.settings = 0) => client.settings = 0

\* What a client has loaded is the operator's last version, or nothing.
LoadedInv ==
    seen => file.settings \in {0, edited} /\ client.settings \in {0, edited}

\* During a save the client's token is the newest, and no editor has it; a text that
\* is not behind has it, and so has a draft that was not overtaken.
TokenInv ==
    /\ agent = "saving" => behind /\ client.access = issued /\ issued # 0
    /\ (agent = "saving" /\ editor # "closed") => overtaken
    /\ (~behind /\ file # Empty) => file.access = issued
    /\ (~behind /\ ~overtaken /\ editor # "closed") => draft.access = issued

\* A refresh token that has outlived its access token has been spent.
Spent(content) == content.refresh # content.access => content.refresh \in spent
SpentInv == Spent(file) /\ Spent(client) /\ Spent(draft)

IInv ==
    /\ TypeOK
    /\ SettingsInv
    /\ LoadedInv
    /\ TokenInv
    /\ SpentInv

-----------------------------------------------------------------------------

LEMMA InitEstablishes == Init => IInv
<1> SUFFICES ASSUME Init PROVE IInv
    OBVIOUS
<1> USE ConfigAssumption DEF Init, First, Empty, Contents, Versions, Tokens
<1>1. TypeOK
  <2>1. First \in Contents /\ issued \in Tokens /\ spent \subseteq Tokens
    OBVIOUS
  <2>2. edits \in 0..MaxEdits /\ faults \in 0..MaxFaults /\ edited \in Versions
    OBVIOUS
  <2> QED
    BY <2>1, <2>2 DEF TypeOK
<1>2. SettingsInv /\ LoadedInv /\ TokenInv /\ SpentInv
    BY DEF SettingsInv, LoadedInv, TokenInv, SpentInv, Spent, AtRest
<1> QED
    BY <1>1, <1>2 DEF IInv

\* What a write leaves, and what a new token changes.
LEMMA TextWritten ==
    ASSUME NEW content, file' \in Written(content)
    PROVE  file' \in {content, Empty} /\ (file = Empty => file' = content)
    BY DEF Written

LEMMA TokenGained ==
    ASSUME TypeOK, NewToken
    PROVE  /\ client' \in Contents /\ spent' \subseteq Tokens
           /\ issued' = issued + 1 /\ issued' \in Tokens
           /\ client'.settings = client.settings
           /\ client'.access = issued + 1
           /\ client'.refresh # client'.access => client'.refresh \in spent'
           /\ spent \subseteq spent'
<1> USE ConfigAssumption DEF TypeOK, NewToken, Contents, Versions, Tokens
<1>1. issued' = issued + 1 /\ issued' \in Tokens
    OBVIOUS
<1>2. CASE Login
    BY <1>1, <1>2 DEF Login, AfterLogin
<1>3. CASE Refresh
  <2>1. client' = [client EXCEPT !.access = issued + 1] /\ spent' = spent \cup {client.refresh}
    BY <1>3 DEF Refresh, AfterRefresh
  <2> QED
    BY <1>1, <2>1
<1> QED
    BY <1>2, <1>3

LEMMA TypeStep == IInv /\ [Next]_vars => TypeOK'
<1> SUFFICES ASSUME IInv, [Next]_vars PROVE TypeOK'
    OBVIOUS
<1> USE ConfigAssumption DEF IInv, TypeOK, histVars, Fault, Contents, Versions, Tokens, Empty, TypeOK
<1>1. CASE StartClient
    BY <1>1 DEF StartClient
<1>2. CASE StopClient
    BY <1>2 DEF StopClient
<1>3. CASE BeginSave
  <2>1. file' = Empty /\ agent' = "saving" /\ behind' = TRUE /\ overtaken' = TRUE
    BY <1>3 DEF BeginSave, NewToken
  <2>2. UNCHANGED <<editor, draft, edits, faults, broken, edited, seen>>
    BY <1>3 DEF BeginSave, NewToken
  <2>3. NewToken
    BY <1>3 DEF BeginSave
  <2> QED
    BY <2>1, <2>2, <2>3, TokenGained
<1>4. CASE EndSave
  <2>1. file' \in Contents
    BY <1>4, TextWritten DEF EndSave, ToSave
  <2>2. agent' = "up" /\ broken' \in BOOLEAN /\ behind' = FALSE
    BY <1>4 DEF EndSave
  <2> QED
    BY <1>4, <2>1, <2>2 DEF EndSave
<1>5. CASE OpenFails
  <2>1. behind' = TRUE /\ overtaken' = TRUE /\ faults' \in 0..MaxFaults
    BY <1>5 DEF OpenFails, NewToken
  <2>2. UNCHANGED <<file, agent, editor, draft, edits, broken, edited, seen>>
    BY <1>5 DEF OpenFails, NewToken
  <2>3. NewToken
    BY <1>5 DEF OpenFails
  <2> QED
    BY <2>1, <2>2, <2>3, TokenGained
<1>6. CASE RefreshLost
  <2>1. spent' = spent \cup {client.refresh} /\ client.refresh \in Tokens
    BY <1>6 DEF RefreshLost
  <2>2. faults' \in 0..MaxFaults
    BY <1>6 DEF RefreshLost
  <2>3. UNCHANGED <<file, agent, client, editor, draft, edits, issued, histVars>>
    BY <1>6 DEF RefreshLost
  <2> QED
    BY <2>1, <2>2, <2>3
<1>7. CASE SaveFails
    BY <1>7 DEF SaveFails, PartWritten
<1>8. CASE Crash
    BY <1>8 DEF Crash, PartWritten
<1>9. CASE OpenEditor
    BY <1>9 DEF OpenEditor
<1>10. CASE BeginWrite
    BY <1>10 DEF BeginWrite
<1>11. CASE EndWrite
  <2>1. file' \in Contents
    BY <1>11, TextWritten DEF EndWrite
  <2>2. editor' = "closed" /\ broken' \in BOOLEAN /\ behind' \in BOOLEAN /\ edited' \in Versions
    BY <1>11 DEF EndWrite
  <2> QED
    BY <1>11, <2>1, <2>2 DEF EndWrite
<1>12. CASE UNCHANGED vars
    BY <1>12 DEF vars, storeVars
<1> QED
    BY <1>1, <1>2, <1>3, <1>4, <1>5, <1>6, <1>7, <1>8, <1>9, <1>10, <1>11, <1>12 DEF Next, Agent, Failure, Operator

LEMMA SettingsStep == IInv /\ [Next]_vars => SettingsInv'
<1> SUFFICES ASSUME IInv, [Next]_vars PROVE SettingsInv'
    OBVIOUS
<1> USE ConfigAssumption DEF IInv, TypeOK, histVars, Fault, Contents, Versions, Tokens, Empty, SettingsInv, AtRest, TokenInv
<1>1. CASE StartClient
    BY <1>1 DEF StartClient
<1>2. CASE StopClient
    BY <1>2 DEF StopClient
<1>3. CASE BeginSave
    BY <1>3, TokenGained DEF BeginSave, NewToken
<1>4. CASE EndSave
  <2>1. client.access # 0 /\ client' = client /\ draft' = draft
    BY <1>4 DEF EndSave
  <2>2. file' \in {client, Empty} /\ broken' = (file # Empty) /\ (file = Empty => file' = client)
    BY <1>4, TextWritten DEF EndSave, ToSave
  <2>3. client # Empty
    BY <2>1
  <2>4. (file' = Empty) => (broken' = TRUE)
    BY <2>2, <2>3, Zenon
  <2> QED
    BY <2>1, <2>2, <2>4
<1>5. CASE OpenFails
    BY <1>5, TokenGained DEF OpenFails, NewToken
<1>6. CASE RefreshLost
    BY <1>6 DEF RefreshLost, CanRefresh
<1>7. CASE SaveFails
    BY <1>7 DEF SaveFails, PartWritten
<1>8. CASE Crash
    BY <1>8 DEF Crash, PartWritten
<1>9. CASE OpenEditor
    BY <1>9 DEF OpenEditor
<1>10. CASE BeginWrite
    BY <1>10 DEF BeginWrite
<1>11. CASE EndWrite
  <2>1. draft.settings # 0 /\ client' = client /\ draft' = draft
    BY <1>11 DEF EndWrite
  <2>2. file' \in {draft, Empty} /\ broken' = (file # Empty) /\ (file = Empty => file' = draft)
    BY <1>11, TextWritten DEF EndWrite
  <2>3. draft # Empty
    BY <2>1
  <2>4. (file' = Empty) => (broken' = TRUE)
    BY <2>2, <2>3, Zenon
  <2> QED
    BY <2>1, <2>2, <2>4
<1>12. CASE UNCHANGED vars
    BY <1>12 DEF vars, storeVars
<1> QED
    BY <1>1, <1>2, <1>3, <1>4, <1>5, <1>6, <1>7, <1>8, <1>9, <1>10, <1>11, <1>12 DEF Next, Agent, Failure, Operator

LEMMA LoadedStep == IInv /\ [Next]_vars => LoadedInv'
<1> SUFFICES ASSUME IInv, [Next]_vars PROVE LoadedInv'
    OBVIOUS
<1> USE ConfigAssumption DEF IInv, TypeOK, histVars, Fault, Contents, Versions, Tokens, Empty, LoadedInv
<1>1. CASE StartClient
    BY <1>1 DEF StartClient
<1>2. CASE StopClient
    BY <1>2 DEF StopClient
<1>3. CASE BeginSave
    BY <1>3, TokenGained DEF BeginSave, NewToken
<1>4. CASE EndSave
    BY <1>4, TextWritten DEF EndSave, ToSave
<1>5. CASE OpenFails
    BY <1>5, TokenGained DEF OpenFails, NewToken
<1>6. CASE RefreshLost
    BY <1>6 DEF RefreshLost, CanRefresh
<1>7. CASE SaveFails
    BY <1>7 DEF SaveFails, PartWritten
<1>8. CASE Crash
    BY <1>8 DEF Crash, PartWritten
<1>9. CASE OpenEditor
    BY <1>9 DEF OpenEditor
<1>10. CASE BeginWrite
    BY <1>10 DEF BeginWrite
<1>11. CASE EndWrite
    BY <1>11, TextWritten DEF EndWrite
<1>12. CASE UNCHANGED vars
    BY <1>12 DEF vars, storeVars
<1> QED
    BY <1>1, <1>2, <1>3, <1>4, <1>5, <1>6, <1>7, <1>8, <1>9, <1>10, <1>11, <1>12 DEF Next, Agent, Failure, Operator

LEMMA TokenStep == IInv /\ [Next]_vars => TokenInv'
<1> SUFFICES ASSUME IInv, [Next]_vars PROVE TokenInv'
    OBVIOUS
<1> USE ConfigAssumption DEF IInv, TypeOK, histVars, Fault, Contents, Versions, Tokens, Empty, TokenInv
<1>1. CASE StartClient
    BY <1>1 DEF StartClient
<1>2. CASE StopClient
    BY <1>2 DEF StopClient
<1>3. CASE BeginSave
    BY <1>3, TokenGained DEF BeginSave, NewToken
<1>4. CASE EndSave
    BY <1>4, TextWritten DEF EndSave, ToSave
<1>5. CASE OpenFails
    BY <1>5, TokenGained DEF OpenFails, NewToken
<1>6. CASE RefreshLost
    BY <1>6 DEF RefreshLost, CanRefresh
<1>7. CASE SaveFails
    BY <1>7 DEF SaveFails, PartWritten
<1>8. CASE Crash
    BY <1>8 DEF Crash, PartWritten
<1>9. CASE OpenEditor
    BY <1>9 DEF OpenEditor
<1>10. CASE BeginWrite
    BY <1>10 DEF BeginWrite
<1>11. CASE EndWrite
    BY <1>11, TextWritten DEF EndWrite
<1>12. CASE UNCHANGED vars
    BY <1>12 DEF vars, storeVars
<1> QED
    BY <1>1, <1>2, <1>3, <1>4, <1>5, <1>6, <1>7, <1>8, <1>9, <1>10, <1>11, <1>12 DEF Next, Agent, Failure, Operator

LEMMA SpentStep == IInv /\ [Next]_vars => SpentInv'
<1> SUFFICES ASSUME IInv, [Next]_vars PROVE SpentInv'
    OBVIOUS
<1> USE ConfigAssumption DEF IInv, TypeOK, histVars, Fault, Contents, Versions, Tokens, Empty, SpentInv, Spent
<1>1. CASE StartClient
    BY <1>1 DEF StartClient
<1>2. CASE StopClient
    BY <1>2 DEF StopClient
<1>3. CASE BeginSave
    BY <1>3, TokenGained DEF BeginSave, NewToken
<1>4. CASE EndSave
    BY <1>4, TextWritten DEF EndSave, ToSave
<1>5. CASE OpenFails
    BY <1>5, TokenGained DEF OpenFails, NewToken
<1>6. CASE RefreshLost
    BY <1>6 DEF RefreshLost, CanRefresh
<1>7. CASE SaveFails
    BY <1>7 DEF SaveFails, PartWritten
<1>8. CASE Crash
    BY <1>8 DEF Crash, PartWritten
<1>9. CASE OpenEditor
    BY <1>9 DEF OpenEditor
<1>10. CASE BeginWrite
    BY <1>10 DEF BeginWrite
<1>11. CASE EndWrite
    BY <1>11, TextWritten DEF EndWrite
<1>12. CASE UNCHANGED vars
    BY <1>12 DEF vars, storeVars
<1> QED
    BY <1>1, <1>2, <1>3, <1>4, <1>5, <1>6, <1>7, <1>8, <1>9, <1>10, <1>11, <1>12 DEF Next, Agent, Failure, Operator

THEOREM Invariance == Spec => []IInv
<1>1. IInv /\ [Next]_vars => IInv'
    BY TypeStep, SettingsStep, LoadedStep, TokenStep, SpentStep DEF IInv
<1> QED
    BY InitEstablishes, <1>1, PTL DEF Spec

-----------------------------------------------------------------------------

\* Every variable keeps its type.
THEOREM TypeCorrect == Spec => []TypeOK
<1>1. IInv => TypeOK
    BY DEF IInv
<1> QED
    BY Invariance, <1>1, PTL

\* save_config: the settings are lost only to a broken write, or to a client that has
\* loaded its leavings.
THEOREM SettingsStay == Spec => []SettingsOutlast
<1>1. IInv => SettingsOutlast
    BY DEF IInv, SettingsInv, SettingsOutlast
<1> QED
    BY Invariance, <1>1, PTL

\* _save_auth_tokens: an edit that a client has loaded is not undone.
THEOREM LoadedIsKept == Spec => []LoadedStays
<1>1. IInv => LoadedStays
    BY DEF IInv, LoadedInv, LoadedStays
<1> QED
    BY Invariance, <1>1, PTL

\* _save_auth_tokens: the newest access token is what a restart finds, with the refresh
\* token it came with or one that is spent.
THEOREM NewestTokensStay == Spec => []TokensMatch
<1>1. IInv => TokensMatch
    BY DEF IInv, SettingsInv, TokenInv, SpentInv, Spent, TokensMatch
<1> QED
    BY Invariance, <1>1, PTL

=============================================================================

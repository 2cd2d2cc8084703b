\* Two edits, three access tokens and two failures: a token can be saved before,
\* between and after the edits, and after a restart.
CONSTANTS
    MaxEdits = 2
    MaxTokens = 3
    MaxFaults = 2
SPECIFICATION Spec
INVARIANTS
    SettingsOutlast
    LoadedStays
    TokensMatch

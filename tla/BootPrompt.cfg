SPECIFICATION Spec
CONSTANTS
    Labels = {"linux", "old"}
    Configs <- MCConfigs
    Lines <- MCLines
    BootArgs <- MCBootArgs
    OnceLabels <- MCOnce
    InitrdWords <- MCInitrdWords
    MaxPrompts = 3
INVARIANTS PasswordPolicy RebootSameImage ManualInitrd
PROPERTIES PromptAnswered

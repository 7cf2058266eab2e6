SPECIFICATION SearchSpec
CONSTANTS
    IpDigits = 3
    MaxRefusals = 1
INVARIANTS
    FirstGoodWins
    PasswordOfConfig
PROPERTIES
    ReachesPrompt

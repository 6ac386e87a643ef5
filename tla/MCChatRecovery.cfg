CONSTANTS
  MaxRounds = 2
  HasFallback = TRUE
  ConfigTokens = 16384
  maxOutputTokensEscalate = 65536
  maxRecoveryAttempts = 1
  maxRateLimitRetries = 2
  maxServerErrorRetries = 1
  httpTries = 2
SPECIFICATION FairSpec
INVARIANTS   SummaryPromptKept
PROPERTIES TurnEnds

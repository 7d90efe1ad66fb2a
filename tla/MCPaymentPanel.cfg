SPECIFICATION FairSpec
CONSTANTS
  MaxSafe = 1000
  MaxCommands = 3
  Shop <- TheShops
INVARIANTS
  TypeOK
  OneAttemptPerCommand
  ProviderFacts
PROPERTIES
  NoBlindResend
  RecoveryEnds
  RecordedOutcomeIsShown
CHECK_DEADLOCK FALSE

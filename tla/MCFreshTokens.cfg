SPECIFICATION Spec
CONSTANTS
  MaxSafe = 1000
  MaxCommands = 3
  Shop <- TheShops
PROPERTIES
  FreshTokens
CHECK_DEADLOCK FALSE

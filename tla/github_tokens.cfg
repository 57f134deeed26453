SPECIFICATION GitHubTokensSpec
CONSTANTS
  Thread = {a1, a2}
  TTL = 4
  Buffer = 2
  JwtLife = 2
  Backdate = 1
  JwtMax = 3
  Skew <- Skews
  MaxTime = 7
  MaxEra = 2
  NoToken = NoToken
INVARIANTS PromptUseWorks OutageBounded
SYMMETRY Symmetry
CHECK_DEADLOCK FALSE

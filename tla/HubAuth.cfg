\* Two clients behind one address, one of them with a key that is not allowed
\* before the one that is and a clock behind the hub's, two handlers and any fault.
CONSTANTS
  A = A
  B = B
  home = home
  good = good
  bad = bad
  Client = {A, B}
  Address = {home}
  AddressOf <- OneAddress
  KeysOf <- OneBadKey
  Behind <- Clocks
  Allowed = {good}
  ChallengeId = {1, 2, 3, 4, 5, 6}
  Credential = {1, 2, 3, 4, 5, 6}
  Handler = {1, 2}
  MaxChallenges = 2
  MaxFailures = 3
  ChallengeTTL = 2
  SessionTTL = 2
  Window = 2
  Margin = 1
  RetryDelay = 1
  None = None
  MaxFaults = 1
SPECIFICATION HubAuthFairSpec
INVARIANTS
  HubAuthTypeOK
  OneSessionPerChallenge
  RateLimited
  HonouredUntilRestart
PROPERTIES
  AllowedClientLogsIn

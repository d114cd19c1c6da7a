SPECIFICATION MCSpec
CONSTANTS
  Scenarios = {"funds", "appeals", "identity", "epochs", "table", "edge"}
  NumProviders = 2
  Treasuries = {t1, t2}
  Staking = Staking
  Owner = Owner
  NoAddr = NoAddr
  NodeIds = {m1, m2}
  NoId = NoId
  Reasons = {Fraud}
  StakeAmounts = {10, 20}
  UnstakeAmounts = {5, 10}
  SlashAmounts = {1, 4, 5, 7, 12}
  RewardAmounts = {6, 10, 12}
  Settings <- MCSettings
  InitialConfig <- MCConfig
  MAX_QUEUE = 1
  BENEFICIARY_TIMELOCK = 1
  REWARD_SCALE = 100
  InitialBalance = 20
  OwnerBalance = 12
  MaxProposals = 2
  MaxHours = 1
  MaxTime = 4
  EdgeNodeIds = {n1}
  Endpoints = {e1}
  NoEndpoint = NoEndpoint
INVARIANTS
  BooksBalanced
  RewardsSound
PROPERTIES
  FundsReachable
  SlashesDecidedFairly
  IdentitiesHeld
  EdgeImplemented
  

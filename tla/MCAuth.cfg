SPECIFICATION FairSpec
CONSTANTS
  Logins = {w1, w2}
  Files <- MCFiles
  KeyOf <- MCKeyOf
  Kinds <- MCKinds
  AgentKeys <- MCAgentKeys
  Remaining <- MCRemaining
  MaxRounds = 1
INVARIANTS
  NotAskedInVain
  AgentOffersRest
PROPERTIES
  KeepsPassphrase LoginEnds
CHECK_DEADLOCK FALSE

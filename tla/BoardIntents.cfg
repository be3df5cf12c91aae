SPECIFICATION FairSpec
CONSTANTS
  c1 = c1
  u1 = u1
  agent = agent
  None = None
  Intents = {c1, u1}
  Requests = {r1, r2}
  Sweepers = {s1, s2}
  Creates = {c1}
  Direct = {c1}
  Cap = 1
  MaxEvents = 1
  Payload <- MCPayload
  Proposer <- MCProposer
INVARIANTS
  OneEffectPerIntent
PROPERTIES
  AutoOnlyInVacancy
  PendingIsEscalated
CHECK_DEADLOCK FALSE

SPECIFICATION FairSpec
CONSTANTS
  a = a
  b = b
  a1 = a1
  a2 = a2
  a3 = a3
  b1 = b1
  Request = {q1}
  Agent = {a}
  Session = {a1, a2, a3}
  AgentOf <- MCAgentOf
  Lease = {l1, l2}
  FirstStatus = "accepted"
  Asked = {"accepted", "cancelled"}
  MaxGeneration = 2
  MaxExecutions = 2
  None = None
INVARIANTS
  MovesAreProved
PROPERTIES
  OrphansAreRecovered

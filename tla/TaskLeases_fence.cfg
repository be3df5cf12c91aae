SPECIFICATION Spec
CONSTANTS
  a = a
  b = b
  a1 = a1
  a2 = a2
  a3 = a3
  b1 = b1
  Request = {q1, q2}
  Agent = {a, b}
  Session = {a1, a2, b1}
  AgentOf <- MCAgentOf
  Lease = {l1, l2}
  FirstStatus = "accepted"
  Asked <- MCAsked
  MaxGeneration = 1
  MaxExecutions = 1
  None = None
PROPERTIES
  FencedWritesHoldTheLease

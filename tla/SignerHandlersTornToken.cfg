SPECIFICATION Spec
CONSTANTS
  Requests = {r1}
  Messages = {m1}
  TokenLength <- TwoTokens
  Forgeries <- LongForgery
  WeakMemory = TRUE
  StrayBudget = 0
INVARIANTS
  AuthorizationIsToken
CHECK_DEADLOCK FALSE

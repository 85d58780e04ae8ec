SPECIFICATION Spec
CONSTANTS
  Requests = {r1, r2}
  Messages = {m1, m2}
  TokenLength <- TwoTokens
  Forgeries <- LongForgery
  WeakMemory = TRUE
  StrayBudget = 1
INVARIANTS
  TypeOK
  PanicOnlyOnStray
  OwnAnswerSucceeds
PROPERTIES
  IsRemoteSigner
SYMMETRY
  Symmetry
CHECK_DEADLOCK FALSE

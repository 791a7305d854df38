CONSTANTS
  N = 2
  Groups <- MCGroups
  K = 1
  Scenarios <- MCScenarios
SPECIFICATION Spec
INVARIANTS
  TypeOK
  OneActiveUnlessRaced
  OpenConnectionsExact
  SentIsOwned
PROPERTY
  AnswerToRequester

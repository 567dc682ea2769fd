\* Every accepted signature, called once, with a failure at every leaf.
SPECIFICATION Spec
CONSTANTS
  Types <- MCTypes
  Fields <- MCFields
  Signatures <- MCSignatures
  Methods <- MCMethods
INVARIANTS
  IInv
  ReleasedOnce
  DeliveredWhole
  FailureKeepsNothing
  LossIsBehindTheFailure
  OutcomeIsHeard
  AcceptedMethodsExpand
  ResultsOwnThemselves
  CallsAreDescribed
CHECK_DEADLOCK FALSE

CONSTANTS
  UserUuid <- OneUuid
  MaxTypes = 2
  FieldName = {"x", "y"}
  Count <- OneOrTwo
  TypePublish <- Ways
  Dynamic <- Dynamics
  Configs <- SomeConfigs
  Library <- Libraries
  OutputName = {"x"}
  Publishers <- SomePublish
  Kind <- TwoKinds
  MaxCalls = 3
  Misread <- ReadWithoutF
  LikeFields = {"Fields", "Field", "Fie", "Fi", "F"}
  Odd = {"a_b"}
SPECIFICATION Spec
INVARIANTS FieldsKnowTheirType GuardIsForRecursion ConfigurationIsApplied
PROPERTIES OnlyTheTreeIsReadBack
CHECK_DEADLOCK FALSE

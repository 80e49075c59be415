SPECIFICATION Spec
CONSTANTS
  Keys = {1, 2, 3, 4}
  Lists <- ListChoices
  Cap = 3
  Hash <- Homes
  VarintModes = {TRUE, FALSE}
  NoKey = NoKey
  Miss = Miss
INVARIANT ShardConsistent
PROPERTY LruSpec

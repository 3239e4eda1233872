SPECIFICATION FairSpec
CONSTANTS
  FeatureLists <- SomeFeatures
  InputLists <- SomeInputs
  KindOf <- Kinds
  Versions = {"PED_V3", "Vehicle_V1", "none"}
  PoolSize = 5
INVARIANTS TypeOK Connected PipelineFirst Complete
PROPERTIES ComesUp
CHECK_DEADLOCK FALSE

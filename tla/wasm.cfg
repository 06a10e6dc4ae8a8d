CONSTANTS
  Profiles <- MCProfiles
  Tags = {"empty", "one", "two", "vector"}
  TagParams <- MCTagParams
  TagSlots <- MCTagSlots
  FrameSize = 1
  MaxCallDepth = 3
SPECIFICATION NativeSpec
INVARIANTS
    StackAsValidated
    EhFramesAreOpenTries
    CallDepthBalanced
    NativeStackAsValidated
    NativeEhFramesAreOpenTries
PROPERTIES
    CaughtByInnermostHandler
CHECK_DEADLOCK FALSE

SPECIFICATION Spec
CONSTANTS
  NodeCount = 3
  MaxEdges = 3
  Names <- AuthorNames
  NativeNames <- AuthorNatives
  Instance <- MadeNames
INVARIANTS TypeOK LinearExtension CycleRefused StableOrder WiredAsDrawn
CHECK_DEADLOCK FALSE

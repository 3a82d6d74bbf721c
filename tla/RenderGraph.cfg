\* Three passes and four uses of two resources: chains of four, cycles through two resources.
SPECIFICATION GraphSpec
CONSTANTS
  MaxPasses = 3
  MaxResources = 2
  MaxUses = 4
  MaxClears = 1
  ColorSlots = 4
  InitialLayouts = {"UNDEFINED"}
  ImageReads = {"SHADER_READ"}
  ImageWrites = {"DEPTH_ATTACHMENT"}
  BufferReads = {"VERTEX_READ"}
  BufferWrites = {"TRANSFER_WRITE"}
INVARIANTS
  ExecutionFollowsDeclaration
  CycleMeansNoOrder
  SurvivorsAndLifetimes
CHECK_DEADLOCK FALSE

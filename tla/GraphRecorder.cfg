\* Three uses of one resource by three passes, with several layouts and stages.
SPECIFICATION Spec
CONSTANTS
  MaxPasses = 3
  MaxResources = 1
  MaxUses = 3
  MaxClears = 3
  ColorSlots = 4
  InitialLayouts = {"UNDEFINED", "SHADER_READ_ONLY_OPTIMAL", "TRANSFER_DST_OPTIMAL"}
  ImageReads = {"SHADER_READ"}
  ImageWrites = {"COLOR_ATTACHMENT", "DEPTH_ATTACHMENT", "TRANSFER_WRITE"}
  BufferReads = {"VERTEX_READ", "SHADER_READ"}
  BufferWrites = {"TRANSFER_WRITE"}
  TextureLayouts = {"UNDEFINED", "SHADER_READ_ONLY_OPTIMAL"}
INVARIANTS
  ImagesInDeclaredLayout
  TransitionsTruthful
  ConflictsSynchronised
CHECK_DEADLOCK FALSE

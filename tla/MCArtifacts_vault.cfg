SPECIFICATION Spec
CONSTANTS
  Req = {r1, r2}
  r1 = r1
  r2 = r2
  NULL = NULL
  Project = {"p1", "p2"}
  OrgOf <- MCOrgOf
  TokenProject <- MCTokenProject
  Body <- MCBody
  Large <- MCLarge
  SourceMapOf <- MCSourceMapOf
  DebugFileOf <- MCDebugFileOf
  BundleOf <- MCBundleOf
  Written <- MCWritten
  Frames <- MCFrames
  Faults = TRUE
SYMMETRY Symmetry
INVARIANTS AssembledVerified CreatedTrue FramesExplained
PROPERTY AssembleCompletes

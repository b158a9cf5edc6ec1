SPECIFICATION GateSpec
CONSTANTS
  design = design
  gtpack = gtpack
  asset = asset
  x = x
  y = y
  n = n
  s1 = s1
  s2 = s2
  outside = outside
  noPath = noPath
  Paths <- MCPaths
  Outside = outside
  NoPath = noPath
  DesignWasm = design
  Depth <- MCDepth
  MaxPackDepth = 2
  Bytes = {x, y}
  Compiles = {x}
  NoBytes = NoBytes
  Packs = {n}
  Signers = {s1, s2}
  NoSigner = NoSigner
  Releases <- MCReleases
  MaxWrites = 2
INVARIANTS GateTypeOK UntouchedVerdict CompiledIsRecorded
PROPERTIES PinsAfterIntegrity

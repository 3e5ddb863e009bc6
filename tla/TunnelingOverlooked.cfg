CONSTANTS
  MaxTris = 10
  Meshes <- MCTangles
  Configs <- LongSearch
SPECIFICATION Spec
INVARIANT NoTunnelLeft

CONSTANTS
  MaxTris = 8
  Meshes <- MCSurfaces
  Configs <- CancelledSearch
SPECIFICATION Spec
INVARIANT VisitedIsTunnel

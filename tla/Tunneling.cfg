CONSTANTS
  MaxTris = 10
  Meshes <- MCAllMeshes
  Configs <- MCConfigs
SPECIFICATION Spec
INVARIANTS AssertionsHold LinksAgree EndpointList VisitedIsTunnel TunnelAlternates CircleCheckExact TunnelsTried TriedInv
PROPERTIES ImplementsPathCover Terminates

CONSTANTS
  MaxTris = 8
  Meshes <- MCMeshSet
SPECIFICATION Spec
INVARIANTS ListsExact PreprocInv CoverReady EndsApart

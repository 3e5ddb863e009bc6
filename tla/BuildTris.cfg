CONSTANTS
  MaxTris = 8
  Inputs <- MCInputs
  Bytes <- MCBytes
SPECIFICATION Spec
INVARIANTS OpenEdgesExact StitchedSoFar BuildsTheMesh

CONSTANTS
  MaxTris = 8
  Inputs <- MCInputs
  Settings <- MCSettings
  Bytes <- MCBytes
  FollowUps <- MCFollowUps
  Sizes = 64
SPECIFICATION Spec
INVARIANTS OutputSpells OrientationKept TunnelingHolds NoneOverlooked EndpointsLast
  AcceptedByVerifier StatsExact RecordHeld
PROPERTIES TunnelingJoins Terminates

SPECIFICATION PatientSpec
CONSTANT Gateway <- MCGateway
CONSTANT Bodies <- MCBodies
CONSTANT config <- MCConfig
CONSTANT handed <- MCHanded
CONSTANT held <- MCHeld
CONSTANT unnamed = {}
CONSTANT machine = "running"
INVARIANT TypeOK
INVARIANT ConcludesRightly
PROPERTY SettledEnds
PROPERTY StepAsAssumed
\* A step ends.
CHECK_DEADLOCK FALSE

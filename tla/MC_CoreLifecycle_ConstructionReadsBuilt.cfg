CONSTANTS
  MaxCloses = 1
  NoErr = NoErr
SPECIFICATION Spec
INVARIANT ConstructionReadsBuilt

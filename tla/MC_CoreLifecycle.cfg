CONSTANTS
  MaxCloses = 1
  NoErr = NoErr
SPECIFICATION Spec
INVARIANTS
  TypeOK
  NoNilUse
  TeardownComplete
  DependentsClosedFirst

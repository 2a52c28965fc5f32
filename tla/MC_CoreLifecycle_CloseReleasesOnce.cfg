CONSTANTS
  MaxCloses = 2
  NoErr = NoErr
SPECIFICATION Spec
INVARIANT CloseReleasesOnce

CONSTANTS
  NBLOCKS = 8
  NDIRECT = 1
  DBPERIDB = 1
  DIRPERBLK = 4
  f1 = f1
  f2 = f2
  long = long
  Name <- Names
  TooLong <- LongNames
  MaxHeld = 1
  MaxTrouble = 1
  MaxSteps = 6
  MaxWork = 2
  MaxChecks = 1
SPECIFICATION Spec
INVARIANTS NoPanic HeldLoaded Accounted SafeToMount SyncedStays
CHECK_DEADLOCK FALSE
SYMMETRY Symmetry

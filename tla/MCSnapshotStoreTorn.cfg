CONSTANTS
  Scanners = {s1, s2, s3}
  MaxClock = 2
  Names <- MCNames
  Lower <- MCLower
  Versions = {1, 2}
  Devices = {"d"}
  Causes = {"c"}
  Machines <- MCMachines
SYMMETRY Symmetry
SPECIFICATION Spec
INVARIANT DiffFindsAScan
CHECK_DEADLOCK FALSE

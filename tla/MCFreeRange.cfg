SPECIFICATION Spec
CONSTANTS
  W = 4
  Confs <- MCConfs
  BitSizes = {1, 2}
  MaxLeases = 3
INVARIANTS WalkIsLoop FirstFit

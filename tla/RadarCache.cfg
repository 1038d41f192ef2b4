\* The last process is not followed by another.
CHECK_DEADLOCK FALSE
SPECIFICATION Spec
CONSTANTS
  None = None
  Fails = Fails
  i1 = i1
  i2 = i2
  i3 = i3
  Image = {i1, i2, i3}
  Warning = {w1}
  Legend = {l1}
  Context = {c1, c2}
  Capacities = {1, 2}
  Boots = 2
  Retrievals = 5
SYMMETRY Symmetry
INVARIANTS
  TypeOK
  ManifestIsSound
  UsableMosaicIsServed
  GraceGenerationIsKept
  FilesAreBounded
  UsableContextIsServed

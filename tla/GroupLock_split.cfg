\* Two holders of the same lock file.
SPECIFICATION Spec
CONSTANTS
  Procs = {p1, p2, p3}
  Inodes = {i1, i2, i3, i4}
  None = None
INVARIANT MutualExclusion

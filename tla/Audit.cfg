SPECIFICATION Spec
CONSTANTS
  Sources = {s1, s2}
  Dests = {d1, d2}
  Unit = 3
  Settings <- MCSettings
SYMMETRY Interchangeable
INVARIANT ListsRight
INVARIANT WhiteFramesRight

SPECIFICATION Spec
CONSTANTS
  a = a b = b d1 = d1 d2 = d2 m1 = m1 m2 = m2 m3 = m3 m4 = m4 p1 = p1 p2 = p2
  Names = {a}
  Digests = {d1, d2}
  Maps = {m1, m2, m3}
  Params = {p1}
  ParamOf <- OneParam
  NoMap = NoMap
  NoFile = NoFile
  BufCap = 1
  RecUnits = 2
  MaxBatch = 2
  Modes = {"always"}
  Faults = {"read"}
INVARIANT NeverForgotten
SYMMETRY Symmetry

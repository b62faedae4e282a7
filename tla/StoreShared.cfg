SPECIFICATION Spec
CONSTANTS
  a = a b = b d1 = d1 d2 = d2 m1 = m1 m2 = m2 m3 = m3 m4 = m4 p1 = p1 p2 = p2
  Names = {a, b}
  Digests = {d1}
  Maps = {m1, m2, m3, m4}
  Params = {p1}
  ParamOf <- OneParam
  NoMap = NoMap
  NoFile = NoFile
  BufCap = 1
  RecUnits = 2
  MaxBatch = 1
  Modes = {"periodic"}
  Faults = {"kill"}
INVARIANT OwnMap
SYMMETRY NameSymmetry

CONSTANTS
  n1 = n1
  n2 = n2
  o1 = o1
  o2 = o2
  r1 = r1
  r2 = r2
  Null = Null
  off1 = off1
  off2 = off2
  NoOffsets = NoOffsets
  p1 = p1
  p2 = p2
  p3 = p3
  nameA = nameA
  nameB = nameB
  v1 = v1
  v2 = v2
  v3 = v3
  NoValue = NoValue
SYMMETRY MCSymmetry
SPECIFICATION Spec
INVARIANT TypeOK
INVARIANT IterationYieldsEntries
PROPERTY CachedGetReturnsCreate

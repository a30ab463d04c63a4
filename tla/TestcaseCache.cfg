SPECIFICATION Spec
CONSTANTS
  Entries = {q1, q2, q3, q4, q5}
  NoBuf = NoBuf
  Contents <- MCContents
  Length <- MCLength
  MaxLen = 2
  MaxSize = 5
  MaxEntries = 5
SYMMETRY Symmetry
INVARIANTS
  CacheExact
  GetEnds
PROPERTIES
  ImplementsStore

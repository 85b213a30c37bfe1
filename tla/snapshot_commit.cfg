SPECIFICATION PowerSpec
CONSTANTS
  k0 = k0
  Registrations = {r1}
  Creations = {k0, k1, k2}
  Decisions = {d1}
  NoFile = NoFile
  Partial = Partial
  Earlier <- UsedSnapshot
INVARIANTS TypeOK NothingHalf MemoryIsSaved
PROPERTIES KeepsPromise

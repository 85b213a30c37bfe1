SPECIFICATION PowerSpec
CONSTANTS
  k0 = k0
  Registrations = {r1}
  Creations = {k0, k1}
  Decisions = {d1}
  NoFile = NoFile
  Partial = Partial
  Earlier = NoFile
INVARIANTS NothingHalf

CONSTANTS
  h1 = h1
  h2 = h2
  h3 = h3
  Hart <- MCHart
  WORD = 4
SPECIFICATION Spec
SYMMETRY HartSymmetry
INVARIANTS
  ReservationFresh
PROPERTY ImplementsSemaphore

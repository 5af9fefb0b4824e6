SPECIFICATION Spec
CONSTANTS
  Images <- SomeImages
  Reservations <- SomeReservations
  Carveout = 8
  InlineMax = 1
  Fallback = 2
  MaxInputs = 3
  MaxSlots = 3
  Mixed = FALSE
  Keeps = FALSE
  MaxGen = 3
INVARIANTS TypeOK PointersValid CreatedKept
CHECK_DEADLOCK FALSE

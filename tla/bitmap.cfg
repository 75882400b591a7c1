\* Every reachable bitmap, scanned from every tick of every aligned window.
SPECIFICATION Spec
CONSTANTS
  Word = 2
  LeafWords = 6
  Ticks <- WindowOfTicks
INVARIANTS
  SummaryExact
  ScansExact
PROPERTIES
  IsOccupancy

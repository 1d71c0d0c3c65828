\* Open-loop estimates at both ends of the range and at the limit between
\* fractional and integer delays, in every search.
SPECIFICATION Spec
CONSTANTS
  Tops = {20, 84, 143}
  HalfWindow = 4
  Searches = {"core", "wide", "repair"}
INVARIANTS DelaysAgree FilterReadsThePast BitErrorsAreContained

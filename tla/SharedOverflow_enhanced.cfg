\* A decoder driven by DecodeFrameEnhanced next to a strict one.
SPECIFICATION Spec
CONSTANTS
  e1 = e1
  d1 = d1
  d2 = d2
  g1 = g1
  g2 = g2
  Streams = {e1, d1, d2}
  Decoders = {d1, d2}
  Strict = {d1}
  Goroutines = {g1}
  On <- AllOnOne
  MaxFilters = 3
INVARIANT RecoveryIsCommitted

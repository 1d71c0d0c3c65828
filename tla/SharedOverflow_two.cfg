\* The load test: a goroutine per stream.
SPECIFICATION Spec
CONSTANTS
  e1 = e1
  d1 = d1
  d2 = d2
  g1 = g1
  g2 = g2
  Streams = {e1, d1}
  Decoders = {d1}
  Strict = {d1}
  Goroutines = {g1, g2}
  On <- OneEach
  MaxFilters = 3
INVARIANT StreamIsolation

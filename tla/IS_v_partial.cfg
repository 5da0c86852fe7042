SPECIFICATION Spec
CONSTANTS
  d1 = d1
  d2 = d2
  d3 = d3
  Refs <- OneRef
  Manifests <- MCManifests
  Digests <- MCDigests
  Pullers = {w1,w2}
  w1 = w1
  w2 = w2
  None = None
  Empty = Empty
  Garbled = Garbled
  Offered <- Fixed
  Chunks = 2
  MaxFaults = 0
SYMMETRY Symmetry
INVARIANT NeverPartial

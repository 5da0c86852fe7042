SPECIFICATION Spec
CONSTANTS
  d1 = d1
  d2 = d2
  d3 = d3
  Refs <- TwoRefs
  Manifests <- MCManifests
  Digests <- MCDigests
  Pullers = {w1,w2,w3}
  w3 = w3
  w1 = w1
  w2 = w2
  None = None
  Empty = Empty
  Garbled = Garbled
  Offered <- PerRegistry
  Chunks = 2
  MaxFaults = 1
SYMMETRY Symmetry
INVARIANTS TypeOK PulledImageUsable SoundAtRest

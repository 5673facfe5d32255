CONSTANTS
  CPUS = {c1, c2}
  CHECKED = {c1}
SPECIFICATION FairSpec
INVARIANTS Inv Agreement UpOnlyDead
PROPERTIES CheckTells HandshakeEnds

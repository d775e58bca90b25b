SPECIFICATION FairSpec
CONSTANTS
  ADDR_WIDTH = 2
  Data = {w1, w2}
  w1 = w1
  w2 = w2
INVARIANTS
  FlagsConservative
  CodesAreReal
PROPERTIES
  ImplementsBoundedFifo
  FlagsFall

SPECIFICATION MCSpec
CONSTANTS
  Words = {w1, w2}
  w1 = w1
  w2 = w2
  Torn = Torn
  Spacing = 3
  W = 3
INVARIANTS
  NoReplay
  ErrorConfinedToCarry
PROPERTIES
  ImplementsWordChannel
  Arrives

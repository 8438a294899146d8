SPECIFICATION Spec
CONSTANTS NumCores = 2
          NumDataStreams = 2
          RECEIVE_RING_LENGTH = 4
          Window = 2
          Lengths = {0, 1, 5, 12}
          Eager = TRUE
INVARIANTS RightSubint NoCycle SomebodyGoesOn

SPECIFICATION Spec
CONSTANTS
  Sessions = {s1, s2}
  Editors = {e1, e2}
  Slots = {1}
  MAX_IDS = 4
  MAX_CLOCK = 1
  MAX_PASSWORDS = 2
INVARIANTS PossessionProved NoTokenTwice
 
SYMMETRY Symmetry
VIEW View
CONSTRAINT Bounded

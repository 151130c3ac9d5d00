SPECIFICATION Spec
CONSTANTS
  Runs = {r1, r2}
  Provided = 3
  MaxFiles = 4
  Once = {2}
INVARIANTS
  OneAhead
PROPERTIES
  StrandedForGood

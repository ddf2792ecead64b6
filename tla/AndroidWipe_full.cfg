\* A full wipe with a cache that cannot be formatted.
CONSTANTS
  Phones = {p1}
  NoSerial = NoSerial
  AnySerial = AnySerial
SPECIFICATION Spec
INVARIANTS
  FullWipesAll

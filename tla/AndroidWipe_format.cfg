\* A format after a failed erase.
CONSTANTS
  Phones = {p1}
  NoSerial = NoSerial
  AnySerial = AnySerial
SPECIFICATION Spec
INVARIANTS
  EraseThenFormat

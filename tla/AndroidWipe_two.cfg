\* Two phones that come and go, with a serial number, with "*" and without one.
CONSTANTS
  Phones = {p1, p2}
  NoSerial = NoSerial
  AnySerial = AnySerial
SPECIFICATION FairSpec
INVARIANTS
  SuccessMeansUserdata
  OnlyAgreed
PROPERTIES
  AndroidEnds

\* Every object written and read twice; in between, one key may be changed.
SPECIFICATION Spec
CONSTANTS
  Half = 64
  Short = 16
  Kinds = 20
  Long = 1024
  Made <- MCMade
  OutId = OutId
  nullptr = nullptr
  Crash = Crash
  MaxTrips = 2
INVARIANTS
  JsonRoundTrip
  EditIsLocal
  IdSettable
  NullsCrash
PROPERTIES
  NextTripKeeps

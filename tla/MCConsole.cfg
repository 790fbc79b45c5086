SPECIFICATION Spec
CONSTANTS
  INPUT_BUF_SIZE = 2
  UIntMod = 4
  BATCH = 2
  Keys = {"a", "CR", "^D", "^H", "^U"}
  RxFifo = 1
  Readers = {"r1"}
  Writers = {"w1"}
  ReadSizes = {2}
  WriteSizes = {2}
INVARIANTS
  HandshakesKept
PROPERTIES
  TerminalInput
  EofIsZeroRead
  CallsEnd

CONSTANTS
  Byte = {0, 10, 13}
  kCheapPrepend = 2
  kInitialSize = 2
  Chunks <- MCChunks
  Ints <- MCInts
  MaxSize = 6
SPECIFICATION Spec
INVARIANTS
  TypeOK
  Layout
  AssertionsHold
  FieldsArrive
PROPERTIES
  ImplementsStream

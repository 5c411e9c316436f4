SPECIFICATION Spec
CONSTANTS
  Inputs = {i1, i2}
  Outputs = {o1, o2}
  Buffers = {b1, b2, b3}
  NoBuffer = NoBuffer
  BufferSize = 2
  PoolSize = 1
  Lengths = {0, 3}
  Values = {10}
  MaxOpen = 2
  MaxCall = 3
  MaxPoint = 4
INVARIANTS Exclusive BreaksWithReason
PROPERTIES Implements
SYMMETRY Symmetry
VIEW View

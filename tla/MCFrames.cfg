CONSTANTS
  Thread = {1, 2}
  Ref <- MCRef
  Product = {p}
  Frame = {11, 12, 13}
  Plane = {21, 22, 23}
  Table = {31, 32}
  Number = {41, 42}
  Byte = {0, 1}
  MaxLen = 2
  None = None
SPECIFICATION Spec
VIEW MCView
INVARIANTS
  CountsExact
  WritesPrivate
PROPERTIES
  ImplementsFrameValues
CHECK_DEADLOCK FALSE

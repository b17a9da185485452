SPECIFICATION Spec
CONSTANTS
  a = a
  b = b
  c = c
  d = d
  Names = {a, b, c, d}
  Hash <- MCHash
  Indices = {0, 1}
  MinSize = 2
  MaxSize = 8
  MaxFill = 75
  MinFill = 30
PROPERTIES
  ImplementsNameTable

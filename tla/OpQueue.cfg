SPECIFICATION Spec
CONSTANTS
  Ops = {o1, o2, o3}
  Width = 4
  SizeBits = 2
  NoOp = NoOp
SYMMETRY Symmetry
PROPERTIES
  ImplementsFifo

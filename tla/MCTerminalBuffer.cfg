CONSTANTS
  Blank = Blank
  NoRow = NoRow
  Chars = {x, y}
  Sizes <- MCSizes
  MainRows = 4
SPECIFICATION Spec
SYMMETRY MCSymmetry
PROPERTIES
  ImplementsLines

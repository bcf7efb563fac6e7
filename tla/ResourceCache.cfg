SPECIFICATION Spec
CONSTANTS
  Pages = {1, 2, 3}
  a = a
  b = b
  Values <- MCValues
  z = z
  small = small
  large = large
  Keys = {z, small, large}
  Block <- MCBlock
  Textures = {z, small, large}
  PixelsOf <- MCPixelsOf
  Zeta = {z}
  Color = {small, large}
  Images <- MCSwizzled
  Cautious = TRUE
  None = None
SYMMETRY Symmetry
INVARIANTS
  TypeOK
  AssertsHold
  LastWriteWins
  HitsAreFresh
PROPERTIES
  WaitShowsAll

SPECIFICATION Spec
CONSTANTS
  Pages = {1, 2, 3}
  a = a
  b = b
  Values <- MCValues
  z = z
  small = small
  large = large
  Keys = {z, small, large}
  Block <- MCBlock
  Textures = {z, small, large}
  PixelsOf <- MCPixelsOf
  Zeta = {z}
  Color = {small, large}
  Images <- MCLinear
  Cautious = FALSE
  None = None
INVARIANTS
  SyncsProperly

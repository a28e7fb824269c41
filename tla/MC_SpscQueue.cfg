CONSTANTS
  Item = {x, y}
  None = None
  Size = 4
SPECIFICATION QSpec
INVARIANTS NoRace
PROPERTIES RefinesFifo

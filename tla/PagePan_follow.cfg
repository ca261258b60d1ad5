\* A page that grows and repaints, three moves of the user, renders of any length.
SPECIFICATION Spec
CONSTANTS
  ScreenH = 3
  RenderH = 13
  Heights = {8, 18}
  Positions = {0, 5, 15}
  MaxScrolls = 3
  MaxEvals = 2
  MaxChanges = 1
  Animates = TRUE
  Slow = TRUE
  InOrder = TRUE
PROPERTIES CatchUp LabelSettles Quiesces
CHECK_DEADLOCK FALSE

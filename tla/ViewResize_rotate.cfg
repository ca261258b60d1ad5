\* Landscape, landscape above the keyboard, portrait and two placeholders' sizes.
SPECIFICATION Spec
CONSTANTS
  Windows <- MCWindows
  Panel <- MCPanel
  Small <- MCSmall
  Heights = {1400}
  MaxResizes = 4
  MaxQueue = 2
INVARIANTS WithinSegment ReadWhereWritten NotCollapsed LayoutsAgree

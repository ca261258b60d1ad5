\* Two pages that enter full screen three times and once and may be closed.
SPECIFICATION Spec
CONSTANTS
  p1 = p1
  p2 = p2
  Pages = {p1, p2}
  Sessions = {s1, s2, s3, s4}
  NoSession = NoSession
  MaxEnters <- Enters
INVARIANTS OneDecoder SavedIsFull
PROPERTY HandoffPlays
CHECK_DEADLOCK FALSE

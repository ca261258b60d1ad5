\* Everything on, as shipped: hints that follow the page's answer, strips,
\* damage and a video; a resize may find a hint in old pixels.
SPECIFICATION Spec
CONSTANTS
  H = 2
  D = 3
  VFULL = 2
  DFULL = 2
  StripOn = TRUE
  DamageOn = TRUE
  VideoOn = TRUE
  Confirm = TRUE
  Videos = {{1}}
  Leftovers <- SomeLeftovers
  MaxHints = 1
  MaxEvals = 1
PROPERTY DriftBoundedDamage

\* A playing video, and pans whose answers come back but whose hints the
\* backend ignores (/tmp/atlas_no_strip).
SPECIFICATION Spec
CONSTANTS
  H = 3
  D = 4
  VFULL = 3
  DFULL = 2
  StripOn = FALSE
  DamageOn = FALSE
  VideoOn = TRUE
  Confirm = TRUE
  Videos = {{1}}
  Leftovers = {}
  MaxHints = 1
  MaxEvals = 1
INVARIANT TypeOK
PROPERTIES VideoRowsRight DriftBounded

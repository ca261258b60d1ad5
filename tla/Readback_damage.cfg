\* WebKit's damage and a playing video together; pans whose hints the backend
\* ignores (/tmp/atlas_no_strip), sent before the scroll (/tmp/atlas_noconfirm).
SPECIFICATION Spec
CONSTANTS
  H = 3
  D = 4
  VFULL = 2
  DFULL = 2
  StripOn = FALSE
  DamageOn = TRUE
  VideoOn = TRUE
  Confirm = FALSE
  Videos = {{1}}
  Leftovers = {}
  MaxHints = 1
  MaxEvals = 1
INVARIANTS NoGarbage SlotsSeeded
PROPERTIES NoOldLayout DriftBoundedDamage

\* Two attaches, one navigation, five pictures.  The counters run out: the
\* system may stop.
SPECIFICATION LiveSpec
CONSTANTS
  MaxAttaches = 2
  MaxPaints = 5
  MaxNavs = 1
  MaxFrames = 1
  GoesBack = TRUE
  Resizes = TRUE
INVARIANT OnePlace
PROPERTIES NeverPaintedOver NeverBackwards BufferComesBack
CHECK_DEADLOCK FALSE

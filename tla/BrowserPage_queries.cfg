\* Two hit tests and two saves of an image, on a page that may crash or be closed.
SPECIFICATION Spec
CONSTANTS
  MaxNavs = 1
  MaxCrashes = 1
  MaxQueue = 2
  MaxHits = 2
  MaxSaves = 2
  Sensing = FALSE
  Marks = {}
  NoView = NoView
  NoFile = NoFile
  Files = {a}
PROPERTIES HitAnswered SaveAnswered
CHECK_DEADLOCK FALSE

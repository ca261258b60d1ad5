\* Two navigations and the reload of a crash; the app may put one marker on a URL.
SPECIFICATION Spec
CONSTANTS
  MaxNavs = 2
  MaxCrashes = 1
  MaxQueue = 2
  MaxHits = 0
  MaxSaves = 0
  Sensing = TRUE
  Marks = {private}
  NoView = NoView
  NoFile = NoFile
  Files = {}
INVARIANTS ProbeNeverUsesFreed PushedToAsker ScrapesSubmitter ViewIsTheCards
PROPERTIES ListenerIsFed HeldGoesOn
CHECK_DEADLOCK FALSE

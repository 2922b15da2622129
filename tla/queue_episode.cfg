CONSTANTS
  MaxPending = 2
  MaxArrivals = 4
  MaxControls = 2
SPECIFICATION Spec
PROPERTIES
  MarkerPerEpisode
CHECK_DEADLOCK FALSE

\* The default rotation, long enough for a pattern to come round twice.
CONSTANTS
  Battles <- MCPlain
  TopFrame = 910
SPECIFICATION TimelineSpec
PROPERTIES WavesAlternate
CHECK_DEADLOCK FALSE

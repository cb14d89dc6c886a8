\* Commands, game events and interventions, and reports that fail.
SPECIFICATION FairSpec
CONSTANTS
  red = red  Black = Black
  Colours <- TwoColours
  Saved <- TwoConfigs
  RETRIES = 1
  MaxInputs = 2
  WriteFails = TRUE
INVARIANTS
  LedShownUnlessMissed
  RumbleShownUnlessMissed
  LastLedCommandHolds
  RumbleOffIsQuiet
PROPERTY
  OutputCatchesUp

\* A slot's Switch Pro contexts and their rumble.
SPECIFICATION FairSpec
CONSTANTS
  p1 = p1  p2 = p2
  Pads <- TwoPads
  Own = p1
  Levels <- ThreeLevels
  MaxEvents = 8
INVARIANTS
  NothingPlaysUnowned
  MotorAsAsked
PROPERTIES
  SilenceComes
  ContextRecovers
CHECK_DEADLOCK FALSE

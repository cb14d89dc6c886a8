\* Controllers, settings and failures between the buttons and the game.
SPECIFICATION FairSpec
CONSTANTS
  Kinds <- BothKinds
  Binds <- TwoBinds
  MaxEvents = 5
  ClockSteps = TRUE
INVARIANTS
  OneServedDevice
  DeviceIsPolled
PROPERTIES
  NextEventRepairs
  PadFollowed
  DeviceFollowsSetting
CHECK_DEADLOCK FALSE

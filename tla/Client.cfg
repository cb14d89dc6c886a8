\* A TUI or CLI with daemons that come and go, by hand and by the unit.
SPECIFICATION FairSpec
CONSTANTS
  c1 = c1  c2 = c2  Nobody = Nobody  Stray = Stray
  Controllers <- TwoControllers
  MAX_SLOTS = 2
  AGE = 1
  MaxSegments = 2
  MaxStarts = 2
  MaxEvents = 5
INVARIANTS
  TypeOK
  RunningDaemonVisible
  DeadShownBriefly
  TunedWasAsked
PROPERTY
  RunningDaemonShown
CHECK_DEADLOCK FALSE

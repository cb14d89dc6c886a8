\* A Switch Pro controller, whose path changes while it is registered.
CONSTANTS
  MAX_SLOTS = 2
  Devices = {d1}
  NswDevices = {d1}
  Bluetooth = {}
  TIMEOUT <- MCTimeout
  WORD <- MCWord
  MaxEvents <- MCEvents
  AllocFailures = {}
  NoDevice = none
SPECIFICATION FairSpec
INVARIANT
  HidrawRegisteredOnce
PROPERTIES
  MainLoopTurns
  LostControllerIsReleased

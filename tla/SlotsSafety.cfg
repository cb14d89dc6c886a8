\* Two controllers, one of them on Bluetooth, and every allocation that may fail.
CONSTANTS
  MAX_SLOTS = 2
  Devices = {d1, d2}
  NswDevices = {}
  Bluetooth = {d2}
  TIMEOUT <- MCTimeout
  WORD <- MCWord
  MaxEvents <- MCEvents
  AllocFailures = {"malloc", "pthread_create"}
  NoDevice = none
SPECIFICATION Spec
INVARIANTS
  RegisteredSlotHasNoWorker
  ConnectedSlotIsReserved
PROPERTIES
  SlotLostOnlyInKnownPlaces
  ImplementsSlotPool

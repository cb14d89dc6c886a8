\* Restarts, hangs, reused process ids, lost bus connections, calls.
SPECIFICATION FairSpec
CONSTANTS
  s0 = s0  c1 = c1  c2 = c2  Nobody = Nobody  NoCall = NoCall  ProfileCall = ProfileCall
  Slots <- OneSlot
  Controllers <- TwoControllers
  Highest = 2
  AGE = 1
  FDS = 2
  MaxSegments = 2
  MaxEvents = 5
  ClockSteps = TRUE
INVARIANTS
  SubscriberInStep
  IdentityKnownUnlessSwapped
  MonitorKeepsDescriptor
PROPERTIES
  DeadDaemonReported
  RunningDaemonSeen

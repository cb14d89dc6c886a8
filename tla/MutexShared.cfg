\* The daemon, a CLI and a D-Bus bridge; anybody is killed and started again.
SPECIFICATION FairMutexSpec
CONSTANTS
  cli = cli  bridge = bridge
  Daemon = Daemon  NoOwner = NoOwner
  SafeClients <- OneSafe
  PlainClients <- Bridge
  DaemonDies = TRUE
INVARIANT
  ExclusionUnlessFault
PROPERTY
  LockGranted

\* Changes, effects, edits, failing saves, commands and restarts.
SPECIFICATION FairSpec
CONSTANTS
  p1 = p1  v1 = v1
  Default = Default  Factory = Factory  NoFile = NoFile  BadFile = BadFile  NoWatch = NoWatch
  Profiles <- MCProfiles
  Configs <- MCConfigs
  DELAY <- MCDelay
  MaxChanges = 2
  MaxEdits = 2
  Editors <- AnyEditor
  EffectRuns = TRUE
  DiskFails = TRUE
INVARIANT
  CleanProfileIsOnDisk
PROPERTY
  SettingsReachDisk

\* Two clients that overlap and give up, and external edits.
SPECIFICATION FairSpec
CONSTANTS
  c1 = c1  c2 = c2  p1 = p1  p2 = p2
  Default = Default  NoName = NoName
  Profiles <- TwoProfiles
  Clients <- TwoClients
  Asked <- FewRequests
  MayTimeOut = TRUE
  ExternalEdits = TRUE
INVARIANTS
  ResponseTellsLastCommand
  ActiveProfileExists
PROPERTY
  RequestIsTaken

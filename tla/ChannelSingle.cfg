\* One client at a time, answered within its second.
SPECIFICATION FairSpec
CONSTANTS
  c1 = c1  c2 = c2  p1 = p1  p2 = p2
  Default = Default  NoName = NoName
  Profiles <- ThreeProfiles
  Clients <- OneClient
  Asked <- AnyRequest
  MayTimeOut = FALSE
  ExternalEdits = FALSE
PROPERTIES
  EveryRequestAnswered
  ImplementsProfileRpc

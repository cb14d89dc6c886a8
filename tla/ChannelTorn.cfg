\* Two clients, both answered within a second: a delete of the wrong profile.
SPECIFICATION FairSpec
CONSTANTS
  c1 = c1  c2 = c2  p1 = p1  p2 = p2
  Default = Default  NoName = NoName
  Profiles <- ThreeProfiles
  Clients <- TwoClients
  Asked <- AnyRequest
  MayTimeOut = FALSE
  ExternalEdits = FALSE
PROPERTY
  DeletedOnlyOnRequest

SPECIFICATION FairSpec
CONSTANTS
  o1 = o1  o2 = o2
  Oids = {o1, o2}
  Clients = {c1}
  Vol <- UnitVol
  Budget = 1
  InitialHold = 0
  Proposing = {o1}
  ExternalVolume = 1
  MaxPositions = 2
  OpenListLags = FALSE
  NoOid = NoOid
  Nobody = Nobody
PROPERTY FinishedEntryReleased

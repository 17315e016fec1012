SPECIFICATION FairSpec
CONSTANTS
  o1 = o1  o2 = o2
  Oids = {o1}
  Clients = {c1}
  Vol <- UnitVol
  Budget = 1
  InitialHold = 0
  Proposing = {}
  ExternalVolume = 0
  MaxPositions = 3
  OpenListLags = FALSE
  NoOid = NoOid
  Nobody = Nobody
PROPERTY WaitingHelps

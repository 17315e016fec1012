SPECIFICATION Spec
CONSTANTS
  o1 = o1  o2 = o2
  Oids = {o1}
  Clients = {c1, c2}
  Vol <- UnitVol
  Budget = 2
  InitialHold = 2
  Proposing = {}
  ExternalVolume = 0
  MaxPositions = 3
  OpenListLags = FALSE
  NoOid = NoOid
  Nobody = Nobody
SYMMETRY ClientSymmetry
PROPERTY ReleaseSeesFill

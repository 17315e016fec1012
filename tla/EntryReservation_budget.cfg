SPECIFICATION Spec
CONSTANTS
  o1 = o1  o2 = o2
  Oids = {o1, o2}
  Clients = {c1, c2}
  Vol <- TwoOneVol
  Budget = 2
  InitialHold = 1
  Proposing = {}
  ExternalVolume = 0
  MaxPositions = 3
  OpenListLags = FALSE
  NoOid = NoOid
  Nobody = Nobody
SYMMETRY ClientSymmetry
INVARIANT BudgetRespected

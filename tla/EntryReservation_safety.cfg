SPECIFICATION Spec
CONSTANTS
  o1 = o1  o2 = o2
  Oids = {o1, o2}
  Clients = {c1, c2}
  Vol <- TwoOneVol
  Budget = 2
  InitialHold = 1
  Proposing = {o1, o2}
  ExternalVolume = 0
  MaxPositions = 3
  OpenListLags = TRUE
  NoOid = NoOid
  Nobody = Nobody
SYMMETRY ClientSymmetry
INVARIANTS TypeOK GuardedEntry BudgetUnlessRaced ThesisOfOpener
PROPERTIES ImplementsAuthority

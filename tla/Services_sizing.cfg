SPECIFICATION MCSpec
CONSTANTS
  Closers = {c1}
  Cancellers = {k1}
  MaxLots = 2
  VerifyAttempts = 2
  MinLots = 1
  Nobody = nobody
  NoUnit = nounit
  Vol = 2
  Attempts = 2
  MaxOthers = 2
  Threads = {t1, t2}
  MaxVersion = 1
  MaxReads = 2
  Idle = idle
  Procs = {p1, p2}
  Unheld = unheld
  Analyses = {a1, a2, a3, a4}
  Early = a1
  Forced = {a4}
  Reevaluations = {e1}
  Snapshots = {n1}
  Savers = {w1, w2}
  Actions = {m1}
  Providers = {"claude"}
  FirstClient = f1
  MaxSwaps = 2
  Nothing = nothing
  Units = {u1, u2}
  MaxTime = 4
  Window = 3
  MaxBars = 2
  MaxRows = 1
  MaxVersions = 1
  Proposals <- ProposalKinds
  Profiles <- RiskProfiles
  Contracts <- RiskContracts
  Accounts <- RiskAccounts
  Tickets <- RiskTickets
  Volumes = {1, 6}
  Prices = {20, 24}
  MaxClock = 4
  Interval = 2
  MaxFlaps = 4
  Slowest = 8
  Rounds = 2
  PageSize = 2
  MaxPages = 2
  MaxListed = 4
INVARIANT SuggestedAccepted
CHECK_DEADLOCK FALSE

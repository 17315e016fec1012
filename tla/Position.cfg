SPECIFICATION MCSpec
CONSTANTS
  Restarts = TRUE
  MaxOpenings = 2
  Entries = {1, 2}
  ArmRules = {"auto_be"}
  CloseGraceCycles = 2
  s1 = s1  s2 = s2
  Users = {u1}
  Monitor = Monitor
  Rules = {}
  TmEnabled = FALSE
  MaxPrice = 3
  Entry = 1
  Tick = 2
  Tolerance = 1
  MaxHold = 2
  MaxEpochs = 2
  StopIds = {s1, s2}
  VerifyAttempts = 1
  BeMaxAttempts = 2
  NoStop = NoStop
  Nobody = Nobody
  MaxMark = 8
  EntryPrice = 5
  Hold = 2
  MaxSize = 3
  EntrySlack = 1
  Averages = {4, 6, 7}
  Fee = 1
  Moves = {7}
  MarkStep = 3
  TrailMult = 1
  Atrs = {0, 1, 3}
  TriggerIds = {1, 2, 3}
INVARIANTS TypesOK LatchOfThisPosition BreakEvenKept
PROPERTIES ArmingKept CancelKeepsCover NoOldArming

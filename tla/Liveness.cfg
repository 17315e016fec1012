SPECIFICATION LiveSpec
CONSTANTS
  s1 = s1  s2 = s2
  Users = {u1}
  Monitor = Monitor
  Rules = {}
  TmEnabled = FALSE
  MaxPrice = 2
  Entry = 1
  Tick = 1
  Tolerance = 0
  MaxHold = 2
  MaxEpochs = 1
  StopIds = {s1, s2}
  VerifyAttempts = 2
  BeMaxAttempts = 2
  NoStop = NoStop
  Nobody = Nobody
  Entries = {1}
  CloseGraceCycles = 2
PROPERTIES LockReleased VanishedRowClosed AlarmShown

SPECIFICATION Spec
CONSTANTS
  s1 = s1  s2 = s2  s3 = s3
  Users = {u1}
  Monitor = Monitor
  Rules = {"auto_be", "auto_trail"}
  TmEnabled = TRUE
  MaxPrice = 2
  Entry = 1
  Tick = 1
  Tolerance = 0
  MaxHold = 1
  MaxEpochs = 2
  StopIds = {s1, s2}
  VerifyAttempts = 1
  BeMaxAttempts = 2
  NoStop = NoStop
  Nobody = Nobody

PROPERTIES AutomaticOnlyWhileArmed AutomationBacksOff AutomaticSamePosition ManualStopHolds
CONSTRAINT SecondStopUnmanaged
SYMMETRY StopSymmetry

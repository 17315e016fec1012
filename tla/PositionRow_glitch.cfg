SPECIFICATION RowSpec
CONSTANTS
  Restarts = TRUE
  MaxOpenings = 2
  Entries = {1, 2}
  ArmRules = {"auto_be"}
  CloseGraceCycles = 2

PROPERTY SingleGlitchForgiven

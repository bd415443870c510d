SPECIFICATION Spec
CONSTANTS
  Width = 12
  Bases = {0, 2, 3, 16, 24}
  Caps = {0, 7, 40, 200}
  Attempts = {0, 1, 3, 18}
  DefaultBase = 6
  DefaultCap = 60
  DefaultAttempts = 8
  RetryAfters = {0, 1, 30, 300}
INVARIANT DelayOnSchedule
CHECK_DEADLOCK FALSE

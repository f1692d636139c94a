\* Two threads, two devices, one bundle, two users.
SPECIFICATION Spec
CONSTANTS
  Bundle = {b1}
  Singleton = {}
  User = {u100, u101}
  StartUser = u100
  SystemUser = u0
  NoUser = none
  NoInfo = noInfo
  Corrupt = corrupt
  MaxTime = 2
  Thread = {t1, t2}
  Device = {here, there}
  Self = here
  MaxTries = 1
  MaxIpcErrors = 1
  MaxFaults = 1
INVARIANT TypeOK
PROPERTIES ForeignUntouched NoSilentRollback CallAdvances PublishesReadings
SYMMETRY ThreadSymmetry

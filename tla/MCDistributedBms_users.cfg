\* One bundle, two users: user switches, failures, restarts.
SPECIFICATION ServiceSpec
CONSTANTS
  Bundle = {b1}
  Singleton = {}
  User = {u100, u101}
  StartUser = u100
  SystemUser = u0
  NoUser = none
  NoInfo = noInfo
  Corrupt = corrupt
  MaxTime = 4
  Thread = {main, monitor}
  Device = {here}
  Self = here
  Main = main
  Monitor = monitor
  MaxTries = 2
  MaxIpcErrors = 1
  MaxFaults = 1
  MaxQueue = 2
  MaxStarts = 2
INVARIANTS ServiceTypeOK Agreement RetryAbsorbs
PROPERTIES NoSilentRollback PublishesReadings
\* The model stops when its bounds are used up.
CHECK_DEADLOCK FALSE

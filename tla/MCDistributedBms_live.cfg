\* No failures: what the fair service converges to.
SPECIFICATION ServiceSpec
CONSTANTS
  Bundle = {b1}
  Singleton = {}
  User = {u100, u101}
  StartUser = u100
  SystemUser = u0
  NoUser = none
  NoInfo = noInfo
  Corrupt = corrupt
  MaxTime = 3
  Thread = {main, monitor}
  Device = {here}
  Self = here
  Main = main
  Monitor = monitor
  MaxTries = 2
  MaxIpcErrors = 0
  MaxFaults = 0
  MaxQueue = 2
  MaxStarts = 2
PROPERTY Converges
\* The model stops when its bounds are used up.
CHECK_DEADLOCK FALSE

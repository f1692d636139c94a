\* Two bundles and a singleton, one user: the refresh goes through several.
SPECIFICATION ServiceSpec
CONSTANTS
  Bundle = {b1, b2, b3}
  Singleton = {b3}
  User = {u100}
  StartUser = u100
  SystemUser = u0
  NoUser = none
  NoInfo = noInfo
  Corrupt = corrupt
  MaxTime = 3
  Thread = {main, monitor}
  Device = {here}
  Self = here
  Main = main
  Monitor = monitor
  MaxTries = 2
  MaxIpcErrors = 0
  MaxFaults = 1
  MaxQueue = 2
  MaxStarts = 2
INVARIANT Agreement
PROPERTY SingletonNotPublished
\* The model stops when its bounds are used up.
CHECK_DEADLOCK FALSE

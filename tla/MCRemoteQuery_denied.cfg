\* A caller without permission asks for stored information.
SPECIFICATION Spec
CONSTANTS
  Caller = {c1, c2}
  SystemApp = {c1}
  Permitted = {c1}
  Device = {d1}
  Ability = {a1, a2}
  Nothing = nothing
  User = {u1}
  NoUser = noUser
  Trusted <- TrustsFirst
  Query <- StoredInfo
  MaxSize = 2
  MaxChanges = 1
  MaxDeaths = 1
  MaxFaults = 0
  d1 = d1
  a1 = a1
  a2 = a2
  u1 = u1
  u2 = u2
INVARIANT DeniedIsNoSuccess

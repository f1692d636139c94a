\* Every operation on one peer while bundles and users change.
SPECIFICATION Spec
CONSTANTS
  Caller = {c1}
  SystemApp = {c1}
  Permitted = {c1}
  Device = {d1}
  Ability = {a1, a2}
  Nothing = nothing
  User = {u1, u2}
  NoUser = noUser
  Trusted <- TrustsFirst
  Query <- Queries
  MaxSize = 2
  MaxChanges = 3
  MaxDeaths = 1
  MaxFaults = 1
  d1 = d1
  a1 = a1
  a2 = a2
  u1 = u1
  u2 = u2
INVARIANTS QueryTypeOK AllOrNothing
PROPERTIES AnswersOfOneUser AnswersAdmitted QueryAdvances EveryQueryEnds

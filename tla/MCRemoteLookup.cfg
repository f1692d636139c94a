\* Two threads ask about one peer that changes what it publishes.
SPECIFICATION Spec
CONSTANTS
  Thread = {t1, t2}
  Device = {here, there}
  Self = here
  Bundle = {b1}
  Token = {k1}
  NoEntry = noEntry
  Corrupt = corrupt
  MaxChanges = 2
  MaxAsked = 2
  MaxReports = 2
  MaxFaults = 1
INVARIANT LookupTypeOK
PROPERTIES ReadSpec NotExistIsHonest
SYMMETRY Symmetry

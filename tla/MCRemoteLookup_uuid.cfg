\* What is done when the device manager gives an empty uuid.
SPECIFICATION Spec
CONSTANTS
  Thread = {t1}
  Device = {here, there}
  Self = here
  Bundle = {b1}
  Token = {k1}
  NoEntry = noEntry
  Corrupt = corrupt
  MaxChanges = 2
  MaxAsked = 2
  MaxReports = 1
  MaxFaults = 1
INVARIANT NoSyncWithoutUuid

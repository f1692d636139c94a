\* Two tokens, and reports that may never come: every question is answered.
SPECIFICATION Spec
CONSTANTS
  Thread = {t1, t2}
  Device = {here, there}
  Self = here
  Bundle = {b1}
  Token = {k1, k2}
  NoEntry = noEntry
  Corrupt = corrupt
  MaxChanges = 0
  MaxAsked = 2
  MaxReports = 1
  MaxFaults = 1
PROPERTIES ReadSpec EveryQuestionAnswered

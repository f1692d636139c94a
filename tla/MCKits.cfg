\* Two requests of any kit on two workers, a d-bms that dies.
SPECIFICATION KitSpec
CONSTANTS
  Thread = {t1, t2}
  MaxDeaths = 1
  Request = {r1, r2}
  NoRequest = noRequest
  MaxSize = 2
  Input <- Inputs
  Through <- OneOfEach
  r1 = r1
  r2 = r2
CHECK_DEADLOCK FALSE
INVARIANTS KitTypeOK ClientTypeOK KeptIsWatched NoticedIsGone DeathGetsThrough AskedWithinLimits RecordLives
PROPERTIES ValueIsWhole DropsOnlyTheDead DeadIsDropped EveryRequestSettles

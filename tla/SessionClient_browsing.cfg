CONSTANTS
  Users = {u1}
  SessionIds = {s1}
  Tokens = {t1, t2, t3, t4}
  Requests = {r1, r2}
  Browsers = {b1}
  None = None
SPECIFICATION FairClientSpec
CHECK_DEADLOCK FALSE
INVARIANTS
  TypeOK
  ChainEnds
  RevokedIsDead
  RefusedIsDead
  NoFalseAlarm
PROPERTIES
  KeepsFamily
  CallsEnd

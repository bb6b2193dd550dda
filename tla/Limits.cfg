CONSTANTS
  k1 = k1
  k2 = k2
  Key = {k1, k2}
  Limit = 2
  Window = 4
  Second = 2
  MaxTime = 8
  kid1 = kid1
  kid2 = kid2
  Kid = {kid1, kid2}
  NoKid = NoKid
  Tokens <- MCTokens
  NoToken = NoToken
  Lifespan = 1
  MaxClock = 3
  NoKeySet = NoKeySet
  NoReply = NoReply
  s1 = s1
  s2 = s2
  Stay = {s1, s2}
  Ttl = 2
  Period = 2
  MaxIdle = 6
  NoStay = NoStay
SPECIFICATION DoorSpec
INVARIANTS
  DoorTypeOK
  WindowCap
  RetryAfterSuffices
  AdmitsTheSound
  RefusalTellsFault
  GoneWithinTheHour
PROPERTIES
  RefusesOnlyAtLimit
  LapsedGo
CHECK_DEADLOCK TRUE

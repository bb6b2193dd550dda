CONSTANTS
  Track = {"problem"}
  Step <- OneTrackSteps
  STEP_ORDER_BY_TRACK <- OneTrack
  NoStep = NoStep
  NoTurn = NoTurn
  NoRow = NoRow
  NoGate = NoGate
  NoCall = NoCall
  r1 = r1
  r2 = r2
  r3 = r3
  r4 = r4
  p1 = p1
  p2 = p2
  t1 = t1
  t2 = t2
  t3 = t3
  Req = {r1, r2, r3}
  Problem = {p1, p2}
  Turn = {t1, t2}
  MaxSid = 3
  Verdicts <- PassOrRetry
  Seeds <- OneByokSession
  Capped = TRUE
  MaxSessions = 2
  MaxMessages = 3
  Citations = {FALSE}
  CoachModes = {"local"}
  MayExpire = FALSE
  MayCrash = FALSE
  Offered <- OwnKey
SPECIFICATION Spec
INVARIANTS
  MessageCap
CHECK_DEADLOCK TRUE

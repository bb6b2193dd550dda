CONSTANTS
  Track = {"problem"}
  Step <- OneStepSteps
  STEP_ORDER_BY_TRACK <- OneStep
  NoStep = NoStep
  NoTurn = NoTurn
  NoRow = NoRow
  NoGate = NoGate
  NoCall = NoCall
  r1 = r1
  r2 = r2
  r3 = r3
  r4 = r4
  p1 = p1
  p2 = p2
  t1 = t1
  t2 = t2
  t3 = t3
  Req = {r1, r2, r3}
  Problem = {p1}
  Turn = {t1, t2}
  MaxSid = 3
  Verdicts <- PassOrRetry
  Seeds <- OneByokSession
  Capped = FALSE
  MaxSessions = 9
  MaxMessages = 9
  Citations = {FALSE}
  CoachModes = {"local"}
  MayExpire = FALSE
  MayCrash = FALSE
  Offered <- CreateDuringReset
SPECIFICATION Spec
PROPERTIES
  ResetCannotCollide
CHECK_DEADLOCK TRUE

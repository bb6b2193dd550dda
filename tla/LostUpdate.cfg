CONSTANTS
  Track = {"problem"}
  Step <- OneTrackSteps
  STEP_ORDER_BY_TRACK <- OneTrack
  NoStep = NoStep
  NoTurn = NoTurn
  NoRow = NoRow
  NoGate = NoGate
  NoCall = NoCall
  r1 = r1
  r2 = r2
  r3 = r3
  r4 = r4
  p1 = p1
  p2 = p2
  t1 = t1
  t2 = t2
  t3 = t3
  Req = {r1, r2, r3, r4}
  Problem = {p1}
  Turn = {t1, t2, t3}
  MaxSid = 3
  Verdicts <- RetryOnly
  Seeds <- OneServerSession
  Capped = FALSE
  MaxSessions = 9
  MaxMessages = 9
  Citations = {TRUE}
  CoachModes = {"local"}
  MayExpire = FALSE
  MayCrash = FALSE
  Offered <- FourWriters
SPECIFICATION Spec
PROPERTIES
  SavesOverWhatItRead
CHECK_DEADLOCK TRUE

CONSTANTS
  Track <- ProductionTracks
  Step <- ProductionSteps
  STEP_ORDER_BY_TRACK <- ProductionOrder
  NoStep = NoStep
  t1 = t1
  Turn = {t1}
  NoTurn = NoTurn
  NoSession = NoSession
  Sid <- MCSid
  Verdicts <- MCVerdicts
  MaxAnswers = 7
  SolutionSteps <- MCSolutionSteps
  NoRequest = NoRequest
  NoInstance = NoInstance
  NoPrompt = NoPrompt
  Word <- MCWord
  Alphabet <- MCAlphabet
  Slugified <- MCSlugified
  SlugLike <- MCSlugLike
  Humanised <- MCHumanised
  Hidden <- MCHidden
  BookOrder <- MCBookOrder
  NoNumber = NoNumber
  AfterAll = 100
  Term <- MCTerm
  Corpora <- MCCorpora
  Calls <- MCCalls
  NoLimit = NoLimit
  AnyBook = AnyBook
  MaxResults = 2
  MaxRelated = 2
  MaxBody = 4
  MaxOutline = 9
  NoIndex = NoIndex
  NoWalk = NoWalk
  NothingSaid = NothingSaid
  x1 = x1
  x2 = x2
  LastStep = 3
  Text <- MCText
  Window = 2
  MaxMessages = 4
  NoTurnYet = NoTurnYet
  NoCases = NoCases
SPECIFICATION GatheredSpec
INVARIANTS
  GatheredTypeOK
  ClearedInOrder
  HintsFollowAttempts
  SolutionOnlyOnceReached
  SolutionWithheld
  ResolvesUnlessMangled
  OutlineFollowsSidebar
  FindsTheBest
  TranscriptCoversSeen
  ProbesAreFair
PROPERTIES
  ClimbsOnly
  GateContextFitsStep
CHECK_DEADLOCK TRUE

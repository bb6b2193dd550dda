CONSTANTS
  Track = {"problem"}
  Step <- OneTrackSteps
  STEP_ORDER_BY_TRACK <- OneTrack
  NoStep = NoStep
  ModelKey <- Keys
  NoKey = NoKey
  ProviderOf <- Providers
  DefaultByTier <- Defaults
  Deployments <- AllDeployments
  Absent = Absent
  Null = Null
  Infinite = Infinite
  Other = Other
  Nested = Nested
  NotObject = NotObject
  NoAnswer = NoAnswer
  Rejected = Rejected
  Broken = Broken
  RawVerdicts <- SomeRaws
  NoSession = NoSession
  Suites <- SomeSuites
  Replays = 2
  JudgeRaws <- SomeJudgeRaws
  NoRun = NoRun
  NoBaseline = NoBaseline
SPECIFICATION JudgeSpec
INVARIANTS
  JudgeTypeOK
  TransportFollowsProvider
  ServerKeySpentAstray
  OfferHolds
  BundleIsCallable
  NeverGrants
  ScoreAsMeant
  BaselineTells
  ReportTells
CHECK_DEADLOCK TRUE

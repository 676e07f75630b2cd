SPECIFICATION Spec
CONSTANTS
  NoId = NoId
  p1 = p1
  p2 = p2
  m1 = m1
  m2 = m2
  c1 = c1
  i1 = i1
  i2 = i2
  Proc = {p1, p2}
  Msg = {m1}
  Campaign = {c1}
  SmtpCampaign = {}
  Id = {p1, p2}
  Gen = {1}
  IdOf <- OwnIdOf
  CampaignOf <- OneCampaign
  NonCampaign = {}
  Transactional = {}
  BatchSize = 1
  Concurrency = 1
  MaxAttempts = 2
  PolicySES = "retry"
  PolicySMTP = "retry"
  Verdicts <- Doubtful
  Reasons <- Soft
  CampaignMoves <- Resume
  Delay = "any"
  DbFaults = TRUE
  MaxHalts = 1
  AttemptsCap = 3
  MaxCopies = 2
  MaxUnbuilt = 1
SYMMETRY Senders
INVARIANTS
  TypeOK
  Accounting
  AttemptsBound
  SentWasAccepted
  SecondDoubtIsFinal
PROPERTIES
  BlockedStaysUnsent
  KeepsPromise

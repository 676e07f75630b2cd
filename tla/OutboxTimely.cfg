SPECIFICATION Spec
CONSTANTS
  NoId = NoId
  p1 = p1
  p2 = p2
  m1 = m1
  m2 = m2
  c1 = c1
  i1 = i1
  i2 = i2
  Proc = {p1, p2}
  Msg = {m1}
  Campaign = {c1}
  SmtpCampaign = {}
  Id = {p1, p2}
  Gen = {1}
  IdOf <- OwnIdOf
  CampaignOf <- OneCampaign
  NonCampaign = {m1}
  Transactional = {m1}
  BatchSize = 1
  Concurrency = 1
  MaxAttempts = 2
  PolicySES = "fail"
  PolicySMTP = "fail"
  Verdicts <- Every
  Reasons <- Hard
  CampaignMoves <- AllMoves
  Delay = "none"
  DbFaults = TRUE
  MaxHalts = 2
  AttemptsCap = 9
  MaxCopies = 3
  MaxUnbuilt = 1
SYMMETRY Senders
INVARIANT
  OneDispatcher
PROPERTY
  KeepsStrictPromise

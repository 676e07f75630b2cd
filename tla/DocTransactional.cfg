SPECIFICATION Spec
CONSTANTS
  NoId = NoId
  p1 = p1
  p2 = p2
  m1 = m1
  m2 = m2
  c1 = c1
  i1 = i1
  i2 = i2
  Proc = {p1}
  Msg = {m1}
  Campaign = {c1}
  SmtpCampaign = {}
  Id = {i1, i2}
  Gen = {1}
  IdOf <- DistinctIdOf
  CampaignOf <- OneCampaign
  NonCampaign = {m1}
  Transactional = {m1}
  BatchSize = 1
  Concurrency = 1
  MaxAttempts = 2
  PolicySES = "fail"
  PolicySMTP = "fail"
  Verdicts <- Reliable
  Reasons <- AllReasons
  CampaignMoves <- AllMoves
  Delay = "none"
  DbFaults = FALSE
  MaxHalts = 0
  AttemptsCap = 9
  MaxCopies = 3
  MaxUnbuilt = 1
PROPERTY
  UnsubscribeSparesTransactional

SPECIFICATION FairSpec
CONSTANTS
  NoId = NoId
  p1 = p1
  p2 = p2
  m1 = m1
  m2 = m2
  c1 = c1
  i1 = i1
  i2 = i2
  Proc = {p1}
  Msg = {m1, m2}
  Campaign = {c1}
  SmtpCampaign = {}
  Id = {i1, i2}
  Gen = {1}
  IdOf <- DistinctIdOf
  CampaignOf <- OneCampaign
  NonCampaign = {}
  Transactional = {}
  BatchSize = 2
  Concurrency = 1
  MaxAttempts = 2
  PolicySES = "fail"
  PolicySMTP = "fail"
  Verdicts <- Plain
  Reasons <- Nothing
  CampaignMoves <- Resume
  Delay = "queue"
  DbFaults = FALSE
  MaxHalts = 1
  AttemptsCap = 9
  MaxCopies = 3
  MaxUnbuilt = 0
PROPERTIES
  ClaimedIsDecided
  PendingIsTaken

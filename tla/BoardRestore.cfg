\* Two tickets on one host, one agent, one approval: a snapshot at any moment,
\* then a restart or a restore, with what the lost window handed out still around.
CONSTANTS
  t1 = t1
  t2 = t2
  h1 = h1
  NoHost = NoHost
  NoTicket = NoTicket
  NoAgent = NoAgent
  NoPlan = NoPlan
  NoApproval = NoApproval
  Gateway = gw
  TierApprover = tier
  Host = {h1}
  Ticket = {t1, t2}
  Agent = {a1}
  Approver = {tier}
  Plan = {p1}
  AutoPlan = {p1}
  Approval = {1}
  WipGlobal = 2
  WipAgent = 1
  KillMirrored = FALSE
  OutageMinAgents = 2
  OutageQuota = 0
  MaxGen = 6
  MaxGrants = 1
  MaxBoots = 1
  HostOf <- OneHost
  DepsOf <- NoDeps
SPECIFICATION RestoreSpec
CHECK_DEADLOCK FALSE
INVARIANTS LostTokensAreDead RestoredHoldsAgree
PROPERTIES SpentOnce

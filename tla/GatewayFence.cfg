\* The fencing check against the mutex it precedes.
CONSTANTS
  t1 = t1
  h1 = h1
  NoHost = NoHost
  NoTicket = NoTicket
  NoAgent = NoAgent
  NoPlan = NoPlan
  NoApproval = NoApproval
  NoRun = NoRun
  Gateway = gw
  TierApprover = tier
  Host = {h1}
  Ticket = {t1}
  Agent = {a1}
  Approver = {tier}
  Plan = {p1}
  AutoPlan = {p1}
  Approval = {1, 2}
  WipGlobal = 2
  WipAgent = 1
  KillMirrored = FALSE
  OutageMinAgents = 1
  OutageQuota = 0
  MaxGen = 8
  MaxGrants = 1
  Run = {r1, r2}
  Op = {o1, o2}
  HostOf <- OneHost
  DepsOf <- NoDeps
SPECIFICATION SysSpec
CHECK_DEADLOCK FALSE
PROPERTIES DispatchesInTokenOrder

\* Approvals end to end; the outage gate stays below its minimum population
\* (the configured default of four agents).
CONSTANTS
  t1 = t1
  t2 = t2
  t3 = t3
  h1 = h1
  a1 = a1
  a2 = a2
  p1 = p1
  p2 = p2
  NoHost = NoHost
  NoTicket = NoTicket
  NoAgent = NoAgent
  NoPlan = NoPlan
  NoApproval = NoApproval
  Gateway = gw
  TierApprover = tier
  Host = {h1}
  Ticket = {t1}
  Agent = {a1, a2}
  Approver = {a1, tier}
  Plan = {p1, p2}
  AutoPlan = {p2}
  Approval = {1, 2}
  WipGlobal = 2
  WipAgent = 1
  KillMirrored = TRUE
  OutageMinAgents = 4
  OutageQuota = 1
  MaxGen = 8
  MaxGrants = 2
  HostOf <- OneHost
  DepsOf <- NoDeps
SPECIFICATION Spec
CHECK_DEADLOCK FALSE
INVARIANTS GrantedIffApproved ExecutesWhatWasApproved
PROPERTIES ApprovalsAreFinal LifecycleSpec

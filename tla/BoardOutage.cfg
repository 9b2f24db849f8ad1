\* Two tickets on one host: claims, approvals, executions and kills with the outage
\* gate open to trip on every silent agent (a minimum population of one), the reaper
\* and the wall clock fair.
CONSTANTS
  t1 = t1
  t2 = t2
  t3 = t3
  h1 = h1
  a1 = a1
  a2 = a2
  p1 = p1
  p2 = p2
  NoHost = NoHost
  NoTicket = NoTicket
  NoAgent = NoAgent
  NoPlan = NoPlan
  NoApproval = NoApproval
  Gateway = gw
  TierApprover = tier
  Host = {h1}
  Ticket = {t1, t2}
  Agent = {a1, a2}
  Approver = {tier}
  Plan = {p1}
  AutoPlan = {p1}
  Approval = {1}
  WipGlobal = 2
  WipAgent = 1
  KillMirrored = TRUE
  OutageMinAgents = 1
  OutageQuota = 0
  MaxGen = 5
  MaxGrants = 1
  HostOf <- OneHost
  DepsOf <- NoDeps
SPECIFICATION FairSpec
CHECK_DEADLOCK FALSE
INVARIANTS LockMatchesTicket ReleasedTokenIsDead
PROPERTIES FencedLockSpec ClaimEnds DrainedWorkReturns

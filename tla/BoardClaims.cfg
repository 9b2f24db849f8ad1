\* Claims, leases, releases and sweeps; no plans, so no approvals.  The outage
\* gate trips as soon as one of two agents at work goes silent.
CONSTANTS
  t1 = t1
  t2 = t2
  t3 = t3
  h1 = h1
  a1 = a1
  a2 = a2
  p1 = p1
  p2 = p2
  NoHost = NoHost
  NoTicket = NoTicket
  NoAgent = NoAgent
  NoPlan = NoPlan
  NoApproval = NoApproval
  Gateway = gw
  TierApprover = tier
  Host = {h1}
  Ticket = {t1, t2, t3}
  Agent = {a1, a2}
  Approver = {tier}
  Plan = {}
  AutoPlan = {}
  Approval = {}
  WipGlobal = 2
  WipAgent = 1
  KillMirrored = FALSE
  OutageMinAgents = 2
  OutageQuota = 0
  MaxGen = 4
  MaxGrants = 0
  HostOf <- ThirdHostless
  DepsOf <- SecondAfterFirst
SPECIFICATION Spec
SYMMETRY AgentSymmetry
CHECK_DEADLOCK FALSE
INVARIANTS TypeOK TokensUnique ReplayNeverStale WipCapRespected StartedAfterDeps

------------------------------- MODULE Board -------------------------------
(***************************************************************************)
(* The Board server (src/apps/board/server/src): the ticket lifecycle, the *)
(* host locks that carry the leases and mint the fencing tokens, the       *)
(* approval records and the sweeps.                                        *)
(*                                                                         *)
(* Every handler runs in one BEGIN IMMEDIATE transaction (db/tx.js), so a  *)
(* handler is one action; grant is two, because it awaits Notes and CMDB   *)
(* between its checks and its transaction.  The callers (agents, operators,*)
(* the Gateway) are open: any call the authorisation layer admits may      *)
(* arrive at any time, in any order, late or twice.                        *)
(*                                                                         *)
(* Time is abstract: a claim lease is live until LeaseAges says otherwise, *)
(* and the wall-clock cap of a ticket runs until CapRunsOut.               *)
(***************************************************************************)
EXTENDS Naturals, FiniteSets

CONSTANTS
  Ticket,           \* tickets (all born todo)
  Host,             \* CMDB hosts, the shared resources
  NoHost,           \* host_id NULL
  HostOf,           \* host_id of a ticket, or NoHost
  DepsOf,           \* the tickets a ticket waits for (ticket_deps)
  Agent,            \* agent identities (sub)
  Gateway,          \* svc:gateway
  Approver,         \* identities that may call grant
  TierApprover,     \* svc:tier-approver, the auto-tier lane
  Plan,             \* plan revisions (plan_note_id, plan_note_rev)
  AutoPlan,         \* the plans the auto-approve floor lets the tier lane grant
  Approval,         \* ids of approvals rows
  NoTicket, NoAgent, NoPlan, NoApproval,
  WipGlobal, WipAgent,              \* WIP caps (guardrails.js seedDefaults)
  KillMirrored,     \* authRevocationsUrl is configured: the kill level is mirrored
  OutageMinAgents, OutageQuota,     \* outage gate: minimum population, and the
                                    \* largest number of expired agents that
                                    \* does not exceed threshold * fleetSize
  MaxGen,           \* bound: tokens minted per resource
  MaxGrants         \* bound: grant calls in flight

Resource == Host \cup Ticket

ASSUME HostAssumption ==
  /\ HostOf \in [Ticket -> Host \cup {NoHost}]
  /\ NoHost \notin Host
  /\ Host \cap Ticket = {}
ASSUME DepsAssumption == DepsOf \in [Ticket -> SUBSET Ticket]
ASSUME IdentityAssumption ==
  /\ Gateway \notin Agent
  /\ NoAgent \notin Agent \cup {Gateway} \cup Approver
  /\ NoTicket \notin Ticket
  /\ NoPlan \notin Plan
  /\ NoApproval \notin Approval
  /\ AutoPlan \subseteq Plan
ASSUME BoundAssumption ==
  /\ {WipGlobal, WipAgent, OutageMinAgents, OutageQuota} \subseteq Nat
  /\ {MaxGen, MaxGrants} \subseteq Nat
  /\ KillMirrored \in BOOLEAN

VARIABLES
  status, held, claimedBy, fencingToken, pin, proposerId, approvalId, wallCap,
  lockTicket, lockAgent, holdKind, lease, lockGen,
  appr,       \* the approvals table
  grants,     \* grant calls between their pre-fetch and their transaction
  killLevel, mirrorStale,
  issued,     \* history: every fencing token handed out, and to whom
  forced      \* history: tickets an outage-hold clear took out of a status
              \* that has no transition to todo

ticketVars == <<status, held, claimedBy, fencingToken, pin, proposerId,
                approvalId, wallCap>>
lockVars == <<lockTicket, lockAgent, holdKind, lease, lockGen>>
approvalVars == <<appr, grants>>
killVars == <<killLevel, mirrorStale>>
historyVars == <<issued, forced>>
vars == <<ticketVars, lockVars, approvalVars, killVars, historyVars>>

Status == {"todo", "in_progress", "awaiting_approval", "approved", "executing",
           "verifying", "needs_review", "blocked", "done", "failed", "cancelled"}
(* Mutant: cancelled is not taken for a final status.                      *)
Terminal_NotCancelled == {"done", "failed"}
Terminal == {"done", "failed", "cancelled"}
KillLevel == {"G0", "G1", "G2"}
NoToken == 0   \* fencing_token NULL; minted tokens start at 1

(* from -> to pairs of core/state-machine.js LEGAL.                        *)
Legal ==
  {<<"todo", "in_progress">>, <<"todo", "cancelled">>,
   <<"in_progress", "todo">>, <<"in_progress", "awaiting_approval">>,
   <<"in_progress", "needs_review">>, <<"in_progress", "blocked">>,
   <<"awaiting_approval", "approved">>, <<"awaiting_approval", "cancelled">>,
   <<"approved", "executing">>, <<"approved", "cancelled">>,
   <<"approved", "awaiting_approval">>,
   <<"executing", "verifying">>, <<"executing", "needs_review">>,
   <<"executing", "failed">>,
   <<"verifying", "done">>, <<"verifying", "failed">>,
   <<"needs_review", "done">>, <<"needs_review", "todo">>,
   <<"blocked", "todo">>, <<"blocked", "cancelled">>}

(* Mutant: the operator may cancel a run that is under way.                *)
OperatorMay_CancelRun ==
  {<<"awaiting_approval", "cancelled">>, <<"approved", "cancelled">>,
   <<"needs_review", "done">>, <<"needs_review", "todo">>,
   <<"blocked", "todo">>, <<"blocked", "cancelled">>, <<"todo", "cancelled">>,
   <<"verifying", "failed">>, <<"executing", "cancelled">>}
OperatorMay ==
  {<<"awaiting_approval", "cancelled">>, <<"approved", "cancelled">>,
   <<"needs_review", "done">>, <<"needs_review", "todo">>,
   <<"blocked", "todo">>, <<"blocked", "cancelled">>,
   <<"todo", "cancelled">>, <<"verifying", "failed">>}

ApprovalRow == [status : {"none", "granted", "consumed", "revoked"},
                ticket : Ticket \cup {NoTicket}, pin : Plan \cup {NoPlan},
                proposer : Agent \cup {NoAgent}, approver : Approver \cup {NoAgent}]
NoRow == [status |-> "none", ticket |-> NoTicket, pin |-> NoPlan,
          proposer |-> NoAgent, approver |-> NoAgent]
GrantCall == [ticket : Ticket, by : Approver, pin : Plan]
Issue == [ticket : Ticket, agent : Agent \cup {Gateway}, token : Nat]

Init ==
  /\ status = [t \in Ticket |-> "todo"]
  /\ held = [t \in Ticket |-> FALSE]
  /\ claimedBy = [t \in Ticket |-> NoAgent]
  /\ fencingToken = [t \in Ticket |-> NoToken]
  /\ pin = [t \in Ticket |-> NoPlan]
  /\ proposerId = [t \in Ticket |-> NoAgent]
  /\ approvalId = [t \in Ticket |-> NoApproval]
  /\ wallCap = [t \in Ticket |-> "unset"]
  /\ lockTicket = [r \in Resource |-> NoTicket]
  /\ lockAgent = [r \in Resource |-> NoAgent]
  /\ holdKind = [r \in Resource |-> "none"]
  /\ lease = [r \in Resource |-> "none"]
  /\ lockGen = [r \in Resource |-> 0]
  /\ appr = [a \in Approval |-> NoRow]
  /\ grants = {}
  /\ killLevel = "G0" /\ mirrorStale = FALSE
  /\ issued = {} /\ forced = {}

-----------------------------------------------------------------------------
(* Locks.                                                                  *)

(* A ticket without a host locks a resource of its own.                    *)
Res(t) == IF HostOf[t] = NoHost THEN t ELSE HostOf[t]

(* Mutant: only a lock whose lease is live counts as held.                 *)
HeldBy_WhileLive(t) == {r \in {Res(t)} : lockTicket[r] = t /\ lease[r] = "live"}

(* The lock row a WHERE claimed_by_ticket = t guard selects.               *)
HeldBy(t) == {r \in {Res(t)} : lockTicket[r] = t}

(* Mutant: the acquiring UPDATE is not guarded by a free row.              *)
LockFree_Unguarded(r) == r \in Resource
LockFree(r) == lockTicket[r] = NoTicket

AcquireLock(r, t, a, k) ==
  /\ LockFree(r)
  /\ lockGen[r] + 2 <= MaxGen    \* bound, leaving room for the release
  /\ lockTicket' = [lockTicket EXCEPT ![r] = t]
  /\ lockAgent' = [lockAgent EXCEPT ![r] = a]
  /\ holdKind' = [holdKind EXCEPT ![r] = k]
  /\ lease' = [lease EXCEPT ![r] = IF k = "claim" THEN "live" ELSE "none"]
  /\ lockGen' = [lockGen EXCEPT ![r] = @ + 1]
  /\ issued' = issued \cup {[ticket |-> t, agent |-> a, token |-> lockGen[r] + 1]}

(* Mutants: the generation stays put; the row is deleted and starts anew.  *)
AfterRelease_Same(g) == g
AfterRelease_Reset(g) == g - g
(* A release moves the generation on too, so no token stays live.          *)
AfterRelease(g) == g + 1

(* Free the locks of S.                                                    *)
FreeLocks(S) ==
  /\ lockTicket' = [r \in Resource |-> IF r \in S THEN NoTicket ELSE lockTicket[r]]
  /\ lockAgent' = [r \in Resource |-> IF r \in S THEN NoAgent ELSE lockAgent[r]]
  /\ holdKind' = [r \in Resource |-> IF r \in S THEN "none" ELSE holdKind[r]]
  /\ lease' = [r \in Resource |-> IF r \in S THEN "none" ELSE lease[r]]
  /\ lockGen' = [r \in Resource |-> IF r \in S THEN AfterRelease(lockGen[r]) ELSE lockGen[r]]

(* Mutant: the two columns are set to each other's NULL.                   *)
Disown_Swapped(S) ==
  /\ claimedBy' = [t \in Ticket |-> IF t \in S THEN NoToken ELSE claimedBy[t]]
  /\ fencingToken' = [t \in Ticket |-> IF t \in S THEN NoAgent ELSE fencingToken[t]]

(* status, and for the tickets of S the cleared claimed_by/fencing_token.  *)
Disown(S) ==
  /\ claimedBy' = [t \in Ticket |-> IF t \in S THEN NoAgent ELSE claimedBy[t]]
  /\ fencingToken' = [t \in Ticket |-> IF t \in S THEN NoToken ELSE fencingToken[t]]

(* Tokens agent a can present for t: those it was issued.                  *)
Presentable(a, t) == {i.token : i \in {j \in issued : j.agent = a /\ j.ticket = t}}

(* The mandatory echo, and the optional one of heartbeat and release.      *)
FenceMatches(r, tok) == tok # NoToken /\ tok = lockGen[r]
FencePasses(r, tok) == tok = NoToken \/ tok = lockGen[r]

-----------------------------------------------------------------------------
(* The claim engine (service/claim.js).                                    *)

InProgress == {t \in Ticket : status[t] = "in_progress"}

DepsReady(t) == \A d \in DepsOf[t] : status[d] \in {"done", "cancelled"}

(* Mutant: off by one at the caps.                                         *)
WipOk_OffByOne(a) ==
  /\ Cardinality(InProgress) <= WipGlobal
  /\ Cardinality({t \in InProgress : claimedBy[t] = a}) <= WipAgent

WipOk(a) ==
  /\ Cardinality(InProgress) < WipGlobal
  /\ Cardinality({t \in InProgress : claimedBy[t] = a}) < WipAgent

(* Mutant: the blockers are not looked at.                                 *)
Claimable_IgnoresDeps(t) == status[t] = "todo" /\ ~held[t]

Claimable(t) == status[t] = "todo" /\ ~held[t] /\ DepsReady(t)

Claim(a, t) ==
  /\ killLevel # "G2"
  /\ Claimable(t)
  /\ WipOk(a)
  /\ AcquireLock(Res(t), t, a, "claim")
  /\ status' = [status EXCEPT ![t] = "in_progress"]
  /\ claimedBy' = [claimedBy EXCEPT ![t] = a]
  /\ fencingToken' = [fencingToken EXCEPT ![t] = lockGen[Res(t)] + 1]
  /\ wallCap' = [wallCap EXCEPT ![t] = IF @ = "unset" THEN "running" ELSE @]
  /\ UNCHANGED <<held, pin, proposerId, approvalId, forced>>
  /\ UNCHANGED approvalVars /\ UNCHANGED killVars

(* Mutant: a replay compares the owner only.                               *)
ReplayServes_OwnerOnly(i) == claimedBy[i.ticket] = i.agent

(* The answer to a claim whose op_id was already served: the stored        *)
(* response i, unless the ticket has moved on.                             *)
ReplayServes(i) ==
  /\ claimedBy[i.ticket] = i.agent
  /\ fencingToken[i.ticket] = i.token

Owns(a, t) == lockTicket[Res(t)] = t /\ lockAgent[Res(t)] = a

Heartbeat(a, t, tok) ==
  /\ Owns(a, t)
  /\ FencePasses(Res(t), tok)
  /\ lease' = [lease EXCEPT ![Res(t)] = "live"]
  /\ UNCHANGED <<lockTicket, lockAgent, holdKind, lockGen>>
  /\ UNCHANGED ticketVars /\ UNCHANGED approvalVars
  /\ UNCHANGED killVars /\ UNCHANGED historyVars

(* _releaseTicket is guarded by status = 'in_progress'.                    *)
Release(a, t, tok) ==
  /\ Owns(a, t)
  /\ FencePasses(Res(t), tok)
  /\ status' = [status EXCEPT ![t] = IF @ = "in_progress" THEN "todo" ELSE @]
  /\ Disown({t} \cap InProgress)
  /\ FreeLocks(HeldBy(t))
  /\ UNCHANGED <<held, pin, proposerId, approvalId, wallCap>>
  /\ UNCHANGED approvalVars /\ UNCHANGED killVars /\ UNCHANGED historyVars

(* The claim locks the reaper looks at; held tickets are exempt.           *)
ClaimLocks == {r \in Resource : holdKind[r] = "claim" /\ lockTicket[r] # NoTicket}
Sweepable == {r \in ClaimLocks : ~held[lockTicket[r]] /\ lockTicket[r] \in InProgress}
Expired == {r \in Sweepable : lease[r] \in {"lapsed", "stale"}}
(* Mutant: the cap is looked at only once the lease has lapsed.            *)
WallCapped_IfLapsed == {r \in Expired : wallCap[lockTicket[r]] = "past"}
WallCapped == {r \in Sweepable : lease[r] = "live" /\ wallCap[lockTicket[r]] = "past"}

AgentsOn(S) == {lockAgent[r] : r \in S}
InWindow == {r \in ClaimLocks : lease[r] \in {"live", "lapsed"}}
InDrainWindow == killLevel # "G0"

(* Mutant: the gate does not know about ordered drains.                    *)
OutageGateTrips_InDrain ==
  /\ Cardinality(AgentsOn(InWindow)) >= OutageMinAgents
  /\ Cardinality(AgentsOn(Expired)) > OutageQuota

(* The outage-aware population gate: too many agents went silent at once.  *)
OutageGateTrips ==
  /\ ~InDrainWindow
  /\ Cardinality(AgentsOn(InWindow)) >= OutageMinAgents
  /\ Cardinality(AgentsOn(Expired)) > OutageQuota

TicketsOn(S) == {lockTicket[r] : r \in S}

(* One sweep: live leases past their cap are escalated (A1); expired ones  *)
(* are all requeued, or all held when the gate trips.                      *)
ReaperSweep ==
  LET capped == TicketsOn(WallCapped)
      expired == TicketsOn(Expired)
      requeued == IF OutageGateTrips THEN {} ELSE expired
      freed == IF OutageGateTrips THEN WallCapped ELSE WallCapped \cup Expired
  IN /\ WallCapped \cup Expired # {}
     /\ status' = [t \in Ticket |-> IF t \in capped THEN "needs_review"
                                    ELSE IF t \in requeued THEN "todo" ELSE status[t]]
     /\ Disown(capped \cup requeued)
     /\ held' = [t \in Ticket |-> held[t] \/ (t \in expired /\ OutageGateTrips)]
     /\ FreeLocks(freed)
     /\ UNCHANGED <<pin, proposerId, approvalId, wallCap>>
     /\ UNCHANGED approvalVars /\ UNCHANGED killVars /\ UNCHANGED historyVars

(* The ceremony watchdog's A1 escalation of an in_progress huddle ticket.  *)
HuddleTrip(t) ==
  /\ status[t] = "in_progress" /\ ~held[t]
  /\ status' = [status EXCEPT ![t] = "needs_review"]
  /\ Disown({t})
  /\ FreeLocks(HeldBy(t))
  /\ UNCHANGED <<held, pin, proposerId, approvalId, wallCap>>
  /\ UNCHANGED approvalVars /\ UNCHANGED killVars /\ UNCHANGED historyVars

(* Clearing an outage hold looks at the hold only, not at the status.      *)
ClearOutageHold(t) ==
  /\ held[t]
  /\ held' = [held EXCEPT ![t] = FALSE]
  /\ status' = [status EXCEPT ![t] = "todo"]
  /\ Disown({t})
  /\ FreeLocks(HeldBy(t))
  /\ forced' = IF status[t] = "todo" \/ <<status[t], "todo">> \in Legal
               THEN forced ELSE forced \cup {t}
  /\ UNCHANGED <<pin, proposerId, approvalId, wallCap, issued>>
  /\ UNCHANGED approvalVars /\ UNCHANGED killVars

-----------------------------------------------------------------------------
(* Agent and operator transitions (service/transitions.js), propose.       *)

(* The lock of the ticket must be the caller's; which ticket holds the     *)
(* lock is not looked at.                                                  *)
ClaimHolder(a, t, tok) ==
  /\ status[t] = "in_progress"
  /\ lockAgent[Res(t)] = a
  /\ FenceMatches(Res(t), tok)

AgentTransition(a, t, tok, to) ==
  /\ to \in {"needs_review", "blocked"}
  /\ ClaimHolder(a, t, tok)
  /\ status' = [status EXCEPT ![t] = to]
  /\ claimedBy' = [claimedBy EXCEPT ![t] = IF to = "blocked" THEN @ ELSE NoAgent]
  /\ fencingToken' = [fencingToken EXCEPT ![t] = NoToken]
  /\ FreeLocks(HeldBy(t))
  /\ UNCHANGED <<held, pin, proposerId, approvalId, wallCap>>
  /\ UNCHANGED approvalVars /\ UNCHANGED killVars /\ UNCHANGED historyVars

Propose(a, t, tok, p) ==
  /\ ClaimHolder(a, t, tok)
  /\ status' = [status EXCEPT ![t] = "awaiting_approval"]
  /\ proposerId' = [proposerId EXCEPT ![t] = a]
  /\ pin' = [pin EXCEPT ![t] = p]
  /\ Disown({t})
  /\ FreeLocks(HeldBy(t))
  /\ UNCHANGED <<held, approvalId, wallCap>>
  /\ UNCHANGED approvalVars /\ UNCHANGED killVars /\ UNCHANGED historyVars

(* Mutant: a spent approval is taken for a live one.                       *)
LiveGrant_AnyStatus(t) == {a \in Approval : a = approvalId[t]}

(* The granted approval of t, if it still is one.                          *)
LiveGrant(t) == {a \in Approval : a = approvalId[t] /\ appr[a].status = "granted"}

RevokeGrants(S) ==
  appr' = [a \in Approval |-> IF a \in S THEN [appr[a] EXCEPT !.status = "revoked"]
                              ELSE appr[a]]

HostHeldBy(t) == {r \in HeldBy(t) : HostOf[t] # NoHost}

(* A terminal move revokes the grant the ticket still carries; only then   *)
(* is a host hold of the ticket released.                                  *)
OperatorTransition(t, to) ==
  LET revoked == IF to \in Terminal THEN LiveGrant(t) ELSE {}
  IN /\ <<status[t], to>> \in OperatorMay
     /\ status' = [status EXCEPT ![t] = to]
     /\ RevokeGrants(revoked)
     /\ FreeLocks(IF revoked = {} THEN {} ELSE HostHeldBy(t))
     /\ UNCHANGED <<held, claimedBy, fencingToken, pin, proposerId, approvalId, wallCap>>
     /\ UNCHANGED grants /\ UNCHANGED killVars /\ UNCHANGED historyVars

Revoke(t) ==
  /\ status[t] = "approved"
  /\ status' = [status EXCEPT ![t] = "cancelled"]
  /\ RevokeGrants(LiveGrant(t))
  /\ FreeLocks(HostHeldBy(t))
  /\ UNCHANGED <<held, claimedBy, fencingToken, pin, proposerId, approvalId, wallCap>>
  /\ UNCHANGED grants /\ UNCHANGED killVars /\ UNCHANGED historyVars

-----------------------------------------------------------------------------
(* Approvals (service/approval.js).                                        *)

DestructiveFrozen == killLevel \in {"G1", "G2"}
DestructiveOpen == ~DestructiveFrozen /\ ~mirrorStale

(* grant up to its first await: checks on a ticket read outside any        *)
(* transaction, and the pin whose bytes are fetched.                       *)
GrantBegin(b, t) ==
  /\ DestructiveOpen
  /\ status[t] = "awaiting_approval" /\ HostOf[t] # NoHost /\ pin[t] # NoPlan
  /\ Cardinality(grants) < MaxGrants
  /\ grants' = grants \cup {[ticket |-> t, by |-> b, pin |-> pin[t]]}
  /\ UNCHANGED appr
  /\ UNCHANGED ticketVars /\ UNCHANGED lockVars /\ UNCHANGED killVars
  /\ UNCHANGED historyVars

(* Mutant: the pin is not compared with the one that was fetched.          *)
PinUnmoved_Unchecked(g) == g.pin \in Plan

PinUnmoved(g) == pin[g.ticket] = g.pin
FourEyes(g) == g.by # proposerId[g.ticket] /\ g.by # claimedBy[g.ticket]
AutoFloor(g) == g.by = TierApprover => g.pin \in AutoPlan

(* grant's write transaction, into the fresh row a.                        *)
GrantCommit(g, a) ==
  LET t == g.ticket
  IN /\ status[t] = "awaiting_approval"
     /\ PinUnmoved(g) /\ FourEyes(g) /\ AutoFloor(g)
     /\ appr[a].status = "none"
     /\ appr' = [appr EXCEPT ![a] = [status |-> "granted", ticket |-> t, pin |-> g.pin,
                                     proposer |-> proposerId[t], approver |-> g.by]]
     /\ grants' = grants \ {g}
     /\ status' = [status EXCEPT ![t] = "approved"]
     /\ approvalId' = [approvalId EXCEPT ![t] = a]
     /\ UNCHANGED <<held, claimedBy, fencingToken, pin, proposerId, wallCap>>
     /\ UNCHANGED lockVars /\ UNCHANGED killVars /\ UNCHANGED historyVars

(* A fetch fails, or the transaction refuses: the call ends with no effect.*)
GrantFail(g) ==
  /\ grants' = grants \ {g}
  /\ UNCHANGED appr
  /\ UNCHANGED ticketVars /\ UNCHANGED lockVars /\ UNCHANGED killVars
  /\ UNCHANGED historyVars

(* consume_approval: the execution hold, the granted -> consumed swap and  *)
(* approved -> executing in one transaction.  That the row is the one the  *)
(* ticket points at is not looked at.                                      *)
Consume(a) ==
  LET t == appr[a].ticket
  IN /\ appr[a].status = "granted"
     /\ DestructiveOpen
     /\ status[t] = "approved"
     /\ AcquireLock(HostOf[t], t, Gateway, "execution")
     /\ appr' = [appr EXCEPT ![a].status = "consumed"]
     /\ status' = [status EXCEPT ![t] = "executing"]
     /\ fencingToken' = [fencingToken EXCEPT ![t] = lockGen[HostOf[t]] + 1]
     /\ UNCHANGED <<held, claimedBy, pin, proposerId, approvalId, wallCap>>
     /\ UNCHANGED <<grants, forced>> /\ UNCHANGED killVars

(* The Gateway's report; only an execution hold is released.               *)
RunOutcome(t, to) ==
  /\ to \in {"verifying", "needs_review", "failed"}
  /\ status[t] = "executing"
  /\ status' = [status EXCEPT ![t] = to]
  /\ FreeLocks({r \in HostHeldBy(t) : holdKind[r] = "execution"})
  /\ UNCHANGED <<held, claimedBy, fencingToken, pin, proposerId, approvalId, wallCap>>
  /\ UNCHANGED approvalVars /\ UNCHANGED killVars /\ UNCHANGED historyVars

(* Verification evidence: confirmed, or refuted / timed out.               *)
SubmitVerification(t, to) ==
  /\ to \in {"done", "failed"}
  /\ status[t] = "verifying"
  /\ status' = [status EXCEPT ![t] = to]
  /\ UNCHANGED <<held, claimedBy, fencingToken, pin, proposerId, approvalId, wallCap>>
  /\ UNCHANGED lockVars /\ UNCHANGED approvalVars
  /\ UNCHANGED killVars /\ UNCHANGED historyVars

-----------------------------------------------------------------------------
(* The environment: time, and the mirror of the kill level.                *)

LeaseAges(r) ==
  /\ holdKind[r] = "claim" /\ lease[r] \in {"live", "lapsed"}
  /\ lease' = [lease EXCEPT ![r] = IF @ = "live" THEN "lapsed" ELSE "stale"]
  /\ UNCHANGED <<lockTicket, lockAgent, holdKind, lockGen>>
  /\ UNCHANGED ticketVars /\ UNCHANGED approvalVars
  /\ UNCHANGED killVars /\ UNCHANGED historyVars

CapRunsOut(t) ==
  /\ wallCap[t] = "running"
  /\ wallCap' = [wallCap EXCEPT ![t] = "past"]
  /\ UNCHANGED <<status, held, claimedBy, fencingToken, pin, proposerId, approvalId>>
  /\ UNCHANGED lockVars /\ UNCHANGED approvalVars
  /\ UNCHANGED killVars /\ UNCHANGED historyVars

(* A poll of auth:revocations succeeds; or none does for too long.         *)
KillPoll(l) ==
  /\ KillMirrored
  /\ killLevel' = l /\ mirrorStale' = FALSE
  /\ UNCHANGED ticketVars /\ UNCHANGED lockVars /\ UNCHANGED approvalVars
  /\ UNCHANGED historyVars

MirrorGoesStale ==
  /\ KillMirrored
  /\ mirrorStale' = TRUE /\ UNCHANGED killLevel
  /\ UNCHANGED ticketVars /\ UNCHANGED lockVars /\ UNCHANGED approvalVars
  /\ UNCHANGED historyVars

-----------------------------------------------------------------------------
AgentCall(a, t) ==
  \/ Claim(a, t)
  \/ \E tok \in Presentable(a, t) :
       \/ \E to \in Status : AgentTransition(a, t, tok, to)
       \/ \E p \in Plan : Propose(a, t, tok, p)
  \/ \E tok \in Presentable(a, t) \cup {NoToken} :
       Heartbeat(a, t, tok) \/ Release(a, t, tok)

OperatorCall(t) ==
  \/ \E to \in Status : OperatorTransition(t, to)
  \/ Revoke(t)
  \/ ClearOutageHold(t)
  \/ \E b \in Approver : GrantBegin(b, t)

GrantStep == \E g \in grants : GrantFail(g) \/ \E a \in Approval : GrantCommit(g, a)

GatewayCall ==
  \/ \E a \in Approval : Consume(a)
  \/ \E t \in Ticket, to \in Status : RunOutcome(t, to) \/ SubmitVerification(t, to)

TimePasses ==
  \/ \E r \in Resource : LeaseAges(r)
  \/ \E t \in Ticket : CapRunsOut(t)

Sweeps == ReaperSweep \/ \E t \in Ticket : HuddleTrip(t)

KillMirror == MirrorGoesStale \/ \E l \in KillLevel : KillPoll(l)

Next ==
  \/ \E a \in Agent, t \in Ticket : AgentCall(a, t)
  \/ \E t \in Ticket : OperatorCall(t)
  \/ GrantStep \/ GatewayCall \/ Sweeps \/ TimePasses \/ KillMirror

Spec == Init /\ [][Next]_vars

(* The caps run on the wall clock and the reaper on a 30 s timer           *)
(* (sweeps.js start), whatever the callers do.                             *)
Fairness ==
  /\ \A t \in Ticket : WF_vars(CapRunsOut(t))
  /\ WF_vars(ReaperSweep)

FairSpec == Spec /\ Fairness
=============================================================================

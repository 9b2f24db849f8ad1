--------------------------- MODULE BoardProperties ---------------------------
(***************************************************************************)
(* What the Board must guarantee: the invariants, the action properties,   *)
(* the liveness of claims and the abstract specifications it implements.   *)
(***************************************************************************)
EXTENDS Board

(* Every variable has its type: a row of tickets, host_locks or approvals  *)
(* never holds a value its column cannot.                                  *)
TypeOK ==
  /\ status \in [Ticket -> Status]
  /\ held \in [Ticket -> BOOLEAN]
  /\ claimedBy \in [Ticket -> Agent \cup {NoAgent}]
  /\ fencingToken \in [Ticket -> Nat]
  /\ pin \in [Ticket -> Plan \cup {NoPlan}]
  /\ proposerId \in [Ticket -> Agent \cup {NoAgent}]
  /\ approvalId \in [Ticket -> Approval \cup {NoApproval}]
  /\ wallCap \in [Ticket -> {"unset", "running", "past"}]
  /\ lockTicket \in [Resource -> Ticket \cup {NoTicket}]
  /\ lockAgent \in [Resource -> Agent \cup {Gateway, NoAgent}]
  /\ holdKind \in [Resource -> {"none", "claim", "execution"}]
  /\ lease \in [Resource -> {"none", "live", "lapsed", "stale"}]
  /\ lockGen \in [Resource -> Nat]
  /\ appr \in [Approval -> ApprovalRow]
  /\ grants \subseteq GrantCall
  /\ killLevel \in KillLevel /\ mirrorStale \in BOOLEAN
  /\ issued \subseteq Issue
  /\ forced \subseteq Ticket

-----------------------------------------------------------------------------
(* A held lock and the ticket it is held for tell the same story: a claim  *)
(* hold belongs to the agent the in_progress ticket names, an execution    *)
(* hold to the Gateway and an executing ticket, and the fencing token on   *)
(* the ticket is the generation of the lock.                               *)
HoldMatchesTicket(r) ==
  LET t == lockTicket[r]
  IN /\ r = Res(t)
     /\ fencingToken[t] = lockGen[r]
     /\ \/ /\ holdKind[r] = "claim" /\ status[t] = "in_progress"
           /\ lockAgent[r] \in Agent /\ lockAgent[r] = claimedBy[t]
        \/ /\ holdKind[r] = "execution" /\ status[t] = "executing"
           /\ lockAgent[r] = Gateway

(* host_locks and tickets never desync, whatever the order of claims,      *)
(* sweeps, late calls, consumes and outage-hold clears: see                *)
(* HoldMatchesTicket; and a ticket that is worked on or executed holds its *)
(* lock.  (PLAN.md section 4, "the two can never desync".)                 *)
LockMatchesTicket ==
  /\ \A r \in Resource : lockTicket[r] # NoTicket => HoldMatchesTicket(r)
  /\ \A t \in Ticket : status[t] \in {"in_progress", "executing"}
                         => lockTicket[Res(t)] = t

(* A released token never remains live (claim.js release): whoever was     *)
(* issued the token that is current holds the lock; every other token a    *)
(* zombie may still present is behind the generation.                      *)
ReleasedTokenIsDead ==
  \A i \in issued :
    LET r == Res(i.ticket)
    IN /\ i.token <= lockGen[r]
       /\ i.token = lockGen[r] => lockTicket[r] = i.ticket /\ lockAgent[r] = i.agent

(* No two acquisitions of a resource carry the same token, so the Gateway, *)
(* Notes and Drive can order holders by token.  (PLAN.md section 8.3: "two *)
(* consumes on one host can never carry equal tokens".)                    *)
TokensUnique ==
  \A i, j \in issued : Res(i.ticket) = Res(j.ticket) /\ i.token = j.token => i = j

(* A retried claim whose first answer was lost is told it owns the ticket  *)
(* only while it holds the lock under that very token (claim.js            *)
(* _replayClaim, "never assert affirmatively-stale ownership").            *)
ReplayNeverStale ==
  \A i \in issued : i.agent \in Agent /\ ReplayServes(i) =>
    LET r == Res(i.ticket)
    IN lockTicket[r] = i.ticket /\ lockAgent[r] = i.agent /\ lockGen[r] = i.token

(* The WIP caps hold in every state, not only when a claim is admitted:    *)
(* no other handler puts a ticket in progress or moves one between agents. *)
WipCapRespected ==
  /\ Cardinality(InProgress) <= WipGlobal
  /\ \A a \in Agent :
       Cardinality({t \in InProgress : lockAgent[Res(t)] = a}) <= WipAgent

(* A ticket whose work has ever started has every blocker done or          *)
(* cancelled, through requeues and rework, unless a blocker was forced     *)
(* back by an outage-hold clear.                                           *)
StartedAfterDeps ==
  \A t \in Ticket :
    status[t] \notin {"todo", "cancelled"} /\ DepsOf[t] \cap forced = {} => DepsReady(t)

-----------------------------------------------------------------------------
(* An approval is granted exactly while its ticket is approved and points  *)
(* at it (transitions.js: "Never leave a dangling {ticket:terminal,        *)
(* approval:granted} record"), and it is for the plan and the proposer the *)
(* ticket shows; forced tickets are the exception.                         *)
GrantedIffApproved ==
  /\ \A t \in Ticket \ forced : status[t] = "approved" => LiveGrant(t) # {}
  /\ \A a \in Approval :
       LET t == appr[a].ticket
       IN appr[a].status = "granted" /\ t \notin forced =>
            /\ status[t] = "approved" /\ approvalId[t] = a
            /\ appr[a].pin = pin[t] /\ appr[a].proposer = proposerId[t]

(* What executes is what was approved: the ticket points at a spent        *)
(* approval of its own, for the plan revision it pins, given by somebody   *)
(* other than the one who proposed it, and by the auto-tier lane only for  *)
(* a plan the floor allows.                                                *)
ExecutesWhatWasApproved ==
  \A t \in Ticket \ forced : status[t] = "executing" =>
    /\ approvalId[t] \in Approval
    /\ LET a == appr[approvalId[t]]
       IN /\ a.status = "consumed" /\ a.ticket = t
          /\ a.pin = pin[t] /\ a.proposer = proposerId[t]
          /\ a.approver # a.proposer
          /\ a.approver = TierApprover => a.pin \in AutoPlan

(* Approvals never come back: a spent or revoked row stays as it is, and   *)
(* no row changes what it approves.                                        *)
ApprovalsAreFinal ==
  [][\A a \in Approval :
       /\ appr[a].status \in {"consumed", "revoked"} => appr'[a] = appr[a]
       /\ appr[a].status = "granted" =>
            appr'[a] = [appr[a] EXCEPT !.status = appr'[a].status]]_vars

-----------------------------------------------------------------------------
(* No claim lasts for ever, even of an agent that keeps its heartbeat up:  *)
(* its lease lapses and the reaper requeues it, or the wall-clock cap runs *)
(* out and the sweep escalates it (board-agents-claim.md section 2), or an *)
(* outage hold parks it for the operator.                                  *)
ClaimEnds ==
  \A t \in Ticket :
    status[t] = "in_progress" ~> status[t] # "in_progress" \/ held[t]

(* Two wires: while a kill is in force no claim is parked as an outage,    *)
(* so work the drain abandons is requeued or escalated (PLAN.md section 4, *)
(* "an ordered drain must never read as an infrastructure outage").        *)
DrainedWorkReturns ==
  \A t \in Ticket :
    status[t] = "in_progress" /\ ~held[t] /\ killLevel # "G0"
      ~> status[t] # "in_progress" \/ killLevel = "G0"

(* The Board's locks are fenced locks.                                     *)
FL == INSTANCE FencedLock WITH
  Owner <- Ticket \X (Agent \cup {Gateway}),
  NoOwner <- <<NoTicket, NoAgent>>,
  owner <- [r \in Resource |-> <<lockTicket[r], lockAgent[r]>>],
  gen <- lockGen,
  tokens <- {[resource |-> Res(i.ticket), owner |-> <<i.ticket, i.agent>>,
              token |-> i.token] : i \in issued}
FencedLockSpec == FL!Spec

(* The Board's tickets live the lifecycle, when no outage hold forces one. *)
LC == INSTANCE TicketLifecycle WITH
  permit <- [t \in Ticket |->
               IF approvalId[t] = NoApproval THEN "none" ELSE appr[approvalId[t]].status]
LifecycleSpec == LC!Spec

=============================================================================

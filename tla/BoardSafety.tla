----------------------------- MODULE BoardSafety -----------------------------
(***************************************************************************)
(* The Board, for every set of tickets, hosts, agents and plans, and every *)
(* bound: every variable keeps its type; the host locks tell what the      *)
(* tickets do; and the fencing tokens are never minted twice, are dead     *)
(* once released, and make the locks implement FencedLock.  Then the       *)
(* approvals: an approval is granted exactly while its ticket is approved, *)
(* what executes is what was approved, approvals are final, work starts    *)
(* after its blockers, the caps hold, and the tickets implement            *)
(* TicketLifecycle as long as no outage hold forces one.                   *)
(***************************************************************************)
EXTENDS BoardProperties, FiniteSetTheorems, TLAPS

(* Rows of the approvals table, and grant calls, name a ticket that has a  *)
(* host: TypeOK is inductive only with this.                               *)
RowsNameHosts ==
  /\ \A a \in Approval : appr[a].status # "none" =>
       appr[a].ticket \in Ticket /\ HostOf[appr[a].ticket] # NoHost
  /\ \A g \in grants : HostOf[g.ticket] # NoHost

TypeInv == TypeOK /\ RowsNameHosts

LockTypeOK ==
  /\ lockTicket \in [Resource -> Ticket \cup {NoTicket}]
  /\ lockAgent \in [Resource -> Agent \cup {Gateway, NoAgent}]
  /\ holdKind \in [Resource -> {"none", "claim", "execution"}]
  /\ lease \in [Resource -> {"none", "live", "lapsed", "stale"}]
  /\ lockGen \in [Resource -> Nat]

(* The resource a ticket locks exists.                                     *)
LEMMA ResIsResource == \A t \in Ticket : Res(t) \in Resource
BY HostAssumption DEF Res, Resource

(* Releasing locks keeps the lock rows well typed.                         *)
LEMMA FreeLocksTyped ==
  ASSUME NEW S, LockTypeOK, FreeLocks(S)
  PROVE  LockTypeOK'
BY DEF LockTypeOK, FreeLocks, AfterRelease

(* So does acquiring one, and the token it issues is well typed.           *)
LEMMA AcquireLockTyped ==
  ASSUME NEW r \in Resource, NEW t \in Ticket, NEW a \in Agent \cup {Gateway},
         NEW k \in {"claim", "execution"},
         LockTypeOK, issued \subseteq Issue, AcquireLock(r, t, a, k)
  PROVE  LockTypeOK' /\ issued' \subseteq Issue
<1>1. LockTypeOK'
  BY DEF LockTypeOK, AcquireLock
<1>2. [ticket |-> t, agent |-> a, token |-> lockGen[r] + 1] \in Issue
  BY DEF LockTypeOK, Issue
<1>3. QED
  BY <1>1, <1>2 DEF AcquireLock

(* Clearing claimed_by and fencing_token keeps them well typed.            *)
LEMMA DisownTyped ==
  ASSUME NEW S, claimedBy \in [Ticket -> Agent \cup {NoAgent}],
         fencingToken \in [Ticket -> Nat], Disown(S)
  PROVE  /\ claimedBy' \in [Ticket -> Agent \cup {NoAgent}]
         /\ fencingToken' \in [Ticket -> Nat]
BY DEF Disown, NoToken

(* Revoking changes the status of rows and nothing else.                   *)
LEMMA RevokeGrantsTyped ==
  ASSUME NEW S, appr \in [Approval -> ApprovalRow], RowsNameHosts,
         \A a \in S : appr[a].status # "none", RevokeGrants(S)
  PROVE  /\ appr' \in [Approval -> ApprovalRow]
         /\ \A a \in Approval : appr'[a].status # "none" =>
              appr'[a].ticket \in Ticket /\ HostOf[appr'[a].ticket] # NoHost
<1>1. ASSUME NEW a \in Approval
      PROVE  /\ appr'[a] \in ApprovalRow
             /\ appr'[a].ticket = appr[a].ticket
             /\ a \notin S => appr'[a] = appr[a]
  <2>1. appr[a] \in ApprovalRow
    OBVIOUS
  <2>2. [appr[a] EXCEPT !.status = "revoked"] \in ApprovalRow
    BY <2>1 DEF ApprovalRow
  <2>3. [appr[a] EXCEPT !.status = "revoked"].ticket = appr[a].ticket
    BY <2>1 DEF ApprovalRow
  <2>4. QED
    BY <2>1, <2>2, <2>3 DEF RevokeGrants
<1>2. appr' \in [Approval -> ApprovalRow]
  BY <1>1 DEF RevokeGrants
<1>3. QED
  BY <1>1, <1>2 DEF RowsNameHosts

(* The seeded database is well typed.                                      *)
LEMMA TypeInit == Init => TypeInv
<1> SUFFICES ASSUME Init PROVE TypeInv
  OBVIOUS
<1>1. NoRow \in ApprovalRow
  BY DEF NoRow, ApprovalRow
<1>2. appr \in [Approval -> ApprovalRow]
  BY <1>1 DEF Init
<1>3. TypeOK
  BY <1>2 DEF Init, TypeOK, Status, NoToken, KillLevel
<1>4. RowsNameHosts
  BY DEF Init, RowsNameHosts, NoRow
<1>5. QED
  BY <1>3, <1>4 DEF TypeInv

(* One step per action; TypeOK' and RowsNameHosts' under each.             *)
LEMMA TypeStep == TypeInv /\ [Next]_vars => TypeInv'
<1> SUFFICES ASSUME TypeInv, [Next]_vars PROVE TypeInv'
  OBVIOUS
<1> USE DEF ticketVars, lockVars, approvalVars, killVars, historyVars
<1>T. LockTypeOK /\ TypeOK /\ RowsNameHosts
  BY DEF TypeInv, TypeOK, LockTypeOK
<1>1. ASSUME NEW a \in Agent, NEW t \in Ticket, Claim(a, t) PROVE TypeInv'
  <2>1. LockTypeOK' /\ issued' \subseteq Issue
    BY <1>1, <1>T, ResIsResource, AcquireLockTyped DEF Claim, TypeOK
  <2>2. lockGen[Res(t)] + 1 \in Nat
    BY <1>T, ResIsResource DEF LockTypeOK
  <2>3. TypeOK'
    BY <1>1, <1>T, <2>1, <2>2 DEF Claim, TypeOK, LockTypeOK, Status
  <2>4. QED
    BY <1>1, <1>T, <2>3 DEF Claim, RowsNameHosts, TypeInv
<1>2. ASSUME NEW a, NEW t \in Ticket, NEW tok, Heartbeat(a, t, tok) PROVE TypeInv'
  <2>1. TypeOK'
    BY <1>2, <1>T DEF Heartbeat, TypeOK
  <2>2. RowsNameHosts'
    BY <1>2, <1>T DEF Heartbeat, TypeOK, RowsNameHosts
  <2>3. QED
    BY <2>1, <2>2 DEF TypeInv
<1>3. ASSUME NEW a, NEW t \in Ticket, NEW tok, Release(a, t, tok) PROVE TypeInv'
  <2>1. TypeOK'
    BY <1>3, <1>T, FreeLocksTyped, DisownTyped DEF Release, TypeOK, LockTypeOK, Status
  <2>2. RowsNameHosts'
    BY <1>3, <1>T DEF Release, TypeOK, RowsNameHosts
  <2>3. QED
    BY <2>1, <2>2 DEF TypeInv
<1>4. ASSUME ReaperSweep PROVE TypeInv'
  <2>1. TypeOK'
    BY <1>4, <1>T, FreeLocksTyped, DisownTyped DEF ReaperSweep, TypeOK, LockTypeOK, Status
  <2>2. RowsNameHosts'
    BY <1>4, <1>T DEF ReaperSweep, TypeOK, RowsNameHosts
  <2>3. QED
    BY <2>1, <2>2 DEF TypeInv
<1>5. ASSUME NEW t \in Ticket, HuddleTrip(t) PROVE TypeInv'
  <2>1. TypeOK'
    BY <1>5, <1>T, FreeLocksTyped, DisownTyped DEF HuddleTrip, TypeOK, LockTypeOK, Status
  <2>2. RowsNameHosts'
    BY <1>5, <1>T DEF HuddleTrip, TypeOK, RowsNameHosts
  <2>3. QED
    BY <2>1, <2>2 DEF TypeInv
<1>6. ASSUME NEW t \in Ticket, ClearOutageHold(t) PROVE TypeInv'
  <2>1. TypeOK'
    BY <1>6, <1>T, FreeLocksTyped, DisownTyped DEF ClearOutageHold, TypeOK, LockTypeOK, Status
  <2>2. RowsNameHosts'
    BY <1>6, <1>T DEF ClearOutageHold, TypeOK, RowsNameHosts
  <2>3. QED
    BY <2>1, <2>2 DEF TypeInv
<1>7. ASSUME NEW a, NEW t \in Ticket, NEW tok, NEW to,
           AgentTransition(a, t, tok, to) PROVE TypeInv'
  <2>1. TypeOK'
    BY <1>7, <1>T, FreeLocksTyped DEF AgentTransition, TypeOK, LockTypeOK, Status, NoToken
  <2>2. RowsNameHosts'
    BY <1>7, <1>T DEF AgentTransition, TypeOK, RowsNameHosts
  <2>3. QED
    BY <2>1, <2>2 DEF TypeInv
<1>8. ASSUME NEW a \in Agent, NEW t \in Ticket, NEW tok, NEW p \in Plan,
           Propose(a, t, tok, p) PROVE TypeInv'
  <2>1. TypeOK'
    BY <1>8, <1>T, FreeLocksTyped, DisownTyped DEF Propose, TypeOK, LockTypeOK, Status
  <2>2. RowsNameHosts'
    BY <1>8, <1>T DEF Propose, TypeOK, RowsNameHosts
  <2>3. QED
    BY <2>1, <2>2 DEF TypeInv
<1>9. ASSUME NEW t \in Ticket, NEW to \in Status, OperatorTransition(t, to) PROVE TypeInv'
  <2> DEFINE S == IF to \in Terminal THEN LiveGrant(t) ELSE {}
  <2>1. RevokeGrants(S) /\ \A a \in S : appr[a].status # "none"
    BY <1>9 DEF OperatorTransition, LiveGrant
  <2>2. /\ appr' \in [Approval -> ApprovalRow]
        /\ \A a \in Approval : appr'[a].status # "none" =>
             appr'[a].ticket \in Ticket /\ HostOf[appr'[a].ticket] # NoHost
    <3> HIDE DEF S
    <3>1. QED
      BY <1>T, <2>1, RevokeGrantsTyped DEF TypeOK
  <2>3. TypeOK'
    BY <1>9, <1>T, <2>2, FreeLocksTyped DEF OperatorTransition, TypeOK, LockTypeOK
  <2>4. RowsNameHosts'
    BY <1>9, <1>T, <2>2 DEF OperatorTransition, RowsNameHosts
  <2>5. QED
    BY <2>3, <2>4 DEF TypeInv
<1>10. ASSUME NEW t \in Ticket, Revoke(t) PROVE TypeInv'
  <2> DEFINE S == LiveGrant(t)
  <2>1. RevokeGrants(S) /\ \A a \in S : appr[a].status # "none"
    BY <1>10 DEF Revoke, LiveGrant
  <2>2. /\ appr' \in [Approval -> ApprovalRow]
        /\ \A a \in Approval : appr'[a].status # "none" =>
             appr'[a].ticket \in Ticket /\ HostOf[appr'[a].ticket] # NoHost
    <3> HIDE DEF S
    <3>1. QED
      BY <1>T, <2>1, RevokeGrantsTyped DEF TypeOK
  <2>3. TypeOK'
    BY <1>10, <1>T, <2>2, FreeLocksTyped DEF Revoke, TypeOK, LockTypeOK, Status
  <2>4. RowsNameHosts'
    BY <1>10, <1>T, <2>2 DEF Revoke, RowsNameHosts
  <2>5. QED
    BY <2>3, <2>4 DEF TypeInv
<1>11. ASSUME NEW b \in Approver, NEW t \in Ticket, GrantBegin(b, t) PROVE TypeInv'
  <2>1. TypeOK'
    BY <1>11, <1>T DEF GrantBegin, TypeOK, GrantCall
  <2>2. RowsNameHosts'
    BY <1>11, <1>T DEF GrantBegin, TypeOK, RowsNameHosts
  <2>3. QED
    BY <2>1, <2>2 DEF TypeInv
<1>12. ASSUME NEW g \in grants, NEW a \in Approval,
           GrantCommit(g, a) PROVE TypeInv'
  <2>1. TypeOK'
    BY <1>12, <1>T DEF GrantCommit, TypeOK, Status, GrantCall, ApprovalRow
  <2>2. RowsNameHosts'
    BY <1>12, <1>T DEF GrantCommit, TypeOK, RowsNameHosts, GrantCall, ApprovalRow
  <2>3. QED
    BY <2>1, <2>2 DEF TypeInv
<1>13. ASSUME NEW g \in grants, GrantFail(g) PROVE TypeInv'
  <2>1. TypeOK'
    BY <1>13, <1>T DEF GrantFail, TypeOK
  <2>2. RowsNameHosts'
    BY <1>13, <1>T DEF GrantFail, TypeOK, RowsNameHosts
  <2>3. QED
    BY <2>1, <2>2 DEF TypeInv
<1>14. ASSUME NEW a \in Approval, Consume(a) PROVE TypeInv'
  <2> DEFINE t == appr[a].ticket
  <2>1. t \in Ticket /\ HostOf[t] \in Resource
    BY <1>14, <1>T, HostAssumption DEF Consume, RowsNameHosts, Resource
  <2>2. LockTypeOK' /\ issued' \subseteq Issue
    BY <1>14, <1>T, <2>1, AcquireLockTyped DEF Consume, TypeOK
  <2>3. lockGen[HostOf[t]] + 1 \in Nat
    BY <1>T, <2>1 DEF LockTypeOK
  <2>4. appr' \in [Approval -> ApprovalRow]
    BY <1>14, <1>T DEF Consume, TypeOK, ApprovalRow
  <2>5. TypeOK'
    <3>1. status' \in [Ticket -> Status] /\ fencingToken' \in [Ticket -> Nat]
      BY <1>14, <1>T, <2>3 DEF Consume, TypeOK, Status
    <3>2. QED
      BY <1>14, <1>T, <2>2, <2>4, <3>1 DEF Consume, TypeOK, LockTypeOK
  <2>6. RowsNameHosts'
    BY <1>14, <1>T DEF Consume, TypeOK, RowsNameHosts
  <2>7. QED
    BY <2>5, <2>6 DEF TypeInv
<1>15. ASSUME NEW t \in Ticket, NEW to \in Status, RunOutcome(t, to) PROVE TypeInv'
  <2>1. TypeOK'
    BY <1>15, <1>T, FreeLocksTyped DEF RunOutcome, TypeOK, LockTypeOK
  <2>2. RowsNameHosts'
    BY <1>15, <1>T DEF RunOutcome, TypeOK, RowsNameHosts
  <2>3. QED
    BY <2>1, <2>2 DEF TypeInv
<1>16. ASSUME NEW t \in Ticket, NEW to \in Status,
           SubmitVerification(t, to) PROVE TypeInv'
  <2>1. TypeOK'
    BY <1>16, <1>T DEF SubmitVerification, TypeOK
  <2>2. RowsNameHosts'
    BY <1>16, <1>T DEF SubmitVerification, TypeOK, RowsNameHosts
  <2>3. QED
    BY <2>1, <2>2 DEF TypeInv
<1>17. ASSUME NEW r \in Resource, LeaseAges(r) PROVE TypeInv'
  <2>1. TypeOK'
    BY <1>17, <1>T DEF LeaseAges, TypeOK
  <2>2. RowsNameHosts'
    BY <1>17, <1>T DEF LeaseAges, TypeOK, RowsNameHosts
  <2>3. QED
    BY <2>1, <2>2 DEF TypeInv
<1>18. ASSUME NEW t \in Ticket, CapRunsOut(t) PROVE TypeInv'
  <2>1. TypeOK'
    BY <1>18, <1>T DEF CapRunsOut, TypeOK
  <2>2. RowsNameHosts'
    BY <1>18, <1>T DEF CapRunsOut, TypeOK, RowsNameHosts
  <2>3. QED
    BY <2>1, <2>2 DEF TypeInv
<1>19. ASSUME NEW l \in KillLevel, KillPoll(l) PROVE TypeInv'
  <2>1. TypeOK'
    BY <1>19, <1>T DEF KillPoll, TypeOK
  <2>2. RowsNameHosts'
    BY <1>19, <1>T DEF KillPoll, TypeOK, RowsNameHosts
  <2>3. QED
    BY <2>1, <2>2 DEF TypeInv
<1>20. ASSUME MirrorGoesStale PROVE TypeInv'
  <2>1. TypeOK'
    BY <1>20, <1>T DEF MirrorGoesStale, TypeOK
  <2>2. RowsNameHosts'
    BY <1>20, <1>T DEF MirrorGoesStale, TypeOK, RowsNameHosts
  <2>3. QED
    BY <2>1, <2>2 DEF TypeInv
<1>21. CASE UNCHANGED vars
  BY <1>21, <1>T DEF vars, TypeInv, TypeOK, RowsNameHosts
<1>A. ASSUME NEW a \in Agent, NEW t \in Ticket, AgentCall(a, t) PROVE TypeInv'
  BY <1>A, <1>1, <1>2, <1>3, <1>7, <1>8 DEF AgentCall
<1>B. ASSUME NEW t \in Ticket, OperatorCall(t) PROVE TypeInv'
  BY <1>B, <1>6, <1>9, <1>10, <1>11 DEF OperatorCall
<1>C. ASSUME GrantStep \/ GatewayCall PROVE TypeInv'
  BY <1>C, <1>12, <1>13, <1>14, <1>15, <1>16 DEF GrantStep, GatewayCall
<1>D. ASSUME Sweeps \/ TimePasses \/ KillMirror PROVE TypeInv'
  BY <1>D, <1>4, <1>5, <1>17, <1>18, <1>19, <1>20 DEF Sweeps, TimePasses, KillMirror
<1>E. QED
  BY <1>21, <1>A, <1>B, <1>C, <1>D DEF Next

(* Type correctness, with what it rests on.                                *)
THEOREM Typing == Spec => []TypeInv
<1>1. QED
  BY TypeInit, TypeStep, PTL DEF Spec

(* Every column of tickets, host_locks and approvals holds a value of its  *)
(* type, whatever the order of the Board's calls and sweeps.               *)
THEOREM TypeCorrect == Spec => []TypeOK
<1>1. TypeInv => TypeOK
  BY DEF TypeInv
<1>2. QED
  BY <1>1, Typing, PTL

-----------------------------------------------------------------------------
(* The locks.                                                              *)

Worked == {"in_progress", "executing"}

(* What a lock says of its ticket; the token of the ticket is its          *)
(* generation, or, not exact, may be behind it: so a restored execution    *)
(* hold stands (BoardRestore).  The step is the same for both.             *)
HoldFits(r, exact) ==
  LET t == lockTicket[r]
  IN /\ r = Res(t)
     /\ fencingToken[t] <= lockGen[r]
     /\ exact => fencingToken[t] = lockGen[r]
     /\ \/ /\ holdKind[r] = "claim" /\ status[t] = "in_progress"
           /\ lockAgent[r] \in Agent /\ lockAgent[r] = claimedBy[t]
        \/ /\ holdKind[r] = "execution" /\ status[t] = "executing"
           /\ lockAgent[r] = Gateway

(* This is inductive once a free lock is known to be blank and an          *)
(* executing ticket to have a host: RunOutcome frees the lock only of a    *)
(* ticket that has one.                                                    *)
FreeLocksBlank ==
  \A r \in Resource : lockTicket[r] = NoTicket =>
    lockAgent[r] = NoAgent /\ holdKind[r] = "none"
ExecutingHasHost == \A t \in Ticket : status[t] = "executing" => HostOf[t] # NoHost

LocksFit(exact) ==
  /\ \A r \in Resource : lockTicket[r] # NoTicket => HoldFits(r, exact)
  /\ \A t \in Ticket : status[t] \in Worked => lockTicket[Res(t)] = t
  /\ FreeLocksBlank /\ ExecutingHasHost

LockInv == LockMatchesTicket /\ FreeLocksBlank /\ ExecutingHasHost

(* The exact form is the property.                                         *)
LEMMA LockInvIsExact == TypeInv => (LockInv <=> LocksFit(TRUE))
<1> SUFFICES ASSUME TypeInv PROVE LockInv <=> LocksFit(TRUE)
  OBVIOUS
<1>1. ASSUME NEW r \in Resource, lockTicket[r] # NoTicket
      PROVE  HoldMatchesTicket(r) <=> HoldFits(r, TRUE)
  BY <1>1 DEF TypeInv, TypeOK, HoldMatchesTicket, HoldFits
<1>2. QED
  BY <1>1 DEF LockInv, LockMatchesTicket, LocksFit, Worked

Others(t) == \A u \in Ticket \ {t} : /\ status'[u] = status[u]
                                     /\ claimedBy'[u] = claimedBy[u]
                                     /\ fencingToken'[u] = fencingToken[u]

(* A ticket that lets go of its lock and leaves the worked statuses leaves *)
(* the locks in order.                                                     *)
LEMMA LetGo ==
  ASSUME NEW exact \in BOOLEAN, TypeInv, LocksFit(exact), NEW t \in Ticket, FreeLocks(HeldBy(t)),
         status'[t] \notin Worked, Others(t)
  PROVE  LocksFit(exact)'
<1>1. /\ lockTicket \in [Resource -> Ticket \cup {NoTicket}]
      /\ lockTicket' \in [Resource -> Ticket \cup {NoTicket}]
  BY FreeLocksTyped DEF TypeInv, TypeOK, LockTypeOK
<1>2. \A r \in Resource : lockTicket[r] = t => r \in HeldBy(t)
  BY <1>1, IdentityAssumption DEF LocksFit, HoldFits, HeldBy
<1>3. ASSUME NEW r \in Resource, lockTicket'[r] # NoTicket
      PROVE  /\ r \notin HeldBy(t) /\ lockTicket[r] \in Ticket \ {t}
             /\ lockTicket'[r] = lockTicket[r]
             /\ HoldFits(r, exact)'
  <2>1. r \notin HeldBy(t) /\ lockTicket'[r] = lockTicket[r]
    BY <1>3 DEF FreeLocks
  <2>2. lockTicket[r] \in Ticket \ {t}
    BY <1>1, <1>2, <1>3, <2>1
  <2>3. HoldFits(r, exact)
    BY <1>3, <2>1 DEF LocksFit
  <2>4. QED
    BY <2>1, <2>2, <2>3 DEF HoldFits, FreeLocks, Others
<1>4. ASSUME NEW u \in Ticket, status'[u] \in Worked
      PROVE  lockTicket'[Res(u)] = u
  <2>1. u # t /\ status[u] \in Worked
    BY <1>4 DEF Others
  <2>2. lockTicket[Res(u)] = u
    BY <2>1 DEF LocksFit, Worked
  <2>3. QED
    BY <2>1, <2>2, ResIsResource DEF FreeLocks, HeldBy
<1>5. FreeLocksBlank'
  BY DEF FreeLocksBlank, FreeLocks, LocksFit
<1>6. ExecutingHasHost'
  BY DEF ExecutingHasHost, LocksFit, Others, Worked
<1>7. QED
  BY <1>3, <1>4, <1>5, <1>6 DEF LocksFit, Worked

(* A ticket that moves between statuses in which it holds no lock frees    *)
(* none, and disturbs none.                                                *)
LEMMA IdleMove ==
  ASSUME NEW exact \in BOOLEAN, TypeInv, LocksFit(exact), NEW t \in Ticket, NEW S,
         FreeLocks(S) \/ UNCHANGED <<lockTicket, lockAgent, holdKind, lockGen>>,
         S \subseteq HeldBy(t), status[t] \notin Worked, status'[t] \notin Worked, Others(t)
  PROVE  LocksFit(exact)'
<1>1. \A r \in Resource : lockTicket[r] # t
  BY IdentityAssumption DEF LocksFit, HoldFits, Worked
<1>2. S = {}
  BY <1>1, ResIsResource DEF HeldBy
<1>3. \A r \in Resource : /\ lockTicket'[r] = lockTicket[r] /\ lockAgent'[r] = lockAgent[r]
                          /\ holdKind'[r] = holdKind[r] /\ lockGen'[r] = lockGen[r]
  BY <1>2 DEF FreeLocks
<1>4. \A r \in Resource : lockTicket[r] \in (Ticket \ {t}) \cup {NoTicket}
  BY <1>1 DEF TypeInv, TypeOK
<1>5. ASSUME NEW r \in Resource, lockTicket'[r] # NoTicket
      PROVE  HoldFits(r, exact)'
  BY <1>3, <1>4, <1>5 DEF LocksFit, HoldFits, Others
<1>6. \A u \in Ticket : status'[u] \in Worked => lockTicket'[Res(u)] = u
  BY <1>3, ResIsResource DEF Others, LocksFit, Worked
<1>7. FreeLocksBlank'
  BY <1>3 DEF FreeLocksBlank, LocksFit
<1>8. ExecutingHasHost'
  BY DEF ExecutingHasHost, LocksFit, Others, Worked
<1>9. QED
  BY <1>5, <1>6, <1>7, <1>8 DEF LocksFit, Worked

(* A step that leaves the locks and what they are compared with alone      *)
(* keeps the invariant.                                                    *)
LEMMA LocksUntouched ==
  ASSUME NEW exact \in BOOLEAN, LocksFit(exact),
         UNCHANGED <<lockTicket, lockAgent, holdKind, lockGen,
                     status, claimedBy, fencingToken>>
  PROVE  LocksFit(exact)'
BY DEF LocksFit, HoldFits, FreeLocksBlank, ExecutingHasHost

(* Acquiring a free lock for a ticket that held none, with the columns of  *)
(* the ticket set to match, leaves the locks in order.                     *)
LEMMA TakeLock ==
  ASSUME NEW exact \in BOOLEAN, TypeInv, LocksFit(exact), NEW t \in Ticket, NEW a \in Agent \cup {Gateway},
         NEW k \in {"claim", "execution"},
         AcquireLock(Res(t), t, a, k), status[t] \notin Worked, Others(t),
         fencingToken'[t] = lockGen[Res(t)] + 1,
         \/ k = "claim" /\ status'[t] = "in_progress" /\ a \in Agent /\ claimedBy'[t] = a
         \/ /\ k = "execution" /\ status'[t] = "executing" /\ a = Gateway
            /\ HostOf[t] # NoHost
  PROVE  LocksFit(exact)'
<1> DEFINE r == Res(t)
<1>T. /\ r \in Resource
      /\ lockTicket \in [Resource -> Ticket \cup {NoTicket}]
      /\ lockAgent \in [Resource -> Agent \cup {Gateway, NoAgent}]
      /\ holdKind \in [Resource -> {"none", "claim", "execution"}]
      /\ lockGen \in [Resource -> Nat]
  BY ResIsResource DEF TypeInv, TypeOK
<1>1. /\ lockTicket'[r] = t /\ lockAgent'[r] = a /\ holdKind'[r] = k
      /\ lockGen'[r] = lockGen[r] + 1
  BY <1>T DEF AcquireLock
<1>2. \A q \in Resource \ {r} :
        /\ lockTicket'[q] = lockTicket[q] /\ lockAgent'[q] = lockAgent[q]
        /\ holdKind'[q] = holdKind[q] /\ lockGen'[q] = lockGen[q]
  BY <1>T DEF AcquireLock
<1>3. \A q \in Resource : lockTicket[q] # t
  BY IdentityAssumption DEF LocksFit, HoldFits, Worked
<1>4. ASSUME NEW q \in Resource \ {r}, lockTicket'[q] # NoTicket
      PROVE  HoldFits(q, exact)'
  <2>1. lockTicket[q] \in Ticket \ {t} /\ HoldFits(q, exact)
    BY <1>2, <1>3, <1>4, <1>T DEF LocksFit
  <2>2. QED
    BY <1>2, <2>1 DEF HoldFits, Others
<1>5. HoldFits(r, exact)'
  <2>1. fencingToken'[t] = lockGen'[r] /\ fencingToken'[t] <= lockGen'[r]
    BY <1>1, <1>T
  <2>2. QED
    BY <1>1, <2>1 DEF HoldFits
<1>6. ASSUME NEW u \in Ticket, status'[u] \in Worked
      PROVE  lockTicket'[Res(u)] = u
  <2>1. CASE u = t
    BY <1>1, <2>1
  <2>2. CASE u # t
    <3>1. lockTicket[Res(u)] = u
      BY <1>6, <2>2 DEF Others, LocksFit, Worked
    <3>2. Res(u) # r
      BY <3>1, IdentityAssumption DEF AcquireLock, LockFree
    <3>3. QED
      BY <1>2, <3>1, <3>2, ResIsResource
  <2>3. QED
    BY <2>1, <2>2
<1>7. FreeLocksBlank'
  BY <1>1, <1>2, IdentityAssumption DEF FreeLocksBlank, LocksFit
<1>8. ExecutingHasHost'
  BY DEF ExecutingHasHost, LocksFit, Others, Worked
<1>9. QED
  BY <1>4, <1>5, <1>6, <1>7, <1>8 DEF LocksFit, Worked

(* At the start every lock is free and no ticket is worked on.             *)
LEMMA LockInit == Init => LockInv
<1> SUFFICES ASSUME Init PROVE LockInv
  OBVIOUS
<1>1. \A r \in Resource : lockTicket[r] = NoTicket
  BY DEF Init
<1>2. \A t \in Ticket : status[t] = "todo"
  BY DEF Init
<1>3. FreeLocksBlank
  BY DEF Init, FreeLocksBlank
<1>4. QED
  BY <1>1, <1>2, <1>3 DEF LockInv, LockMatchesTicket, ExecutingHasHost

(* The claim lock of an in_progress ticket, and who owns what.             *)
LEMMA AgentHoldsClaim ==
  ASSUME NEW exact \in BOOLEAN, LocksFit(exact), NEW a \in Agent, NEW t \in Ticket, Owns(a, t)
  PROVE  status[t] = "in_progress"
BY ResIsResource, IdentityAssumption
   DEF LocksFit, HoldFits, Owns

(* A sweep frees, or parks, claim locks of in_progress tickets only; a     *)
(* ticket it moves loses its lock, the rest keep theirs.                   *)
LEMMA SweepKeepsLocks ==
  ASSUME NEW exact \in BOOLEAN, TypeInv, LocksFit(exact), ReaperSweep
  PROVE  LocksFit(exact)'
<1> DEFINE expired == IF OutageGateTrips THEN {} ELSE Expired
           S == WallCapped \cup expired
           Moved == TicketsOn(WallCapped) \cup TicketsOn(expired)
<1>T. /\ lockTicket \in [Resource -> Ticket \cup {NoTicket}]
      /\ status \in [Ticket -> Status]
  BY DEF TypeInv, TypeOK
<1>1. FreeLocks(S) /\ Disown(Moved)
  BY DEF ReaperSweep, TicketsOn
<1>2. \A t \in Ticket : /\ t \in Moved => status'[t] \in {"needs_review", "todo"}
                        /\ t \notin Moved => status'[t] = status[t]
  BY DEF ReaperSweep, TicketsOn
<1>3. \A r \in S : r \in Resource /\ lockTicket[r] \in Moved /\ lockTicket[r] # NoTicket
  BY DEF WallCapped, Expired, Sweepable, ClaimLocks, TicketsOn
<1>4. \A t \in Moved : \E r \in S : lockTicket[r] = t /\ r = Res(t)
  BY <1>3 DEF TicketsOn, LocksFit, HoldFits
<1> HIDE DEF S, Moved, expired
<1>5. ASSUME NEW r \in Resource, lockTicket'[r] # NoTicket
      PROVE  HoldFits(r, exact)'
  <2>1. r \notin S /\ lockTicket'[r] = lockTicket[r]
    BY <1>1, <1>5 DEF FreeLocks
  <2>2. HoldFits(r, exact) /\ lockTicket[r] \in Ticket
    BY <1>T, <1>5, <2>1 DEF LocksFit
  <2>3. lockTicket[r] \notin Moved
    BY <1>4, <2>1, <2>2 DEF HoldFits
  <2>4. QED
    BY <1>1, <1>2, <2>1, <2>2, <2>3 DEF HoldFits, FreeLocks, Disown
<1>6. ASSUME NEW t \in Ticket, status'[t] \in Worked
      PROVE  lockTicket'[Res(t)] = t
  <2>1. t \notin Moved /\ status[t] \in Worked
    BY <1>2, <1>6 DEF Worked
  <2>2. lockTicket[Res(t)] = t
    BY <2>1 DEF LocksFit, Worked
  <2>3. Res(t) \notin S
    BY <1>3, <2>1, <2>2
  <2>4. QED
    BY <1>1, <2>2, <2>3, ResIsResource DEF FreeLocks
<1>7. FreeLocksBlank'
  BY <1>1 DEF FreeLocksBlank, FreeLocks, LocksFit
<1>8. ExecutingHasHost'
  BY <1>2 DEF ExecutingHasHost, LocksFit
<1>9. QED
  BY <1>5, <1>6, <1>7, <1>8 DEF LocksFit, Worked

(* The step case: each action is one of the moves above.                   *)
LEMMA LocksFitStep ==
  ASSUME NEW exact \in BOOLEAN, TypeInv, LocksFit(exact), [Next]_vars
  PROVE  LocksFit(exact)'
<1> USE DEF ticketVars, lockVars, Worked
<1>T. /\ status \in [Ticket -> Status] /\ claimedBy \in [Ticket -> Agent \cup {NoAgent}]
      /\ fencingToken \in [Ticket -> Nat]
  BY DEF TypeInv, TypeOK
<1>1. ASSUME NEW a \in Agent, NEW t \in Ticket, Claim(a, t) PROVE LocksFit(exact)'
  <2>1. AcquireLock(Res(t), t, a, "claim") /\ status[t] = "todo" /\ Others(t)
    BY <1>1, <1>T DEF Claim, Claimable, Others
  <2>2. /\ fencingToken'[t] = lockGen[Res(t)] + 1
        /\ status'[t] = "in_progress" /\ claimedBy'[t] = a
    BY <1>1, <1>T DEF Claim
  <2>3. QED
    BY <2>1, <2>2, TakeLock
<1>2. ASSUME NEW a, NEW t \in Ticket, NEW tok, Heartbeat(a, t, tok) PROVE LocksFit(exact)'
  BY <1>2, LocksUntouched DEF Heartbeat
<1>3. ASSUME NEW a \in Agent, NEW t \in Ticket, NEW tok, Release(a, t, tok) PROVE LocksFit(exact)'
  <2>1. status[t] = "in_progress"
    BY <1>3, AgentHoldsClaim DEF Release
  <2>2. FreeLocks(HeldBy(t)) /\ status'[t] = "todo" /\ Others(t)
    BY <1>3, <1>T, <2>1 DEF Release, Disown, Others
  <2>3. QED
    BY <2>2, LetGo
<1>4. ASSUME ReaperSweep PROVE LocksFit(exact)'
  BY <1>4, SweepKeepsLocks
<1>5. ASSUME NEW t \in Ticket, HuddleTrip(t) PROVE LocksFit(exact)'
  <2>1. FreeLocks(HeldBy(t)) /\ status'[t] = "needs_review" /\ Others(t)
    BY <1>5, <1>T DEF HuddleTrip, Disown, Others
  <2>2. QED
    BY <2>1, LetGo
<1>6. ASSUME NEW t \in Ticket, ClearOutageHold(t) PROVE LocksFit(exact)'
  <2>1. FreeLocks(HeldBy(t)) /\ status'[t] = "todo" /\ Others(t)
    BY <1>6, <1>T DEF ClearOutageHold, Disown, Others
  <2>2. QED
    BY <2>1, LetGo
<1>7. ASSUME NEW a, NEW t \in Ticket, NEW tok, NEW to,
             AgentTransition(a, t, tok, to) PROVE LocksFit(exact)'
  <2>1. FreeLocks(HeldBy(t)) /\ status'[t] \notin Worked /\ Others(t)
    BY <1>7, <1>T DEF AgentTransition, Others
  <2>2. QED
    BY <2>1, LetGo
<1>8. ASSUME NEW a, NEW t \in Ticket, NEW tok, NEW p, Propose(a, t, tok, p) PROVE LocksFit(exact)'
  <2>1. FreeLocks(HeldBy(t)) /\ status'[t] = "awaiting_approval" /\ Others(t)
    BY <1>8, <1>T DEF Propose, Disown, Others
  <2>2. QED
    BY <2>1, LetGo
<1>9. ASSUME NEW t \in Ticket, NEW to, OperatorTransition(t, to) PROVE LocksFit(exact)'
  <2>1. status[t] \notin Worked /\ status'[t] \notin Worked /\ Others(t)
    BY <1>9, <1>T DEF OperatorTransition, OperatorMay, Others
  <2> DEFINE revoked == IF to \in Terminal THEN LiveGrant(t) ELSE {}
             S == IF revoked = {} THEN {} ELSE HostHeldBy(t)
  <2>2. FreeLocks(S)
    BY <1>9, Zenon DEF OperatorTransition
  <2>3. S \subseteq HeldBy(t)
    BY DEF HostHeldBy
  <2> HIDE DEF S
  <2>4. QED
    BY <2>1, <2>2, <2>3, IdleMove
<1>10. ASSUME NEW t \in Ticket, Revoke(t) PROVE LocksFit(exact)'
  <2>1. /\ status[t] \notin Worked /\ status'[t] \notin Worked /\ Others(t)
        /\ FreeLocks(HostHeldBy(t)) /\ HostHeldBy(t) \subseteq HeldBy(t)
    BY <1>10, <1>T DEF Revoke, HostHeldBy, Others
  <2>2. QED
    BY <2>1, IdleMove
<1>11. ASSUME NEW b, NEW t, GrantBegin(b, t) PROVE LocksFit(exact)'
  BY <1>11, LocksUntouched DEF GrantBegin
<1>12. ASSUME NEW g \in grants, NEW a \in Approval, GrantCommit(g, a) PROVE LocksFit(exact)'
  <2> DEFINE t == g.ticket
  <2>1. t \in Ticket
    BY DEF TypeInv, TypeOK, GrantCall
  <2>2. status[t] \notin Worked /\ status'[t] \notin Worked /\ Others(t)
    BY <1>12, <1>T, <2>1 DEF GrantCommit, Others
  <2>3. UNCHANGED <<lockTicket, lockAgent, holdKind, lockGen>>
    BY <1>12 DEF GrantCommit
  <2> HIDE DEF t
  <2>4. QED
    BY <2>1, <2>2, <2>3, IdleMove
<1>13. ASSUME NEW g, GrantFail(g) PROVE LocksFit(exact)'
  BY <1>13, LocksUntouched DEF GrantFail
<1>14. ASSUME NEW a \in Approval, Consume(a) PROVE LocksFit(exact)'
  <2> DEFINE t == appr[a].ticket
  <2>1. t \in Ticket /\ HostOf[t] # NoHost
    BY <1>14 DEF Consume, TypeInv, RowsNameHosts
  <2>2. AcquireLock(Res(t), t, Gateway, "execution") /\ status[t] = "approved" /\ Others(t)
    BY <1>14, <1>T, <2>1 DEF Consume, Res, Others
  <2>3. fencingToken'[t] = lockGen[Res(t)] + 1 /\ status'[t] = "executing"
    BY <1>14, <1>T, <2>1 DEF Consume, Res
  <2> HIDE DEF t
  <2>4. QED
    BY <2>1, <2>2, <2>3, TakeLock
<1>15. ASSUME NEW t \in Ticket, NEW to, RunOutcome(t, to) PROVE LocksFit(exact)'
  <2>1. \A r \in HeldBy(t) : holdKind[r] = "execution"
    BY <1>15, ResIsResource, IdentityAssumption
       DEF RunOutcome, HeldBy, LocksFit, HoldFits
  <2>2. HostOf[t] # NoHost
    BY <1>15 DEF RunOutcome, LocksFit, ExecutingHasHost
  <2>3. {r \in HostHeldBy(t) : holdKind[r] = "execution"} = HeldBy(t)
    BY <2>1, <2>2 DEF HostHeldBy
  <2>4. FreeLocks(HeldBy(t)) /\ status'[t] \notin Worked /\ Others(t)
    BY <1>15, <1>T, <2>3 DEF RunOutcome, Others
  <2>5. QED
    BY <2>4, LetGo
<1>16. ASSUME NEW t \in Ticket, NEW to, SubmitVerification(t, to) PROVE LocksFit(exact)'
  <2>1. /\ status[t] \notin Worked /\ status'[t] \notin Worked /\ Others(t)
        /\ UNCHANGED <<lockTicket, lockAgent, holdKind, lockGen>>
    BY <1>16, <1>T DEF SubmitVerification, Others
  <2>2. QED
    BY <2>1, IdleMove
<1>17. ASSUME NEW r, LeaseAges(r) PROVE LocksFit(exact)'
  BY <1>17, LocksUntouched DEF LeaseAges
<1>18. ASSUME NEW t, CapRunsOut(t) PROVE LocksFit(exact)'
  BY <1>18, LocksUntouched DEF CapRunsOut
<1>19. ASSUME KillMirror PROVE LocksFit(exact)'
  BY <1>19, LocksUntouched DEF KillMirror, KillPoll, MirrorGoesStale
<1>20. CASE UNCHANGED vars
  BY <1>20, LocksUntouched DEF vars
<1>A. ASSUME NEW a \in Agent, NEW t \in Ticket, AgentCall(a, t) PROVE LocksFit(exact)'
  BY <1>A, <1>1, <1>2, <1>3, <1>7, <1>8 DEF AgentCall
<1>B. ASSUME NEW t \in Ticket, OperatorCall(t) PROVE LocksFit(exact)'
  BY <1>B, <1>6, <1>9, <1>10, <1>11 DEF OperatorCall
<1>C. ASSUME GrantStep \/ GatewayCall PROVE LocksFit(exact)'
  BY <1>C, <1>12, <1>13, <1>14, <1>15, <1>16 DEF GrantStep, GatewayCall
<1>D. ASSUME Sweeps \/ TimePasses PROVE LocksFit(exact)'
  BY <1>D, <1>4, <1>5, <1>17, <1>18 DEF Sweeps, TimePasses
<1>E. QED
  BY <1>19, <1>20, <1>A, <1>B, <1>C, <1>D DEF Next

(* In its exact form.                                                      *)
LEMMA LockStep == TypeInv /\ LockInv /\ [Next]_vars => LockInv'
<1> SUFFICES ASSUME TypeInv, LockInv, [Next]_vars PROVE LockInv'
  OBVIOUS
<1>1. LocksFit(TRUE)
  BY LockInvIsExact
<1>2. LocksFit(TRUE)'
  BY <1>1, LocksFitStep
<1>3. TypeInv'
  BY TypeStep
<1>4. (LockInv <=> LocksFit(TRUE))'
  BY <1>3, LockInvIsExact, PTL
<1>5. QED
  BY <1>2, <1>4

(* The inductive invariant of the locks.                                   *)
THEOREM LocksInOrder == Spec => []LockInv
<1>1. QED
  BY LockInit, LockStep, Typing, PTL DEF Spec

(* host_locks and tickets never desync, for any number of tickets, hosts   *)
(* and agents and whatever the kill level, the gate or the operators do.   *)
THEOREM NeverDesync == Spec => []LockMatchesTicket
<1>1. LockInv => LockMatchesTicket
  BY DEF LockInv
<1>2. QED
  BY <1>1, LocksInOrder, PTL

-----------------------------------------------------------------------------
(* The tokens.                                                             *)

HeldLocks == {r \in Resource : lockTicket[r] # NoTicket}

LockRest == UNCHANGED <<lockTicket, lockAgent, lockGen, issued>>
LockTaken == \E t \in Ticket, a \in Agent \cup {Gateway}, k \in {"claim", "execution"} :
               AcquireLock(Res(t), t, a, k)
LocksFreed == \E S \in SUBSET HeldLocks : FreeLocks(S) /\ UNCHANGED issued

(* All any action does to the locks and the tokens: nothing, taking one    *)
(* free lock, or freeing held ones.                                        *)
LEMMA LockMoves ==
  ASSUME TypeInv, [Next]_vars
  PROVE  LockRest \/ LockTaken \/ LocksFreed
<1> USE DEF lockVars, historyVars
<1> DEFINE Move == LockRest \/ LockTaken \/ LocksFreed
<1>H. \A t \in Ticket : HeldBy(t) \subseteq HeldLocks
  BY ResIsResource, IdentityAssumption DEF HeldBy, HeldLocks
<1>1. ASSUME NEW a \in Agent, NEW t \in Ticket, AgentCall(a, t) PROVE Move
  <2>1. ASSUME Claim(a, t) PROVE LockTaken
    BY <2>1 DEF Claim, LockTaken
  <2>2. ASSUME NEW tok, Heartbeat(a, t, tok) PROVE LockRest
    BY <2>2 DEF Heartbeat, LockRest
  <2>3. ASSUME NEW tok, NEW to, NEW p,
               Release(a, t, tok) \/ AgentTransition(a, t, tok, to) \/ Propose(a, t, tok, p)
        PROVE  LocksFreed
    <3>1. FreeLocks(HeldBy(t)) /\ UNCHANGED issued
      BY <2>3 DEF Release, AgentTransition, Propose
    <3>2. QED
      BY <3>1, <1>H DEF LocksFreed
  <2>4. QED
    BY <1>1, <2>1, <2>2, <2>3 DEF AgentCall
<1>2. ASSUME NEW t \in Ticket, OperatorCall(t) PROVE Move
  <2>1. ASSUME NEW to, OperatorTransition(t, to) PROVE LocksFreed
    <3> DEFINE S == IF (IF to \in Terminal THEN LiveGrant(t) ELSE {}) = {}
                    THEN {} ELSE HostHeldBy(t)
    <3>1. FreeLocks(S) /\ UNCHANGED issued
      BY <2>1, Zenon DEF OperatorTransition
    <3>2. S \subseteq HeldLocks
      BY <1>H DEF HostHeldBy
    <3> HIDE DEF S
    <3>3. QED
      BY <3>1, <3>2 DEF LocksFreed
  <2>2. ASSUME Revoke(t) PROVE LocksFreed
    <3>1. FreeLocks(HostHeldBy(t)) /\ UNCHANGED issued
      BY <2>2 DEF Revoke
    <3>2. HostHeldBy(t) \subseteq HeldLocks
      BY <1>H DEF HostHeldBy
    <3>3. QED
      BY <3>1, <3>2 DEF LocksFreed
  <2>3. ASSUME ClearOutageHold(t) PROVE LocksFreed
    BY <2>3, <1>H DEF ClearOutageHold, LocksFreed
  <2>4. ASSUME NEW b, GrantBegin(b, t) PROVE LockRest
    BY <2>4 DEF GrantBegin, LockRest
  <2>5. QED
    BY <1>2, <2>1, <2>2, <2>3, <2>4 DEF OperatorCall
<1>3. ASSUME GrantStep PROVE LockRest
  BY <1>3 DEF GrantStep, GrantFail, GrantCommit, LockRest
<1>4. ASSUME GatewayCall PROVE Move
  <2>1. ASSUME NEW a \in Approval, Consume(a) PROVE LockTaken
    <3>1. appr[a].ticket \in Ticket /\ HostOf[appr[a].ticket] # NoHost
      BY <2>1 DEF Consume, TypeInv, RowsNameHosts
    <3>2. AcquireLock(Res(appr[a].ticket), appr[a].ticket, Gateway, "execution")
      BY <2>1, <3>1 DEF Consume, Res
    <3>3. QED
      BY <3>1, <3>2 DEF LockTaken
  <2>2. ASSUME NEW t \in Ticket, NEW to, RunOutcome(t, to) PROVE LocksFreed
    <3> DEFINE S == {r \in HostHeldBy(t) : holdKind[r] = "execution"}
    <3>1. FreeLocks(S) /\ UNCHANGED issued
      BY <2>2 DEF RunOutcome
    <3>2. S \subseteq HeldLocks
      BY <1>H DEF HostHeldBy
    <3> HIDE DEF S
    <3>3. QED
      BY <3>1, <3>2 DEF LocksFreed
  <2>3. ASSUME NEW t \in Ticket, NEW to, SubmitVerification(t, to) PROVE LockRest
    BY <2>3 DEF SubmitVerification, LockRest
  <2>4. QED
    BY <1>4, <2>1, <2>2, <2>3 DEF GatewayCall
<1>5. ASSUME Sweeps PROVE LocksFreed
  <2>1. ASSUME ReaperSweep PROVE LocksFreed
    <3> DEFINE S == IF OutageGateTrips THEN WallCapped ELSE WallCapped \cup Expired
    <3>1. FreeLocks(S) /\ UNCHANGED issued
      BY <2>1, Zenon DEF ReaperSweep
    <3>2. S \subseteq HeldLocks
      BY DEF WallCapped, Expired, Sweepable, ClaimLocks, HeldLocks
    <3> HIDE DEF S
    <3>3. QED
      BY <3>1, <3>2 DEF LocksFreed
  <2>2. ASSUME NEW t \in Ticket, HuddleTrip(t) PROVE LocksFreed
    BY <2>2, <1>H DEF HuddleTrip, LocksFreed
  <2>3. QED
    BY <1>5, <2>1, <2>2 DEF Sweeps
<1>6. ASSUME TimePasses \/ KillMirror \/ UNCHANGED vars PROVE LockRest
  BY <1>6 DEF TimePasses, LeaseAges, CapRunsOut, KillMirror, KillPoll, MirrorGoesStale,
              vars, LockRest
<1>7. QED
  BY <1>1, <1>2, <1>3, <1>4, <1>5, <1>6 DEF Next

TokenInv == ReleasedTokenIsDead /\ TokensUnique

(* At the start no token is out.                                           *)
LEMMA TokenInit == Init => TokenInv
BY DEF Init, TokenInv, ReleasedTokenIsDead, TokensUnique

(* A new token is above every token of its resource, so it equals none;    *)
(* a freed lock's generation is above them all, so none is current.        *)
LEMMA TokenStep == TypeInv /\ TokenInv /\ [Next]_vars => TokenInv'
<1> SUFFICES ASSUME TypeInv, TokenInv, [Next]_vars PROVE TokenInv'
  OBVIOUS
<1>T. /\ lockGen \in [Resource -> Nat]
      /\ \A i \in issued : i.ticket \in Ticket /\ i.token \in Nat /\ Res(i.ticket) \in Resource
      /\ issued \subseteq Issue
      /\ lockTicket \in [Resource -> Ticket \cup {NoTicket}]
      /\ lockAgent \in [Resource -> Agent \cup {Gateway, NoAgent}]
  BY ResIsResource DEF TypeInv, TypeOK, Issue
<1>1. CASE LockRest
  BY <1>1 DEF LockRest, TokenInv, ReleasedTokenIsDead, TokensUnique
<1>2. CASE LockTaken
  <2> PICK t \in Ticket, a \in Agent \cup {Gateway}, k \in {"claim", "execution"} :
        AcquireLock(Res(t), t, a, k)
    BY <1>2 DEF LockTaken
  <2> DEFINE r == Res(t)
             new == [ticket |-> t, agent |-> a, token |-> lockGen[r] + 1]
  <2>1. r \in Resource /\ issued' = issued \cup {new}
    BY ResIsResource DEF AcquireLock
  <2>2. /\ lockGen'[r] = lockGen[r] + 1 /\ lockTicket'[r] = t /\ lockAgent'[r] = a
        /\ \A q \in Resource \ {r} : /\ lockGen'[q] = lockGen[q]
                                     /\ lockTicket'[q] = lockTicket[q]
                                     /\ lockAgent'[q] = lockAgent[q]
    BY <1>T, <2>1 DEF AcquireLock
  <2>3. \A i \in issued : Res(i.ticket) = r => i.token < lockGen[r] + 1
    BY <1>T, <2>1 DEF TokenInv, ReleasedTokenIsDead
  <2>4. ReleasedTokenIsDead'
    BY <1>T, <2>1, <2>2, <2>3 DEF TokenInv, ReleasedTokenIsDead
  <2>5. TokensUnique'
    BY <1>T, <2>1, <2>3 DEF TokenInv, TokensUnique
  <2>6. QED
    BY <2>4, <2>5 DEF TokenInv
<1>3. CASE LocksFreed
  <2>1. PICK S \in SUBSET HeldLocks : FreeLocks(S) /\ UNCHANGED issued
    BY <1>3 DEF LocksFreed
  <2>2. \A q \in Resource :
          /\ q \in S => lockGen'[q] = lockGen[q] + 1
          /\ q \notin S => /\ lockGen'[q] = lockGen[q]
                           /\ lockTicket'[q] = lockTicket[q] /\ lockAgent'[q] = lockAgent[q]
    BY <2>1 DEF FreeLocks, AfterRelease
  <2>3. ReleasedTokenIsDead'
    BY <1>T, <2>1, <2>2 DEF TokenInv, ReleasedTokenIsDead
  <2>4. TokensUnique'
    BY <2>1 DEF TokenInv, TokensUnique
  <2>5. QED
    BY <2>3, <2>4 DEF TokenInv
<1>4. QED
  BY <1>1, <1>2, <1>3, LockMoves

(* The inductive invariant of the tokens.                                  *)
THEOREM TokensInOrder == Spec => []TokenInv
<1>1. QED
  BY TokenInit, TokenStep, Typing, PTL DEF Spec

(* A token a holder has let go of, or that a sweep took from it, is behind *)
(* the generation: it never passes the fence again.                        *)
THEOREM ReleasedTokensDie == Spec => []ReleasedTokenIsDead
<1>1. TokenInv => ReleasedTokenIsDead
  BY DEF TokenInv
<1>2. QED
  BY <1>1, TokensInOrder, PTL

(* No two acquisitions of a host carry the same token.                     *)
THEOREM TokensNeverRepeat == Spec => []TokensUnique
<1>1. TokenInv => TokensUnique
  BY DEF TokenInv
<1>2. QED
  BY <1>1, TokensInOrder, PTL

-----------------------------------------------------------------------------
(* The Board implements the fenced lock.                                   *)

(* Mapped to the abstract lock, each lock move is a step of it.            *)
LEMMA FencedLockStep ==
  ASSUME TypeInv, LockInv, [Next]_vars
  PROVE  [FL!Next]_(FL!vars)
<1> DEFINE owned == [r \in Resource |-> <<lockTicket[r], lockAgent[r]>>]
           handed == {[resource |-> Res(i.ticket), owner |-> <<i.ticket, i.agent>>,
                       token |-> i.token] : i \in issued}
<1>T. /\ lockGen \in [Resource -> Nat]
      /\ lockTicket \in [Resource -> Ticket \cup {NoTicket}]
      /\ lockAgent \in [Resource -> Agent \cup {Gateway, NoAgent}]
  BY DEF TypeInv, TypeOK
<1>1. CASE LockRest
  BY <1>1 DEF LockRest, FL!vars
<1>2. CASE LockTaken
  <2> PICK t \in Ticket, a \in Agent \cup {Gateway}, k \in {"claim", "execution"} :
        AcquireLock(Res(t), t, a, k)
    BY <1>2 DEF LockTaken
  <2> DEFINE r == Res(t)
             o == <<t, a>>
  <2>1. r \in Resource /\ o \in Ticket \X (Agent \cup {Gateway})
    BY ResIsResource
  <2>2. owned[r] = <<NoTicket, NoAgent>>
    BY <2>1 DEF AcquireLock, LockFree, LockInv, FreeLocksBlank
  <2>3. owned' = [owned EXCEPT ![r] = o]
    BY <1>T, <2>1 DEF AcquireLock
  <2>4. lockGen' = [lockGen EXCEPT ![r] = @ + 1]
    BY DEF AcquireLock
  <2>5. handed' = handed \cup {[resource |-> r, owner |-> o, token |-> lockGen[r] + 1]}
    <3> DEFINE new == [ticket |-> t, agent |-> a, token |-> lockGen[r] + 1]
               row(i) == [resource |-> Res(i.ticket), owner |-> <<i.ticket, i.agent>>,
                          token |-> i.token]
    <3>1. issued' = issued \cup {new}
      BY DEF AcquireLock
    <3>2. row(new) = [resource |-> r, owner |-> o, token |-> lockGen[r] + 1]
      OBVIOUS
    <3>3. handed = {row(i) : i \in issued} /\ handed' = {row(i) : i \in issued'}
      OBVIOUS
    <3> HIDE DEF row, new, handed
    <3>4. handed' = handed \cup {row(new)}
      BY <3>1, <3>3
    <3>5. QED
      BY <3>2, <3>4
  <2>6. FL!Acquire(r, o)
    BY <2>1, <2>2, <2>3, <2>4, <2>5 DEF FL!Acquire
  <2>7. QED
    BY <2>1, <2>6 DEF FL!Next
<1>3. CASE LocksFreed
  <2>1. PICK S \in SUBSET HeldLocks : FreeLocks(S) /\ UNCHANGED issued
    BY <1>3 DEF LocksFreed
  <2>2. S \subseteq Resource /\ \A r \in S : owned[r] # <<NoTicket, NoAgent>>
    BY DEF HeldLocks
  <2>3. owned' = [r \in Resource |-> IF r \in S THEN <<NoTicket, NoAgent>> ELSE owned[r]]
    BY <2>1 DEF FreeLocks
  <2>4. lockGen' = [r \in Resource |-> IF r \in S THEN lockGen[r] + 1 ELSE lockGen[r]]
    BY <2>1 DEF FreeLocks, AfterRelease
  <2>5. handed' = handed
    BY <2>1
  <2>6. FL!Release(S)
    BY <2>2, <2>3, <2>4, <2>5 DEF FL!Release
  <2>7. QED
    BY <2>2, <2>6 DEF FL!Next
<1>4. QED
  BY <1>1, <1>2, <1>3, LockMoves

(* The Board's lock rows and tokens implement the abstract fenced lock.    *)
THEOREM ImplementsFencedLock == Spec => FencedLockSpec
<1>1. Init => FL!Init
  <2> SUFFICES ASSUME Init PROVE FL!Init
    OBVIOUS
  <2>1. [r \in Resource |-> <<lockTicket[r], lockAgent[r]>>]
          = [r \in Resource |-> <<NoTicket, NoAgent>>]
    BY DEF Init
  <2>2. {[resource |-> Res(i.ticket), owner |-> <<i.ticket, i.agent>>,
          token |-> i.token] : i \in issued} = {}
    BY DEF Init
  <2>3. QED
    BY <2>1, <2>2 DEF Init, FL!Init
<1>2. TypeInv /\ LockInv /\ [Next]_vars => [FL!Next]_(FL!vars)
  BY FencedLockStep
<1>3. QED
  BY <1>1, <1>2, Typing, LocksInOrder, PTL DEF Spec, FencedLockSpec, FL!Spec

-----------------------------------------------------------------------------
(* Replayed claims.                                                        *)

(* Where claimed_by outlives the claim (a blocked ticket, and what an      *)
(* operator makes of it), the fencing token does not; tokens handed out    *)
(* are never the NULL one.                                                 *)
ClaimColumns ==
  /\ \A t \in Ticket : claimedBy[t] # NoAgent =>
       \/ status[t] = "in_progress"
       \/ status[t] \in {"blocked", "todo", "cancelled"} /\ fencingToken[t] = NoToken
  /\ \A i \in issued : i.token # NoToken

ColumnsRest == UNCHANGED <<status, claimedBy, fencingToken, issued>>

(* At the start no ticket shows an owner.                                  *)
LEMMA ColumnsInit == Init => ClaimColumns
BY DEF Init, ClaimColumns

(* A step that disowns every ticket it moves out of in_progress, or moves  *)
(* a ticket as an operator does, keeps the columns in order.               *)
LEMMA ColumnsStep == TypeInv /\ ClaimColumns /\ [Next]_vars => ClaimColumns'
<1> SUFFICES ASSUME TypeInv, ClaimColumns, [Next]_vars PROVE ClaimColumns'
  OBVIOUS
<1> USE DEF ticketVars, lockVars, historyVars, ClaimColumns
<1>T. /\ status \in [Ticket -> Status] /\ claimedBy \in [Ticket -> Agent \cup {NoAgent}]
      /\ fencingToken \in [Ticket -> Nat] /\ lockGen \in [Resource -> Nat]
  BY DEF TypeInv, TypeOK
<1>G. \A r \in Resource : lockGen[r] + 1 # NoToken
  BY <1>T DEF NoToken
<1>R. ASSUME ColumnsRest PROVE ClaimColumns'
  BY <1>R DEF ColumnsRest
<1>1. ASSUME NEW a \in Agent, NEW t \in Ticket, AgentCall(a, t) PROVE ClaimColumns'
  <2>1. ASSUME Claim(a, t) PROVE ClaimColumns'
    BY <2>1, <1>T, <1>G, ResIsResource DEF Claim, AcquireLock
  <2>2. ASSUME NEW tok, Heartbeat(a, t, tok) PROVE ColumnsRest
    BY <2>2 DEF Heartbeat, ColumnsRest
  <2>3. ASSUME NEW tok, Release(a, t, tok) PROVE ClaimColumns'
    BY <2>3, <1>T DEF Release, Disown, InProgress
  <2>4. ASSUME NEW tok, NEW to, AgentTransition(a, t, tok, to) PROVE ClaimColumns'
    BY <2>4, <1>T DEF AgentTransition
  <2>5. ASSUME NEW tok, NEW p, Propose(a, t, tok, p) PROVE ClaimColumns'
    BY <2>5, <1>T DEF Propose, Disown
  <2>6. QED
    BY <1>1, <1>R, <2>1, <2>2, <2>3, <2>4, <2>5 DEF AgentCall
<1>2. ASSUME NEW t \in Ticket, OperatorCall(t) PROVE ClaimColumns'
  <2>1. ASSUME NEW to, OperatorTransition(t, to) PROVE ClaimColumns'
    BY <2>1, <1>T DEF OperatorTransition, OperatorMay
  <2>2. ASSUME Revoke(t) PROVE ClaimColumns'
    BY <2>2, <1>T DEF Revoke
  <2>3. ASSUME ClearOutageHold(t) PROVE ClaimColumns'
    BY <2>3, <1>T DEF ClearOutageHold, Disown
  <2>4. ASSUME NEW b, GrantBegin(b, t) PROVE ColumnsRest
    BY <2>4 DEF GrantBegin, ColumnsRest
  <2>5. QED
    BY <1>2, <1>R, <2>1, <2>2, <2>3, <2>4 DEF OperatorCall
<1>3. ASSUME GrantStep PROVE ClaimColumns'
  <2>1. ASSUME NEW g \in grants, NEW a \in Approval, GrantCommit(g, a) PROVE ClaimColumns'
    BY <2>1, <1>T DEF GrantCommit
  <2>2. ASSUME NEW g, GrantFail(g) PROVE ColumnsRest
    BY <2>2 DEF GrantFail, ColumnsRest
  <2>3. QED
    BY <1>3, <1>R, <2>1, <2>2 DEF GrantStep
<1>4. ASSUME GatewayCall PROVE ClaimColumns'
  <2>1. ASSUME NEW a \in Approval, Consume(a) PROVE ClaimColumns'
    <3>1. HostOf[appr[a].ticket] \in Resource
      BY <2>1, HostAssumption DEF Consume, TypeInv, RowsNameHosts, Resource
    <3>2. QED
      BY <2>1, <3>1, <1>T, <1>G DEF Consume, AcquireLock
  <2>2. ASSUME NEW t \in Ticket, NEW to, RunOutcome(t, to) PROVE ClaimColumns'
    BY <2>2, <1>T DEF RunOutcome
  <2>3. ASSUME NEW t \in Ticket, NEW to, SubmitVerification(t, to) PROVE ClaimColumns'
    BY <2>3, <1>T DEF SubmitVerification
  <2>4. QED
    BY <1>4, <2>1, <2>2, <2>3 DEF GatewayCall
<1>5. ASSUME Sweeps PROVE ClaimColumns'
  <2>1. ASSUME ReaperSweep PROVE ClaimColumns'
    BY <2>1, <1>T DEF ReaperSweep, Disown, TicketsOn
  <2>2. ASSUME NEW t \in Ticket, HuddleTrip(t) PROVE ClaimColumns'
    BY <2>2, <1>T DEF HuddleTrip, Disown
  <2>3. QED
    BY <1>5, <2>1, <2>2 DEF Sweeps
<1>6. ASSUME TimePasses \/ KillMirror \/ UNCHANGED vars PROVE ColumnsRest
  BY <1>6 DEF TimePasses, LeaseAges, CapRunsOut, KillMirror, KillPoll, MirrorGoesStale,
              vars, ColumnsRest
<1>7. QED
  BY <1>1, <1>2, <1>3, <1>4, <1>5, <1>6, <1>R DEF Next

(* A retried claim is never told it owns a ticket it has lost, however     *)
(* late it retries and whoever holds the lock by then.                     *)
THEOREM ReplaysTellTheTruth == Spec => []ReplayNeverStale
<1>1. TypeInv /\ LockInv /\ ClaimColumns => ReplayNeverStale
  <2> SUFFICES ASSUME TypeInv, LockInv, ClaimColumns,
                      NEW i \in issued, i.agent \in Agent, ReplayServes(i)
               PROVE  LET r == Res(i.ticket)
                      IN /\ lockTicket[r] = i.ticket /\ lockAgent[r] = i.agent
                         /\ lockGen[r] = i.token
    BY DEF ReplayNeverStale
  <2>1. i.ticket \in Ticket /\ i.token # NoToken /\ Res(i.ticket) \in Resource
    BY ResIsResource DEF TypeInv, TypeOK, Issue, ClaimColumns
  <2>2. status[i.ticket] = "in_progress"
    BY <2>1, IdentityAssumption DEF ClaimColumns, ReplayServes
  <2>3. lockTicket[Res(i.ticket)] = i.ticket /\ HoldMatchesTicket(Res(i.ticket))
    BY <2>1, <2>2, IdentityAssumption DEF LockInv, LockMatchesTicket
  <2>4. QED
    BY <2>2, <2>3 DEF HoldMatchesTicket, ReplayServes
<1>2. Spec => []ClaimColumns
  BY ColumnsInit, ColumnsStep, Typing, PTL DEF Spec
<1>3. QED
  BY <1>1, <1>2, Typing, LocksInOrder, PTL

-----------------------------------------------------------------------------
(* What a step does to the tickets and the approvals.                      *)

(* A ticket moves without its approval: never into or out of the statuses  *)
(* an approval is about, and into work only past its blockers.             *)
PlainMove(t) ==
  \/ status'[t] = status[t]
  \/ /\ <<status[t], status'[t]>> \in Legal
     /\ status[t] \notin {"awaiting_approval", "approved"}
     /\ status'[t] \notin {"awaiting_approval", "approved", "executing"}
     /\ status'[t] = "in_progress" => DepsReady(t)
  \/ status'[t] = "todo" /\ t \in forced'

Work ==
  /\ UNCHANGED <<pin, proposerId, approvalId, appr>>
  /\ forced \subseteq forced'
  /\ \A t \in Ticket : PlainMove(t)

OnlyMoves(t, from, to) ==
  /\ status[t] = from /\ status'[t] = to
  /\ \A u \in Ticket \ {t} : status'[u] = status[u]
  /\ UNCHANGED forced

(* A plan is proposed; a terminal move withdraws the live approval.        *)
Proposed(t) ==
  /\ OnlyMoves(t, "in_progress", "awaiting_approval")
  /\ UNCHANGED <<approvalId, appr>>
  /\ \A u \in Ticket \ {t} : pin'[u] = pin[u] /\ proposerId'[u] = proposerId[u]

Withdrawn(t, to) ==
  /\ <<status[t], to>> \in OperatorMay /\ to \in Terminal
  /\ OnlyMoves(t, status[t], to)
  /\ RevokeGrants(LiveGrant(t))
  /\ UNCHANGED <<pin, proposerId, approvalId>>

Granted == \E g \in grants, a \in Approval : GrantCommit(g, a)
Consumed == \E a \in Approval : Consume(a)

(* All any action does to the tickets and the approvals.                   *)
LEMMA TicketMoves ==
  ASSUME TypeInv, [Next]_vars
  PROVE  \/ Work \/ Granted \/ Consumed
         \/ \E t \in Ticket : Proposed(t)
         \/ \E t \in Ticket, to \in Terminal : Withdrawn(t, to)
<1> USE DEF approvalVars, ticketVars, historyVars
<1> DEFINE Move == \/ Work \/ Granted \/ Consumed
                   \/ \E t \in Ticket : Proposed(t)
                   \/ \E t \in Ticket, to \in Terminal : Withdrawn(t, to)
<1>T. status \in [Ticket -> Status] /\ forced \subseteq Ticket
  BY DEF TypeInv, TypeOK
<1>U. /\ pin \in [Ticket -> Plan \cup {NoPlan}]
      /\ proposerId \in [Ticket -> Agent \cup {NoAgent}]
  BY DEF TypeInv, TypeOK
<1>1. ASSUME NEW a \in Agent, NEW t \in Ticket, AgentCall(a, t) PROVE Move
  <2>1. ASSUME Claim(a, t) PROVE Work
    BY <2>1, <1>T DEF Claim, Claimable, Work, PlainMove, Legal
  <2>2. ASSUME NEW tok, Heartbeat(a, t, tok) PROVE Work
    BY <2>2 DEF Heartbeat, Work, PlainMove
  <2>3. ASSUME NEW tok, Release(a, t, tok) PROVE Work
    BY <2>3, <1>T DEF Release, Work, PlainMove, Legal
  <2>4. ASSUME NEW tok, NEW to, AgentTransition(a, t, tok, to) PROVE Work
    BY <2>4, <1>T DEF AgentTransition, ClaimHolder, Work, PlainMove, Legal
  <2>5. ASSUME NEW tok, NEW p, Propose(a, t, tok, p) PROVE Proposed(t)
    BY <2>5, <1>T, <1>U DEF Propose, ClaimHolder, Proposed, OnlyMoves
  <2>6. QED
    BY <1>1, <2>1, <2>2, <2>3, <2>4, <2>5 DEF AgentCall
<1>2. ASSUME NEW t \in Ticket, OperatorCall(t) PROVE Move
  <2>1. ASSUME NEW to \in Status, OperatorTransition(t, to) PROVE Move
    <3>1. CASE to \in Terminal
      <4>1. RevokeGrants(LiveGrant(t))
        BY <2>1, <3>1 DEF OperatorTransition
      <4>2. Withdrawn(t, to)
        BY <2>1, <3>1, <4>1, <1>T DEF OperatorTransition, Withdrawn, OnlyMoves
      <4>3. QED
        BY <3>1, <4>2
    <3>2. CASE to \notin Terminal
      <4>1. appr' = [a \in Approval |-> appr[a]]
        BY <2>1, <3>2 DEF OperatorTransition, RevokeGrants
      <4>2. UNCHANGED appr
        BY <4>1 DEF TypeInv, TypeOK
      <4>3. to = "todo" /\ status[t] \in {"needs_review", "blocked"}
        BY <2>1, <3>2 DEF OperatorTransition, OperatorMay, Terminal
      <4>4. Work
        BY <2>1, <4>2, <4>3, <1>T DEF OperatorTransition, Work, PlainMove, Legal
      <4>5. QED
        BY <4>4
    <3>3. QED
      BY <3>1, <3>2
  <2>2. ASSUME Revoke(t) PROVE Withdrawn(t, "cancelled")
    BY <2>2, <1>T DEF Revoke, Withdrawn, OnlyMoves, OperatorMay, Terminal
  <2>3. ASSUME ClearOutageHold(t) PROVE Work
    <3>1. \A u \in Ticket \ {t} : status'[u] = status[u]
      BY <2>3, <1>T DEF ClearOutageHold
    <3>2. PlainMove(t)
      BY <2>3, <1>T DEF ClearOutageHold, PlainMove, Legal
    <3>3. QED
      BY <2>3, <3>1, <3>2 DEF ClearOutageHold, Work, PlainMove
  <2>4. ASSUME NEW b, GrantBegin(b, t) PROVE Work
    BY <2>4 DEF GrantBegin, Work, PlainMove
  <2>5. QED
    BY <1>2, <2>1, <2>2, <2>3, <2>4 DEF OperatorCall, Terminal
<1>3. ASSUME GrantStep PROVE Move
  <2>1. ASSUME NEW g, GrantFail(g) PROVE Work
    BY <2>1 DEF GrantFail, Work, PlainMove
  <2>2. QED
    BY <1>3, <2>1 DEF GrantStep, Granted
<1>4. ASSUME GatewayCall PROVE Move
  <2>1. ASSUME NEW t \in Ticket, NEW to, RunOutcome(t, to) PROVE Work
    BY <2>1, <1>T DEF RunOutcome, Work, PlainMove, Legal
  <2>2. ASSUME NEW t \in Ticket, NEW to, SubmitVerification(t, to) PROVE Work
    BY <2>2, <1>T DEF SubmitVerification, Work, PlainMove, Legal
  <2>3. QED
    BY <1>4, <2>1, <2>2 DEF GatewayCall, Consumed
<1>5. ASSUME Sweeps PROVE Work
  <2>1. ASSUME ReaperSweep PROVE Work
    <3>1. \A t \in TicketsOn(WallCapped \cup Expired) : t \in Ticket => status[t] = "in_progress"
      BY DEF TicketsOn, WallCapped, Expired, Sweepable, InProgress
    <3>2. \A t \in Ticket : \/ status'[t] = status[t]
                            \/ /\ status[t] = "in_progress"
                               /\ status'[t] \in {"needs_review", "todo"}
      BY <2>1, <3>1 DEF ReaperSweep, TicketsOn
    <3>3. UNCHANGED <<pin, proposerId, approvalId, appr, forced>>
      BY <2>1 DEF ReaperSweep
    <3>4. QED
      BY <3>2, <3>3 DEF Work, PlainMove, Legal
  <2>2. ASSUME NEW t \in Ticket, HuddleTrip(t) PROVE Work
    BY <2>2, <1>T DEF HuddleTrip, Work, PlainMove, Legal
  <2>3. QED
    BY <1>5, <2>1, <2>2 DEF Sweeps
<1>6. ASSUME TimePasses \/ KillMirror \/ UNCHANGED vars PROVE Work
  BY <1>6 DEF TimePasses, LeaseAges, CapRunsOut, KillMirror, KillPoll, MirrorGoesStale,
              vars, Work, PlainMove
<1>7. QED
  BY <1>1, <1>2, <1>3, <1>4, <1>5, <1>6 DEF Next

-----------------------------------------------------------------------------
(* Approvals and their tickets.                                            *)

(* A ticket points at a row of its own.                                    *)
PointsAtOwn ==
  \A t \in Ticket : approvalId[t] \in Approval =>
    /\ appr[approvalId[t]].status # "none"
    /\ appr[approvalId[t]].ticket = t

(* Whoever granted it was not its proposer, and kept to the floor.         *)
RowsContested ==
  \A a \in Approval : appr[a].status # "none" =>
    /\ appr[a].approver # appr[a].proposer
    /\ appr[a].approver = TierApprover => appr[a].pin \in AutoPlan

PermitInv == PointsAtOwn /\ RowsContested /\ GrantedIffApproved /\ ExecutesWhatWasApproved

(* At the start there is no approval.                                      *)
LEMMA PermitInit == Init => PermitInv
BY IdentityAssumption
   DEF Init, NoRow, PermitInv, PointsAtOwn, RowsContested, GrantedIffApproved,
       ExecutesWhatWasApproved

(* Work neither reaches nor leaves the statuses an approval is about.      *)
LEMMA WorkKeepsPermits ==
  ASSUME TypeInv, PermitInv, Work
  PROVE  PermitInv'
<1>1. /\ UNCHANGED <<pin, proposerId, approvalId, appr>>
      /\ forced \subseteq forced'
      /\ \A t \in Ticket \ forced' :
           /\ status'[t] \in {"approved", "executing"} => status[t] = status'[t]
           /\ status[t] = "approved" => status'[t] = status[t]
  BY DEF Work, PlainMove
<1>2. PointsAtOwn' /\ RowsContested'
  BY <1>1 DEF PermitInv, PointsAtOwn, RowsContested
<1>3. GrantedIffApproved'
  BY <1>1 DEF PermitInv, GrantedIffApproved, LiveGrant, TypeInv, RowsNameHosts
<1>4. ExecutesWhatWasApproved'
  BY <1>1 DEF PermitInv, ExecutesWhatWasApproved
<1>5. QED
  BY <1>2, <1>3, <1>4 DEF PermitInv

(* A plan is proposed while nothing is granted for its ticket.             *)
LEMMA ProposedKeepsPermits ==
  ASSUME TypeInv, PermitInv, NEW t \in Ticket, Proposed(t)
  PROVE  PermitInv'
<1>1. /\ UNCHANGED <<approvalId, appr, forced>>
      /\ status[t] = "in_progress" /\ status'[t] = "awaiting_approval"
      /\ \A u \in Ticket \ {t} : /\ status'[u] = status[u] /\ pin'[u] = pin[u]
                                 /\ proposerId'[u] = proposerId[u]
  BY DEF Proposed, OnlyMoves
<1>2. PointsAtOwn' /\ RowsContested'
  BY <1>1 DEF PermitInv, PointsAtOwn, RowsContested
<1>3. GrantedIffApproved'
  BY <1>1 DEF PermitInv, GrantedIffApproved, LiveGrant, TypeInv, RowsNameHosts
<1>4. ExecutesWhatWasApproved'
  BY <1>1 DEF PermitInv, ExecutesWhatWasApproved
<1>5. QED
  BY <1>2, <1>3, <1>4 DEF PermitInv

(* A grant takes a row nothing points at.                                  *)
LEMMA GrantedKeepsPermits ==
  ASSUME TypeInv, PermitInv, NEW g \in grants, NEW a \in Approval, GrantCommit(g, a)
  PROVE  PermitInv'
<1> DEFINE t == g.ticket
           row == [status |-> "granted", ticket |-> t, pin |-> g.pin,
                   proposer |-> proposerId[t], approver |-> g.by]
<1>1. t \in Ticket
  BY DEF TypeInv, TypeOK, GrantCall
<1>2. /\ UNCHANGED <<pin, proposerId, forced>>
      /\ status[t] = "awaiting_approval" /\ status'[t] = "approved"
      /\ \A u \in Ticket \ {t} : status'[u] = status[u]
      /\ approvalId'[t] = a /\ \A u \in Ticket \ {t} : approvalId'[u] = approvalId[u]
      /\ appr[a].status = "none" /\ appr'[a] = row
      /\ \A b \in Approval \ {a} : appr'[b] = appr[b]
  BY <1>1 DEF GrantCommit, TypeInv, TypeOK, historyVars
<1>3. /\ g.by # proposerId[t] /\ g.pin = pin[t]
      /\ g.by = TierApprover => g.pin \in AutoPlan
  BY DEF GrantCommit, FourEyes, AutoFloor, PinUnmoved
<1>4. /\ row.status = "granted" /\ row.ticket = t /\ row.pin = g.pin
      /\ row.proposer = proposerId[t] /\ row.approver = g.by
  OBVIOUS
<1> HIDE DEF t, row
<1>5. \A u \in Ticket \ {t} : approvalId[u] # a \/ approvalId[u] \notin Approval
  BY <1>2 DEF PermitInv, PointsAtOwn
<1>6. PointsAtOwn' /\ RowsContested'
  BY <1>1, <1>2, <1>3, <1>4, <1>5 DEF PermitInv, PointsAtOwn, RowsContested
<1>7. GrantedIffApproved'
  <2>1. ASSUME NEW u \in Ticket \ forced', status'[u] = "approved"
        PROVE  LiveGrant(u)' # {}
    BY <1>1, <1>2, <1>4, <1>5, <2>1 DEF PermitInv, GrantedIffApproved, LiveGrant
  <2>2. ASSUME NEW b \in Approval, appr'[b].status = "granted", appr'[b].ticket \notin forced'
        PROVE  LET u == appr'[b].ticket
               IN /\ status'[u] = "approved" /\ approvalId'[u] = b
                  /\ appr'[b].pin = pin'[u] /\ appr'[b].proposer = proposerId'[u]
    <3>1. CASE b = a
      BY <3>1, <1>1, <1>2, <1>3, <1>4
    <3>2. CASE b # a
      BY <3>2, <2>2, <1>1, <1>2 DEF PermitInv, GrantedIffApproved, TypeInv, RowsNameHosts
    <3>3. QED
      BY <3>1, <3>2
  <2>3. QED
    BY <2>1, <2>2 DEF GrantedIffApproved
<1>8. ExecutesWhatWasApproved'
  BY <1>1, <1>2, <1>5 DEF PermitInv, ExecutesWhatWasApproved
<1>9. QED
  BY <1>6, <1>7, <1>8 DEF PermitInv

(* What a consume spends is the approval its ticket points at, though the  *)
(* code does not look.                                                     *)
LEMMA ConsumedKeepsPermits ==
  ASSUME TypeInv, PermitInv, NEW a \in Approval, Consume(a)
  PROVE  PermitInv'
<1> DEFINE t == appr[a].ticket
<1>1. t \in Ticket
  BY DEF Consume, TypeInv, RowsNameHosts
<1>2. /\ UNCHANGED <<pin, proposerId, approvalId, forced>>
      /\ status[t] = "approved" /\ status'[t] = "executing"
      /\ \A u \in Ticket \ {t} : status'[u] = status[u]
      /\ \A b \in Approval \ {a} : appr'[b] = appr[b]
  BY <1>1 DEF Consume, TypeInv, TypeOK
<1>3. /\ appr[a].status = "granted" /\ appr'[a].status = "consumed"
      /\ appr'[a].ticket = t /\ appr'[a].pin = appr[a].pin
      /\ appr'[a].proposer = appr[a].proposer /\ appr'[a].approver = appr[a].approver
  BY DEF Consume, TypeInv, TypeOK, ApprovalRow
<1>4. \A u \in Ticket \ {t} : approvalId[u] # a
  BY <1>1 DEF PermitInv, PointsAtOwn
<1> HIDE DEF t
<1>5. t \notin forced => /\ approvalId[t] = a
                         /\ appr[a].pin = pin[t] /\ appr[a].proposer = proposerId[t]
  BY <1>3 DEF PermitInv, GrantedIffApproved, t
<1>6. PointsAtOwn' /\ RowsContested'
  <2>1. PointsAtOwn'
    BY <1>1, <1>2, <1>3, <1>4 DEF PermitInv, PointsAtOwn, t
  <2>2. RowsContested'
    BY <1>2, <1>3 DEF PermitInv, RowsContested
  <2>3. QED
    BY <2>1, <2>2
<1>7. GrantedIffApproved'
  <2>1. ASSUME NEW u \in Ticket \ forced', status'[u] = "approved"
        PROVE  LiveGrant(u)' # {}
    BY <1>1, <1>2, <1>4, <2>1 DEF PermitInv, GrantedIffApproved, LiveGrant
  <2>2. ASSUME NEW b \in Approval, appr'[b].status = "granted", appr'[b].ticket \notin forced'
        PROVE  LET u == appr'[b].ticket
               IN /\ status'[u] = "approved" /\ approvalId'[u] = b
                  /\ appr'[b].pin = pin'[u] /\ appr'[b].proposer = proposerId'[u]
    <3>1. b # a /\ appr'[b] = appr[b] /\ appr[b].ticket \in Ticket \ forced
      BY <2>2, <1>2, <1>3 DEF TypeInv, RowsNameHosts
    <3>2. QED
      BY <2>2, <3>1, <1>1, <1>2, <1>5 DEF PermitInv, GrantedIffApproved
  <2>3. QED
    BY <2>1, <2>2 DEF GrantedIffApproved
<1>8. ExecutesWhatWasApproved'
  <2>1. ASSUME NEW u \in Ticket \ forced', status'[u] = "executing", u # t
        PROVE  /\ approvalId'[u] \in Approval
               /\ LET b == appr'[approvalId'[u]]
                  IN /\ b.status = "consumed" /\ b.ticket = u
                     /\ b.pin = pin'[u] /\ b.proposer = proposerId'[u]
                     /\ b.approver # b.proposer
                     /\ b.approver = TierApprover => b.pin \in AutoPlan
    BY <2>1, <1>2, <1>4 DEF PermitInv, ExecutesWhatWasApproved
  <2>2. QED
    BY <2>1, <1>1, <1>2, <1>3, <1>5 DEF PermitInv, RowsContested, ExecutesWhatWasApproved
<1>9. QED
  BY <1>6, <1>7, <1>8 DEF PermitInv


(* A withdrawn grant was the one its ticket carries, and no other's.       *)
LEMMA WithdrawnKeepsPermits ==
  ASSUME TypeInv, PermitInv, NEW t \in Ticket, NEW to \in Terminal, Withdrawn(t, to)
  PROVE  PermitInv'
<1>1. /\ UNCHANGED <<pin, proposerId, approvalId, forced>>
      /\ status'[t] \in Terminal
      /\ \A u \in Ticket \ {t} : status'[u] = status[u]
  BY DEF Withdrawn, OnlyMoves
<1>2. ASSUME NEW a \in Approval
      PROVE  /\ a \notin LiveGrant(t) => appr'[a] = appr[a]
             /\ a \in LiveGrant(t) => appr'[a].status = "revoked"
             /\ appr'[a].ticket = appr[a].ticket /\ appr'[a].pin = appr[a].pin
             /\ appr'[a].proposer = appr[a].proposer
             /\ appr'[a].approver = appr[a].approver
             /\ appr'[a].status = "none" <=> appr[a].status = "none"
  <2>1. appr[a] \in ApprovalRow
    BY DEF TypeInv, TypeOK
  <2>2. appr'[a] = IF a \in LiveGrant(t) THEN [appr[a] EXCEPT !.status = "revoked"]
                                         ELSE appr[a]
    BY DEF Withdrawn, RevokeGrants
  <2>3. a \in LiveGrant(t) => appr[a].status = "granted"
    BY DEF LiveGrant
  <2>4. QED
    BY <2>1, <2>2, <2>3 DEF ApprovalRow
<1>3. \A u \in Ticket \ {t} : approvalId[u] \notin LiveGrant(t)
  BY DEF LiveGrant, PermitInv, PointsAtOwn
<1>4. PointsAtOwn' /\ RowsContested'
  BY <1>1, <1>2 DEF PermitInv, PointsAtOwn, RowsContested
<1>5. GrantedIffApproved'
  <2>1. ASSUME NEW u \in Ticket \ forced', status'[u] = "approved"
        PROVE  LiveGrant(u)' # {}
    <3>1. u # t
      BY <2>1, <1>1 DEF Terminal
    <3>2. QED
      BY <3>1, <2>1, <1>1, <1>2, <1>3 DEF PermitInv, GrantedIffApproved, LiveGrant
  <2>2. ASSUME NEW a \in Approval, appr'[a].status = "granted", appr'[a].ticket \notin forced'
        PROVE  LET u == appr'[a].ticket
               IN /\ status'[u] = "approved" /\ approvalId'[u] = a
                  /\ appr'[a].pin = pin'[u] /\ appr'[a].proposer = proposerId'[u]
    <3>1. a \notin LiveGrant(t) /\ appr'[a] = appr[a]
      BY <2>2, <1>2
    <3>2. appr[a].ticket \in Ticket \ forced
      BY <2>2, <3>1, <1>1 DEF TypeInv, RowsNameHosts
    <3>3. appr[a].ticket # t
      BY <2>2, <3>1, <3>2 DEF PermitInv, GrantedIffApproved, LiveGrant
    <3>4. QED
      BY <2>2, <3>1, <3>2, <3>3, <1>1 DEF PermitInv, GrantedIffApproved
  <2>3. QED
    BY <2>1, <2>2 DEF GrantedIffApproved
<1>6. ExecutesWhatWasApproved'
  <2>1. ASSUME NEW u \in Ticket \ forced', status'[u] = "executing"
        PROVE  u # t /\ approvalId[u] \in Approval
               /\ appr'[approvalId[u]] = appr[approvalId[u]]
    <3>1. u # t
      BY <2>1, <1>1 DEF Terminal
    <3>2. approvalId[u] \in Approval
      BY <3>1, <2>1, <1>1 DEF PermitInv, ExecutesWhatWasApproved
    <3>3. QED
      BY <3>1, <3>2, <1>2, <1>3
  <2>2. QED
    BY <2>1, <1>1 DEF PermitInv, ExecutesWhatWasApproved
<1>7. QED
  BY <1>4, <1>5, <1>6 DEF PermitInv

(* Every step keeps the approvals in order.                                *)
LEMMA PermitStep == TypeInv /\ PermitInv /\ [Next]_vars => PermitInv'
BY TicketMoves, WorkKeepsPermits, GrantedKeepsPermits, ConsumedKeepsPermits,
   ProposedKeepsPermits, WithdrawnKeepsPermits DEF Granted, Consumed

(* The inductive invariant of the approvals.                               *)
THEOREM PermitsInOrder == Spec => []PermitInv
<1>1. QED
  BY PermitInit, PermitStep, Typing, PTL DEF Spec

(* An approval is granted exactly while its ticket is approved and points  *)
(* at it, however grants, consumes, operator moves and sweeps interleave.  *)
THEOREM GrantsTrackTickets == Spec => []GrantedIffApproved
<1>1. PermitInv => GrantedIffApproved
  BY DEF PermitInv
<1>2. QED
  BY <1>1, PermitsInOrder, PTL

(* What executes is what was approved, by somebody else than its proposer, *)
(* and by the auto-tier lane only on the floor.                            *)
THEOREM ExecutionIsApproved == Spec => []ExecutesWhatWasApproved
<1>1. PermitInv => ExecutesWhatWasApproved
  BY DEF PermitInv
<1>2. QED
  BY <1>1, PermitsInOrder, PTL

-----------------------------------------------------------------------------
(* Approvals are final.                                                    *)

(* A row changes its status, from granted only, and nothing else once it   *)
(* is granted.                                                             *)
RowsFinal ==
  \A a \in Approval :
    /\ appr[a].status \in {"consumed", "revoked"} => appr'[a] = appr[a]
    /\ appr[a].status = "granted" =>
         appr'[a] = [appr[a] EXCEPT !.status = appr'[a].status]

(* Every step leaves spent and revoked rows, and what a row approves.      *)
LEMMA FinalStep == TypeInv /\ [Next]_vars => RowsFinal
<1> SUFFICES ASSUME TypeInv, [Next]_vars PROVE RowsFinal
  OBVIOUS
<1>T. \A a \in Approval : appr[a] \in ApprovalRow
  BY DEF TypeInv, TypeOK
<1>1. \A a \in Approval : appr[a] = [appr[a] EXCEPT !.status = appr[a].status]
  BY <1>T DEF ApprovalRow
<1>2. CASE UNCHANGED appr
  BY <1>1, <1>2 DEF RowsFinal
<1>3. CASE Granted
  BY <1>1, <1>3 DEF Granted, GrantCommit, RowsFinal, TypeInv, TypeOK
<1>4. CASE Consumed
  <2>1. PICK a \in Approval : Consume(a)
    BY <1>4 DEF Consumed
  <2>2. appr[a].status = "granted" /\ appr' = [appr EXCEPT ![a].status = "consumed"]
    BY <2>1 DEF Consume
  <2>3. appr'[a] = [appr[a] EXCEPT !.status = "consumed"]
    BY <2>2 DEF TypeInv, TypeOK
  <2>4. appr'[a] = [appr[a] EXCEPT !.status = appr'[a].status]
    BY <2>3, <1>T DEF ApprovalRow
  <2>5. \A b \in Approval \ {a} : appr'[b] = appr[b]
    BY <2>2 DEF TypeInv, TypeOK
  <2>6. QED
    BY <1>1, <2>2, <2>4, <2>5 DEF RowsFinal
<1>5. ASSUME NEW t \in Ticket, NEW to, Withdrawn(t, to) PROVE RowsFinal
  <2>1. ASSUME NEW a \in Approval
        PROVE  /\ appr[a].status # "granted" => appr'[a] = appr[a]
               /\ appr'[a] = [appr[a] EXCEPT !.status = appr'[a].status]
    <3>1. CASE a \in LiveGrant(t)
      <4>1. appr'[a] = [appr[a] EXCEPT !.status = "revoked"] /\ appr[a].status = "granted"
        BY <1>5, <3>1 DEF Withdrawn, RevokeGrants, LiveGrant
      <4>2. QED
        BY <4>1, <1>T DEF ApprovalRow
    <3>2. CASE a \notin LiveGrant(t)
      BY <1>1, <1>5, <3>2 DEF Withdrawn, RevokeGrants
    <3>3. QED
      BY <3>1, <3>2
  <2>2. QED
    BY <2>1 DEF RowsFinal
<1>6. QED
  BY <1>2, <1>3, <1>4, <1>5, TicketMoves DEF Work, Proposed

(* A spent or revoked approval stays as it is, and no row ever changes     *)
(* what it approves.                                                       *)
THEOREM ApprovalsNeverReturn == Spec => ApprovalsAreFinal
<1>1. TypeInv /\ [Next]_vars => [RowsFinal]_vars
  BY FinalStep
<1>2. QED
  BY <1>1, Typing, PTL DEF Spec, ApprovalsAreFinal, RowsFinal

(* A row that names a ticket names it for ever.                            *)
LEMMA RowsKeepTicket ==
  ASSUME TypeInv, [Next]_vars, NEW a \in Approval, appr[a].status # "none"
  PROVE  appr'[a].status # "none" /\ appr'[a].ticket = appr[a].ticket
<1>T. appr \in [Approval -> ApprovalRow]
  BY DEF TypeInv, TypeOK
<1>1. CASE UNCHANGED appr
  BY <1>1
<1>2. CASE Granted
  BY <1>2, <1>T DEF Granted, GrantCommit
<1>3. CASE Consumed
  BY <1>3, <1>T DEF Consumed, Consume, ApprovalRow
<1>4. ASSUME NEW t \in Ticket, NEW to, Withdrawn(t, to)
      PROVE  appr'[a].status # "none" /\ appr'[a].ticket = appr[a].ticket
  <2>1. appr'[a] = appr[a] \/ appr'[a] = [appr[a] EXCEPT !.status = "revoked"]
    BY <1>4 DEF Withdrawn, RevokeGrants
  <2>2. QED
    BY <1>T, <2>1 DEF ApprovalRow
<1>5. QED
  BY <1>1, <1>2, <1>3, <1>4, TicketMoves DEF Work, Proposed

-----------------------------------------------------------------------------
(* Blockers.                                                               *)

(* Nothing leaves done or cancelled but by a forced clear, and work starts *)
(* only past its blockers: the invariant is inductive as it stands.        *)
LEMMA DepsStep == TypeInv /\ StartedAfterDeps /\ [Next]_vars => StartedAfterDeps'
<1> SUFFICES ASSUME TypeInv, StartedAfterDeps, [Next]_vars,
                    NEW t \in Ticket, status'[t] \notin {"todo", "cancelled"},
                    DepsOf[t] \cap forced' = {}
             PROVE  DepsReady(t)'
  BY DEF StartedAfterDeps
<1>D. DepsOf[t] \subseteq Ticket
  BY DepsAssumption
<1>F. forced \subseteq forced'
  BY TicketMoves DEF Work, Granted, GrantCommit, Consumed, Consume, Proposed, Withdrawn,
                     OnlyMoves, historyVars
<1>1. \A d \in DepsOf[t] : status[d] \in {"done", "cancelled"} => status'[d] = status[d]
  <2>1. CASE Work
    BY <2>1, <1>D DEF Work, PlainMove, Legal
  <2>2. CASE Granted
    BY <2>2, <1>D DEF Granted, GrantCommit, TypeInv, TypeOK
  <2>3. CASE Consumed
    BY <2>3, <1>D DEF Consumed, Consume, TypeInv, TypeOK
  <2>4. ASSUME NEW u \in Ticket, Proposed(u)
        PROVE  \A d \in Ticket : status[d] \in {"done", "cancelled"} => status'[d] = status[d]
    BY <2>4 DEF Proposed, OnlyMoves
  <2>5. ASSUME NEW u \in Ticket, NEW to, Withdrawn(u, to)
        PROVE  \A d \in Ticket : status[d] \in {"done", "cancelled"} => status'[d] = status[d]
    BY <2>5 DEF Withdrawn, OnlyMoves, OperatorMay
  <2>6. QED
    BY <1>D, <2>1, <2>2, <2>3, <2>4, <2>5, TicketMoves
<1>2. status[t] \in {"todo", "cancelled"} => status'[t] = "in_progress" /\ DepsReady(t)
  <2> SUFFICES ASSUME status[t] \in {"todo", "cancelled"}
               PROVE  status'[t] = "in_progress" /\ DepsReady(t)
    OBVIOUS
  <2>1. CASE Work
    BY <2>1 DEF Work, PlainMove, Legal
  <2>2. CASE Granted
    BY <2>2 DEF Granted, GrantCommit, TypeInv, TypeOK
  <2>3. CASE Consumed
    BY <2>3 DEF Consumed, Consume, TypeInv, TypeOK
  <2>4. ASSUME NEW u \in Ticket, Proposed(u) PROVE FALSE
    BY <2>4 DEF Proposed, OnlyMoves
  <2>5. ASSUME NEW u \in Ticket, NEW to, Withdrawn(u, to) PROVE FALSE
    BY <2>5 DEF Withdrawn, OnlyMoves, OperatorMay
  <2>6. QED
    BY <2>1, <2>2, <2>3, <2>4, <2>5, TicketMoves
<1>3. DepsReady(t)
  BY <1>2, <1>F DEF StartedAfterDeps
<1>4. QED
  BY <1>1, <1>3 DEF DepsReady

(* Work starts after its blockers, through requeues, rework and sweeps,    *)
(* for any graph of dependencies.                                          *)
THEOREM WorkWaitsForDeps == Spec => []StartedAfterDeps
<1>1. Init => StartedAfterDeps
  BY DEF Init, StartedAfterDeps
<1>2. QED
  BY <1>1, DepsStep, Typing, PTL DEF Spec

-----------------------------------------------------------------------------
(* The WIP caps.                                                           *)

(* Who is in progress under whom.                                          *)
OwnersKept ==
  \A t \in Ticket : status'[t] = "in_progress" =>
    status[t] = "in_progress" /\ claimedBy'[t] = claimedBy[t]

(* Only a claim puts a ticket in progress or under another agent.          *)
LEMMA OwnersMove ==
  ASSUME TypeInv, [Next]_vars
  PROVE  OwnersKept \/ \E a \in Agent, t \in Ticket : Claim(a, t)
<1> USE DEF ticketVars, historyVars, OwnersKept
<1>T. status \in [Ticket -> Status] /\ claimedBy \in [Ticket -> Agent \cup {NoAgent}]
  BY DEF TypeInv, TypeOK
<1>1. ASSUME NEW a \in Agent, NEW t \in Ticket, AgentCall(a, t), ~Claim(a, t)
      PROVE  OwnersKept
  <2>1. ASSUME NEW tok, Heartbeat(a, t, tok) PROVE OwnersKept
    BY <2>1 DEF Heartbeat
  <2>2. ASSUME NEW tok, Release(a, t, tok) PROVE OwnersKept
    BY <2>2, <1>T DEF Release, Disown
  <2>3. ASSUME NEW tok, NEW to, AgentTransition(a, t, tok, to) PROVE OwnersKept
    BY <2>3, <1>T DEF AgentTransition
  <2>4. ASSUME NEW tok, NEW p, Propose(a, t, tok, p) PROVE OwnersKept
    BY <2>4, <1>T DEF Propose, Disown
  <2>5. QED
    BY <1>1, <2>1, <2>2, <2>3, <2>4 DEF AgentCall
<1>2. ASSUME NEW t \in Ticket, OperatorCall(t) PROVE OwnersKept
  <2>1. ASSUME NEW to, OperatorTransition(t, to) PROVE OwnersKept
    BY <2>1, <1>T DEF OperatorTransition, OperatorMay
  <2>2. ASSUME Revoke(t) PROVE OwnersKept
    BY <2>2, <1>T DEF Revoke
  <2>3. ASSUME ClearOutageHold(t) PROVE OwnersKept
    BY <2>3, <1>T DEF ClearOutageHold, Disown
  <2>4. ASSUME NEW b, GrantBegin(b, t) PROVE OwnersKept
    BY <2>4 DEF GrantBegin
  <2>5. QED
    BY <1>2, <2>1, <2>2, <2>3, <2>4 DEF OperatorCall
<1>3. ASSUME GrantStep \/ GatewayCall PROVE OwnersKept
  <2>1. ASSUME NEW g, NEW a, GrantCommit(g, a) PROVE OwnersKept
    BY <2>1, <1>T DEF GrantCommit
  <2>2. ASSUME NEW g, GrantFail(g) PROVE OwnersKept
    BY <2>2 DEF GrantFail
  <2>3. ASSUME NEW a, Consume(a) PROVE OwnersKept
    BY <2>3, <1>T DEF Consume
  <2>4. ASSUME NEW t, NEW to, RunOutcome(t, to) PROVE OwnersKept
    BY <2>4, <1>T DEF RunOutcome
  <2>5. ASSUME NEW t, NEW to, SubmitVerification(t, to) PROVE OwnersKept
    BY <2>5, <1>T DEF SubmitVerification
  <2>6. QED
    BY <1>3, <2>1, <2>2, <2>3, <2>4, <2>5 DEF GrantStep, GatewayCall
<1>4. ASSUME Sweeps PROVE OwnersKept
  <2>1. ASSUME ReaperSweep PROVE OwnersKept
    BY <2>1, <1>T DEF ReaperSweep, Disown
  <2>2. ASSUME NEW t, HuddleTrip(t) PROVE OwnersKept
    BY <2>2, <1>T DEF HuddleTrip, Disown
  <2>3. QED
    BY <1>4, <2>1, <2>2 DEF Sweeps
<1>5. ASSUME TimePasses \/ KillMirror \/ UNCHANGED vars PROVE OwnersKept
  BY <1>5 DEF TimePasses, LeaseAges, CapRunsOut, KillMirror, KillPoll, MirrorGoesStale, vars
<1>6. QED
  BY <1>1, <1>2, <1>3, <1>4, <1>5 DEF Next

OwnedBy(a) == {t \in InProgress : claimedBy[t] = a}

(* The caps as the claim engine counts them; that only finitely many       *)
(* tickets are in progress is what makes them countable.                   *)
CapInv ==
  /\ IsFiniteSet(InProgress) /\ Cardinality(InProgress) <= WipGlobal
  /\ \A a \in Agent : Cardinality(OwnedBy(a)) <= WipAgent

(* At the start nothing is in progress.                                    *)
LEMMA CapInit == Init => CapInv
<1> SUFFICES ASSUME Init PROVE CapInv
  OBVIOUS
<1>1. InProgress = {} /\ \A a \in Agent : OwnedBy(a) = {}
  BY DEF Init, InProgress, OwnedBy
<1>2. QED
  BY <1>1, FS_EmptySet, BoundAssumption DEF CapInv

(* A claim adds one ticket, past a check of both counts in the same        *)
(* transaction; every other step can only take tickets away.               *)
LEMMA CapStep == TypeInv /\ CapInv /\ [Next]_vars => CapInv'
<1> SUFFICES ASSUME TypeInv, CapInv, [Next]_vars PROVE CapInv'
  OBVIOUS
<1>B. WipGlobal \in Nat /\ WipAgent \in Nat
  BY BoundAssumption
<1>F. \A S \in SUBSET InProgress : /\ IsFiniteSet(S)
                                   /\ Cardinality(S) \in Nat
                                   /\ Cardinality(S) <= Cardinality(InProgress)
  BY FS_Subset, FS_CardinalityType DEF CapInv
<1>O. \A a \in Agent : OwnedBy(a) \in SUBSET InProgress
  BY DEF OwnedBy
<1>1. CASE OwnersKept
  <2>1. InProgress' \in SUBSET InProgress
    BY <1>1 DEF OwnersKept, InProgress
  <2>2. \A a \in Agent : OwnedBy(a)' \in SUBSET OwnedBy(a)
    BY <1>1, <2>1 DEF OwnersKept, OwnedBy, InProgress
  <2>3. \A a \in Agent : Cardinality(OwnedBy(a)') <= Cardinality(OwnedBy(a))
    BY <1>F, <1>O, <2>2, FS_Subset
  <2>4. \A a \in Agent : Cardinality(OwnedBy(a)') \in Nat
    BY <1>F, <1>O, <2>2
  <2>5. QED
    BY <1>B, <1>F, <1>O, <2>1, <2>3, <2>4 DEF CapInv
<1>2. ASSUME NEW a \in Agent, NEW t \in Ticket, Claim(a, t) PROVE CapInv'
  <2>1. /\ status[t] = "todo" /\ WipOk(a)
        /\ status' = [status EXCEPT ![t] = "in_progress"]
        /\ claimedBy' = [claimedBy EXCEPT ![t] = a]
    BY <1>2 DEF Claim, Claimable
  <2>2. InProgress' = InProgress \cup {t} /\ t \notin InProgress
    BY <2>1 DEF TypeInv, TypeOK, InProgress
  <2>3. IsFiniteSet(InProgress') /\ Cardinality(InProgress') = Cardinality(InProgress) + 1
    BY <1>F, <2>2, FS_AddElement
  <2>4. OwnedBy(a)' = OwnedBy(a) \cup {t} /\ t \notin OwnedBy(a)
    BY <2>1, <2>2 DEF TypeInv, TypeOK, OwnedBy
  <2>5. Cardinality(OwnedBy(a)') = Cardinality(OwnedBy(a)) + 1
    BY <1>F, <1>O, <2>4, FS_AddElement
  <2>6. \A b \in Agent \ {a} : OwnedBy(b)' = OwnedBy(b)
    BY <2>1, <2>2 DEF TypeInv, TypeOK, OwnedBy
  <2>7. Cardinality(InProgress) < WipGlobal /\ Cardinality(OwnedBy(a)) < WipAgent
    BY <2>1 DEF WipOk, OwnedBy
  <2>8. QED
    BY <1>B, <1>F, <1>O, <2>3, <2>5, <2>6, <2>7 DEF CapInv
<1>3. QED
  BY <1>1, <1>2, OwnersMove

(* The WIP caps hold in every state, for the agents the locks name.        *)
THEOREM CapsHold == Spec => []WipCapRespected
<1>1. TypeInv /\ LockInv /\ CapInv => WipCapRespected
  <2> SUFFICES ASSUME TypeInv, LockInv, CapInv PROVE WipCapRespected
    OBVIOUS
  <2>1. \A t \in InProgress : lockAgent[Res(t)] = claimedBy[t]
    BY ResIsResource, IdentityAssumption
       DEF InProgress, LockInv, LockMatchesTicket, HoldMatchesTicket
  <2>2. \A a \in Agent : {t \in InProgress : lockAgent[Res(t)] = a} = OwnedBy(a)
    BY <2>1 DEF OwnedBy
  <2>3. QED
    BY <2>2 DEF CapInv, WipCapRespected
<1>2. Spec => []CapInv
  BY CapInit, CapStep, Typing, PTL DEF Spec
<1>3. QED
  BY <1>1, <1>2, Typing, LocksInOrder, PTL

-----------------------------------------------------------------------------
(* The tickets live the lifecycle.                                         *)

Permit(t) == IF approvalId[t] = NoApproval THEN "none" ELSE appr[approvalId[t]].status

(* Mapped to the lifecycle, each move is a step of its ticket, and the     *)
(* other tickets and their permits rest.                                   *)
LEMMA LifecycleStep ==
  ASSUME TypeInv, PermitInv, forced' = {}, [Next]_vars
  PROVE  \A t \in Ticket : LC!Step(t) \/ LC!Rest(t)
<1> DEFINE permit == [t \in Ticket |-> Permit(t)]
<1>A. approvalId \in [Ticket -> Approval \cup {NoApproval}] /\ NoApproval \notin Approval
  BY IdentityAssumption DEF TypeInv, TypeOK
<1>F. forced = {}
  BY TicketMoves DEF Work, Granted, GrantCommit, Consumed, Consume, Proposed, Withdrawn,
                     OnlyMoves, historyVars
<1>1. CASE Work
  <2>1. \A t \in Ticket : Permit(t)' = Permit(t)
    BY <1>1 DEF Work, Permit
  <2>2. \A t \in Ticket :
          \/ status'[t] = status[t]
          \/ /\ <<status[t], status'[t]>> \in Legal
             /\ status[t] \notin {"awaiting_approval", "approved"}
             /\ status'[t] \notin {"awaiting_approval", "approved", "executing"}
    BY <1>1 DEF Work, PlainMove
  <2>3. QED
    BY <2>1, <2>2 DEF Legal, Permit, LC!Step, LC!Rest, LC!Plain, LC!Moves
<1>2. ASSUME NEW g \in grants, NEW a \in Approval, GrantCommit(g, a)
      PROVE  \A u \in Ticket : LC!Step(u) \/ LC!Rest(u)
  <2> DEFINE t == g.ticket
  <2>1. t \in Ticket
    BY DEF TypeInv, TypeOK, GrantCall
  <2>2. /\ status[t] = "awaiting_approval" /\ status'[t] = "approved"
        /\ \A u \in Ticket \ {t} : status'[u] = status[u]
        /\ approvalId'[t] = a /\ \A u \in Ticket \ {t} : approvalId'[u] = approvalId[u]
        /\ appr[a].status = "none" /\ appr'[a].status = "granted"
        /\ \A b \in Approval \ {a} : appr'[b] = appr[b]
    BY <1>2, <2>1 DEF GrantCommit, TypeInv, TypeOK
  <2>3. \A u \in Ticket : approvalId[u] # a
    BY <2>2 DEF PermitInv, PointsAtOwn
  <2> HIDE DEF t
  <2>4. \A u \in Ticket \ {t} : Permit(u)' = Permit(u)
    BY <1>A, <2>2, <2>3 DEF Permit
  <2>5. Permit(t) # "granted" /\ Permit(t)' = "granted"
    BY <1>A, <1>F, <2>1, <2>2 DEF Permit, PermitInv, PointsAtOwn, GrantedIffApproved
  <2>6. LC!Approve(t)
    BY <2>1, <2>2, <2>5 DEF Permit, LC!Approve, LC!Moves
  <2>7. QED
    BY <2>2, <2>4, <2>6 DEF Permit, LC!Step, LC!Rest
<1>3. ASSUME NEW a \in Approval, Consume(a)
      PROVE  \A u \in Ticket : LC!Step(u) \/ LC!Rest(u)
  <2>1. PICK t \in Ticket : appr[a].ticket = t
    BY <1>3 DEF Consume, TypeInv, RowsNameHosts
  <2>2. /\ status[t] = "approved" /\ status'[t] = "executing"
        /\ \A u \in Ticket \ {t} : status'[u] = status[u]
        /\ UNCHANGED approvalId
        /\ appr[a].status = "granted" /\ appr'[a].status = "consumed"
        /\ \A b \in Approval \ {a} : appr'[b] = appr[b]
    BY <1>3, <2>1 DEF Consume, TypeInv, TypeOK, ApprovalRow
  <2>3. approvalId[t] = a /\ \A u \in Ticket \ {t} : approvalId[u] # a
    BY <1>F, <2>1, <2>2 DEF PermitInv, PointsAtOwn, GrantedIffApproved
  <2>4. \A u \in Ticket \ {t} : Permit(u)' = Permit(u)
    BY <1>A, <2>2, <2>3 DEF Permit
  <2>5. Permit(t) = "granted" /\ Permit(t)' = "consumed"
    BY <1>A, <2>1, <2>2, <2>3 DEF Permit
  <2>6. LC!Execute(t)
    BY <2>1, <2>2, <2>5 DEF Permit, LC!Execute, LC!Moves
  <2>7. QED
    BY <2>2, <2>4, <2>6 DEF Permit, LC!Step, LC!Rest
<1>4. ASSUME NEW t \in Ticket, Proposed(t)
      PROVE  \A u \in Ticket : LC!Step(u) \/ LC!Rest(u)
  <2>1. \A u \in Ticket : Permit(u)' = Permit(u)
    BY <1>4 DEF Proposed, Permit
  <2>2. QED
    BY <1>4, <2>1 DEF Proposed, OnlyMoves, Permit, LC!Step, LC!Rest, LC!Plain, LC!Moves
<1>5. ASSUME NEW t \in Ticket, NEW to \in Terminal, Withdrawn(t, to)
      PROVE  \A u \in Ticket : LC!Step(u) \/ LC!Rest(u)
  <2>1. /\ <<status[t], to>> \in OperatorMay /\ status'[t] = to
        /\ \A u \in Ticket \ {t} : status'[u] = status[u]
        /\ UNCHANGED approvalId
        /\ appr' = [b \in Approval |-> IF b \in LiveGrant(t)
                                       THEN [appr[b] EXCEPT !.status = "revoked"]
                                       ELSE appr[b]]
    BY <1>5 DEF Withdrawn, OnlyMoves, RevokeGrants
  <2>2. \A u \in Ticket \ {t} : Permit(u)' = Permit(u)
    BY <1>A, <2>1 DEF Permit, LiveGrant, PermitInv, PointsAtOwn
  <2>3. CASE status[t] = "approved"
    <3>1. LiveGrant(t) # {}
      BY <2>3, <1>F DEF PermitInv, GrantedIffApproved
    <3>2. /\ approvalId[t] \in LiveGrant(t) /\ approvalId[t] \in Approval
          /\ appr[approvalId[t]].status = "granted"
      BY <3>1 DEF LiveGrant
    <3>3. appr'[approvalId[t]].status = "revoked"
      <4>1. appr[approvalId[t]] \in ApprovalRow
        BY <3>2 DEF TypeInv, TypeOK
      <4>2. QED
        BY <2>1, <3>2, <4>1 DEF ApprovalRow
    <3>4. Permit(t) = "granted" /\ Permit(t)' = "revoked"
      BY <1>A, <2>1, <3>2, <3>3 DEF Permit
    <3>5. to = "cancelled"
      BY <2>1, <2>3 DEF OperatorMay
    <3>6. LC!Withdraw(t)
      BY <2>1, <2>3, <3>4, <3>5 DEF Permit, LC!Withdraw, LC!Moves
    <3>7. QED
      BY <2>1, <2>2, <3>6 DEF Permit, LC!Step, LC!Rest
  <2>4. CASE status[t] # "approved"
    <3>1. LiveGrant(t) = {}
      BY <2>4, <1>F DEF LiveGrant, PermitInv, PointsAtOwn, GrantedIffApproved
    <3>2. Permit(t)' = Permit(t)
      BY <1>A, <2>1, <3>1 DEF Permit
    <3>3. LC!Plain(t)
      BY <2>1, <2>4, <3>2 DEF OperatorMay, Terminal, Permit, LC!Plain, LC!Moves
    <3>4. QED
      BY <2>1, <2>2, <3>3 DEF Permit, LC!Step, LC!Rest
  <2>5. QED
    BY <2>3, <2>4
<1>6. QED
  BY <1>1, <1>2, <1>3, <1>4, <1>5, TicketMoves DEF Granted, Consumed

(* As long as no outage-hold clear forces a ticket out of a status that    *)
(* has no transition to todo, the Board implements TicketLifecycle: every  *)
(* move is one of core/state-machine.js's, approval mints the permit,      *)
(* execution spends it and cancelling an approved ticket withdraws it.     *)
THEOREM ImplementsLifecycle == Spec /\ [](forced = {}) => LifecycleSpec
<1>1. Init => LC!Init
  BY DEF Init, LC!Init
<1>2. TypeInv /\ PermitInv /\ (forced = {})' /\ [Next]_vars => [LC!Next]_(LC!vars)
  BY LifecycleStep DEF LC!Next
<1>3. QED
  BY <1>1, <1>2, Typing, PermitsInOrder, PTL DEF Spec, LifecycleSpec, LC!Spec
=============================================================================

---------------------------- MODULE BoardGateway ----------------------------
(***************************************************************************)
(* The Gateway's write tool, execute_approved_plan                         *)
(* (src/apps/gateway/backend/app/service/dispatch.py), over the Board.     *)
(*                                                                         *)
(* Calls run in the threads of FastAPI's pool, so two runs interleave at   *)
(* every call to a holder.  A run reads the ticket's facts, consumes the   *)
(* approval, passes the fencing check, takes the host mutex, redeems the   *)
(* credential, dispatches the playbook and reports.  Every check may       *)
(* refuse, every answer may be lost, and a run may die.                    *)
(*                                                                         *)
(* Checks on data (plan hash, catalog, CMDB verdict, health) and the live  *)
(* and kill gates are a choice: Reject is always possible.                 *)
(***************************************************************************)
EXTENDS BoardProperties

CONSTANTS
  Run,       \* run ids; each is used once
  NoRun,
  Op         \* op_ids the executor agents mint, and may send again

ASSUME RunAssumption == NoRun \notin Run

VARIABLES
  run,       \* the runs table
  mutex,     \* the advisory lock of a host: the run whose session holds it
  fence,     \* host_fence: the highest token executed
  answered,  \* op_dedup of the Gateway: op_ids with a stored result
  served,    \* op_ledger of the Board: consumes answered, by op_id
  redeemed,  \* approvals whose release the Vault has redeemed
  ran        \* history: runs that were dispatched

gatewayVars == <<run, mutex, fence, answered, served, redeemed, ran>>
sysVars == <<vars, gatewayVars>>

Preflight == {"preflight", "checked"}
Burned == {"consumed", "fenced", "locked", "redeemed"}
InFlight == Burned \cup {"executing"}
HoldsMutex == {"locked", "redeemed", "executing"}
Phase == Preflight \cup InFlight
           \cup {"unused", "rejected", "failed", "reported", "dead"}

RunRow == [phase : Phase, ticket : Ticket \cup {NoTicket}, op : Op \cup {NoTicket},
           approval : Approval \cup {NoApproval}, token : Nat]
NewRow == [phase |-> "unused", ticket |-> NoTicket, op |-> NoTicket,
           approval |-> NoApproval, token |-> NoToken]
Serving == [op : Op, approval : Approval, token : Nat]

GatewayInit ==
  /\ run = [r \in Run |-> NewRow]
  /\ mutex = [h \in Host |-> NoRun]
  /\ fence = [h \in Host |-> 0]
  /\ answered = {} /\ served = {} /\ redeemed = {} /\ ran = {}

SysInit == Init /\ GatewayInit

HostOfRun(r) == HostOf[run[r].ticket]
Moves(r, p) == run' = [run EXCEPT ![r].phase = p]

-----------------------------------------------------------------------------
(* A call whose op_id has no stored result becomes a run.                  *)
Begin(r, t, o) ==
  /\ run[r].phase = "unused"
  /\ o \notin answered
  /\ run' = [run EXCEPT ![r] = [NewRow EXCEPT !.phase = "preflight",
                                              !.ticket = t, !.op = o]]
  /\ UNCHANGED <<mutex, fence, answered, served, redeemed, ran>> /\ UNCHANGED vars

(* check_ticket_facts, on facts that are stale once they are read.         *)
ReadFacts(r) ==
  LET t == run[r].ticket
  IN /\ run[r].phase = "preflight"
     /\ status[t] = "approved" /\ approvalId[t] # NoApproval /\ HostOf[t] \in Host
     /\ run' = [run EXCEPT ![r].phase = "checked", ![r].approval = approvalId[t]]
     /\ UNCHANGED <<mutex, fence, answered, served, redeemed, ran>> /\ UNCHANGED vars

(* The Board commits the consume; its answer arrives, or is lost and the   *)
(* run counts as never having burned the approval.                         *)
ConsumeApproval(r, answer) ==
  LET a == run[r].approval
      token == lockGen[HostOfRun(r)] + 1
  IN /\ run[r].phase = "checked"
     /\ \A s \in served : s.op # run[r].op
     /\ Consume(a)
     /\ served' = served \cup {[op |-> run[r].op, approval |-> a, token |-> token]}
     /\ run' = [run EXCEPT ![r].phase = IF answer = "lost" THEN "rejected" ELSE "consumed",
                           ![r].token = IF answer = "lost" THEN @ ELSE token]
     /\ UNCHANGED <<mutex, fence, answered, redeemed, ran>>

(* The same op_id was served before: the Board answers what it answered.   *)
ConsumeReplayed(r) ==
  /\ run[r].phase = "checked"
  /\ \E s \in served :
       /\ s.op = run[r].op /\ s.approval = run[r].approval
       /\ run' = [run EXCEPT ![r].phase = "consumed", ![r].token = s.token]
  /\ UNCHANGED <<mutex, fence, answered, served, redeemed, ran>> /\ UNCHANGED vars

CheckFencing(r) ==
  /\ run[r].phase = "consumed"
  /\ run[r].token > fence[HostOfRun(r)]
  /\ Moves(r, "fenced")
  /\ UNCHANGED <<mutex, fence, answered, served, redeemed, ran>> /\ UNCHANGED vars

(* Mutant: the advisory lock is granted to anyone.                         *)
MutexFree_Always(h) == h \in Host
MutexFree(h) == mutex[h] = NoRun

AcquireMutex(r) ==
  /\ run[r].phase = "fenced"
  /\ MutexFree(HostOfRun(r))
  /\ mutex' = [mutex EXCEPT ![HostOfRun(r)] = r]
  /\ Moves(r, "locked")
  /\ UNCHANGED <<fence, answered, served, redeemed, ran>> /\ UNCHANGED vars

ReleaseMutex(r) ==
  mutex' = [h \in Host |-> IF mutex[h] = r THEN NoRun ELSE mutex[h]]

(* Mutant: the Vault's release is not single-use.                          *)
ReleasePending_Always(a) == a \in Approval
ReleasePending(a) == a \notin redeemed

(* The Vault checks the approval with the Board and swaps the release to   *)
(* redeemed; a lost answer reads as a denial.                              *)
Redeem(r, answer) ==
  LET a == run[r].approval
  IN /\ run[r].phase = "locked"
     /\ appr[a].status = "consumed"
     /\ ReleasePending(a)
     /\ redeemed' = redeemed \cup {a}
     /\ IF answer = "lost" THEN Moves(r, "failed") /\ ReleaseMutex(r)
                           ELSE Moves(r, "redeemed") /\ UNCHANGED mutex
     /\ UNCHANGED <<fence, answered, served, ran>> /\ UNCHANGED vars

Dispatch(r) ==
  LET h == HostOfRun(r)
  IN /\ run[r].phase = "redeemed"
     /\ Moves(r, "executing")
     /\ fence' = [fence EXCEPT ![h] = IF run[r].token > @ THEN run[r].token ELSE @]
     /\ ran' = ran \cup {r}
     /\ UNCHANGED <<mutex, answered, served, redeemed>> /\ UNCHANGED vars

(* The playbook and the health check are over.  The report goes to         *)
(* /run-outcome, which the Board does not serve, and its answer is not     *)
(* looked at: nothing changes there.                                       *)
Report(r) ==
  /\ run[r].phase = "executing"
  /\ Moves(r, "reported")
  /\ answered' = answered \cup {run[r].op}
  /\ ReleaseMutex(r)
  /\ UNCHANGED <<fence, served, redeemed, ran>> /\ UNCHANGED vars

(* A HardReject.  Before the consume the run is rejected, after it failed; *)
(* the report of the failure is lost as in Report.                         *)
Reject(r) ==
  /\ run[r].phase \in Preflight \cup Burned
  /\ Moves(r, IF run[r].phase \in Preflight THEN "rejected" ELSE "failed")
  /\ ReleaseMutex(r)
  /\ UNCHANGED <<fence, answered, served, redeemed, ran>> /\ UNCHANGED vars

(* Any other exception, or the end of the process: nothing is reported,    *)
(* the mutex goes with its session and the row stays as it is for ever.    *)
Die(r) ==
  /\ run[r].phase \in Preflight \cup InFlight
  /\ Moves(r, "dead")
  /\ ReleaseMutex(r)
  /\ UNCHANGED <<fence, answered, served, redeemed, ran>> /\ UNCHANGED vars

-----------------------------------------------------------------------------
(* The Board without the Gateway's calls, which are the runs here.         *)
BoardStep ==
  /\ \/ \E a \in Agent, t \in Ticket : AgentCall(a, t)
     \/ \E t \in Ticket : OperatorCall(t)
     \/ GrantStep \/ Sweeps \/ TimePasses \/ KillMirror
  /\ UNCHANGED gatewayVars

RunStep(r) ==
  \/ ReadFacts(r) \/ ConsumeReplayed(r) \/ CheckFencing(r) \/ AcquireMutex(r)
  \/ Dispatch(r) \/ Report(r) \/ Reject(r)
  \/ \E answer \in {"received", "lost"} : ConsumeApproval(r, answer) \/ Redeem(r, answer)

SysNext ==
  \/ BoardStep
  \/ \E r \in Run : RunStep(r) \/ Die(r) \/ \E t \in Ticket, o \in Op : Begin(r, t, o)

SysSpec == SysInit /\ [][SysNext]_sysVars

-----------------------------------------------------------------------------
(* Every row of runs, host_fence and the two op stores has its type.       *)
GatewayTypeOK ==
  /\ run \in [Run -> RunRow]
  /\ mutex \in [Host -> Run \cup {NoRun}]
  /\ fence \in [Host -> Nat]
  /\ answered \subseteq Op /\ served \subseteq Serving
  /\ redeemed \subseteq Approval /\ ran \subseteq Run

(* One approval, one execution: a caller that sends its op_id again while  *)
(* the first call is under way gets the Board's consume answer again, with *)
(* the same token; still no approval is behind two dispatched runs.        *)
OneRunPerApproval ==
  \A r, s \in ran : run[r].approval = run[s].approval => r = s

(* No two runs touch a host at the same time, not even when the Board has  *)
(* given the host away under a run because an outage hold was cleared.     *)
OneRunPerHost ==
  \A r, s \in Run :
    {run[r].phase, run[s].phase} \subseteq HoldsMutex /\ HostOfRun(r) = HostOfRun(s)
      => r = s

(* Whatever sweeps, agents and operators do meanwhile, the Board stands    *)
(* behind a run that has burned its approval: the ticket is executing      *)
(* under that approval and its lock is the Gateway's, under the run's      *)
(* token; tickets forced back by an outage-hold clear are the exception.   *)
RunIsBacked ==
  \A r \in Run : run[r].phase \in InFlight /\ run[r].ticket \notin forced =>
    LET t == run[r].ticket
        h == HostOf[t]
    IN /\ status[t] = "executing" /\ approvalId[t] = run[r].approval
       /\ lockTicket[h] = t /\ lockAgent[h] = Gateway
       /\ lockGen[h] = run[r].token

(* checks/mutex.py: "a reaper-requeued stale holder can never touch a host *)
(* out of order".  The check comes before the mutex: it may be stale.      *)
DispatchesInTokenOrder ==
  [][\A r \in Run : run[r].phase # "executing" /\ run'[r].phase = "executing"
       => run[r].token > fence[HostOfRun(r)]]_sysVars

=============================================================================

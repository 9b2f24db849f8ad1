---------------------------- MODULE BoardRestore ----------------------------
(***************************************************************************)
(* The Board restarted, and restored from a snapshot                       *)
(* (src/apps/board/server/src/service/backup.js, index.js).                *)
(*                                                                         *)
(* The database survives a crash; the grant calls in flight do not.  A     *)
(* restored database is older than the world: agents keep the tokens they  *)
(* were handed in the lost window, and the Gateway has spent approvals the *)
(* database still shows as granted.  When the operator sets                *)
(* restoreReconcile (he does for a restore, and may have left it set for a *)
(* plain restart), reconcileOnBoot runs before the server listens.         *)
(***************************************************************************)
EXTENDS BoardProperties

CONSTANT MaxBoots   \* bound: restarts

ASSUME BootAssumption == MaxBoots \in Nat

VARIABLES
  snap,     \* the snapshot file on disk, a database
  boots,
  spent,    \* history: the rows of the approvals table ever consumed
  dropped   \* history: resources whose host_locks row a restore lost

restoreVars == <<snap, boots, spent, dropped>>

(* The tables (and the kill row) a snapshot copies.                        *)
Database ==
  [status |-> status, held |-> held, claimedBy |-> claimedBy,
   fencingToken |-> fencingToken, pin |-> pin, proposerId |-> proposerId,
   approvalId |-> approvalId, wallCap |-> wallCap, lockTicket |-> lockTicket,
   lockAgent |-> lockAgent, holdKind |-> holdKind, lease |-> lease,
   lockGen |-> lockGen, appr |-> appr, killLevel |-> killLevel,
   mirrorStale |-> mirrorStale]

(* The hourly snapshot (one no boot of the bound can restore is left out). *)
Snapshot ==
  /\ boots < MaxBoots
  /\ snap' = Database
  /\ UNCHANGED <<boots, spent, dropped>> /\ UNCHANGED vars

(* Unix milliseconds outrun the counters they seed: the clock is ahead of  *)
(* every token handed out so far, by as little as one.                     *)
Now == 1 + (CHOOSE n \in {i.token : i \in issued} \cup {0} :
              \A i \in issued : i.token <= n)

(* Mutant: generations come back as they were saved.                       *)
Floored_Not(d, r) == d.lockGen[r]

(* MAX(lock_generation, now), on the rows there are.                       *)
Floored(d, r) ==
  IF d.lockGen[r] = 0 \/ d.lockGen[r] > Now THEN d.lockGen[r] ELSE Now

ClaimHolds(d) == {r \in Resource : d.holdKind[r] = "claim" /\ d.lockTicket[r] # NoTicket}

(* Mutant: grants are left to be consumed.                                 *)
GrantsOf_Kept(d) == {a \in Approval : d.appr[a].status = "revoked"}

GrantsOf(d) == {a \in Approval : d.appr[a].status = "granted"}

(* Mutant: the ticket of a freed claim stays in progress.                  *)
Requeued_StatusKept(d) ==
  [t \in Ticket |->
     IF d.status[t] = "approved" /\ \E a \in GrantsOf(d) : d.appr[a].ticket = t
     THEN "awaiting_approval" ELSE d.status[t]]

(* Claimed work goes back to todo, granted work back to the approver.      *)
Requeued(d) ==
  [t \in Ticket |->
     IF d.status[t] = "in_progress" /\ \E r \in ClaimHolds(d) : d.lockTicket[r] = t
     THEN "todo"
     ELSE IF d.status[t] = "approved" /\ \E a \in GrantsOf(d) : d.appr[a].ticket = t
     THEN "awaiting_approval" ELSE d.status[t]]

(* reconcileOnBoot: floor, free the claims, revoke the grants.  Its last   *)
(* step looks for open huddles of in_progress tickets, and by then there   *)
(* is no such ticket; execution holds stay as they are.                    *)
Reconciled(d) ==
  LET freed == ClaimHolds(d)
      claimed == {d.lockTicket[r] : r \in freed}
  IN [d EXCEPT
        !.lockGen = [r \in Resource |->
                       IF r \in freed THEN Floored(d, r) + 1 ELSE Floored(d, r)],
        !.lockTicket = [r \in Resource |-> IF r \in freed THEN NoTicket ELSE @[r]],
        !.lockAgent = [r \in Resource |-> IF r \in freed THEN NoAgent ELSE @[r]],
        !.holdKind = [r \in Resource |-> IF r \in freed THEN "none" ELSE @[r]],
        !.lease = [r \in Resource |-> IF r \in freed THEN "none" ELSE @[r]],
        !.claimedBy = [t \in Ticket |-> IF t \in claimed THEN NoAgent ELSE @[t]],
        !.fencingToken = [t \in Ticket |-> IF t \in claimed THEN NoToken ELSE @[t]],
        !.status = Requeued(d),
        !.appr = [a \in Approval |->
                    IF a \in GrantsOf(d) THEN [@[a] EXCEPT !.status = "revoked"] ELSE @[a]]]

(* The server starts on database d; calls in flight are gone.              *)
StartOn(d) ==
  /\ status' = d.status /\ held' = d.held /\ claimedBy' = d.claimedBy
  /\ fencingToken' = d.fencingToken /\ pin' = d.pin
  /\ proposerId' = d.proposerId /\ approvalId' = d.approvalId
  /\ wallCap' = d.wallCap /\ lockTicket' = d.lockTicket
  /\ lockAgent' = d.lockAgent /\ holdKind' = d.holdKind /\ lease' = d.lease
  /\ lockGen' = d.lockGen /\ appr' = d.appr
  /\ killLevel' = d.killLevel /\ mirrorStale' = d.mirrorStale
  /\ grants' = {}

Boot(d) ==
  /\ boots < MaxBoots
  /\ StartOn(d)
  /\ boots' = boots + 1
  /\ dropped' = dropped \cup {r \in Resource : lockGen[r] # 0 /\ d.lockGen[r] = 0}
  /\ spent' = {a \in spent : d.appr[a].status # "none"}
  /\ snap' = IF boots' < MaxBoots THEN snap ELSE d   \* bound: never read again
  /\ UNCHANGED <<issued, forced>>

Restart == Boot(Database) \/ Boot(Reconciled(Database))
Restore == Boot(Reconciled(snap))

(* A step of the Board; the approvals it consumes are spent for good.      *)
Serve ==
  /\ Next
  /\ spent' = spent \cup {a \in Approval : appr'[a].status = "consumed"
                                           /\ appr[a].status # "consumed"}
  /\ UNCHANGED <<snap, boots, dropped>>

RestoreInit ==
  /\ Init
  /\ snap = Database
  /\ boots = 0 /\ spent = {} /\ dropped = {}

RestoreNext == Serve \/ Snapshot \/ Restart \/ Restore

RestoreSpec == RestoreInit /\ [][RestoreNext]_<<vars, restoreVars>>

-----------------------------------------------------------------------------
(* Whoever still carries a token from before a restart holds the lock, or  *)
(* is turned away: no token of a lost claim matches the restored row, nor  *)
(* what is minted on it later (backup.js: "a time-seeded floor a lost      *)
(* window can never have out-minted").                                     *)
LostTokensAreDead ==
  \A i \in issued : Res(i.ticket) \notin dropped /\ FenceMatches(Res(i.ticket), i.token)
    => lockTicket[Res(i.ticket)] = i.ticket /\ lockAgent[Res(i.ticket)] = i.agent

(* The single-use approval stays single-use across a restore: one spent in *)
(* the lost window comes back granted, and must not be consumed again.     *)
SpentOnce ==
  [][\A a \in spent : appr'[a].status = "consumed"
                        => appr[a].status = "consumed"]_<<vars, restoreVars>>

(* A restored lock and its ticket still tell the same story (only the      *)
(* token of an execution hold may lag behind the floored generation).      *)
RestoredHoldsAgree ==
  /\ \A r \in Resource :
       LET t == lockTicket[r]
       IN t # NoTicket =>
            /\ r = Res(t) /\ fencingToken[t] <= lockGen[r]
            /\ <<holdKind[r], status[t]>> \in
                 {<<"claim", "in_progress">>, <<"execution", "executing">>}
  /\ \A t \in Ticket : status[t] \in {"in_progress", "executing"}
                         => lockTicket[Res(t)] = t
=============================================================================

--------------------------- MODULE TicketLifecycle ---------------------------
(***************************************************************************)
(* What the Board promises about a ticket to those who act on its status   *)
(* (the Gateway, Vault, the operator): the transitions of                  *)
(* core/state-machine.js and no others, tied to a permit.  Approval mints  *)
(* the permit, execution spends it, cancelling an approved ticket          *)
(* withdraws it, and a permit is live exactly while its ticket is          *)
(* approved.                                                               *)
(***************************************************************************)
CONSTANT Ticket

VARIABLES status, permit

vars == <<status, permit>>

Init ==
  /\ status = [t \in Ticket |-> "todo"]
  /\ permit = [t \in Ticket |-> "none"]

Moves(t, from, to) == status[t] = from /\ status'[t] \in to

Approve(t) ==
  /\ Moves(t, "awaiting_approval", {"approved"})
  /\ permit[t] # "granted" /\ permit'[t] = "granted"

Execute(t) ==
  /\ Moves(t, "approved", {"executing"})
  /\ permit[t] = "granted" /\ permit'[t] = "consumed"

Withdraw(t) ==
  /\ Moves(t, "approved", {"cancelled"})
  /\ permit[t] = "granted" /\ permit'[t] = "revoked"

(* Every other move leaves the permit alone.                               *)
Plain(t) ==
  /\ \/ Moves(t, "todo", {"in_progress", "cancelled"})
     \/ Moves(t, "in_progress", {"todo", "awaiting_approval", "needs_review", "blocked"})
     \/ Moves(t, "awaiting_approval", {"cancelled"})
     \/ Moves(t, "executing", {"verifying", "needs_review", "failed"})
     \/ Moves(t, "verifying", {"done", "failed"})
     \/ Moves(t, "needs_review", {"done", "todo"})
     \/ Moves(t, "blocked", {"todo", "cancelled"})
  /\ permit'[t] = permit[t]

Step(t) == Approve(t) \/ Execute(t) \/ Withdraw(t) \/ Plain(t)

Rest(t) == status'[t] = status[t] /\ permit'[t] = permit[t]

(* One transaction may move several tickets (the reaper's sweep).          *)
Next == \A t \in Ticket : Step(t) \/ Rest(t)

Spec == Init /\ [][Next]_vars
=============================================================================

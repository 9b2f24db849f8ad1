--------------------------- MODULE OneShotRelease ---------------------------
(***************************************************************************)
(* What a Vault release promises: the secret behind it leaves the Vault    *)
(* once, to one redemption; the same redemption, repeated because its      *)
(* answer was lost, is served a bounded number of times more; and a        *)
(* release that was revoked or has expired never serves anybody.           *)
(***************************************************************************)
EXTENDS Naturals

CONSTANTS Release, Op, NoOp, Cap   \* Cap: repeats (RE_RELEASE_CAP)

VARIABLES status, taker, handed

vars == <<status, taker, handed>>

Init ==
  /\ status = [r \in Release |-> "none"]
  /\ taker = [r \in Release |-> NoOp]
  /\ handed = [r \in Release |-> 0]

(* At most one release is pending, for the one ticket and handle.          *)
Stage(r) ==
  /\ status[r] = "none"
  /\ \A q \in Release : status[q] # "pending"
  /\ status' = [status EXCEPT ![r] = "pending"]
  /\ UNCHANGED <<taker, handed>>

Redeem(r, o) ==
  /\ status[r] = "pending"
  /\ status' = [status EXCEPT ![r] = "redeemed"]
  /\ taker' = [taker EXCEPT ![r] = o]
  /\ handed' = [handed EXCEPT ![r] = 1]

Repeat(r) ==
  /\ status[r] = "redeemed" /\ handed[r] <= Cap
  /\ handed' = [handed EXCEPT ![r] = @ + 1]
  /\ UNCHANGED <<status, taker>>

(* One call may close several: a sweep, a cold start.                      *)
Close(S, why) ==
  /\ \A r \in S : status[r] = "pending"
  /\ status' = [r \in Release |-> IF r \in S THEN why ELSE status[r]]
  /\ UNCHANGED <<taker, handed>>

Next ==
  \/ \E r \in Release : Stage(r) \/ Repeat(r) \/ \E o \in Op : Redeem(r, o)
  \/ \E S \in SUBSET Release : Close(S, "expired") \/ Close(S, "revoked")

Spec == Init /\ [][Next]_vars
=============================================================================

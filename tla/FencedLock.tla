----------------------------- MODULE FencedLock -----------------------------
(***************************************************************************)
(* What a host lock promises its users (the Board's claim engine, and the  *)
(* Gateway, Notes and Drive that check its tokens): a resource has one     *)
(* holder at a time, every acquisition hands out a token, and the          *)
(* generation moves on at every acquisition and every release, so that a   *)
(* token is never handed out twice and is dead once its holder let go.     *)
(***************************************************************************)
EXTENDS Naturals

CONSTANTS Resource, Owner, NoOwner

VARIABLES owner, gen, tokens

vars == <<owner, gen, tokens>>

Token == [resource : Resource, owner : Owner, token : Nat]

Init ==
  /\ owner = [r \in Resource |-> NoOwner]
  /\ gen = [r \in Resource |-> 0]
  /\ tokens = {}

Acquire(r, o) ==
  /\ owner[r] = NoOwner
  /\ owner' = [owner EXCEPT ![r] = o]
  /\ gen' = [gen EXCEPT ![r] = @ + 1]
  /\ tokens' = tokens \cup {[resource |-> r, owner |-> o, token |-> gen[r] + 1]}

(* One transaction may release several locks: the reaper requeues every    *)
(* expired lease in one sweep.                                             *)
Release(S) ==
  /\ \A r \in S : owner[r] # NoOwner
  /\ owner' = [r \in Resource |-> IF r \in S THEN NoOwner ELSE owner[r]]
  /\ gen' = [r \in Resource |-> IF r \in S THEN gen[r] + 1 ELSE gen[r]]
  /\ UNCHANGED tokens

Next ==
  \/ \E r \in Resource, o \in Owner : Acquire(r, o)
  \/ \E S \in SUBSET Resource : Release(S)

Spec == Init /\ [][Next]_vars
=============================================================================

----------------------------- MODULE MCCeremony ------------------------------
(* Instances of the ceremony for TLC; the .cfg files give the bounds.      *)
EXTENDS Ceremony
=============================================================================

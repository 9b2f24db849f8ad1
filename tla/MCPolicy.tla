------------------------------ MODULE MCPolicy -------------------------------
(* Instances of the policy plane for TLC; the .cfg files give the bounds.  *)
EXTENDS PolicyControl
=============================================================================

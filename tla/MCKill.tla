-------------------------------- MODULE MCKill -------------------------------
(* Instances of the kill chain for TLC; the .cfg files give the bounds.    *)
EXTENDS KillChain
=============================================================================

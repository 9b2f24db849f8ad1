------------------------------- MODULE MCDrive -------------------------------
(* Instances of Drive for TLC; the .cfg files name the bounds of each run. *)
EXTENDS DriveStore
CONSTANTS Crashes, TornAppends, Losses, IoErrors, Purges, OperatorCalls
MCBound == [crash |-> Crashes, torn |-> TornAppends, loss |-> Losses,
            io |-> IoErrors, purge |-> Purges, operator |-> OperatorCalls]
DriveSymmetry ==
  UNION {Permutations(S) : S \in {Upload, Put, Sha, Artifact, Name}}
=============================================================================

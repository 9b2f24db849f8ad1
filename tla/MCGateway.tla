------------------------------ MODULE MCGateway ------------------------------
(* Instances of the Gateway over the Board for TLC.                        *)
EXTENDS BoardGateway, TLC

CONSTANTS t1, h1

OneHost == [t \in Ticket |-> h1]
NoDeps == [t \in Ticket |-> {}]
RunSymmetry == Permutations(Run)
=============================================================================

------------------------------ MODULE MCRestore ------------------------------
(* Instances of the restored Board for TLC.                                *)
EXTENDS BoardRestore

CONSTANTS t1, t2, h1

OneHost == [t \in Ticket |-> h1]
NoDeps == [t \in Ticket |-> {}]
=============================================================================

------------------------------- MODULE MCBoard -------------------------------
(* Instances of the Board for TLC; the .cfg files give the bounds.         *)
EXTENDS BoardProperties, TLC

CONSTANTS t1, t2, t3, h1, a1, a2, p1, p2

(* Two tickets that contend for one host.                                  *)
OneHost == [t \in Ticket |-> h1]
(* t3 has no host and locks a resource of its own.                         *)
ThirdHostless == [t \in Ticket |-> IF t = t3 THEN NoHost ELSE h1]

NoDeps == [t \in Ticket |-> {}]
(* t2 waits for t1.                                                        *)
SecondAfterFirst == [t \in Ticket |-> IF t = t2 THEN {t1} ELSE {}]

AgentSymmetry == Permutations(Agent)
=============================================================================

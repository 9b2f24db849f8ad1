-------------------------------- MODULE MCChat --------------------------------
(* Instances of Chat for TLC; Chat.cfg gives the bounds.                   *)
EXTENDS Chat
(* The worker and the feed share the rows, which neither writes; the feed  *)
(* does not look at the kind.                                              *)
OneAtATime == {[ntfy |-> TRUE, browser |-> FALSE, rows |-> 2, kinds |-> Kind],
               [ntfy |-> FALSE, browser |-> TRUE, rows |-> 3, kinds |-> {"done"}]}
=============================================================================

------------------------------ MODULE NetLogMC ------------------------------
(* An instance of NetLog for TLC: two servers, the stored one with two ports, or none. *)
EXTENDS NetLog

MCTargets == {[server |-> "a", port |-> 514], [server |-> "a", port |-> 515],
              [server |-> "b", port |-> 514], [server |-> "", port |-> 514]}
MCStored == [server |-> "a", port |-> 514]
=============================================================================

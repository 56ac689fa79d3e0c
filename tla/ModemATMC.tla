----------------------------- MODULE ModemATMC -----------------------------
(* Instances of ModemAT for TLC: two callers with buffers of different size. *)
EXTENDS ModemAT, TLC

CONSTANTS t1, t2

MCSize == [t \in Tasks |-> IF t = t1 THEN 1 ELSE 2]
MCBigSize == [t \in Tasks |-> 4]
MCUnitSize == [t \in Tasks |-> 1]
Symmetric == Permutations(Tasks)
=============================================================================

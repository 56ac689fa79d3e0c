---------------------------- MODULE SmsForwardMC ----------------------------
(***************************************************************************)
(* Small instances of SmsForward for TLC.  An SMS is named by a string;    *)
(* MCHeader gives every name its sender, reference and part numbers: l1/l2 *)
(* are the parts of one long SMS, k1 the first part of another one with    *)
(* the same reference, x1/x2 those of a third with a different sender.     *)
(***************************************************************************)
EXTENDS SmsForward

MCHeader ==
  [m \in Msgs |->
    CASE m = "l1" -> [sender |-> "alice", ref |-> 1, total |-> 2, part |-> 1]
      [] m = "l2" -> [sender |-> "alice", ref |-> 1, total |-> 2, part |-> 2]
      [] m = "k1" -> [sender |-> "alice", ref |-> 1, total |-> 2, part |-> 1]
      [] m = "x1" -> [sender |-> "bob",   ref |-> 1, total |-> 2, part |-> 1]
      [] m = "x2" -> [sender |-> "bob",   ref |-> 1, total |-> 2, part |-> 2]
      [] m = "spam" -> [sender |-> "mallory", ref |-> 0, total |-> 1, part |-> 1]
      [] m = "root" -> [sender |-> "admin", ref |-> 0, total |-> 1, part |-> 1]
      [] OTHER -> [sender |-> "alice", ref |-> 0, total |-> 1, part |-> 1]]
=============================================================================

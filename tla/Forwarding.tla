----------------------------- MODULE Forwarding -----------------------------
(***************************************************************************)
(* What the gateway promises about the SMS in the modem's store, without   *)
(* its queues and tasks: an SMS is taken in, its text may be forwarded,    *)
(* and it is discarded only when it has been forwarded or is unwanted.     *)
(***************************************************************************)
CONSTANTS Sms,      \* the SMS that may arrive
          Junk      \* those that may be discarded without being forwarded

VARIABLES taken,      \* SMS that have arrived
          kept,       \* SMS the modem's store holds
          forwarded   \* SMS whose text a channel has accepted

Init == taken = {} /\ kept = {} /\ forwarded = {}

\* A new SMS arrives; a directly delivered one is never stored.
Take(m, stored) ==
  /\ m \notin taken
  /\ taken' = taken \cup {m}
  /\ kept' = IF stored THEN kept \cup {m} ELSE kept
  /\ UNCHANGED forwarded

\* One text, of one SMS or of several parts, none of them forwarded before.
Forward(S) ==
  /\ S \subseteq taken \ forwarded
  /\ forwarded' = forwarded \cup S
  /\ UNCHANGED <<taken, kept>>

Discard(m) ==
  /\ m \in kept \cap (forwarded \cup Junk)
  /\ kept' = kept \ {m}
  /\ UNCHANGED <<taken, forwarded>>

Next == \/ \E m \in Sms, stored \in BOOLEAN : Take(m, stored)
        \/ \E S \in SUBSET Sms : Forward(S)
        \/ \E m \in Sms : Discard(m)

Spec == Init /\ [][Next]_<<taken, kept, forwarded>>
=============================================================================

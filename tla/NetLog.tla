------------------------------- MODULE NetLog -------------------------------
(***************************************************************************)
(* The network events together with the log service they switch on and     *)
(* off: wifi_event_handler calls log_service_set_ready, and the log's      *)
(* worker runs, with the lowest priority, while the event loop waits.      *)
(***************************************************************************)
EXTENDS NetEvents

CONSTANTS LogCap, Targets, Stored, NoServer, Sockets, NoSocket, MaxSaves

ASSUME LogAssumption ==
  /\ LogCap \in Nat \ {0} /\ MaxSaves \in Nat
  /\ Targets \subseteq [server : STRING, port : Nat] /\ Stored \in Targets
  /\ NoServer \in STRING
  /\ Sockets \subseteq Nat /\ NoSocket \notin Sockets

VARIABLES config, lines, wpc, port, name, addr, cache, sock, open, hosts, torn, saves

Log == INSTANCE LogForward

logVars == <<config, lines, wpc, port, name, addr, cache, sock, open, hosts, torn, saves>>
vars == <<netVars, logVars>>

Init == NetInit /\ Log!LogInit

Next == \/ NetNext /\ UNCHANGED logVars
        \/ LoopWaits /\ Log!LogNext /\ UNCHANGED netVars

Spec == Init /\ [][Next]_vars

FairSpec == Spec /\ WF_vars(LoopTask /\ UNCHANGED logVars)

-----------------------------------------------------------------------------
\* Lines of log go to a server that is configured, although the page changes it
\* and the link comes and goes, but for a save between the lookup of an address
\* and its caching; to the right port always (log_service.c:166-222).
LinesReachConfigured == Log!LinesReachConfigured

\* Without the exception it fails, as NetLogSave.cfg shows.
LinesAlwaysReachConfigured == Log!LinesAlwaysReachConfigured

\* No failure of a lookup, a socket or a datagram leaves a socket behind.
NoSocketLeak == Log!NoSocketLeak
=============================================================================

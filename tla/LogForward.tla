----------------------------- MODULE LogForward -----------------------------
(***************************************************************************)
(* The log service: any task queues a line of log while forwarding is on,  *)
(* syslog_worker_task sends it to the configured server over a UDP socket  *)
(* that it caches together with the server's address.  The web page may    *)
(* configure another server between any two steps of the worker.           *)
(* Sources: log_service.c, web_server.c (handleSave).                      *)
(*                                                                         *)
(* handleSave has a higher priority than the worker and does not block     *)
(* while it writes these fields: a save is one step, and it may fall       *)
(* between any two steps of the worker, whose argument server points into  *)
(* the configuration.  An address is named by the server it belongs to.    *)
(***************************************************************************)
EXTENDS Naturals

CONSTANTS
  LogCap,     \* SYSLOG_QUEUE_SIZE
  Targets,    \* [server, port] that may be configured
  Stored,     \* the one the configuration has at boot
  NoServer,   \* the empty string
  Sockets,    \* descriptors, of which socket() takes the first that is free
  NoSocket,   \* -1
  MaxSaves    \* bound on the saves explored

VARIABLES
  logReady,  \* log_service_forwarding_ready, set by wifi_event_handler
  config,    \* g_app_config.syslogEnabled, syslogServer, syslogPort
  lines,     \* how many lines are in syslog_queue
  wpc,       \* the worker: "receive", "resolve", "lookup", "open", "send"
  port,      \* its argument port; the server is a pointer into config
  name,      \* the server it looks up
  addr,      \* cached_syslog_addr: [host, port]
  cache,     \* cached_syslog_ready, cached_syslog_server, cached_syslog_port
  sock,      \* cached_syslog_socket
  open,      \* descriptors that are open
  hosts,     \* servers configured since the worker took its line
  torn,      \* the page saved between the last lookup of an address and its caching
  saves      \* saves so far

workerVars == <<wpc, port, name, addr, cache, sock, open>>
logVars == <<config, lines, workerVars, hosts, torn, saves>>

\* log_service_should_forward.
ShouldForward == logReady /\ config.enabled /\ config.server # NoServer /\ config.port > 0

-----------------------------------------------------------------------------
\* log_service_voutput of any task; a full queue drops the line.
WriteLog ==
  /\ ShouldForward /\ lines < LogCap
  /\ lines' = lines + 1
  /\ UNCHANGED <<logReady, config, workerVars, hosts, torn, saves>>

\* handleSave.
SaveLog(on, t) ==
  /\ saves < MaxSaves /\ saves' = saves + 1
  /\ config' = [enabled |-> on, server |-> t.server, port |-> t.port]
  /\ hosts' = hosts \cup {t.server}
  /\ torn' = (torn \/ wpc \in {"lookup", "open"})
  /\ UNCHANGED <<logReady, lines, workerVars>>

-----------------------------------------------------------------------------
(* syslog_worker_task. *)

\* A line is dropped when forwarding has been switched off since.
ReceiveLine ==
  /\ wpc = "receive" /\ lines > 0 /\ lines' = lines - 1
  /\ hosts' = {config.server}
  /\ IF ShouldForward THEN wpc' = "resolve" /\ port' = config.port
                      ELSE UNCHANGED <<wpc, port>>
  /\ UNCHANGED <<logReady, config, name, addr, cache, sock, open, torn, saves>>

\* Mutant: the cache is looked up by the server alone.
CacheHitByName == cache.ready /\ cache.server = config.server
CacheHit == cache.ready /\ cache.server = config.server /\ cache.port = port

CloseSocket == open' = open \ {sock} /\ sock' = NoSocket

\* log_service_resolve_server, up to the lookup: another server or port closes
\* the socket.
Resolve ==
  /\ wpc = "resolve"
  /\ IF config.server = NoServer
     THEN wpc' = "receive" /\ UNCHANGED <<name, cache, sock, open, torn>>
     ELSE IF CacheHit
     THEN wpc' = "send" /\ UNCHANGED <<name, cache, sock, open, torn>>
     ELSE /\ wpc' = "lookup" /\ name' = config.server
          /\ cache' = [cache EXCEPT !.ready = FALSE] /\ CloseSocket
          /\ torn' = FALSE
  /\ UNCHANGED <<logReady, config, lines, port, addr, hosts, saves>>

\* inet_pton, or getaddrinfo, which asks the network and may fail.
Lookup(ok) ==
  /\ wpc = "lookup"
  /\ IF ok THEN addr' = [host |-> name, port |-> port] /\ wpc' = "open"
           ELSE addr' = addr /\ wpc' = "receive"
  /\ UNCHANGED <<logReady, config, lines, port, name, cache, sock, open, hosts, torn, saves>>

\* socket(), and the copies of the arguments into the cache.
OpenSocket ==
  /\ wpc = "open"
  /\ \E s \in Sockets \ open :
       /\ \A t \in Sockets \ open : s <= t
       /\ sock' = s /\ open' = open \cup {s}
  /\ cache' = [ready |-> TRUE, server |-> config.server, port |-> port]
  /\ wpc' = "send"
  /\ UNCHANGED <<logReady, config, lines, port, name, addr, hosts, torn, saves>>

SocketFails ==
  /\ wpc = "open"
  /\ wpc' = "receive"
  /\ UNCHANGED <<logReady, config, lines, port, name, addr, cache, sock, open, hosts, torn, saves>>

SendOk ==
  /\ wpc = "send" /\ wpc' = "receive"
  /\ UNCHANGED <<logReady, config, lines, port, name, addr, cache, sock, open, hosts, torn, saves>>

\* Mutant: the socket of a failed datagram is forgotten.
SendFailsOpen ==
  /\ wpc = "send" /\ wpc' = "receive"
  /\ sock' = NoSocket /\ open' = open /\ cache' = [cache EXCEPT !.ready = FALSE]
  /\ UNCHANGED <<logReady, config, lines, port, name, addr, hosts, torn, saves>>

SendFails ==
  /\ wpc = "send" /\ wpc' = "receive"
  /\ CloseSocket /\ cache' = [cache EXCEPT !.ready = FALSE]
  /\ UNCHANGED <<logReady, config, lines, port, name, addr, hosts, torn, saves>>

-----------------------------------------------------------------------------
LogInit ==
  /\ config = [enabled |-> TRUE, server |-> Stored.server, port |-> Stored.port]
  /\ lines = 0 /\ wpc = "receive" /\ port = 0 /\ name = NoServer
  /\ addr = [host |-> NoServer, port |-> 0]
  /\ cache = [ready |-> FALSE, server |-> NoServer, port |-> 0]
  /\ sock = NoSocket /\ open = {} /\ hosts = {}
  /\ torn = FALSE /\ saves = 0

LogNext == \/ WriteLog
           \/ \E on \in BOOLEAN, t \in Targets : SaveLog(on, t)
           \/ ReceiveLine \/ Resolve
           \/ \E ok \in BOOLEAN : Lookup(ok)
           \/ OpenSocket \/ SocketFails \/ SendOk \/ SendFails

-----------------------------------------------------------------------------
(* Properties. *)

\* A line goes to the port that was configured when the worker took it from the
\* queue, and to a server that has been configured since, whatever the cache
\* holds; but for the server if the page saved between the lookup of the address
\* in use and its caching, where it was given the new server's name.
LinesReachConfigured ==
  wpc = "send" => addr.port = port /\ (addr.host \in hosts \/ torn)

\* Without that exception, which fails: the address of the old server stands in
\* the cache under the name of the new one, until another save.
LinesAlwaysReachConfigured ==
  wpc = "send" => addr.port = port /\ addr.host \in hosts

\* One socket is open at most, the cached one, on every path out of a failure;
\* a datagram is sent on an open one.
NoSocketLeak ==
  /\ open = IF sock = NoSocket THEN {} ELSE {sock}
  /\ wpc = "send" => sock # NoSocket
=============================================================================

----------------------------- MODULE UrcRegistry -----------------------------
(***************************************************************************)
(* The table of URC handlers of modem_driver.c and the pings that come and *)
(* go in it.  modem_event_task runs the handlers of a URC one after the    *)
(* other under urc_handler_mutex; modem_ping, called from the web server   *)
(* and from the cron action task, registers a handler with a context on    *)
(* its own stack, sends AT+MPING, waits for the replies and unregisters.   *)
(*                                                                         *)
(* An entry is named by its context: the ping it belongs to, or one of the *)
(* handlers installed at boot.  A task that takes the mutex to change the  *)
(* table does not block while it holds it, so the change is one step; no   *)
(* handler blocks, so nobody waits the 100 ms after which xSemaphoreTake   *)
(* of urc_handler_mutex gives up.                                          *)
(***************************************************************************)
EXTENDS Naturals, FiniteSets

CONSTANTS
  Fixed,        \* the handlers installed at boot (cellular status, GNSS)
  Pings,        \* the tasks that call modem_ping
  None,         \* an empty entry; no ping
  MaxHandlers,  \* MAX_URC_HANDLERS
  Needed,       \* replies that set MODEM_PING_DONE_BIT
  MaxCount      \* where a ping stops counting replies (255 in the code)

ASSUME ConstantsAssumption ==
  /\ Fixed \cap Pings = {} /\ None \notin Fixed \cup Pings
  /\ MaxHandlers \in Nat \ {0}
  /\ Needed \in Nat \ {0} /\ MaxCount \in Nat /\ Needed <= MaxCount

VARIABLES
  table,    \* urc_handlers
  urc,      \* the URC being dispatched
  pos,      \* the dispatch's i, or 0 when no URC is being dispatched
  called,   \* handlers the dispatch has called
  ppc,      \* where each call of modem_ping is
  count,    \* replies each ping has counted
  own,      \* those of them that were replies to it
  running,  \* the ping the modem is executing, None once its caller left
  left      \* replies it has still to report

dispatchVars == <<urc, pos, called>>
pingVars     == <<ppc, count, own>>
modemVars    == <<running, left>>
vars == <<table, dispatchVars, pingVars, modemVars>>

Index == 1..MaxHandlers

Handlers == {table[i] : i \in Index} \ {None}

Urcs  == [event : {"net", "ping"}, of : Pings \cup {None}]
NoUrc == [event |-> "none", of |-> None]

\* urc_handler_mutex is held for the whole dispatch.
Locked == pos # 0

-----------------------------------------------------------------------------
(* modem_register_urc_handler and modem_unregister_urc_handler. *)

IsFirst(i, h) == table[i] = h /\ \A j \in 1..(i - 1) : table[j] # h

\* Mutant: the context is not compared.
FoundAnyPing(h) == CHOOSE i \in Index : table[i] \in Pings /\ \A j \in 1..(i - 1) : table[j] \notin Pings

Found(h) == CHOOSE i \in Index : IsFirst(i, h)

\* Mutant: the loop ends an entry early, before the last has moved up.
RemovedShort(k) ==
  [i \in Index |-> IF i < k \/ i = MaxHandlers - 1 THEN table[i]
                   ELSE IF i = MaxHandlers THEN None ELSE table[i + 1]]

\* Everything behind entry k moves up by one.
Removed(k) ==
  [i \in Index |-> IF i < k THEN table[i]
                   ELSE IF i = MaxHandlers THEN None ELSE table[i + 1]]

-----------------------------------------------------------------------------
(* modem_ping. *)

\* Without a free entry the call returns at once.
Register(p) ==
  /\ ppc[p] = "idle" /\ ~Locked
  /\ \E i \in Index : IsFirst(i, None) /\ table' = [table EXCEPT ![i] = p]
  /\ ppc' = [ppc EXCEPT ![p] = "command"]
  /\ count' = [count EXCEPT ![p] = 0]
  /\ own' = [own EXCEPT ![p] = 0]
  /\ UNCHANGED <<dispatchVars, modemVars>>

\* AT+MPING, in one order of its parameters or the other: the modem takes it
\* or not, and the call waits for replies all the same.
Command(p) ==
  /\ ppc[p] = "command"
  /\ ppc' = [ppc EXCEPT ![p] = "wait"]
  /\ \/ left = 0 /\ running' = p /\ left' = Needed
     \/ UNCHANGED modemVars
  /\ UNCHANGED <<table, dispatchVars, count, own>>

Leave(p) ==
  /\ ppc' = [ppc EXCEPT ![p] = "leave"]
  /\ UNCHANGED <<table, dispatchVars, count, own, modemVars>>

WaitDone(p) == ppc[p] = "wait" /\ count[p] >= Needed /\ Leave(p)

\* Mutant: the wait for the replies has no limit.
WaitForever(p) == FALSE /\ Leave(p)

WaitTimeout(p) == ppc[p] = "wait" /\ Leave(p)

\* The call returns and its context is gone; what the modem still reports of
\* its ping is a reply to no call.
Gone(p) ==
  /\ ppc' = [ppc EXCEPT ![p] = "idle"]
  /\ running' = IF running = p THEN None ELSE running
  /\ UNCHANGED <<dispatchVars, count, own, left>>

\* Mutant: the mutex is not waited for.
UnregisterAnyway(p) ==
  /\ ppc[p] = "leave"
  /\ table' = IF p \in Handlers THEN Removed(Found(p)) ELSE table
  /\ Gone(p)

\* modem_ping ignores the result of unregistering.
Unregister(p) ==
  /\ ppc[p] = "leave" /\ ~Locked
  /\ table' = IF p \in Handlers THEN Removed(Found(p)) ELSE table
  /\ Gone(p)

-----------------------------------------------------------------------------
(* process_urc_line and dispatch_urc_to_handlers. *)

Begin(u) ==
  /\ pos = 0 /\ pos' = 1
  /\ urc' = u /\ called' = {}
  /\ UNCHANGED <<table, pingVars>>

NetUrc == Begin([event |-> "net", of |-> None]) /\ UNCHANGED modemVars

\* A +MPING line of the ping the modem is executing.
PingReport ==
  /\ left > 0 /\ left' = left - 1
  /\ Begin([event |-> "ping", of |-> running])
  /\ UNCHANGED running

\* The modem reports nothing for a packet that got no answer.
PingLost ==
  /\ left > 0 /\ left' = left - 1
  /\ UNCHANGED <<table, dispatchVars, pingVars, running>>

\* modem_ping_urc_handler counts every +MPING line, whoever asked for it.
CountReply(h) ==
  IF h \in Pings /\ urc.event = "ping" /\ count[h] < MaxCount
  THEN /\ count' = [count EXCEPT ![h] = @ + 1]
       /\ own' = [own EXCEPT ![h] = IF urc.of = h THEN @ + 1 ELSE @]
  ELSE UNCHANGED <<count, own>>

CallHandler ==
  /\ pos \in Index /\ table[pos] # None
  /\ called' = called \cup {table[pos]}
  /\ CountReply(table[pos])
  /\ pos' = pos + 1
  /\ UNCHANGED <<table, urc, ppc, modemVars>>

\* The first empty entry ends the loop.
AtEnd == pos = MaxHandlers + 1 \/ (pos \in Index /\ table[pos] = None)

End ==
  /\ AtEnd
  /\ pos' = 0 /\ urc' = NoUrc /\ called' = {}
  /\ UNCHANGED <<table, pingVars, modemVars>>

-----------------------------------------------------------------------------

\* modem_driver_init has installed the handlers of Fixed, in some order.
Init ==
  /\ table \in [Index -> Fixed \cup {None}]
  /\ Handlers = Fixed
  /\ \A i, j \in Index : i < j /\ table[j] # None => table[i] \notin {None, table[j]}
  /\ urc = NoUrc /\ pos = 0 /\ called = {}
  /\ ppc = [p \in Pings |-> "idle"]
  /\ count = [p \in Pings |-> 0] /\ own = [p \in Pings |-> 0]
  /\ running = None /\ left = 0

Ping(p) ==
  \/ Register(p) \/ Command(p) \/ WaitDone(p) \/ WaitTimeout(p) \/ Unregister(p)

Next ==
  \/ \E p \in Pings : Ping(p)
  \/ NetUrc \/ PingReport \/ PingLost
  \/ CallHandler \/ End

Spec == Init /\ [][Next]_vars

\* Commands return and waits end; the dispatch goes on; the mutex is given
\* to a task that waits for it, however often it is taken in between.
Fairness ==
  /\ WF_vars(CallHandler) /\ WF_vars(End)
  /\ \A p \in Pings :
       WF_vars(Command(p)) /\ WF_vars(WaitTimeout(p)) /\ SF_vars(Unregister(p))

FairSpec == Spec /\ Fairness

-----------------------------------------------------------------------------

\* The table's entries, the dispatch's position and the counters keep their
\* types; the replies a ping owns are among those it counts.
TypeOK ==
  /\ table \in [Index -> Fixed \cup Pings \cup {None}]
  /\ urc \in Urcs \cup {NoUrc} /\ pos \in 0..(MaxHandlers + 1)
  /\ called \in SUBSET (Fixed \cup Pings)
  /\ ppc \in [Pings -> {"idle", "command", "wait", "leave"}]
  /\ count \in [Pings -> 0..MaxCount]
  /\ own \in [Pings -> Nat] /\ \A p \in Pings : own[p] <= count[p]
  /\ running \in Pings \cup {None} /\ left \in 0..Needed

\* "The array is compact": nothing stands behind an empty entry, which is
\* what lets dispatch_urc_to_handlers stop at the first one.
Compact ==
  \A i, j \in Index : i < j /\ table[j] # None => table[i] # None

\* A ping's context, which lives on the stack of modem_ping, is in the table
\* only while that call lasts, and once.
NoDeadContext ==
  \A i \in Index : table[i] \in Pings =>
    ppc[table[i]] # "idle" /\ \A j \in Index : table[j] = table[i] => j = i

\* While a ping waits for its replies its handler is in the table, and the
\* handlers installed at boot stay there for good.
WaitersListen ==
  /\ Fixed \subseteq Handlers
  /\ \A p \in Pings : ppc[p] # "idle" => p \in Handlers

\* When the dispatch of a URC ends, every handler in the table has been
\* called, although pings come and go in the table.
DispatchComplete == AtEnd => called = Handlers

\* modem_ping returns, whatever is lost and however busy the mutex is.
PingReturns == \A p \in Pings : (ppc[p] = "command") ~> (ppc[p] = "idle")

\* What modem_ping reports as successes are replies to its own packets.
CountsOwnReplies == \A p \in Pings : ppc[p] = "leave" => count[p] = own[p]
=============================================================================

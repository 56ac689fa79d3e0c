------------------------------ MODULE NetEvents ------------------------------
(***************************************************************************)
(* The default event loop and what hangs on it: the modem's URCs posted by *)
(* modem_event_task, the Wi-Fi station's events, the handlers of main.c    *)
(* and call_processor.c, and app_main, which registers them one by one.    *)
(* Sources: main.c, modem_driver.c, call_processor.c.                      *)
(*                                                                         *)
(* The loop's task has a higher priority than those that post URCs: they   *)
(* run while it waits, for an event or for the time server.  The station's *)
(* driver has a higher one still and waits for room in the queue.          *)
(***************************************************************************)
EXTENDS Naturals, Sequences

CONSTANTS
  LoopCap,   \* CONFIG_ESP_SYSTEM_EVENT_QUEUE_SIZE
  Statuses,  \* registration states a +CEREG or +CREG may report
  MaxUrcs,   \* bound on the URCs explored
  MaxDrops   \* bound on the losses of the Wi-Fi link explored

ASSUME NetAssumption ==
  /\ LoopCap \in Nat \ {0} /\ {MaxUrcs, MaxDrops} \subseteq Nat
  /\ Statuses \subseteq {"unknown", "none", "searching", "denied", "home", "roaming"}

VARIABLES
  handlers,   \* events app_main has registered handlers for
  status,     \* g_cellular_status
  posting,    \* the event modem_event_task is posting, or "no"
  loop,       \* the queue of the event loop
  lpc,        \* its task: "idle", or "ntp" in ntp_time_init
  led,        \* LED_BUILTIN is lit
  attached,   \* s_last_attached
  missed,     \* the last change of status never got to its handler
  told,       \* what the last accepted notice said: "none", "up", "down"
  untold,     \* the push queue dropped the notice after it
  netReady,   \* NET_READY_BIT
  logReady,   \* log_service_forwarding_ready
  ntp,        \* s_ntp_started
  notices,    \* notices of boot and of calls given to the push service
  sta,        \* the Wi-Fi station
  urcs, drops \* URCs and losses so far

modemVars == <<status, posting, urcs>>
noticeVars == <<led, attached, missed, told, untold, notices>>
staVars == <<sta, drops>>
netVars == <<handlers, modemVars, loop, lpc, noticeVars, netReady, logReady, ntp, staVars>>

Urcs == {"net", "ring"}
Events == Urcs \cup {"start", "lost", "ip"}

\* The loop's task is blocked.
LoopWaits == lpc = "ntp" \/ (lpc = "idle" /\ loop = <<>>)
Room == Len(loop) < LoopCap

-----------------------------------------------------------------------------
(* app_main. *)

\* call_processor_init, then the handler of MODEM_EVENT_NET_CHANGED, each at
\* its place in app_main; the loop runs since modem_driver_init.
Register(event, before) ==
  /\ LoopWaits /\ handlers = before
  /\ handlers' = handlers \cup {event}
  /\ UNCHANGED <<modemVars, loop, lpc, noticeVars, netReady, logReady, ntp, staVars>>

\* wifi_init_sta: the handler of the Wi-Fi events, then esp_wifi_start.
StartWifi ==
  /\ LoopWaits /\ handlers = {"ring", "net"}
  /\ handlers' = handlers \cup {"wifi"}
  /\ sta' = "starting"
  /\ UNCHANGED <<modemVars, loop, lpc, noticeVars, netReady, logReady, ntp, drops>>

-----------------------------------------------------------------------------
(* modem_event_task. *)

\* A +CEREG or +CREG line: the dispatch calls cellular_status_urc_handler
\* before the event is posted.  A line it cannot read leaves the status.
NetUrc(s) ==
  /\ LoopWaits /\ posting = "no" /\ urcs < MaxUrcs /\ urcs' = urcs + 1
  /\ status' = s /\ posting' = "net"
  /\ UNCHANGED <<handlers, loop, lpc, noticeVars, netReady, logReady, ntp, staVars>>

\* A +CLIP line.  Those of the other kinds take the same way to the handlers of
\* other modules.
RingUrc ==
  /\ LoopWaits /\ posting = "no" /\ urcs < MaxUrcs /\ urcs' = urcs + 1
  /\ posting' = "ring"
  /\ UNCHANGED <<handlers, status, loop, lpc, noticeVars, netReady, logReady, ntp, staVars>>

Post ==
  /\ LoopWaits /\ posting # "no" /\ Room
  /\ loop' = Append(loop, posting) /\ posting' = "no"
  /\ UNCHANGED <<handlers, status, urcs, lpc, noticeVars, netReady, logReady, ntp, staVars>>

\* Ten milliseconds with the queue full drop the event.
PostTimeout ==
  /\ LoopWaits /\ posting # "no" /\ ~Room
  /\ posting' = "no" /\ missed' = (missed \/ posting = "net")
  /\ UNCHANGED <<handlers, status, urcs, loop, lpc, led, attached, told, untold, notices,
                 netReady, logReady, ntp, staVars>>

-----------------------------------------------------------------------------
(* The Wi-Fi station. *)

StaEvent(event) == Room /\ loop' = Append(loop, event)

StaStarts ==
  /\ sta = "starting" /\ sta' = "started" /\ StaEvent("start")
  /\ UNCHANGED <<handlers, modemVars, lpc, noticeVars, netReady, logReady, ntp, drops>>

\* An attempt to connect fails, or the link is lost.
StaLoses ==
  /\ sta \in {"trying", "online"} /\ drops < MaxDrops /\ drops' = drops + 1
  /\ sta' = "down" /\ StaEvent("lost")
  /\ UNCHANGED <<handlers, modemVars, lpc, noticeVars, netReady, logReady, ntp>>

\* The TCP/IP task, too, runs only while the loop's task is blocked.
StaGetsIp ==
  /\ sta = "trying" /\ LoopWaits /\ sta' = "online" /\ StaEvent("ip")
  /\ UNCHANGED <<handlers, modemVars, lpc, noticeVars, netReady, logReady, ntp, drops>>

-----------------------------------------------------------------------------
(* The handlers, called by the loop's task. *)

Taken(event) == lpc = "idle" /\ loop # <<>> /\ Head(loop) = event /\ loop' = Tail(loop)

\* Mutant: roaming is not counted as attached.
IsAttachedHome(s) == s = "home"
IsAttached(s) == s \in {"home", "roaming"}

\* modem_net_event_handler looks at the status of now; the notice is given to
\* the push queue, which has room or not, when the attachment has changed.
HandleNet(room) ==
  /\ Taken("net") /\ "net" \in handlers
  /\ led' = ~IsAttached(status) /\ missed' = FALSE
  /\ attached' = IsAttached(status)
  /\ IF attached' = attached THEN UNCHANGED <<told, untold>>
     ELSE IF room THEN told' = (IF attached' THEN "up" ELSE "down") /\ untold' = FALSE
     ELSE told' = told /\ untold' = TRUE
  /\ UNCHANGED <<handlers, modemVars, lpc, notices, netReady, logReady, ntp, staVars>>

\* Before app_main has registered the handler.
NetUnheard ==
  /\ Taken("net") /\ "net" \notin handlers
  /\ missed' = TRUE
  /\ UNCHANGED <<handlers, modemVars, lpc, led, attached, told, untold, notices, netReady,
                 logReady, ntp, staVars>>

\* handle_call_ringing; the page may switch its notices on and off at any time.
HandleRing(callNotifyEnabled) ==
  /\ Taken("ring")
  /\ notices' = IF callNotifyEnabled /\ "ring" \in handlers
                THEN [notices EXCEPT !.call = @ + 1] ELSE notices
  /\ UNCHANGED <<handlers, modemVars, lpc, led, attached, missed, told, untold, netReady,
                 logReady, ntp, staVars>>

\* wifi_event_handler: esp_wifi_connect.
HandleStart ==
  /\ Taken("start")
  /\ sta' = "trying"
  /\ UNCHANGED <<handlers, modemVars, lpc, noticeVars, netReady, logReady, ntp, drops>>

\* Mutant: the log service is not told.
HandleLostSilent ==
  /\ Taken("lost")
  /\ sta' = "trying"
  /\ UNCHANGED <<handlers, modemVars, lpc, noticeVars, netReady, logReady, ntp, drops>>

\* Mutant: a station that was online once is not connected again.
HandleLostOnce ==
  /\ Taken("lost")
  /\ logReady' = FALSE
  /\ sta' = IF netReady THEN sta ELSE "trying"
  /\ UNCHANGED <<handlers, modemVars, lpc, noticeVars, netReady, ntp, drops>>

HandleLost ==
  /\ Taken("lost")
  /\ logReady' = FALSE
  /\ sta' = "trying"
  /\ UNCHANGED <<handlers, modemVars, lpc, noticeVars, netReady, ntp, drops>>

\* The first address starts the web server and the wait for the time server.
HandleIp ==
  /\ Taken("ip")
  /\ netReady' = TRUE /\ logReady' = TRUE
  /\ lpc' = IF ntp THEN "idle" ELSE "ntp"
  /\ UNCHANGED <<handlers, modemVars, noticeVars, ntp, staVars>>

\* The time is set, or twenty seconds are over; then the notice of the boot.
NtpEnds ==
  /\ lpc = "ntp" /\ lpc' = "idle" /\ ntp' = TRUE
  /\ notices' = [notices EXCEPT !.boot = @ + 1]
  /\ UNCHANGED <<handlers, modemVars, loop, led, attached, missed, told, untold, netReady,
                 logReady, staVars>>

-----------------------------------------------------------------------------
NetInit ==
  /\ handlers = {} /\ status = "unknown" /\ posting = "no" /\ loop = <<>>
  /\ lpc = "idle" /\ led = TRUE /\ attached = FALSE /\ missed = FALSE
  /\ told = "none" /\ untold = FALSE
  /\ netReady = FALSE /\ logReady = FALSE /\ ntp = FALSE
  /\ notices = [boot |-> 0, call |-> 0]
  /\ sta = "off" /\ urcs = 0 /\ drops = 0

LoopTask == \/ \E room \in BOOLEAN : HandleNet(room)
            \/ \E on \in BOOLEAN : HandleRing(on)
            \/ NetUnheard
            \/ HandleStart \/ HandleLost \/ HandleIp \/ NtpEnds

NetNext == \/ Register("ring", {}) \/ Register("net", {"ring"}) \/ StartWifi
           \/ \E s \in Statuses \cup {status} : NetUrc(s)
           \/ RingUrc \/ Post \/ PostTimeout
           \/ StaStarts \/ StaLoses \/ StaGetsIp
           \/ LoopTask

-----------------------------------------------------------------------------
(* Properties. *)

\* Every variable keeps its type.
NetTypeOK ==
  /\ handlers \in SUBSET {"ring", "net", "wifi"}
  /\ status \in Statuses \cup {"unknown"} /\ posting \in Urcs \cup {"no"}
  /\ loop \in Seq(Events) /\ Len(loop) <= LoopCap /\ lpc \in {"idle", "ntp"}
  /\ led \in BOOLEAN /\ attached \in BOOLEAN /\ missed \in BOOLEAN /\ untold \in BOOLEAN
  /\ netReady \in BOOLEAN /\ logReady \in BOOLEAN /\ ntp \in BOOLEAN
  /\ told \in {"none", "up", "down"}
  /\ notices \in [boot : Nat, call : Nat]
  /\ sta \in {"off", "starting", "started", "trying", "online", "down"}
  /\ urcs \in 0..MaxUrcs /\ drops \in 0..MaxDrops

\* No change of status is on its way, or was missed by its handler.
StatusHeard == posting # "net" /\ ~missed /\ \A i \in DOMAIN loop : loop[i] # "net"

Online == status \in {"home", "roaming"}

\* "LED: off when attached" (main.c:407): the LED and the last notice tell the
\* registration as it is, however many changes came while the loop was busy,
\* once an event has got through to the handler.
StatusShown ==
  StatusHeard => /\ led = ~Online
                 /\ ~untold => (told = "up") = Online

\* The same although events were missed or came before the handler was there.
StatusAlwaysShown == posting # "net" /\ loop = <<>> => led = ~Online

\* The log is forwarded while the station is online and only then, up to events
\* that are still in the queue.
LogFollowsWifi ==
  (\A i \in DOMAIN loop : loop[i] \notin {"lost", "ip"}) => logReady = (sta = "online")

\* "Reconnect without end" (main.c:268): a station that lost its access point
\* tries again, whatever the loop is busy with.
Reconnects == (sta = "down") ~> (sta = "trying")
=============================================================================

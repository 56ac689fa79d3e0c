----------------------------- MODULE SmsForward -----------------------------
(***************************************************************************)
(* The path of an incoming SMS through the gateway: the modem stores it    *)
(* and announces its slot (+CMTI) or hands its PDU over directly (+CMT);   *)
(* the URC handler queues an event; the SMS task reads, decodes, filters,  *)
(* reassembles and hands the text to the push queue; the push task tries   *)
(* the channels and deletes the slots of a text some channel accepted.     *)
(* The cron task lists what is still stored every ten minutes and queues   *)
(* it again.  Sources: sms_processor.c, push_service.c (the task and its   *)
(* queue), cron_tasker.c (the retry), modem_driver.c (SMS commands) and    *)
(* main.c (the network-ready bit).                                         *)
(*                                                                         *)
(* The content of an SMS is the model value that names it.  A step that    *)
(* waits for the modem or the network is an action of its own; code        *)
(* between two such points touches only its own task's data and is atomic. *)
(***************************************************************************)
EXTENDS Naturals, Sequences, FiniteSets

CONSTANTS
  Msgs,          \* the SMS that may arrive, each once
  Slots,         \* slot numbers of the modem's message store
  NoMsg,         \* an empty slot, or a PDU nothing can be decoded from
  Header,        \* Header[m]: [sender, ref, total, part] of its PDU
  Direct,        \* SMS the modem hands over with +CMT, never stored
  Garbled,       \* SMS whose PDU pdu_decode rejects
  BlackList,     \* the senders in numberBlackList
  Admin,         \* the sender that is adminPhone
  EventCap,      \* EVENT_QUEUE_SIZE
  PushCap,       \* PUSH_QUEUE_SIZE
  ConcatCap,     \* MAX_CONCAT_MESSAGES
  PartCap,       \* MAX_CONCAT_PARTS
  Timeout,       \* CONCAT_TIMEOUT_MS, in ticks of the model's clock
  ListCap,       \* slots whose PDUs fit the 2048 bytes of a CMGL answer
  RetryEnabled,  \* CONFIG_CRON_TASKER: the ten-minute retry runs
  WebSends,      \* a task sends SMS (text mode): the web page, or the cron action task
  MaxRestarts    \* bound on the restarts explored

ASSUME ConstantsAssumption ==
  /\ Slots \subseteq Nat
  /\ NoMsg \notin Msgs
  /\ Direct \subseteq Msgs /\ Garbled \subseteq Msgs
  /\ \A m \in Msgs : /\ Header[m].total \in Nat
                     /\ Header[m].part \in Nat
  /\ {EventCap, PushCap, ConcatCap, PartCap, Timeout, ListCap} \subseteq Nat \ {0}
  /\ {RetryEnabled, WebSends} \subseteq BOOLEAN
  /\ MaxRestarts \in Nat

VARIABLES
  store,      \* the modem's message store: Slots -> Msgs or NoMsg
  textMode,   \* the modem is in AT+CMGF=1
  arrived,    \* SMS that have arrived so far
  urcs,       \* new-SMS URCs on their way to modem_sms_urc_handler
  smsq,       \* sms_event_queue
  spc, evt, pdu, scanAt,  \* sms_processor_task
  concat,     \* concat_buffer
  pushq,      \* s_push_queue
  ppc, pmsg,  \* push_service_task
  delivered,  \* SMS whose text some channel has accepted
  net,        \* "boot" until the first IP address, then "up" or "lost"
  clockSet,   \* the system time is past the push task's threshold
  todo,       \* slots the retry has listed and not queued yet
  web,        \* a task is inside modem_send_sms_text
  restarts    \* restarts so far

modemVars == <<store, textMode, arrived>>
smsVars   == <<spc, evt, pdu, scanAt, concat>>
pushVars  == <<ppc, pmsg, delivered>>
envVars   == <<net, clockSet, web, restarts>>
vars == <<modemVars, urcs, smsq, smsVars, pushq, pushVars, todo, envVars>>

-----------------------------------------------------------------------------
Idx   == Slots \cup {0}
Event == [stored : {TRUE}, idx : Slots, msg : {NoMsg}]
           \cup [stored : {FALSE}, idx : {0}, msg : Msgs \cup {NoMsg}]
Part  == [part : Nat, msg : Msgs, idx : Idx]
Text  == [text : SUBSET Msgs, del : SUBSET Idx]

StoredEvent(s) == [stored |-> TRUE, idx |-> s, msg |-> NoMsg]
DirectEvent(m) == [stored |-> FALSE, idx |-> 0, msg |-> m]
NoEvent == DirectEvent(NoMsg)
NoText  == [text |-> {}, del |-> {}]

Occupied == {s \in Slots : store[s] # NoMsg}

\* A command that failed or was lost leaves the slot as it was; deleting a
\* slot the store does not have is an error of the modem.
ModemDelete(s, ok) ==
  store' = [t \in Slots |-> IF ok /\ t = s THEN NoMsg ELSE store[t]]

IsBlacklisted(m) == Header[m].sender \in BlackList \ {Admin}
IsLong(m) == Header[m].total > 1 /\ Header[m].part > 0

-----------------------------------------------------------------------------
(* The modem and the path of its URCs. *)

ArriveStored(m, s) ==
  /\ m \in Msgs \ (arrived \cup Direct)
  /\ store[s] = NoMsg
  /\ arrived' = arrived \cup {m}
  /\ store' = [store EXCEPT ![s] = m]
  /\ urcs' = Append(urcs, StoredEvent(s))
  /\ UNCHANGED <<textMode, smsq, smsVars, pushq, pushVars, todo, envVars>>

ArriveDirect(m) ==
  /\ m \in Direct \ arrived
  /\ arrived' = arrived \cup {m}
  /\ urcs' = Append(urcs, DirectEvent(m))
  /\ UNCHANGED <<store, textMode, smsq, smsVars, pushq, pushVars, todo, envVars>>

\* uart_flush_input before a command, or a full event loop, swallows a URC.
LoseUrc ==
  /\ urcs # <<>>
  /\ urcs' = Tail(urcs)
  /\ UNCHANGED <<modemVars, smsq, smsVars, pushq, pushVars, todo, envVars>>

\* Mutant: the handler queues without regard to the queue's length.
EnqueueEventUnbounded(e) == smsq' = Append(smsq, e)

EnqueueEvent(e) ==
  smsq' = IF Len(smsq) < EventCap THEN Append(smsq, e) ELSE smsq

HandleUrc ==
  /\ urcs # <<>>
  /\ EnqueueEvent(Head(urcs))
  /\ urcs' = Tail(urcs)
  /\ UNCHANGED <<modemVars, smsVars, pushq, pushVars, todo, envVars>>

-----------------------------------------------------------------------------
(* The reassembly buffer. *)

FreeSlot == [inUse |-> FALSE, sender |-> NoMsg, ref |-> 0, total |-> 0,
             age |-> 0, parts |-> {}]
NewSlot(m) == [inUse |-> TRUE, sender |-> Header[m].sender,
               ref |-> Header[m].ref, total |-> Header[m].total,
               age |-> 0, parts |-> {}]

SameKey(c, m) ==
  c.inUse /\ c.ref = Header[m].ref /\ c.sender = Header[m].sender

\* Mutant: a free slot is taken before a slot of the same key is looked for.
SlotsForFreeFirst(m) ==
  LET free == {i \in 1..ConcatCap : ~concat[i].inUse}
  IN  IF free # {} THEN free
      ELSE {i \in 1..ConcatCap : \A j \in 1..ConcatCap : concat[j].age <= concat[i].age}

\* find_or_create_concat_slot: the slot of this ref and sender, else the
\* first free one, else the oldest (ages saturate: ties are left open).
SlotsFor(m) ==
  LET same == {i \in 1..ConcatCap : SameKey(concat[i], m)}
      free == {i \in 1..ConcatCap : ~concat[i].inUse}
  IN  IF same # {} THEN {i \in same : \A j \in same : i <= j}
      ELSE IF free # {} THEN {i \in free : \A j \in free : i <= j}
      ELSE {i \in 1..ConcatCap :
              \A j \in 1..ConcatCap : concat[j].age <= concat[i].age}

\* The first copy of a part counts; a repeated or out-of-range one is ignored.
WithPart(c, m, i) ==
  IF Header[m].part > PartCap \/ \E p \in c.parts : p.part = Header[m].part
  THEN c
  ELSE [c EXCEPT !.parts =
          @ \cup {[part |-> Header[m].part, msg |-> m, idx |-> i]}]

AddPart(i, m) ==
  WithPart(IF SameKey(concat[i], m) THEN concat[i] ELSE NewSlot(m), m, evt.idx)

PartsUpTo(c, n) == {p \in c.parts : p.part <= n}
TextOf(ps, ack) == [text |-> {p.msg : p \in ps},
                    del  |-> IF ack THEN {p.idx : p \in ps} ELSE {}]

\* push_service_send_with_ack never waits: a full queue drops the text.
EnqueuePush(t) ==
  pushq' = IF Len(pushq) < PushCap THEN Append(pushq, t) ELSE pushq

-----------------------------------------------------------------------------
(* sms_processor_task. *)

Receive ==
  /\ spc = "recv" /\ smsq # <<>>
  /\ evt' = Head(smsq)
  /\ smsq' = Tail(smsq)
  /\ IF evt'.stored THEN spc' = "read" /\ pdu' = pdu
                    ELSE spc' = "decode" /\ pdu' = evt'.msg
  /\ UNCHANGED <<modemVars, urcs, scanAt, concat, pushq, pushVars, todo, envVars>>

\* Mutant: an SMS that could not be read is deleted like an undecodable one.
ReadFailDeletes ==
  /\ spc = "read"
  /\ spc' = "delete"
  /\ UNCHANGED <<modemVars, urcs, smsq, evt, pdu, scanAt, concat, pushq, pushVars,
                 todo, envVars>>

\* AT+CMGR: in text mode the answer holds no PDU; an empty slot or a failed
\* command makes the task give this event up.
ReadOk ==
  /\ spc = "read" /\ evt.idx \in Occupied
  /\ pdu' = IF textMode THEN NoMsg ELSE store[evt.idx]
  /\ spc' = "decode"
  /\ UNCHANGED <<modemVars, urcs, smsq, evt, scanAt, concat, pushq, pushVars,
                 todo, envVars>>

ReadFail ==
  /\ spc = "read"
  /\ spc' = "scan" /\ evt' = NoEvent
  /\ UNCHANGED <<modemVars, urcs, smsq, pdu, scanAt, concat, pushq, pushVars,
                 todo, envVars>>

Decoded == spc = "decode" /\ pdu \in Msgs \ Garbled

Done(next) == spc' = next /\ pdu' = NoMsg /\ evt' = NoEvent

DecodeFails ==
  /\ spc = "decode" /\ ~Decoded
  /\ IF evt.stored THEN spc' = "delete" /\ pdu' = NoMsg /\ evt' = evt
                   ELSE Done("scan")
  /\ UNCHANGED <<modemVars, urcs, smsq, scanAt, concat, pushq, pushVars, todo, envVars>>

\* The `continue` of the blacklist branch skips the timeout scan.
Intercept ==
  /\ Decoded /\ IsBlacklisted(pdu)
  /\ IF evt.stored THEN spc' = "deleteBlack" /\ pdu' = pdu /\ evt' = evt
                   ELSE Done("recv")
  /\ UNCHANGED <<modemVars, urcs, smsq, scanAt, concat, pushq, pushVars, todo, envVars>>

ForwardSingle ==
  /\ Decoded /\ ~IsBlacklisted(pdu) /\ ~IsLong(pdu)
  /\ EnqueuePush([text |-> {pdu}, del |-> IF evt.stored THEN {evt.idx} ELSE {}])
  /\ Done("scan")
  /\ UNCHANGED <<modemVars, urcs, smsq, scanAt, concat, pushVars, todo, envVars>>

\* A part goes to its slot; the part that makes the slot complete (by its own
\* total) sends the text and frees the slot, whether or not the queue took it.
CollectPart ==
  /\ Decoded /\ ~IsBlacklisted(pdu) /\ IsLong(pdu)
  /\ \E i \in SlotsFor(pdu) :
       LET c == AddPart(i, pdu)
       IN  IF Cardinality(c.parts) >= Header[pdu].total
           THEN /\ EnqueuePush(TextOf(PartsUpTo(c, Header[pdu].total), evt.stored))
                /\ concat' = [concat EXCEPT ![i] = FreeSlot]
           ELSE /\ concat' = [concat EXCEPT ![i] = c]
                /\ UNCHANGED pushq
  /\ Done("scan")
  /\ UNCHANGED <<modemVars, urcs, smsq, scanAt, pushVars, todo, envVars>>

\* modem_delete_sms of an intercepted or undecodable SMS; its result is ignored.
DeleteUnwanted(ok) ==
  /\ spc \in {"delete", "deleteBlack"}
  /\ ModemDelete(evt.idx, ok)
  /\ Done(IF spc = "delete" THEN "scan" ELSE "recv")
  /\ UNCHANGED <<textMode, arrived, urcs, smsq, scanAt, concat, pushq, pushVars,
                 todo, envVars>>

\* The two-second receive timeout also leads to the scan.
ReceiveTimeout ==
  /\ spc = "recv" /\ smsq = <<>>
  /\ spc' = "scan"
  /\ UNCHANGED <<modemVars, urcs, smsq, evt, pdu, scanAt, concat, pushq, pushVars,
                 todo, envVars>>

\* Mutant: the expired slot is forwarded and not freed.
ScanSlotKeeps ==
  /\ spc = "scan" /\ scanAt <= ConcatCap
  /\ LET c == concat[scanAt]
     IN  IF c.inUse /\ c.age >= Timeout
         THEN EnqueuePush(TextOf(PartsUpTo(c, c.total), TRUE))
         ELSE UNCHANGED pushq
  /\ scanAt' = scanAt + 1
  /\ UNCHANGED <<modemVars, urcs, smsq, spc, evt, pdu, concat, pushVars, todo, envVars>>

\* Mutant: the scan does nothing with a slot, expired or not.
ScanSlotSkips ==
  /\ spc = "scan" /\ scanAt <= ConcatCap
  /\ scanAt' = scanAt + 1
  /\ UNCHANGED <<modemVars, urcs, smsq, spc, evt, pdu, concat, pushq, pushVars, todo,
                 envVars>>

\* One iteration of the timeout scan: an expired slot is forwarded with what
\* it has, its indices always along, and freed.
ScanSlot ==
  /\ spc = "scan" /\ scanAt <= ConcatCap
  /\ LET c == concat[scanAt]
     IN  IF c.inUse /\ c.age >= Timeout
         THEN /\ EnqueuePush(TextOf(PartsUpTo(c, c.total), TRUE))
              /\ concat' = [concat EXCEPT ![scanAt] = FreeSlot]
         ELSE UNCHANGED <<pushq, concat>>
  /\ scanAt' = scanAt + 1
  /\ UNCHANGED <<modemVars, urcs, smsq, spc, evt, pdu, pushVars, todo, envVars>>

ScanEnd ==
  /\ spc = "scan" /\ scanAt > ConcatCap
  /\ spc' = "recv" /\ scanAt' = 1
  /\ UNCHANGED <<modemVars, urcs, smsq, evt, pdu, concat, pushq, pushVars, todo, envVars>>

Tick ==
  /\ \E i \in 1..ConcatCap : concat[i].inUse /\ concat[i].age < Timeout
  /\ concat' = [i \in 1..ConcatCap |->
                 IF concat[i].inUse /\ concat[i].age < Timeout
                 THEN [concat[i] EXCEPT !.age = @ + 1] ELSE concat[i]]
  /\ UNCHANGED <<modemVars, urcs, smsq, spc, evt, pdu, scanAt, pushq, pushVars,
                 todo, envVars>>

-----------------------------------------------------------------------------
(* push_service_task. *)

\* NET_READY_BIT is set by the first IP address and never cleared.
PushGate ==
  /\ ppc = "gate" /\ net # "boot" /\ clockSet
  /\ ppc' = "recv"
  /\ UNCHANGED <<modemVars, urcs, smsq, smsVars, pushq, pmsg, delivered, todo, envVars>>

PushTake ==
  /\ ppc = "recv" /\ pushq # <<>>
  /\ pmsg' = Head(pushq)
  /\ pushq' = Tail(pushq)
  /\ ppc' = "send"
  /\ UNCHANGED <<modemVars, urcs, smsq, smsVars, delivered, todo, envVars>>

\* All enabled channels are tried; any_success needs one 2xx answer.
\* One of the enabled channels accepts the text, in one of the attempts of its
\* request.
ChannelAccepts == net = "up"

PushOk ==
  /\ ppc = "send" /\ ChannelAccepts
  /\ delivered' = delivered \cup pmsg.text
  /\ ppc' = "ack"
  /\ UNCHANGED <<modemVars, urcs, smsq, smsVars, pushq, pmsg, todo, envVars>>

\* Mutant: the slots are deleted without looking at any_success.
PushFailAcks ==
  /\ ppc = "send"
  /\ ppc' = "ack"
  /\ UNCHANGED <<modemVars, urcs, smsq, smsVars, pushq, pmsg, delivered, todo, envVars>>

PushFail ==
  /\ ppc = "send"
  /\ ppc' = "gate" /\ pmsg' = NoText
  /\ UNCHANGED <<modemVars, urcs, smsq, smsVars, pushq, delivered, todo, envVars>>

\* The slots of an accepted text, one command each, results ignored (the
\* order of the array does not matter here and is left open).
PushDelete(s, ok) ==
  /\ ppc = "ack" /\ s \in pmsg.del
  /\ ModemDelete(s, ok)
  /\ pmsg' = [pmsg EXCEPT !.del = @ \ {s}]
  /\ UNCHANGED <<textMode, arrived, urcs, smsq, smsVars, pushq, ppc, delivered,
                 todo, envVars>>

PushDone ==
  /\ ppc = "ack" /\ pmsg.del = {}
  /\ ppc' = "gate" /\ pmsg' = NoText
  /\ UNCHANGED <<modemVars, urcs, smsq, smsVars, pushq, delivered, todo, envVars>>

-----------------------------------------------------------------------------
(* The retry of cron_worker_task. *)

\* Mutant: one slot too few is taken from the answer.
RetryListShort ==
  /\ RetryEnabled /\ todo = {} /\ clockSet /\ ~textMode
  /\ todo' = {s \in Occupied : Cardinality({t \in Occupied : t <= s}) < ListCap}
  /\ UNCHANGED <<modemVars, urcs, smsq, smsVars, pushq, pushVars, envVars>>

\* AT+CMGL=4 lists the lowest occupied slots that fit the answer; in text
\* mode it is an error.
RetryList ==
  /\ RetryEnabled /\ todo = {} /\ clockSet /\ ~textMode
  /\ todo' = {s \in Occupied : Cardinality({t \in Occupied : t < s}) < ListCap}
  /\ UNCHANGED <<modemVars, urcs, smsq, smsVars, pushq, pushVars, envVars>>

RetryEnqueue ==
  /\ todo # {}
  /\ \E s \in todo :
       /\ \A t \in todo : s <= t
       /\ EnqueueEvent(StoredEvent(s))
       /\ todo' = todo \ {s}
  /\ UNCHANGED <<modemVars, urcs, smsVars, pushq, pushVars, envVars>>

-----------------------------------------------------------------------------
(* The surroundings: network, clock, SMS being sent, restarts. *)

GotIp ==
  /\ net # "up" /\ net' = "up"
  /\ UNCHANGED <<modemVars, urcs, smsq, smsVars, pushq, pushVars, todo, clockSet,
                 web, restarts>>

WifiLost ==
  /\ net = "up" /\ net' = "lost"
  /\ UNCHANGED <<modemVars, urcs, smsq, smsVars, pushq, pushVars, todo, clockSet,
                 web, restarts>>

TimeSynced ==
  /\ net = "up" /\ ~clockSet /\ clockSet' = TRUE
  /\ UNCHANGED <<modemVars, urcs, smsq, smsVars, pushq, pushVars, todo, net, web,
                 restarts>>

\* modem_send_sms_text: AT+CMGF=1 answered with OK opens the conversation;
\* without an answer the call returns, whatever the modem has done.
SendTextBegin ==
  /\ WebSends /\ ~web
  /\ textMode' = TRUE
  /\ web' \in BOOLEAN
  /\ UNCHANGED <<store, arrived, urcs, smsq, smsVars, pushq, pushVars, todo, net,
                 clockSet, restarts>>

\* The result of the final AT+CMGF=0 is ignored.
SendTextEnd ==
  /\ web /\ web' = FALSE
  /\ textMode' \in {FALSE, textMode}
  /\ UNCHANGED <<store, arrived, urcs, smsq, smsVars, pushq, pushVars, todo, net,
                 clockSet, restarts>>

\* A restart loses all but the modem's store; app_main sets AT+CMGF=0 again.
Restart ==
  /\ restarts < MaxRestarts
  /\ restarts' = restarts + 1
  /\ textMode' = FALSE /\ web' = FALSE
  /\ urcs' = <<>> /\ smsq' = <<>> /\ pushq' = <<>> /\ todo' = {}
  /\ spc' = "recv" /\ evt' = NoEvent /\ pdu' = NoMsg /\ scanAt' = 1
  /\ concat' = [i \in 1..ConcatCap |-> FreeSlot]
  /\ ppc' = "gate" /\ pmsg' = NoText
  /\ net' = "boot" /\ clockSet' = FALSE
  /\ UNCHANGED <<store, arrived, delivered>>

-----------------------------------------------------------------------------
Init ==
  /\ store = [s \in Slots |-> NoMsg] /\ textMode = FALSE /\ arrived = {}
  /\ urcs = <<>> /\ smsq = <<>> /\ pushq = <<>> /\ todo = {}
  /\ spc = "recv" /\ evt = NoEvent /\ pdu = NoMsg /\ scanAt = 1
  /\ concat = [i \in 1..ConcatCap |-> FreeSlot]
  /\ ppc = "gate" /\ pmsg = NoText /\ delivered = {}
  /\ net = "boot" /\ clockSet = FALSE /\ web = FALSE /\ restarts = 0

ModemStep == \/ \E m \in Msgs, s \in Slots : ArriveStored(m, s)
             \/ \E m \in Msgs : ArriveDirect(m)
             \/ LoseUrc
SmsStep   == \/ HandleUrc \/ Receive \/ ReadOk \/ ReadFail
             \/ DecodeFails \/ Intercept \/ ForwardSingle \/ CollectPart
             \/ \E ok \in BOOLEAN : DeleteUnwanted(ok)
             \/ ReceiveTimeout \/ ScanSlot \/ ScanEnd \/ Tick
PushStep  == \/ PushGate \/ PushTake \/ PushOk \/ PushFail \/ PushDone
             \/ \E s \in Idx, ok \in BOOLEAN : PushDelete(s, ok)
RetryStep == RetryList \/ RetryEnqueue
EnvStep   == \/ GotIp \/ WifiLost \/ TimeSynced
             \/ SendTextBegin \/ SendTextEnd \/ Restart

Next == ModemStep \/ SmsStep \/ PushStep \/ RetryStep \/ EnvStep

Spec == Init /\ [][Next]_vars

\* The RTOS schedules every task again and again; a modem command and a push
\* that are tried forever succeed again and again; the last outage ends.
Fairness ==
  /\ WF_vars(HandleUrc) /\ WF_vars(Receive)
  /\ SF_vars(ReadOk) /\ WF_vars(ReadFail)
  /\ WF_vars(DecodeFails \/ Intercept \/ ForwardSingle \/ CollectPart)
  /\ SF_vars(DeleteUnwanted(TRUE)) /\ WF_vars(DeleteUnwanted(FALSE))
  /\ WF_vars(ScanSlot \/ ScanEnd \/ ReceiveTimeout) /\ WF_vars(Tick)
  /\ WF_vars(PushGate) /\ WF_vars(PushTake) /\ WF_vars(PushDone)
  /\ SF_vars(PushOk) /\ WF_vars(PushFail)
  /\ \A s \in Idx : SF_vars(PushDelete(s, TRUE)) /\ WF_vars(PushDelete(s, FALSE))
  /\ WF_vars(RetryList) /\ WF_vars(RetryEnqueue)
  /\ <>[](net = "up") /\ WF_vars(TimeSynced) /\ WF_vars(SendTextEnd)

FairSpec == Spec /\ Fairness

-----------------------------------------------------------------------------
(* Properties. *)

\* Every variable keeps its type; the two queues keep their capacity.
TypeOK ==
  /\ store \in [Slots -> Msgs \cup {NoMsg}]
  /\ {textMode, clockSet, web} \subseteq BOOLEAN
  /\ arrived \subseteq Msgs /\ delivered \subseteq Msgs
  /\ urcs \in Seq(Event)
  /\ smsq \in Seq(Event) /\ Len(smsq) <= EventCap
  /\ spc \in {"recv", "read", "decode", "delete", "deleteBlack", "scan"}
  /\ evt \in Event /\ pdu \in Msgs \cup {NoMsg}
  /\ scanAt \in 1..(ConcatCap + 1)
  /\ concat \in [1..ConcatCap ->
                  [inUse : BOOLEAN, sender : {Header[m].sender : m \in Msgs} \cup {NoMsg},
                   ref : {Header[m].ref : m \in Msgs} \cup {0}, total : Nat,
                   age : 0..Timeout, parts : SUBSET Part]]
  /\ pushq \in Seq(Text) /\ Len(pushq) <= PushCap
  /\ ppc \in {"gate", "recv", "send", "ack"} /\ pmsg \in Text
  /\ net \in {"boot", "up", "lost"}
  /\ todo \subseteq Slots
  /\ restarts \in 0..MaxRestarts

Unwanted(m) == m \in Garbled \/ IsBlacklisted(m)
Stored == {store[s] : s \in Occupied}

\* An SMS the modem stored leaves the store only after a channel accepted its
\* text, unless it is blacklisted or undecodable (push_service.c:563: when
\* every channel failed the SMS is kept and not deleted).
DeletedWasPushed ==
  \A m \in arrived \ Direct : m \in Stored \/ m \in delivered \/ Unwanted(m)

\* The slot numbers each stage of the pipeline holds.
EventSlot(e)  == IF e.stored THEN {e.idx} ELSE {}
EventSlots(q) == UNION {EventSlot(q[i]) : i \in 1..Len(q)}
TextSlots(q)  == (UNION {q[i].del : i \in 1..Len(q)}) \cap Slots
PartSlots(c)  == {p.idx : p \in c.parts} \cap Slots
HeldBy == [urcs   |-> EventSlots(urcs),
           events |-> EventSlots(smsq),
           task   |-> EventSlot(evt),
           buffer |-> UNION {PartSlots(concat[i]) : i \in 1..ConcatCap},
           pushes |-> TextSlots(pushq),
           ack    |-> pmsg.del \cap Slots]

DistinctEvents(q) ==
  \A i, j \in 1..Len(q) : i # j => EventSlot(q[i]) \cap EventSlot(q[j]) = {}
DistinctTexts(q) ==
  \A i, j \in 1..Len(q) : i # j => q[i].del \cap q[j].del \cap Slots = {}
DistinctParts ==
  /\ \A i, j \in 1..ConcatCap :
       i # j => PartSlots(concat[i]) \cap PartSlots(concat[j]) = {}
  /\ \A i \in 1..ConcatCap : \A p, r \in concat[i].parts :
       p.idx = r.idx /\ p.idx \in Slots => p = r

\* A slot number is on its way through the pipeline at most once, and only
\* while the slot is occupied: no stage can act on a number that another stage
\* has freed (and the modem may have given to another SMS).
IndexHeldOnce ==
  /\ DistinctEvents(urcs) /\ DistinctEvents(smsq)
  /\ DistinctTexts(pushq) /\ DistinctParts
  /\ \A a, b \in DOMAIN HeldBy : a # b => HeldBy[a] \cap HeldBy[b] = {}
  /\ \A a \in DOMAIN HeldBy : HeldBy[a] \subseteq Occupied

\* Without the retry nothing is pushed twice: a text that is about to be sent
\* holds no SMS that a channel has accepted before.
NeverPushedTwice == ppc = "send" => pmsg.text \cap delivered = {}

\* find_or_create_concat_slot never opens a second slot for a long SMS that
\* is being reassembled.
OneSlotPerLongSms ==
  \A i, j \in 1..ConcatCap :
    /\ concat[i].inUse /\ concat[j].inUse
    /\ concat[i].ref = concat[j].ref /\ concat[i].sender = concat[j].sender
    => i = j

\* A stored SMS does not stay forever without being forwarded: restarts, lost
\* URCs, full queues and failed pushes are made good by the retry.
StoredIsForwarded ==
  \A m \in Msgs \ Direct : m \in Stored ~> (m \in delivered \/ m \notin Stored)

\* Parts in the reassembly buffer are not kept forever: the slot completes,
\* expires or is evicted.
PartsLeaveBuffer ==
  \A m \in Msgs, i \in 1..ConcatCap :
    (\E p \in concat[i].parts : p.msg = m) ~> (\A p \in concat[i].parts : p.msg # m)

\* push_service.c:513-515: a lost network is noticed and waited out; the task
\* takes no message from the queue while the network is down.
NoTakeWhileOffline == [][PushTake => net = "up"]_vars

\* modem_driver.h:200: once the SMS is sent the modem is back in PDU mode.
PduModeRestored == [][SendTextEnd => ~textMode']_vars

\* sms_processor.c:256: the SMS deleted after a failed decode are those that
\* are garbled or cannot be decoded.
OnlyUndecodableDeleted ==
  [][spc = "delete" /\ spc' = "scan" =>
       \A s \in Slots : store'[s] = store[s] \/ store[s] \in Garbled]_vars

\* Without the retry and the text mode the pipeline implements Forwarding:
\* at most one forwarding of each SMS, none discarded before it.
F == INSTANCE Forwarding WITH
       Sms <- Msgs, Junk <- {m \in Msgs : Unwanted(m)},
       taken <- arrived, kept <- Stored, forwarded <- delivered
ImplementsForwarding == F!Spec

=============================================================================

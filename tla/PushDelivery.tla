---------------------------- MODULE PushDelivery ----------------------------
(***************************************************************************)
(* The push service and the HTTP client below it: texts are queued, the    *)
(* push task sends each to every enabled channel, with up to three more    *)
(* attempts, and deletes the slots of a text that was accepted.  The web   *)
(* page rewrites the channels meanwhile, field by field.                   *)
(* Sources: push_service.c, http_utils.c, web_server.c (handleSave).       *)
(*                                                                         *)
(* A step that waits for the network, the modem or a delay is an action of *)
(* its own.                                                                *)
(***************************************************************************)
EXTENDS PushFormat

CONSTANTS
  MaxPushes,   \* texts that are queued, numbered in their order
  Pushes,      \* what may be queued: [text, slots], a text of PushFormat and
               \* how many slots of the modem's store it came from
  QueueCap,    \* PUSH_QUEUE_SIZE
  Channels,    \* MAX_PUSH_CHANNELS: channels are 1..Channels
  Attempts,    \* 1 + MAX_HTTP_RETRIES
  Settings0,   \* the channels' settings at the start
  Offered,     \* Offered[c]: the settings of c the page may save
  MaxSaves     \* bound on the saves explored

Settings == {Settings0[c] : c \in 1..Channels}
              \cup UNION {Offered[c] : c \in 1..Channels}

Types == {"NONE", "JSON", "GET", "SERVERCHAN", "CUSTOM"}
Bodies == Seq([kind : STRING, n : Nat])

ASSUME PushAssumption ==
  /\ {MaxPushes, MaxSaves} \subseteq Nat
  /\ {QueueCap, Channels, Attempts} \subseteq Nat \ {0}
  /\ Pushes \subseteq [text : [n : Nat, json : {1, 2}, url : {1, 3}], slots : Nat]
  /\ Settings0 \in [1..Channels -> Settings]
  /\ Settings \subseteq [enabled : BOOLEAN, type : Types, url : Nat, body : Bodies]

\* What a channel may be between two fields of a save.
Channel == [enabled : BOOLEAN, type : {s.type : s \in Settings},
            url : {s.url : s \in Settings}, body : {s.body : s \in Settings}]

VARIABLES
  issued,     \* texts queued so far: sequence of Pushes
  queue,      \* s_push_queue: sequence of their numbers
  held,       \* slots of each text that the modem's store still holds
  ready,      \* NET_READY_BIT is set and the clock is right
  pc, cur, ch, attempt, req, ok, del,  \* push_service_task, http_util_request;
              \* req is the channel as the request was made from it
  channels,   \* g_app_config.pushChannels
  save,       \* handleSave: the channel it writes, the settings, the next field
  saves,      \* saves so far
  log,        \* what each channel's server took: the texts in their order
  answered,   \* requests a channel has answered with 2xx
  steady,     \* channels enabled ever since the current text was taken
  asked       \* channels asked to take the current text

taskVars == <<pc, cur, ch, attempt, req, ok, del, steady, asked>>
pageVars == <<channels, save, saves>>
serverVars == <<log, answered>>
vars == <<issued, queue, held, ready, taskVars, pageVars, serverVars>>

Ids == 1..MaxPushes
NoRequest == [type |-> "NONE"]
NoSave == [ch |-> 0]
Enabled == {c \in 1..Channels : channels[c].enabled}

-----------------------------------------------------------------------------
(* push_service_send, push_service_send_with_ack. *)

\* The caller never waits: a full queue drops the text.
Enqueue(p) ==
  /\ Len(issued) < MaxPushes
  /\ issued' = Append(issued, p)
  /\ held' = [held EXCEPT ![Len(issued) + 1] = 1..p.slots]
  /\ queue' = IF Len(queue) < QueueCap THEN Append(queue, Len(issued) + 1) ELSE queue
  /\ UNCHANGED <<ready, taskVars, pageVars, serverVars>>

-----------------------------------------------------------------------------
(* push_service_task. *)

\* Without memory for the work buffer the task ends for good.
Start(memory) ==
  /\ pc = "start"
  /\ pc' = IF memory THEN "gate" ELSE "dead"
  /\ UNCHANGED <<issued, queue, held, ready, cur, ch, attempt, req, ok, del, steady,
                 asked, pageVars, serverVars>>

Gate ==
  /\ pc = "gate" /\ ready
  /\ pc' = "receive"
  /\ UNCHANGED <<issued, queue, held, ready, cur, ch, attempt, req, ok, del, steady,
                 asked, pageVars, serverVars>>

\* Mutant: any_success is declared outside the loop and not reset.
TakeStale ==
  /\ pc = "receive" /\ queue # <<>>
  /\ cur' = Head(queue) /\ queue' = Tail(queue)
  /\ pc' = "channel"
  /\ steady' = Enabled /\ asked' = {}
  /\ UNCHANGED <<issued, held, ready, ch, attempt, req, ok, del, pageVars, serverVars>>

Take ==
  /\ pc = "receive" /\ queue # <<>>
  /\ cur' = Head(queue) /\ queue' = Tail(queue)
  /\ pc' = "channel" /\ ok' = FALSE
  /\ steady' = Enabled /\ asked' = {}
  /\ UNCHANGED <<issued, held, ready, ch, attempt, req, del, pageVars, serverVars>>

\* A disabled channel is passed over; an enabled one is asked, after the AT
\* commands that refresh the cached network data.
Select ==
  /\ pc = "channel" /\ ch <= Channels
  /\ IF channels[ch].enabled THEN pc' = "form" /\ ch' = ch
                             ELSE pc' = pc /\ ch' = ch + 1
  /\ UNCHANGED <<issued, queue, held, ready, cur, attempt, req, ok, del, steady, asked,
                 pageVars, serverVars>>

NextChannel ==
  pc' = "channel" /\ ch' = ch + 1 /\ attempt' = 1 /\ req' = NoRequest

Form ==
  /\ pc = "form"
  /\ asked' = asked \cup {ch}
  /\ LET c == channels[ch]
     IN  IF MakesRequest(c)
         THEN /\ pc' = "http" /\ ch' = ch /\ attempt' = 1 /\ req' = c
         ELSE NextChannel
  /\ UNCHANGED <<issued, queue, held, ready, cur, ok, del, steady, pageVars, serverVars>>

-----------------------------------------------------------------------------
(* http_util_request: each attempt is a new connection; the delays between *)
(* them double.                                                            *)

Received == log' = [log EXCEPT ![ch] = Append(@, cur)]

GiveUpOrRetry ==
  IF attempt < Attempts THEN attempt' = attempt + 1 /\ UNCHANGED <<pc, ch, req>>
  ELSE NextChannel

\* No client, no connection, or an answer other than 2xx.
AttemptFails ==
  /\ pc = "http"
  /\ GiveUpOrRetry
  /\ UNCHANGED <<issued, queue, held, ready, cur, ok, del, steady, asked, pageVars,
                 serverVars>>

\* The server took the text and its answer is lost or late.
AnswerLost ==
  /\ pc = "http"
  /\ Received /\ GiveUpOrRetry
  /\ UNCHANGED <<issued, queue, held, ready, cur, ok, del, steady, asked, pageVars,
                 answered>>

\* Mutant: the loop over the attempts is not left after a success.
AnsweredGoesOn ==
  /\ pc = "http"
  /\ Received /\ answered' = answered \cup {[ch |-> ch, id |-> cur, by |-> req]}
  /\ ok' = TRUE /\ GiveUpOrRetry
  /\ UNCHANGED <<issued, queue, held, ready, cur, del, steady, asked, pageVars>>

\* Mutant: the loop over the channels ends with the first success.
AnsweredLast ==
  /\ pc = "http"
  /\ Received /\ answered' = answered \cup {[ch |-> ch, id |-> cur, by |-> req]}
  /\ ok' = TRUE /\ pc' = "channel" /\ ch' = Channels + 1
  /\ attempt' = 1 /\ req' = NoRequest
  /\ UNCHANGED <<issued, queue, held, ready, cur, del, steady, asked, pageVars>>

Answered ==
  /\ pc = "http"
  /\ Received /\ answered' = answered \cup {[ch |-> ch, id |-> cur, by |-> req]}
  /\ ok' = TRUE /\ NextChannel
  /\ UNCHANGED <<issued, queue, held, ready, cur, del, steady, asked, pageVars>>

-----------------------------------------------------------------------------
\* Mutant: a text no channel accepted goes back into the queue.
ChannelsDoneRequeue ==
  /\ pc = "channel" /\ ch > Channels
  /\ pc' = IF ok THEN "delete" ELSE "gate"
  /\ queue' = IF ok THEN queue ELSE Append(queue, cur)
  /\ ch' = 1 /\ steady' = {} /\ asked' = {}
  /\ UNCHANGED <<issued, held, ready, cur, attempt, req, ok, del, pageVars, serverVars>>

\* All channels have been tried: any_success decides on the SMS.
ChannelsDone ==
  /\ pc = "channel" /\ ch > Channels
  /\ pc' = IF ok THEN "delete" ELSE "gate"
  /\ ch' = 1 /\ steady' = {} /\ asked' = {}
  /\ UNCHANGED <<issued, queue, held, ready, cur, attempt, req, ok, del, pageVars,
                 serverVars>>

\* modem_delete_sms of one slot after the other; its result is ignored.
Delete(done) ==
  /\ pc = "delete" /\ del <= issued[cur].slots
  /\ held' = IF done THEN [held EXCEPT ![cur] = @ \ {del}] ELSE held
  /\ del' = del + 1
  /\ UNCHANGED <<issued, queue, ready, pc, cur, ch, attempt, req, ok, steady, asked,
                 pageVars, serverVars>>

\* Mutant: the loop does not end.
DeleteAgain ==
  /\ pc = "delete" /\ del > issued[cur].slots
  /\ del' = 1
  /\ UNCHANGED <<issued, queue, held, ready, pc, cur, ch, attempt, req, ok, steady,
                 asked, pageVars, serverVars>>

Deleted ==
  /\ pc = "delete" /\ del > issued[cur].slots
  /\ pc' = "gate" /\ del' = 1
  /\ UNCHANGED <<issued, queue, held, ready, cur, ch, attempt, req, ok, steady, asked,
                 pageVars, serverVars>>

-----------------------------------------------------------------------------
(* The network and the web page. *)

NetReady ==
  /\ ~ready /\ ready' = TRUE
  /\ UNCHANGED <<issued, queue, held, taskVars, pageVars, serverVars>>

\* handleSave writes the fields of a channel in this order, and the push task
\* of the same priority may run after each.
SaveEnabled(c, s) ==
  /\ save = NoSave /\ saves < MaxSaves
  /\ channels' = [channels EXCEPT ![c].enabled = s.enabled]
  /\ steady' = IF s.enabled THEN steady ELSE steady \ {c}
  /\ save' = [ch |-> c, to |-> s, field |-> "type"] /\ saves' = saves + 1
  /\ UNCHANGED <<issued, queue, held, ready, pc, cur, ch, attempt, req, ok, del, asked,
                 serverVars>>

SaveType ==
  /\ save # NoSave /\ save.field = "type"
  /\ channels' = [channels EXCEPT ![save.ch].type = save.to.type]
  /\ save' = [save EXCEPT !.field = "url"]
  /\ UNCHANGED <<issued, queue, held, ready, taskVars, saves, serverVars>>

SaveRest ==
  /\ save # NoSave /\ save.field = "url"
  /\ channels' = [channels EXCEPT ![save.ch].url = save.to.url,
                                  ![save.ch].body = save.to.body]
  /\ save' = NoSave
  /\ UNCHANGED <<issued, queue, held, ready, taskVars, saves, serverVars>>

-----------------------------------------------------------------------------
Init ==
  /\ issued = <<>> /\ queue = <<>> /\ held = [i \in Ids |-> {}] /\ ready = FALSE
  /\ pc = "start" /\ cur = 0 /\ ch = 1 /\ attempt = 1 /\ req = NoRequest
  /\ ok = FALSE /\ del = 1 /\ steady = {} /\ asked = {}
  /\ channels = Settings0 /\ save = NoSave /\ saves = 0
  /\ log = [c \in 1..Channels |-> <<>>] /\ answered = {}

Task == \/ \E memory \in BOOLEAN : Start(memory)
        \/ Gate \/ Take \/ Select \/ Form
        \/ AttemptFails \/ AnswerLost \/ Answered
        \/ ChannelsDone \/ Deleted
        \/ \E done \in BOOLEAN : Delete(done)

Next == \/ \E p \in Pushes : Enqueue(p)
        \/ Task \/ NetReady
        \/ \E c \in 1..Channels : \E s \in Offered[c] : SaveEnabled(c, s)
        \/ SaveType \/ SaveRest

Spec == Init /\ [][Next]_vars

\* The task is scheduled again and again, the network comes up once, and an
\* attempt ends: with an answer or with one of its timeouts.
FairSpec == Spec /\ WF_vars(Task) /\ WF_vars(NetReady)

-----------------------------------------------------------------------------
(* Properties. *)

\* Every variable keeps its type; the queue keeps its capacity, the loops
\* their bounds.
TypeOK ==
  /\ issued \in Seq(Pushes)
  /\ queue \in Seq(1..Len(issued)) /\ Len(queue) <= QueueCap
  /\ (\A i \in 1..Len(issued) : held[i] \subseteq 1..issued[i].slots) /\ ready \in BOOLEAN
  /\ pc \in {"start", "dead", "gate", "receive", "channel", "form", "http", "delete"}
  /\ cur \in 0..Len(issued) /\ ch \in 1..(Channels + 1) /\ attempt \in 1..Attempts
  /\ req \in Channel \cup {NoRequest} /\ (pc = "http" => req # NoRequest)
  /\ ok \in BOOLEAN /\ del \in Nat \ {0} /\ (pc = "delete" => del <= issued[cur].slots + 1)
  /\ steady \subseteq 1..Channels /\ asked \subseteq 1..Channels
  /\ channels \in [1..Channels -> Channel] /\ saves \in 0..MaxSaves

\* The request of an answer carried the text whole.
Whole(a) ==
  Carried(a.by, Copied(issued[a.id].text)) = issued[a.id].text.n

\* What every type of channel can take: 366 bytes, which are 122 Chinese
\* characters, and 400 when they are escaped.
Short(t) == t.n <= 366 /\ t.n * t.json <= 400

SomeDeleted(i) == held[i] # 1..issued[i].slots

\* The slots of a short text are deleted only after a channel has answered
\* for the whole text (push_service.c:563).
DeletedWasReceived ==
  \A i \in 1..Len(issued) : SomeDeleted(i) /\ Short(issued[i].text) =>
    \E a \in answered : a.id = i /\ Whole(a)

\* The same for texts of any length.
DeletedWasReceivedWhole ==
  \A i \in 1..Len(issued) : SomeDeleted(i) =>
    \E a \in answered : a.id = i /\ Whole(a)

\* A server never gets texts out of the order in which they were queued,
\* whatever is retried or lost.
ServedInOrder ==
  \A c \in 1..Channels : \A i, j \in 1..Len(log[c]) : i < j => log[c][i] <= log[c][j]

\* Once a channel has answered for a text it is not sent the text again:
\* copies come from lost answers only.
NoCopyAfterAnswer ==
  [][\A c \in 1..Channels : log'[c] # log[c] =>
       ~\E a \in answered : a.ch = c /\ a.id = cur]_vars

\* The outcome at one channel keeps no other from being asked: when the task
\* is through, all channels have been that were enabled all the time.
NoChannelSkipped == [][pc = "channel" /\ pc' \in {"gate", "delete"} => steady \subseteq asked]_vars

\* A request holds the type and the URL of one and the same settings.
RequestsMatchSettings ==
  pc = "http" =>
    \E s \in Settings : s.type = req.type /\ s.url = req.url /\ s.body = req.body

\* Every queued text is worked off, with success or without, unless the task
\* never got its memory.
PushesEnd ==
  \A i \in Ids : (\E k \in DOMAIN queue : queue[k] = i)
                   ~> (pc = "dead" \/ (cur >= i /\ pc = "gate"))

\* An SMS is kept until a channel has answered for its text.
F == INSTANCE Forwarding WITH
       Sms <- Ids, Junk <- {},
       taken <- 1..Len(issued),
       kept <- {i \in 1..Len(issued) : issued[i].slots > 0 /\ ~SomeDeleted(i)},
       forwarded <- {a.id : a \in answered}
ImplementsForwarding == F!Spec
=============================================================================

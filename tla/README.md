# A formal model of esp32c3-sms-gateway

The firmware runs on an ESP32-C3 with a 4G modem (ML307) on its UART. It forwards the SMS and calls that the
modem receives to HTTP push channels, sends SMS and pings from a web page or on a schedule, and manages eSIM
profiles. This directory holds TLA+ modules of its parts, TLC configurations that check them on small instances,
and proofs that TLAPS checks. Paths below are relative to `src/`; `components/` is left out of the names of
the components' files.

## 1. Inventory

One core, FreeRTOS (unicore), preemptive by priority:

| task | priority | source | work |
|---|---|---|---|
| `modem_event_task` | 6 | modem_driver.c | takes lines off the UART, sets AT bits, dispatches URCs |
| `push_service_task` | 5 | push_service.c | sends queued texts to the channels, deletes acknowledged SMS |
| HTTP server | 5 | web_server.c | configuration, sending SMS, ping, eSIM, OTA; one handler at a time |
| `sms_processor_task` | 4 | sms_processor.c | reads, decodes, filters, reassembles SMS |
| `modem_at_worker` | 5 | modem_driver.c | runs queued AT commands; nobody calls `modem_enqueue_at_command_async`, so it waits for ever |
| `syslog_worker_task` | 3 | log_service.c | sends lines of log to the configured server |
| `cron_action_task` | 3 | cron_tasker.c | runs the pings and SMS of scheduled tasks |
| `cron_worker_task` | 2 | cron_tasker.c | wakes every minute: schedule, retry of stored SMS |
| default event loop | system | main.c, sms_processor.c, ... | handlers of Wi-Fi, IP and modem events |

| component | state it keeps | operations | interacts through |
|---|---|---|---|
| SMS pipeline (sms_processor, push_service) | event queue, reassembly buffer of 5 x 10 parts, push queue of 10 | URC handler, processing, timeout scan, push, acknowledge, retry | modem commands, queues, event loop |
| PDU decoder (sms_processor) | none | decode a PDU, its header and text | called by the SMS task |
| push channels, HTTP client | the text being pushed, the attempt | copy, escape, fill in, request up to four times, delete slots | `g_app_config`, which the web page rewrites; servers |
| AT engine (modem_driver) | `at_mutex`, `at_event_group`, shared pointer, size and fill of the response buffer | send command, send SMS text, event task | UART; called by every task |
| URC dispatch and ping (modem_driver) | table of 4 handlers under `urc_handler_mutex` | register, unregister, dispatch, `modem_ping` | contexts on callers' stacks |
| GNSS and cellular status (modem_driver) | status records | NMEA and +CEREG handlers, data toggle | table of handlers, events, the system clock, which a GNSS fix sets |
| boot, Wi-Fi and network (main) | `NET_READY_BIT`, LED, last attachment, the station | start order, Wi-Fi, IP and network handlers, NTP | default event loop |
| call notification | none | +CLIP to push queue | event loop, push queue |
| log service | queue, readiness flag, cached address and socket | vprintf hook, syslog task | all tasks, the web page, Wi-Fi events |
| scheduled tasks (cron_tasker, config_manager, web_server) | tasks in `g_app_config`, the saved copy in NVS, action queue | minute loop, save, edit, action | shared configuration, the system clock |
| eSIM manager | list of profiles, logical channel on the card | detect, list, switch, disable, delete over an APDU exchange | AT commands |
| web server | sessions, OTA in progress | pages and API | everything |
| BLE provisioning, vendored components | - | compiled out / third party | - |

What is hard in it:

- **A slot number is not an SMS.** The modem reuses the number of a deleted SMS. The number is queued, put in the
  reassembly buffer, carried by a text to the push task and deleted there, long after it was read.
- **Several sources for the same SMS.** The URC, the ten-minute retry, and the retry of a restart may all queue it.
- **Loss everywhere, by design.** URCs are flushed with the UART or dropped by a full event loop, three queues drop
  when full, slots are evicted, pushes fail. Only the store and the retry make it good.
- **One UART, many callers.** A command and its answer are matched by "the mutex is mine and the bits were cleared";
  the event task reads the shared buffer without the mutex; sending an SMS releases the mutex between its steps.
- **Pointers to stacks.** The response buffer and the context of a ping live on the stack of a call that may time out.
- **Two writers of one configuration** and restarts between a change, its effect and its save.
- **Two masters of one clock.** SNTP sets it to UTC; the NMEA handler takes UTC through `mktime`, which under `CST-8`
  is eight hours less. Schedules are computed from what it reads at the moment.
- **One event loop for everything.** Modem, Wi-Fi and IP events share one queue; a handler of the loop waits up to
  twenty seconds for the time server, and what is posted meanwhile may be dropped.
- **Texts are cut at every stage.** Copy, escape, URL, payload and placeholders have buffers of their own lengths,
  and the answer of a server says nothing of how much of a text it got.
- **Bits across bytes.** A PDU holds semi-octets, seven-bit characters and headers that shift the text.

What makes each component correct:

- pipeline: a stored SMS is deleted only after a channel accepted it; it is forwarded at most once without the retry
  and eventually with it; parts do not stay in the buffer; a long SMS has one slot;
- PDU decoder: what the standard encodes is decoded to its sender, time, header and text, within the arrays;
- push service: texts in order, every enabled channel asked, no copy after an answer, no slot deleted for a text that
  no channel got whole, every text worked off;
- network and log: LED and notice tell the registration, the log follows the link and the configured server, no
  socket is left, the station always tries again;
- AT engine: the pointer never outlives its call; a caller gets the answer to its own command, with its lines; every
  call returns; the modem is never left in the body of an SMS;
- URC table: compact, no dead context, no handler missed by a dispatch, a waiting ping is listed, pings return;
- scheduled tasks: nothing overdue, on time and a period apart by the clock, saved what is configured, single tasks once;
- eSIM: no channel stays open, and those that do (lost answers) lock nothing up; what is reported is what happened.

`PROJECT.json` lists the hazards at their lines and the properties that watch each.

## 2. Modules

| module | what | lines it models |
|---|---|---|
| `SmsForward`, `SmsForwardMC` | the SMS pipeline from the modem's store to the push task's deletion; instances | sms_processor.c, push_service.c (queue, task), modem_driver.c (SMS commands), cron_tasker.c (retry), main.c (network bit) |
| `SmsForward_proofs` | types; one slot per long SMS; slot numbers held once, nothing lost, nothing pushed twice, `Forwarding` implemented | |
| `Forwarding` | what the gateway promises about a stored SMS, without queues and tasks; `SmsForward` and `PushDelivery` implement it | abstract |
| `PduDecoder`, `Bytes` | `pdu_decode` and its helpers as operators on bytes | pdu_decoder.c |
| `SmsDeliver` | an encoder of SMS-DELIVER written from the standard, to compare with | external |
| `PduPath`, `PduPathMC`, `PduPath_proofs` | an SMS from the encoder through the decoder; the SMS that are tried; its three properties for every SMS | sms_processor.c (the call) |
| `PushFormat` | how much of a text each type of channel carries | push_service.c 180-305, 380-481 |
| `PushDelivery`, `PushDeliveryMC`, `PushDelivery_proofs` | push queue, push task, HTTP attempts, the page's save; instances; all its safety properties | push_service.c 308-380, 494-653; http_utils.c 35-136; web_server.c 495-512 |
| `NetEvents` | event loop, URC posts, station, handlers, order of the boot | main.c, modem_driver.c 272-357, call_processor.c |
| `LogForward` | log queue, worker, cache, save | log_service.c, web_server.c 474-479 |
| `NetLog`, `NetLogMC`, `NetLog_proofs` | both composed over the readiness flag; an instance; all safety properties | |
| `ModemAT`, `ModemATMC`, `ModemAT_proofs` | the AT channel; instances; types, ownership of the buffer, answers | modem_driver.c 360-480, 565-587, 730-753 |
| `UrcRegistry`, `UrcRegistry_proofs` | handler table and ping; all its invariants | modem_driver.c 57-82, 322-356, 515-690 |
| `CronTasker`, `CronTasker_proofs` | scheduled tasks and the clock they go by; all its safety properties | cron_tasker.c, web_server.c 515-549, config_manager.c 40-99, modem_driver.c 224-268, main.c 83-107 |
| `Esim`, `Esim_proofs` | the eSIM operations and the card; all its invariants | esim_manager.c 24-44, 142-183, 215-618, 622-634, 669-788; web_server.c 1196-1260 |

### SmsForward

An SMS is the name of its content; `Header` gives its sender, reference, part and total. A step that waits for the
modem or the network is an action of its own; the code between two such points touches only its own task's data and
is one action.

| state | code |
|---|---|
| `store`, `textMode` | the modem's message store and AT+CMGF |
| `urcs` | +CMTI and +CMT events in the default event loop |
| `smsq`, `pushq` | `sms_event_queue`, `s_push_queue` |
| `spc`, `evt`, `pdu`, `scanAt` | `sms_processor_task` and its locals |
| `concat` | `concat_buffer`; `age` counts model ticks up to the timeout |
| `ppc`, `pmsg` | `push_service_task` and its message; `del` is `sms_indices_to_delete` |
| `delivered` | history: SMS whose text a channel accepted |
| `net`, `clockSet` | "boot" until `NET_READY_BIT`; the time check of the push task |
| `todo` | slots the retry has listed and not queued yet |
| `web` | a task is inside `modem_send_sms_text` |

`Receive`, `ReadOk`, `ReadFail`, `DecodeFails`, `Intercept`, `ForwardSingle`, `CollectPart`, `DeleteUnwanted`,
`ScanSlot` and `ScanEnd` are the loop of the SMS task in its order, with the `continue` after a blacklisted SMS that
skips the scan. `PushGate` to `PushDone` are the loop of the push task. `RetryList` and `RetryEnqueue` are the retry.
`Restart` loses all but the store. `LoseUrc` loses a URC.

`Forwarding` has three actions: an SMS arrives, a set of SMS not forwarded before is forwarded, a forwarded or
unwanted one is discarded. The mapping is `taken <- arrived`, `kept <- Stored`, `forwarded <- delivered`.

### PduDecoder, PduPath

Bytes and digits are numbers, a PDU is a sequence of digits, and every helper of pdu_decoder.c is an operator of its
name. Loops over a buffer are written as the sequence they produce, cut where the loop stops for want of room.
`SmsDeliver` is written from the standard (3GPP TS 23.040, 23.038), not from the code: comparing the decoder with it is
what makes `FieldsDecoded` and `PlainTextDecoded` more than the decoder's own opinion. `PduPath` has two steps, an SMS
arriving and being decoded, so that each SMS of `MCSms` is a behaviour.

### PushFormat, PushDelivery

A text is three numbers: its bytes, and by how much JSON and URL encoding lengthen a byte. `PushFormat` follows a text
through the copy into the queue (511 bytes), the escape buffers, the frame of each type of channel and the
placeholders of a custom body, and says how many of its bytes the request holds (`Carried`).

| state | code |
|---|---|
| `queue`, `pc`, `cur`, `ch`, `attempt`, `ok`, `del` | `s_push_queue`; `push_service_task`, its message, `any_success`; `http_util_request` |
| `req` | the channel as `send_to_single_channel` read it |
| `channels`, `save` | `g_app_config.pushChannels`; `handleSave` between its writes of one channel |
| `held` | slots of a text the modem still holds |
| `log`, `answered` | history: what each server took, and which requests were answered with 2xx |
| `steady`, `asked` | history: channels enabled since the text was taken; channels asked |

`Select` and `Form` are apart because AT commands that refresh the network data come between them, and the page may
save then. A server may take a text and its answer be lost (`AnswerLost`): the next attempt is a copy. `handleSave` has
the priority of the push task, so time slicing may put the task between any two of its writes.
`Forwarding` is implemented under `taken <- 1..Len(issued)`, `kept` the texts with slots of which none was deleted,
`forwarded` the texts with an answer.

### NetEvents, LogForward, NetLog

The loop's task has priority over `modem_event_task` and `app_main`; these run while it waits (`LoopWaits`), the driver
of the station at any time. A URC sets the status, then is posted (`Post`), or dropped after ten milliseconds of a
full queue (`PostTimeout`). `HandleNet` reads the status of the moment, not of the event. `HandleIp` blocks the loop in
`ntp_time_init` until `NtpEnds`. `missed` and `untold` remember that a report or a notice was dropped.
In `LogForward` the worker's steps are the ones between which `handleSave`, of higher priority, may come in. An
address is the name of the server it was looked up for, by number or by name. `hosts` are the servers configured since the
worker took its line; `torn` remembers that the page saved after the last lookup and before `OpenSocket` copied the name
of that moment into the cache, which `socket()` in between gives it time for.

### ModemAT

Lines, bits and pending answers carry the task whose newest write they answer. The C code has no such label; it is
what makes "its own answer" a statement. The event task runs at a higher priority than all callers on the one core,
so the handling of one line is one action, and it may come between any two steps of a caller. The stores of pointer,
size and fill are steps of their own (`SetBuf`, `SetMax`, `SetCur`). `Late` says whether an answer may come after
its timeout. `StartSms` to `SmsFinal` are `modem_send_sms_text`, with its two calls of `modem_send_at_command`
(CMGF=1, CMGF=0) as ordinary calls with a return label (`call`).

### UrcRegistry

An entry is its context. A registration or removal holds the mutex without blocking and is one action; the dispatch
holds it over several (`Begin`, `CallHandler`, `End`), because a handler is a call. `own` counts those replies that
were to this ping.

### CronTasker

Time is in minutes. `now` is the system clock and `lag` how far it is behind UTC. It is set by `SntpSync` (to UTC) and by
`GnssFix`, which takes UTC for local time and so sets it back by the zone that `SetZone`, in `ntp_time_init`, has set, or
not yet. Both may come at any step, again and again, and a `Restart` forgets the zone and perhaps the time. The worker
starts a minute later, or misses one (`Wake`); a minute may also pass in its loop (`Tick`). Its pause between two
retries of stored SMS is measured by the same clock: set back, it lasts until the clock has caught up.

One iteration of its loop is `Skip`, `Schedule`, or `Fire` followed by `Reschedule`, between which the web page may come
in. `Edit` is what `handleSave` writes for a task of `Editable`: everything but `nextRunEpoch`. `Restart` brings back
what was saved. History: `low` is the least the clock has read since the worker woke; `moved` and `jumped` remember that
the clock has been set since it last looked, or had been when it did; `tz` of a task is the zone its next run was
computed in; `ran` is when each unedited task was last started, as long as the clock was left alone.

### Esim

The HTTP server runs one operation at a time, and `pc` is where it is: `open` to `alt` in `open_channel`, `apdu` and
`chain` in `es10x_command`, `close`, and `parse` where the answer is read and `RetryBusy` or `Return` follows. `open`,
`enabled`, `present` belong to the card, which is modelled from how the code uses it (external in the map): it
finds a profile by ICCID or AID, refuses with a code, and may be busy. Every answer may be lost (`Lost`), with
the command executed or not; `heard` remembers whether the current operation lost one, `leaked` the channels this
left open, `before` the card at its start. An answer is a tag and a code in as many units as it takes to fetch. A refused
enabling or disabling has its code in a tag of `RefusalTags`: 80, as SGP.22 has it and as the code reads it for deletion, or
81. `misread` remembers that the code was in 80 and not zero when the operation took the answer for success.

## 3. Runs

Runs that pass:

| run | what it shows | bounds |
|---|---|---|
| `forward_once` | without retry: types, nothing deleted unpushed, slot numbers held once, nothing pushed twice, and `Forwarding` implemented | a two-part SMS, an undecodable, a blacklisted and a single one (of the administrator, who is on the blacklist); 2 slots; queues of 1; 1 reassembly slot, for one long SMS, so nothing is evicted; 1 restart |
| `forward_collisions` | parts of two senders with the same reference, one delivered directly, a web page sending SMS: one reassembly slot each | 3 SMS, 2 slots, 2 reassembly slots |
| `forward_live` | with the retry, lost URCs, a restart and an eviction: stored SMS are forwarded and parts leave the buffer | 2 parts of different SMS, 1 slot, 1 reassembly slot for both, so that one evicts the other; 1 restart |
| `pdu_decode` | sender, time and header of an SMS are decoded, its text where the alphabet lets it, and nothing overruns its array | some 500 SMS: numbers of 0 to 20 digits, service centres, blanks between digits, 8 headers, all texts up to 4 characters and the lengths around a seven-bit octet boundary, the longest SMS of both alphabets; arrays of the code's own size |
| `push_delivery` | slots are deleted only for a text a server has answered for whole; order, no copy after an answer, no channel skipped, every text worked off; `Forwarding` implemented | 2 texts of 366 bytes and 2 slots each, queue of 1, 2 channels of 5 types, 2 attempts, 1 save |
| `net_log` | LED and notice tell the registration; the log follows the link, and its lines go to the configured port and server, for the server but for a save between lookup and caching; no socket left; the station always tries again | event queue of 2, 2 URCs, 1 loss of the link, 3 servers (one of them none), 2 sockets, 1 save |
| `at_calls` | ownership of the pointer and return of every call, on a modem that answers late or never | 2 callers, one sending SMS; buffers of 1 line; 1 line in the UART, 1 pending command |
| `at_answers` | own and complete answers, if none is late and nobody sends SMS | 2 callers, buffers of 4 lines, 3 lines in the UART, 2 pending commands |
| `cron_schedule` | types, nothing overdue, saved is configured whenever nobody is about to save, runs on time and a period, or a period and one day, apart by the clock | 2 tasks at the first or last minute of the day, with periods 0 and 2, one of them edited at any step; days of 4 minutes; a zone of 2; retry every minute; the first setting of clock and zone, and 1 restart or further setting, at any step; 22 minutes of UTC |
| `urc_table` | no dead context, waiting pings listed, no handler missed by a dispatch, and pings return | 2 handlers of the boot, 2 pings, 4 entries, 2 replies needed |
| `esim_channel` | no channel left open, none that locks the eSIM up; failure as reported, and success but for refusals in tag 80; every request ends | 2 profiles, one found by AID only; 2 channels, 3 closed to make room; 2 AIDs of the ISD-R; refusals in tag 80 or 81; 2 lost answers; lists of 2 units |

The bounds are small where the code's own numbers only repeat a case. A queue of one is full, empty and refuses; one
reassembly slot is free, matched and evicted; a day of four minutes has a first, a last and inner minutes, the
worker's delay spans its end, and half of it is the zone by which the clock jumps back and forward. Two SMS for one slot number is the reuse of a number, two callers are every
interleaving of the mutex. Two channels are full after two lost answers, which makes the cleanup necessary. Two
attempts are a retry and a giving up, two channels a success before or after a failure, and one save already falls
between any two steps of the push task. An event queue of two is full while the time server is waited for.

`CHECK_DEADLOCK FALSE` is set where an instance really stops: the clock of `CronTasker` at `MaxTime`, `PduPath` with its
SMS decoded, `PushDelivery` and `NetLog` when the bounded texts, saves, URCs and losses are used up.

The run in which the code disagrees with what it says of itself (a finding in `PROJECT.json`):

| run | what happens |
|---|---|
| `stale_index` | The retry queues a slot that is already in the pipeline. Both copies are pushed; the first acknowledgement frees the slot, a new SMS takes it, the second deletes the new SMS unpushed. |

More configurations stand beside the models and show further counterexamples; they are not among the runs. TLC
refutes in each the property it names:

| configuration | property | what happens |
|---|---|---|
| `SmsForwardTextMode.cfg` | `OnlyUndecodableDeleted` | While the web page sends an SMS the modem is in text mode. An SMS read then does not decode and is deleted as garbage (sms_processor.c:258). |
| the same, with the property replaced | `PduModeRestored` | The result of the final AT+CMGF=0 is dropped (modem_driver.c:752); modem_driver.h:200 promises PDU mode. |
| `SmsForwardOffline.cfg` | `NoTakeWhileOffline` | `NET_READY_BIT` is never cleared; push_service.c:513-515 relies on it to notice a lost network. |
| `PduPathText.cfg` | `TextDecoded` | After a header of six octets the seven-bit text begins behind a fill bit, which is not skipped (pdu_decoder.c:271); GSM characters that are not ASCII and pairs of UTF-16 units are not decoded. |
| `PduPathCut.cfg` | `CutPduRefused` | A PDU without its last digits is decoded as far as it goes, and its slot deleted. |
| `PushDeliveryCut.cfg` | `DeletedWasReceivedWhole` | A text of more than 511 bytes is cut on its way into the queue; its slots are deleted all the same. With `MCLong` and `MCServerChan` 450 bytes are cut by a ServerChan; with `MCLong` and `MCGet` a GET asks for the bare URL; with `MCQuotes` and `MCCustom` a custom body is emptied by `str_replace_inplace`. |
| `PushDeliveryTorn.cfg` | `RequestsMatchSettings` | A request has the type of one setting and the URL of another: the page saves field by field. |
| `NetLogMissed.cfg` | `StatusAlwaysShown` | A registration reported before main.c:485, or into a full queue, is shown and pushed only with the next change. |
| `NetLogSave.cfg` | `LinesAlwaysReachConfigured` | The page saves while the worker is in `getaddrinfo` or `socket()`, or is preempted between `inet_pton` and `strncpy`: `server` points into `g_app_config`, so the old address is cached under the new name (log_service.c:217) and all later lines go to the old server. |
| `ModemATLate.cfg` | `OwnAnswer` | An OK that comes after its timeout ends the next command, perhaps of another task. |
| `ModemATTorn.cfg` | `BufferFits` | A line between the stores of pointer and size is copied by the previous caller's size. |
| `ModemATStuck.cfg` | `PromptEnds` | Another task's command clears the PROMPT bit before the sender waits for it. The sender gives up without Ctrl-Z and the modem takes all later commands as the text of the SMS. |
| `ModemATSmsResult.cfg` | `SmsConfirmed` | The OK of another task's command is taken for the modem's answer to an SMS. |
| `CronTaskerEdit.cfg` | `EditedRunsOnTime` | An edited task runs once more at its old time: `nextRunEpoch` is not reset. |
| `CronTaskerSingle.cfg` | `SingleRunsOnce` | A restart between a single task's action and the save runs it again. |
| `CronTaskerLocal.cfg` | `RunsInLocalTime` | A GNSS fix after the zone has been set takes UTC for local time (modem_driver.c:255): the clock is eight hours late until SNTP sets it again, and so are the tasks. |
| `CronTaskerMidnight.cfg` | `RunsEveryIntervalExactly` | A daily task of the last minute of a day starts after midnight and its next run is counted from the new day (cron_tasker.c:172): it runs every second day. |
| `UrcRegistryCount.cfg` | `CountsOwnReplies` | Two pings, or a late reply of an earlier one, are counted for each other. |
| `EsimBusy.cfg` | `SuccessMeansDone` | Tag 80 in the answer to enabling or disabling counts as success whatever its value (esim_manager.c:539), while deletion reads the result code in that tag (line 584). On a card that answers refusals this way too, as SGP.22 has it, a busy card is reported as switched and the fallbacks of line 767 are never tried. |

A divergence that needs no model: esim_manager.h:108 and web_server.c:1252 expect `ESP_ERR_ESIM_CAT_BUSY` of
`esim_manager_switch_profile`, which returns `ESP_FAIL` when the card stays busy (esim_manager.c:617).

## 4. Assumptions and fairness

- The event task is not preempted by callers (priority 6, one core); handlers of the default event loop run one at
  a time. The HTTP server runs one request at a time.
- `urc_handler_mutex` is never waited for 100 ms: no holder blocks.
- NVS writes succeed; a save is atomic. The clock is off by nothing or by the zone: a GNSS fix and SNTP have the right
  UTC, and drift is not modelled. A restart takes less than a day.
- The modem answers commands in the order it gets them, with at most one text line before the final one. A command
  may be lost (`ModemSilent`).
- A server that answers 2xx has taken the request, whatever is in it.
- The time server is waited for once, twenty seconds at most; the station's driver waits for room in the event queue.
- A push text has at most `MAX_CONCAT_PARTS` parts. What the timeout scan reads when an SMS announces more is not
  modelled.
- The modem reports a refused AT+CCHO as `+CME ERROR`; on a plain `ERROR` `open_channel` does not make room. A card
  that answers a command at all has executed or refused it; GET RESPONSE fails only when the answer is lost.

Fairness, used by the liveness properties only:

- `SmsForward`: every task is scheduled (weak fairness of each of its steps). A command or push that is tried again
  and again succeeds again and again (strong fairness of `ReadOk`, `DeleteUnwanted(TRUE)`, `PushOk`, `PushDelete`),
  and the network finally stays up. Without that nothing could be promised. Nothing is assumed of URCs, of queues
  being free, or of restarts beyond their bound; no fairness of the modem's arrivals. `StoredIsForwarded` is checked
  without text mode, as a modem left in text mode (`PduModeRestored`) answers the retry's listing with errors for good.
- `ModemAT`: the steps of a call (its waits have timeouts) and `ReadLine`. Nothing of a modem that may be late, so
  `CallsReturn` holds whatever the modem does. If no answer is late the modem must answer.
- `UrcRegistry`: waits end by timeout, the dispatch goes on, and the mutex is given to a task that asks for it again
  and again (strong; FreeRTOS hands a mutex to its waiter of highest priority). Replies may all be lost.
- `PushDelivery`: the task is scheduled, an attempt ends by an answer or a timeout, and the network comes up once (weak
  fairness of `Task` and `NetReady`). Nothing of servers, so `PushesEnd` holds if none ever answers.
- `NetLog`: the loop's task goes on, as its handlers end, the wait for the time server included (weak fairness of
  `LoopTask`). Nothing of the modem, the page or the worker; of the station only that it posts what happens to it.
- `Esim`: an operation goes on, as each of its commands has a timeout. Nothing of the page, or of answers arriving.

## 5. Proofs

Every theorem holds for all values of the constants that satisfy the module's assumption; the configurations of TLC
evaluate that assumption on each instance.

- `SmsForward_proofs!TypeCorrect`: types and queue capacities. The type invariant is inductive; one lemma per group
  of actions. `!OneSlot` is inductive beside it: only the lookup gives out a slot, and it prefers the one of the same key.
- `SmsForward_proofs!HeldOnce`, `!NothingLost`: assumes no retry, no text mode, and slots counted from 1 (`Quiet`). No
  retry is a build without the cron tasker, which is the default of Kconfig (`ENABLE_CRON_TASKER`); the committed sdkconfig
  has it, so for that build these theorems say what holds apart from what the retry breaks (`stale_index`).
  Nothing in `DeletedWasPushed` is inductive: that the push task may delete slot *s* depends on *s* still holding the
  SMS whose text was accepted. The invariant therefore adds: a slot number is held by at most one stage (URCs,
  event queue, SMS task, buffer, push queue, push task), only while occupied (`IndexHeldOnce`), and its holder knows
  which SMS it is. A step hands a number from one stage to the next or drops it; a deletion is by its only holder,
  so nobody is left with the number when the modem reuses it. With the retry the first link breaks, which is what
  `stale_index` shows. Restarts are included: they empty every stage and keep the store.
- `SmsForward_proofs!PushedOnce`, `!Forwards`, also `Quiet`. That what is about to be sent was never accepted
  says nothing of the texts behind it, so the invariant (`Once`) is about every carrier of an SMS: no two events,
  parts or texts carry the same SMS, none carries one that was delivered (`CarriedNew`), and no two occupied slots
  contain the same one. With that a step of the pipeline maps to arrival, forwarding or removal in `Forwarding`, or
  changes none of its three variables.
- `ModemAT_proofs!TypeCorrect`, `!PointerOwned`: for any number of callers, any modem, with SMS being sent.
  Strengthened by: a task is inside a call iff it holds the mutex, and the pointer is null or that of the task
  inside, which has set it already. `!AnswerIsOwn`, `!AnswerWhole`: no late answers, nobody sends SMS (`Punctual`; `ModemATLate.cfg`
  shows that without it they fail). The invariant (`Orderly`) says what may be under way at each step of a call:
  between calls the modem owes nothing, the UART holds only URCs and no flag is set; during a call there is at most
  one answer, its own, split between modem, UART, buffer and flags in that order.
- `UrcRegistry_proofs`: `StaysCompact`, `NoDangling`, `Listening`, `Dispatched` from one invariant of the table (compact,
  entries distinct, only live contexts, waiting pings listed) and one of the walk (what the dispatch has called is
  what stands before its position; the mutex keeps the table unchanged but for entries appended by nobody). The
  lemmas on `Removed` say that moving entries up keeps order, distinctness and all others.
- `CronTasker_proofs!Saved`: strengthened by "the worker has changed something only if `dirty`" and "the two copies
  differ only if the worker is dirty or the web page is about to save". `!NothingOverdue` (for tasks nobody edits): an
  invariant of the loop (all tasks before position `job` have a next run not before the least the clock has read, `low`) and
  the lemma `NextRunDay`: what `calculate_next_run_epoch` returns is at the given time of a day the given number of days
  from now, or of tomorrow, and after now. `!OnTimeAlways`: next runs stay at the configured time of the local day of their
  zone, and as long as the clock is left alone the worker is at most two minutes behind the next one. `!EveryInterval`: the
  day of the next run is that of the last one plus the period, or the day after that. All three hold wherever the clock
  is set, and by whom: the invariant says what the worker knows of the time at each step (`LookInv`), and for the rest only
  what a jump leaves true.
- `Esim_proofs`: `!ChannelsClosed` from "only leaked channels are open, and inside the exchange the operation's own
  too". `!Reopens` from an invariant of the loops under the assumption that every answer so far was heard: the
  channels closed are free, then all are, so a refused AID is not the ISD-R's, and the last one cannot be refused.
  `!Truthful` (`SuccessUnlessMisread`, for any tags of refusals) and `!FailedInVain`: an answer, once there, is that of the command the card executed,
  and until then the card is as before; the fallbacks start only from a refusal that was read.
- `PushDelivery_proofs`: one invariant in nine parts, each with its step lemma. `!TypeCorrect`; `!InOrder`: queued texts are younger
  than the current one and servers have none younger than it. `!NoCopies`: an answer for the current text comes from a
  channel the task has left behind. `!NoneSkipped`: channels behind the task that stayed enabled have been asked, saves
  included. `!Forwards`: `any_success` stands for an answer, so a deletion maps to `Discard` of a forwarded SMS.
  `!WholeReceived`: every request the task makes is the whole of what its channel's format makes of the text, and no buffer
  on the way cuts a short text; it assumes that URLs fit their field and custom templates leave room (`RoomForText`).
- `NetLog_proofs`: `!TypeCorrect`; `!StatusIsShown` from "once heard, LED and `s_last_attached` agree with the status"; `!LogFollows` from
  what the events still queued say of the station (at most one of each kind, in the order it lived through them);
  `!NoSocketLeaks` and `!LinesArrive` from the worker's step: an address in use is of a server in `hosts`,
  or a save has come between its lookup and its caching; nothing is assumed of when the page saves.

- `PduPath_proofs`: the decoder for every SMS in place of the thousand the run tries. Assumed are the sizes of the arrays as
  relations between them (`BufAssumption`: the code's 256 bytes, 19 digits with the zero behind them, and 480 satisfy it) and that every SMS is one a network
  delivers (`Deliverable`: addresses of legal length, user data of at most 140 bytes and their length, elements as long as their
  kind, characters of the alphabet). The invariant says that `out` is nothing yet or what `pdu_decode` makes of the line,
  so the work is in lemmas about the two sides.
  `!OutputFitsAlways` needs nothing of the SMS: every index and length the decoder reads is a byte, whatever the line holds,
  and the lengths of what it writes are bounded by it.
  `!FieldsDecodedAlways`: two digits a byte are put together again (`ShownBytes`); the fields of the PDU stand one behind the
  other (`PduParts`) and the decoder finds each at its index (`PartsRead`); halves swapped twice are in order, without the
  filler (`JoinedDigits`); the walk over the header starts every element where the one before it ends (`StartStep`) and stops at
  the first of the two kinds.
  `!PlainTextDecodedAlways`: the UTF-8 of each unit, and for septets that the eight bits the encoder packs into a byte are
  those the decoder shifts out of it or of the pair it straddles (`OctetOfBits`, `TwoPacked`), and that a byte of zero, at which
  the C string would end, never comes.
  What concatenations and walks compute is induction over data. It is done here without induction theorems, whose
  operator parameters no installed prover can instantiate: the set of numbers for which the claim fails, if not empty, has a
  least element (`LeastOf`, from the well-foundedness of `<` on the naturals), and the step refutes that one (`UpTo`).

Model-checked only: liveness, which is out of the prover's reach. The invariants above were checked by TLC on the
instances of the runs before they were proved.

## 6. Not modelled

- **UART bytes** (modem_driver.c 360-440): `ModemAT` begins with lines. Flushes that leave UART events behind and partial
  lines kept after an overflow are below it.
- **Web server**: pages, sessions and OTA. Its handlers run one at a time and appear as actors wherever they touch
  another component; what is left is text, and state nobody else reads.
- **GNSS**: the parsing of NMEA sentences and the position, which only pages read; that they set the clock is in
  `CronTasker`. **Data toggle**: a flag. **`modem_at_worker`**: its queue has no caller.
- **Senders by name**: the SMS of `SmsDeliver` come from telephone numbers. The decoder reads a name (type of address 208,
  seven-bit text) as digits, so `FieldsDecoded` would fail for one; nothing is deleted or kept by it but through the
  blacklist.
- **A deletion that fails midway** is modelled (`PushDelete`), but no property tells it from one that succeeds.
- **eSIM bytes**: TLV, BCD and AID, and reading the EID. **Signature of DingTalk**, words of requests and log lines.
- **Boot**: the AT commands and their fifteen attempts.
- **BLE provisioning** is compiled out (`CONFIG_PROVISION_METHOD_HARDCODED`). **Vendored components** (cJSON, network
  provisioning, generated protobuf code, sock_utils) are third-party code; they are more than half of the lines of the
  repository, so the share of lines the map covers stays small although the program's own files are covered widely.

Next: UART bytes and events below `ModemAT`; the bytes of `Esim` (ICCIDs of 20 digits, which
`bcd_to_iccid` cuts to 19).

## 7. Running

    tlc -config SmsForwardOnce.cfg SmsForwardMC.tla
    tlapm SmsForward_proofs.tla

`PROJECT.json` lists every run with its module, configuration and properties, and for each property a mutant of
the code (an operator next to the one it replaces, marked "Mutant") that TLC finds to violate it.

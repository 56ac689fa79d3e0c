----------------------------- MODULE CronTasker -----------------------------
(***************************************************************************)
(* The scheduled tasks of cron_tasker.c: the worker that wakes every       *)
(* minute, starts the tasks that are due, computes their next run and      *)
(* saves the configuration; the web page that edits the same configuration *)
(* (handleSave of web_server.c) and saves it too (config_manager.c); and   *)
(* restarts, which keep what was saved last.                               *)
(*                                                                         *)
(* Time is counted in minutes, which is what hour, minute and the worker's *)
(* delay distinguish.  The clock is set by SNTP and by the NMEA sentences  *)
(* of a module with GNSS, at any moment (main.c, modem_driver.c), and only *)
(* the former sets it right.  handleSave runs at a higher priority than    *)
(* the worker and does not block until it saves: its writes to the         *)
(* configuration are one step, which may come between two of the worker's. *)
(***************************************************************************)
EXTENDS Integers

CONSTANTS
  N,            \* MAX_CRON_TASKS
  DayLen,       \* minutes of a day
  Zone,         \* minutes local time is ahead of UTC (CST-8: eight hours)
  Times,        \* times of day a task may be configured for
  Intervals,    \* values of daysInterval
  RetryPeriod,  \* minutes between two retries of stored SMS
  QueueCap,     \* length of cron_action_queue
  Editable,     \* the tasks the web page may edit
  EditTimes,    \* what the page may change the time of day to
  EditIntervals, \* and daysInterval
  MaxUpsets,    \* bound on the restarts and the settings of the clock
  MaxTime       \* bound on the time explored

ASSUME ConstantsAssumption ==
  /\ {N, DayLen, RetryPeriod, QueueCap} \subseteq Nat \ {0}
  /\ DayLen > 2 /\ Zone \in 0..(DayLen - 1)
  /\ Times \subseteq 0..(DayLen - 1) /\ Intervals \subseteq Nat
  /\ Editable \subseteq 1..N /\ EditTimes \subseteq Times
  /\ EditIntervals \subseteq Intervals
  /\ {MaxUpsets, MaxTime} \subseteq Nat

VARIABLES
  now,        \* the system clock, as UTC; while it is not set, what it would be
  lag,        \* how far it is behind UTC: 0, or Zone after a GNSS fix
  zone,       \* TZ: 0 until ntp_time_init sets it
  synced,     \* the clock has been set
  cfg,        \* g_app_config.cronTasks
  nvs,        \* the tasks as they were last saved
  wpc, job,   \* cron_worker_task: where it is, and its i
  seen,       \* its now, read when it wakes
  dirty,      \* config_updated
  lastRetry,  \* last_sms_retry_time
  queued,     \* how many actions are in cron_action_queue
  web,        \* handleSave has changed the tasks and not saved them yet
  ticked,     \* a minute has passed since the worker woke
  low,        \* history: the least the clock has read in the worker's loop
  moved,      \* history: the clock has been set since the worker last read it
  jumped,     \* history: it had been when the worker last read it
  ran,        \* history: when each unedited task was last started, 0 if the clock or
              \* the zone was set around that start, or the device restarted since
  upsets      \* restarts and settings of the clock so far

clockVars  == <<now, lag, zone, synced>>
workerVars == <<wpc, job, seen, dirty, lastRetry>>
lookVars   == <<ticked, low, moved, jumped>>
taskVars   == <<cfg, nvs>>
vars == <<clockVars, taskVars, workerVars, queued, web, lookVars, ran, upsets>>

Jobs == 1..N
\* cron_task_t; tz is history: the zone next was computed in.
Task == [on : BOOLEAN, tod : Times, every : Intervals, next : Nat, tz : {0, Zone}]

Day(t) == t \div DayLen
TimeOfDay(t) == t % DayLen

\* The tasks nobody edits, whatever is done to the others.
Unedited == Jobs \ Editable

-----------------------------------------------------------------------------
(* The clock, read by the worker and set by two others. *)

\* A start during which the clock or the zone is set does not count.
Disturb == ran' = IF wpc = "fired" THEN [ran EXCEPT ![job] = 0] ELSE ran

\* The clock is set to be `behind` minutes behind UTC.
SetClock(behind) ==
  /\ IF synced THEN upsets < MaxUpsets /\ upsets' = upsets + 1 /\ lag # behind
     ELSE UNCHANGED upsets
  /\ lag' = behind /\ now' = now + lag - behind /\ synced' = TRUE
  /\ moved' = TRUE
  /\ low' = IF wpc # "sleep" /\ now + lag - behind < low THEN now + lag - behind ELSE low
  /\ Disturb
  /\ UNCHANGED <<zone, taskVars, workerVars, queued, web, ticked, jumped>>

\* gnss_urc_handler: UTC goes through mktime, which takes it for local time.
GnssFix == SetClock(zone)

\* SNTP, which ntp_time_init starts after it has set the zone.
SntpSync == zone = Zone /\ SetClock(0)

SetZone ==
  /\ zone # Zone /\ zone' = Zone
  /\ Disturb
  /\ UNCHANGED <<now, lag, synced, taskVars, workerVars, queued, web, lookVars, upsets>>

\* A minute may pass while the worker is in its loop, which takes less.
Tick ==
  /\ wpc # "sleep" /\ ~ticked /\ now + lag < MaxTime
  /\ now' = now + 1 /\ ticked' = TRUE
  /\ UNCHANGED <<lag, zone, synced, taskVars, workerVars, queued, web, low, moved,
                 jumped, ran, upsets>>

-----------------------------------------------------------------------------
(* cron_worker_task. *)

\* calculate_next_run_epoch: that time of the local day `days` from now, or of
\* tomorrow when today's has passed.
NextRun(tod, days) ==
  LET target == (Day(now + zone) + days) * DayLen + tod - zone
  IN  IF days = 0 /\ target <= now THEN target + DayLen ELSE target

Retry ==
  lastRetry' = IF lastRetry = 0 \/ now' - lastRetry >= RetryPeriod
               THEN now' ELSE lastRetry

\* A minute later the worker looks at the clock; with the time its loop takes
\* it may miss a minute.
Wake ==
  /\ wpc = "sleep" /\ now + lag + 2 <= MaxTime
  /\ now' = now + 1 \/ (~ticked /\ now' = now + 2)
  /\ ticked' = FALSE
  /\ IF synced
     THEN /\ Retry /\ wpc' = "jobs" /\ job' = 1
          /\ seen' = now' /\ low' = now' /\ jumped' = moved /\ moved' = FALSE
     ELSE UNCHANGED <<lastRetry, wpc, job, seen, low, jumped, moved>>
  /\ UNCHANGED <<lag, zone, synced, taskVars, dirty, queued, web, ran, upsets>>

WorkerFrame == UNCHANGED <<clockVars, seen, lastRetry, web, lookVars, upsets>>

\* Mutant: a task is due two minutes after its time.
DueLate(c) == c.next # 0 /\ seen > c.next + 2

\* A due task waits until its minute has passed (now - nextRunEpoch < 60).
Due(c) == c.next # 0 /\ seen > c.next

Skip ==
  /\ wpc = "jobs" /\ job <= N
  /\ ~cfg[job].on \/ (cfg[job].next # 0 /\ ~Due(cfg[job]))
  /\ job' = job + 1
  /\ WorkerFrame /\ UNCHANGED <<taskVars, wpc, dirty, queued, ran>>

Scheduled(c, days) == [c EXCEPT !.next = NextRun(c.tod, days), !.tz = zone]

\* Mutant: the worker does not remember that it has changed the task.
ScheduleUnsaved ==
  /\ wpc = "jobs" /\ job <= N
  /\ cfg[job].on /\ cfg[job].next = 0
  /\ cfg' = [cfg EXCEPT ![job] = Scheduled(@, 0)]
  /\ job' = job + 1
  /\ WorkerFrame /\ UNCHANGED <<nvs, wpc, dirty, queued, ran>>

Schedule ==
  /\ wpc = "jobs" /\ job <= N
  /\ cfg[job].on /\ cfg[job].next = 0
  /\ cfg' = [cfg EXCEPT ![job] = Scheduled(@, 0)]
  /\ dirty' = TRUE
  /\ job' = job + 1
  /\ WorkerFrame /\ UNCHANGED <<nvs, wpc, queued, ran>>

\* Since the worker's look before this one, and in the zone of the task.
Undisturbed == job \in Unedited /\ ~jumped /\ ~moved /\ cfg[job].tz = zone

\* Mutant: the queue of actions takes any number of them.
FireUnbounded ==
  /\ wpc = "jobs" /\ job <= N
  /\ cfg[job].on /\ Due(cfg[job])
  /\ queued' = queued + 1
  /\ ran' = [ran EXCEPT ![job] = IF Undisturbed THEN seen ELSE 0]
  /\ wpc' = "fired"
  /\ WorkerFrame /\ UNCHANGED <<taskVars, job, dirty>>

\* A full queue drops the action; the task counts as run all the same.
Fire ==
  /\ wpc = "jobs" /\ job <= N
  /\ cfg[job].on /\ Due(cfg[job])
  /\ queued' = IF queued < QueueCap THEN queued + 1 ELSE queued
  /\ ran' = [ran EXCEPT ![job] = IF Undisturbed THEN seen ELSE 0]
  /\ wpc' = "fired"
  /\ WorkerFrame /\ UNCHANGED <<taskVars, job, dirty>>

\* Mutant: the day of this run counts as the first.
RescheduleEarly ==
  /\ wpc = "fired"
  /\ cfg' = [cfg EXCEPT ![job] = IF @.every > 0 THEN Scheduled(@, @.every - 1)
                                 ELSE [@ EXCEPT !.on = FALSE, !.next = 0]]
  /\ dirty' = TRUE
  /\ wpc' = "jobs" /\ job' = job + 1
  /\ WorkerFrame /\ UNCHANGED <<nvs, queued, ran>>

\* Counted from the day it is by now; a task without a period is switched off.
Reschedule ==
  /\ wpc = "fired"
  /\ cfg' = [cfg EXCEPT ![job] = IF @.every > 0 THEN Scheduled(@, @.every)
                                 ELSE [@ EXCEPT !.on = FALSE, !.next = 0]]
  /\ dirty' = TRUE
  /\ wpc' = "jobs" /\ job' = job + 1
  /\ WorkerFrame /\ UNCHANGED <<nvs, queued, ran>>

\* What the worker has read goes out of scope.
Sleep == wpc' = "sleep" /\ job' = 1 /\ seen' = 0 /\ jumped' = TRUE

\* The end of the loop, and config_save_all when a task has changed.
EndLoop ==
  /\ wpc = "jobs" /\ job > N
  /\ IF dirty THEN wpc' = "save" /\ UNCHANGED <<job, seen, jumped>> ELSE Sleep
  /\ UNCHANGED <<clockVars, taskVars, dirty, lastRetry, queued, web, ticked, low,
                 moved, ran, upsets>>

WorkerSave ==
  /\ wpc = "save"
  /\ nvs' = cfg
  /\ dirty' = FALSE /\ Sleep
  /\ UNCHANGED <<clockVars, cfg, lastRetry, queued, web, ticked, low, moved, ran,
                 upsets>>

-----------------------------------------------------------------------------
\* handleSave: what the page sends for a task replaces all but nextRunEpoch.
Edit(j, on, tod, every) ==
  /\ ~web
  /\ cfg' = [cfg EXCEPT ![j] = [@ EXCEPT !.on = on, !.tod = tod, !.every = every]]
  /\ web' = TRUE
  /\ UNCHANGED <<clockVars, nvs, workerVars, queued, lookVars, ran, upsets>>

WebSave ==
  /\ web /\ web' = FALSE
  /\ nvs' = cfg
  /\ UNCHANGED <<clockVars, cfg, workerVars, queued, lookVars, ran, upsets>>

-----------------------------------------------------------------------------
\* cron_action_task takes an action and runs the ping or sends the SMS.
TakeAction ==
  /\ queued > 0 /\ queued' = queued - 1
  /\ UNCHANGED <<clockVars, taskVars, workerVars, web, lookVars, ran, upsets>>

\* A restart, short or most of a day long.  The clock goes on through a reset,
\* and is lost without power; the zone is lost in any case.
Restart ==
  /\ upsets < MaxUpsets /\ upsets' = upsets + 1
  /\ synced' \in {FALSE, synced} /\ lag' = (IF synced' THEN lag ELSE 0) /\ zone' = 0
  /\ \E off \in {0, DayLen - 1} : now' = now + lag + off - lag'
  /\ cfg' = nvs
  /\ wpc' = "sleep" /\ job' = 1 /\ dirty' = FALSE /\ lastRetry' = 0
  /\ queued' = 0 /\ web' = FALSE
  /\ moved' = TRUE /\ ticked' = FALSE /\ ran' = [j \in Jobs |-> 0]
  /\ seen' = 0 /\ jumped' = TRUE /\ UNCHANGED <<nvs, low>>

-----------------------------------------------------------------------------
\* Any tasks as the page would save them for the first time.
Init ==
  /\ now = DayLen + Zone /\ lag = 0 /\ zone = 0 /\ synced = FALSE
  /\ cfg \in [Jobs -> [on : BOOLEAN, tod : Times, every : Intervals, next : {0}, tz : {0}]]
  /\ \A j \in Editable : cfg[j].tod \in EditTimes /\ cfg[j].every \in EditIntervals
  /\ nvs = cfg
  /\ wpc = "sleep" /\ job = 1 /\ seen = 0 /\ dirty = FALSE /\ lastRetry = 0
  /\ queued = 0 /\ web = FALSE
  /\ ticked = FALSE /\ low = 0 /\ moved = TRUE /\ jumped = TRUE
  /\ ran = [j \in Jobs |-> 0] /\ upsets = 0

ClockStep == GnssFix \/ SntpSync \/ SetZone \/ Tick
WorkerStep == \/ Wake \/ Skip \/ Schedule \/ Fire \/ Reschedule
              \/ EndLoop \/ WorkerSave
WebStep == \/ \E j \in Editable, on \in BOOLEAN, tod \in EditTimes, every \in EditIntervals :
                Edit(j, on, tod, every)
           \/ WebSave

Next == ClockStep \/ WorkerStep \/ WebStep \/ TakeAction \/ Restart

Spec == Init /\ [][Next]_vars

-----------------------------------------------------------------------------
(* Properties. *)

\* Every variable keeps its type.
TypeOK ==
  /\ now \in Nat /\ lag \in {0, Zone} /\ zone \in {0, Zone}
  /\ now + lag >= DayLen + Zone
  /\ {synced, dirty, web, ticked, moved, jumped} \subseteq BOOLEAN
  /\ cfg \in [Jobs -> Task] /\ nvs \in [Jobs -> Task]
  /\ wpc \in {"sleep", "jobs", "fired", "save"}
  /\ job \in 1..(N + 1) /\ (wpc = "fired" => job \in Jobs)
  /\ {seen, low, lastRetry} \subseteq Nat
  /\ queued \in 0..QueueCap
  /\ ran \in [Jobs -> Nat]
  /\ upsets \in 0..MaxUpsets

\* Task j is started.
Runs(j) == wpc' = "fired" /\ wpc # "fired" /\ job = j

OnTime(j) == \E late \in {1, 2} :
               TimeOfDay(seen + cfg[j].tz) = (cfg[j].tod + late) % DayLen

\* index.html:572: a task runs at the time of day configured for it, by the clock
\* the worker reads and in the zone its next run was computed in, within the two
\* minutes the worker may be late: over restarts and settings of the clock, but for
\* what the worker finds due when it looks for the first time after one of these.
RunsOnTime == [][\A j \in Unedited : Runs(j) /\ ~jumped => OnTime(j)]_vars

\* The same of the tasks that are edited.
EditedRunsOnTime == [][\A j \in Editable : Runs(j) /\ ~jumped => OnTime(j)]_vars

\* The same by the time of day it really is, rather than by the clock, once the
\* zone is set.
RunsInLocalTime ==
  [][\A j \in Unedited : Runs(j) /\ ~jumped /\ cfg[j].tz = Zone =>
       \E late \in {1, 2, 3} :
         TimeOfDay(now + lag + Zone) = (cfg[j].tod + late) % DayLen]_vars

\* By the clock, task j runs every `days` days, give or take the minute by which
\* one start may be later than another.
DaysApart(j, days) ==
  \E diff \in {-1, 0, 1} : seen = ran[j] + days * DayLen + diff

\* index.html:579: a task with a period of n days runs on every n-th day: never
\* earlier, and at most one day later, which is lost when the start of a task of
\* the last minutes of the day is rescheduled after midnight (cron_tasker.c:172).
RunsEveryInterval ==
  [][\A j \in Unedited : Runs(j) /\ ~jumped /\ ran[j] # 0 /\ cfg[j].every > 0 =>
       \E lost \in {0, 1} : DaysApart(j, cfg[j].every + lost)]_vars

\* Without that loss, which fails for such a task.
RunsEveryIntervalExactly ==
  [][\A j \in Unedited : Runs(j) /\ ~jumped /\ ran[j] # 0 /\ cfg[j].every > 0 =>
       DaysApart(j, cfg[j].every)]_vars

\* index.html:583: a task without a period runs once and switches itself off; a
\* restart does not bring it back.
SingleRunsOnce ==
  [][Restart =>
       \A j \in Jobs : cfg'[j].on /\ cfg'[j].every = 0 =>
         cfg[j].on /\ ~(wpc = "fired" /\ job = j)]_vars

\* A task that is due by the time the worker has read is started before it sleeps
\* again, and a task that is switched on always has a next run, whatever is edited
\* beside it; if the clock is set back meanwhile, by the time it is set to.
NeverOverdue ==
  wpc = "sleep" /\ lastRetry # 0 =>
    \A j \in Unedited : cfg[j].on => cfg[j].next # 0 /\ low <= cfg[j].next

\* When neither the worker nor the page is about to save, what is saved is what
\* is configured: a restart brings back the schedule it interrupted.
SavedWhenIdle == wpc = "sleep" /\ ~web => nvs = cfg

=============================================================================

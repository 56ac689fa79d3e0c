-------------------------- MODULE CronTasker_proofs --------------------------
(***************************************************************************)
(* Proofs about CronTasker, for any number of tasks, length of day, zone   *)
(* and times, and whoever sets the clock: what is saved agrees with what   *)
(* is configured whenever nobody is about to save, no task that is not     *)
(* edited is left overdue, and what the worker starts when the clock has   *)
(* not been set under it starts at its time of day, its period, or its     *)
(* period and a day, after the start before.                               *)
(***************************************************************************)
EXTENDS CronTasker, TLAPS

LEMMA ConstFacts ==
  /\ N \in Nat \ {0} /\ DayLen \in Nat /\ DayLen > 2 /\ RetryPeriod \in Nat \ {0}
  /\ Zone \in Nat /\ Zone < DayLen
  /\ Times \subseteq 0..(DayLen - 1) /\ Intervals \subseteq Nat
  /\ Editable \subseteq Jobs /\ EditTimes \subseteq Times
  /\ EditIntervals \subseteq Intervals /\ QueueCap \in Nat \ {0} /\ MaxUpsets \in Nat
BY ConstantsAssumption DEF ConstantsAssumption, Jobs

-----------------------------------------------------------------------------
(* Days and times of day. *)

\* A time lies between the beginning of its day and that of the next.
LEMMA DayBounds ==
  ASSUME NEW t \in Nat
  PROVE  /\ Day(t) \in Nat
         /\ Day(t) * DayLen <= t /\ t < Day(t) * DayLen + DayLen
BY ConstFacts, Z3 DEF Day

\* A time is its day and its time of day, and no other pair is.
LEMMA DayTime ==
  ASSUME NEW d \in Nat, NEW m \in 0..(DayLen - 1)
  PROVE  Day(d * DayLen + m) = d /\ TimeOfDay(d * DayLen + m) = m
<1>1. DayLen \in Nat \ {0} /\ m \in Nat /\ m < DayLen
  BY ConstFacts
<1> DEFINE t == d * DayLen + m
           q == Day(t)
<1>2. t \in Nat /\ q \in Nat /\ q * DayLen <= t /\ t < q * DayLen + DayLen
  BY <1>1, DayBounds
<1>3. TimeOfDay(t) = t - q * DayLen
  BY <1>1, <1>2, Z3 DEF Day, TimeOfDay
<1>4. q = d
  <2>1. CASE q < d
    <3>1. PICK n \in Nat : d = q + 1 + n
      <4>1. d - q - 1 \in Nat /\ d = q + 1 + (d - q - 1)
        BY <1>2, <2>1
      <4> QED BY <4>1
    <3>2. d * DayLen = q * DayLen + DayLen + n * DayLen /\ n * DayLen \in Nat
      BY <1>1, <1>2, <3>1
    <3> HIDE DEF q
    <3> QED BY <1>1, <1>2, <3>2
  <2>2. CASE q > d
    <3>1. PICK n \in Nat : q = d + 1 + n
      <4>1. q - d - 1 \in Nat /\ q = d + 1 + (q - d - 1)
        BY <1>2, <2>2
      <4> QED BY <4>1
    <3>2. q * DayLen = d * DayLen + DayLen + n * DayLen /\ n * DayLen \in Nat
      BY <1>1, <1>2, <3>1
    <3> HIDE DEF q
    <3> QED BY <1>1, <1>2, <3>2
  <2> QED BY <1>2, <2>1, <2>2
<1>5. TimeOfDay(t) = m
  <2>1. q * DayLen = d * DayLen /\ d * DayLen \in Nat
    BY <1>1, <1>4
  <2> HIDE DEF q
  <2> QED BY <1>1, <1>3, <2>1
<1> QED BY <1>4, <1>5

LEMMA DayParts ==
  ASSUME NEW t \in Nat, NEW k \in Nat
  PROVE  t + k = Day(t) * DayLen + (TimeOfDay(t) + k)
<1> DEFINE d == Day(t)
           r == t - d * DayLen
<1>1. DayLen \in Nat \ {0} /\ d \in Nat /\ d * DayLen \in Nat /\ r \in 0..(DayLen - 1)
  BY ConstFacts, DayBounds
<1>2. t = d * DayLen + r
  BY <1>1
<1>3. TimeOfDay(d * DayLen + r) = r
  <2> HIDE DEF d, r
  <2> QED BY <1>1, DayTime
<1>4. TimeOfDay(t) = r
  BY <1>2, <1>3
<1> QED BY <1>1, <1>4

\* Minutes of the day wrap around at midnight.
LEMMA ModAdd ==
  ASSUME NEW t \in Nat, NEW k \in Nat
  PROVE  (t + k) % DayLen = ((t % DayLen) + k) % DayLen
<1> DEFINE d == Day(t)
           u == TimeOfDay(t) + k
           e == Day(u)
           r == TimeOfDay(u)
<1>1. DayLen \in Nat \ {0} /\ d \in Nat /\ TimeOfDay(t) \in Nat
  BY ConstFacts, DayBounds DEF TimeOfDay
<1>2. u \in Nat /\ e \in Nat /\ r \in 0..(DayLen - 1)
  <2>1. u \in Nat
    BY <1>1
  <2> HIDE DEF u
  <2> QED BY <1>1, <2>1, DayBounds DEF TimeOfDay
<1>3. t + k = d * DayLen + u /\ u = e * DayLen + r
  <2>1. u + 0 = Day(u) * DayLen + (TimeOfDay(u) + 0)
    BY <1>2, DayParts
  <2> HIDE DEF u
  <2> QED BY <1>1, <1>2, <2>1, DayParts DEF u
<1>4. t + k = (d + e) * DayLen + r
  <2> HIDE DEF d, u, e, r
  <2>1. (d + e) * DayLen = d * DayLen + e * DayLen /\ d * DayLen \in Nat /\ e * DayLen \in Nat
    BY <1>1, <1>2
  <2> QED BY <1>2, <1>3, <2>1
<1>5. TimeOfDay((d + e) * DayLen + r) = r
  <2> HIDE DEF d, e, r
  <2>1. d + e \in Nat
    BY <1>1, <1>2
  <2> QED BY <1>2, <2>1, DayTime
<1> QED BY <1>4, <1>5 DEF TimeOfDay

\* What calculate_next_run_epoch returns has not come yet, and is that time of a
\* day: `days` from now when that is not today.
LEMMA NextRunDay ==
  ASSUME NEW tod \in Times, NEW days \in Nat,
         now \in Nat, now >= DayLen, zone \in {0, Zone}
  PROVE  /\ NextRun(tod, days) \in Nat /\ NextRun(tod, days) > now
         /\ TimeOfDay(NextRun(tod, days) + zone) = tod
         /\ days > 0 => NextRun(tod, days) + zone = (Day(now + zone) + days) * DayLen + tod
<1>1. /\ DayLen \in Nat /\ DayLen > 2 /\ tod \in 0..(DayLen - 1) /\ zone \in Nat
      /\ now + zone \in Nat
  BY ConstFacts
<1>2. PICK d \in Nat : d = Day(now + zone)
  BY <1>1, DayBounds
<1>3. now + zone < d * DayLen + DayLen
  BY <1>1, <1>2, DayBounds
<1>4. PICK n : n = NextRun(tod, days)
  OBVIOUS
<1>5. /\ (d + days) * DayLen = d * DayLen + days * DayLen
      /\ d * DayLen \in Nat /\ days * DayLen \in Nat
      /\ (d + days + 1) * DayLen = (d + days) * DayLen + DayLen
      /\ days > 0 => days * DayLen >= DayLen
  BY <1>1, <1>2
<1>6. n = IF days = 0 /\ (d + days) * DayLen + tod - zone <= now
          THEN (d + days) * DayLen + tod - zone + DayLen
          ELSE (d + days) * DayLen + tod - zone
  BY <1>2, <1>4 DEF NextRun
<1>7. n \in Nat /\ n > now
  BY <1>1, <1>3, <1>5, <1>6
<1>8. /\ n + zone = (d + days) * DayLen + tod \/ n + zone = (d + days + 1) * DayLen + tod
      /\ days > 0 => n + zone = (d + days) * DayLen + tod
  BY <1>1, <1>5, <1>6
<1>9. /\ TimeOfDay((d + days) * DayLen + tod) = tod
      /\ TimeOfDay((d + days + 1) * DayLen + tod) = tod
  <2>1. d + days \in Nat /\ d + days + 1 \in Nat
    BY <1>2
  <2> QED BY <1>1, <2>1, DayTime
<1> QED BY <1>2, <1>4, <1>7, <1>8, <1>9

\* Up to three minutes later it is the same day or the next.
LEMMA DayAfter ==
  ASSUME NEW t \in Nat, NEW k \in 0..3
  PROVE  Day(t + k) = Day(t) \/ Day(t + k) = Day(t) + 1
<1>1. DayLen \in Nat /\ DayLen > 2 /\ t + k \in Nat
  BY ConstFacts
<1>2. PICK d \in Nat : d = Day(t)
  BY DayBounds
<1>3. PICK e \in Nat : e = Day(t + k)
  BY <1>1, DayBounds
<1>4. /\ d * DayLen <= t /\ t < d * DayLen + DayLen
      /\ e * DayLen <= t + k /\ t + k < e * DayLen + DayLen
  BY <1>1, <1>2, <1>3, DayBounds
<1>5. PICK x \in Nat, y \in Nat : x = d * DayLen /\ y = e * DayLen
  BY <1>1
<1>6. e >= d
  <2>1. ASSUME e < d PROVE FALSE
    <3>1. PICK n \in Nat : d = e + 1 + n
      <4>1. d - e - 1 \in Nat /\ d = e + 1 + (d - e - 1)
        BY <2>1
      <4> QED BY <4>1
    <3>2. d * DayLen = e * DayLen + DayLen + n * DayLen /\ n * DayLen \in Nat
      BY <1>1, <3>1
    <3> QED BY <1>1, <1>4, <1>5, <3>2
  <2> QED BY <2>1
<1>7. e <= d + 1
  <2>1. ASSUME e > d + 1 PROVE FALSE
    <3>1. PICK n \in Nat : e = d + 2 + n
      <4>1. e - d - 2 \in Nat /\ e = d + 2 + (e - d - 2)
        BY <2>1
      <4> QED BY <4>1
    <3>2. e * DayLen = d * DayLen + DayLen + DayLen + n * DayLen /\ n * DayLen \in Nat
      BY <1>1, <3>1
    <3> QED BY <1>1, <1>4, <1>5, <3>2
  <2> QED BY <2>1
<1> QED BY <1>2, <1>3, <1>6, <1>7

-----------------------------------------------------------------------------
(* Type correctness. *)

\* What a step that changes one task makes of it is a task again.
LEMMA TaskTypes ==
  ASSUME NEW c \in Task
  PROVE  /\ c.on \in BOOLEAN /\ c.tod \in Times /\ c.every \in Intervals /\ c.next \in Nat
         /\ c.tz \in {0, Zone}
         /\ \A n \in Nat, z \in {0, Zone} : [c EXCEPT !.next = n, !.tz = z] \in Task
         /\ [c EXCEPT !.on = FALSE, !.next = 0] \in Task
         /\ \A on \in BOOLEAN, tod \in Times, every \in Intervals :
              [c EXCEPT !.on = on, !.tod = tod, !.every = every] \in Task
BY DEF Task

\* Whatever the clock is behind by, it stays above the least it can read.
LEMMA ClockSum ==
  ASSUME NEW n \in Nat, NEW l \in Nat, NEW o \in Nat, NEW m \in Nat,
         n + l >= DayLen + Zone, m <= Zone
  PROVE  n + l + o - m \in Nat /\ n + l + o - m + m >= DayLen + Zone
BY ConstFacts

\* The clock reads at least a day.
LEMMA ClockTypes ==
  ASSUME TypeOK
  PROVE  /\ now \in Nat /\ now >= DayLen /\ zone \in {0, Zone} /\ lag \in Nat
         /\ zone \in Nat /\ low \in Nat /\ seen \in Nat /\ lastRetry \in Nat
         /\ synced \in BOOLEAN /\ moved \in BOOLEAN /\ jumped \in BOOLEAN
         /\ ticked \in BOOLEAN /\ dirty \in BOOLEAN /\ web \in BOOLEAN
         /\ job \in 1..(N + 1) /\ upsets \in 0..MaxUpsets
         /\ cfg \in [Jobs -> Task] /\ nvs \in [Jobs -> Task] /\ ran \in [Jobs -> Nat]
<1>1. now \in Nat /\ lag \in {0, Zone} /\ now + lag >= DayLen + Zone
  BY DEF TypeOK
<1>2. now >= DayLen /\ lag \in Nat
  BY <1>1, ConstFacts
<1> QED BY <1>1, <1>2, ConstFacts DEF TypeOK

LEMMA InitType == Init => TypeOK
<1> SUFFICES ASSUME Init PROVE TypeOK
  OBVIOUS
<1>1. [on : BOOLEAN, tod : Times, every : Intervals, next : {0}, tz : {0}] \subseteq Task
  BY DEF Task
<1>2. cfg \in [Jobs -> Task] /\ nvs \in [Jobs -> Task]
  BY <1>1 DEF Init
<1>3. /\ now \in Nat /\ lag \in {0, Zone} /\ zone \in {0, Zone} /\ now + lag >= DayLen + Zone
      /\ {seen, low, lastRetry} \subseteq Nat /\ queued \in 0..QueueCap
      /\ upsets \in 0..MaxUpsets /\ job \in 1..(N + 1)
  BY ConstFacts DEF Init
<1>4. /\ {synced, dirty, web, ticked, moved, jumped} \subseteq BOOLEAN
      /\ wpc = "sleep" /\ ran \in [Jobs -> Nat]
  BY DEF Init
<1> QED BY <1>2, <1>3, <1>4 DEF TypeOK

\* The task the worker is at, and what it makes of it.
LEMMA AtJob ==
  ASSUME TypeOK, Schedule \/ Reschedule
  PROVE  /\ job \in Jobs /\ cfg[job] \in Task
         /\ \E c \in Task : cfg' = [cfg EXCEPT ![job] = c]
         /\ \A j \in Jobs : j # job => cfg'[j] = cfg[j]
         /\ Schedule => cfg'[job] = Scheduled(cfg[job], 0)
         /\ Reschedule /\ cfg[job].every > 0 =>
              cfg'[job] = Scheduled(cfg[job], cfg[job].every)
         /\ Reschedule /\ ~(cfg[job].every > 0) =>
              cfg'[job] = [cfg[job] EXCEPT !.on = FALSE, !.next = 0]
<1>1. job \in Jobs
  <2>1. job \in 1..(N + 1) /\ N \in Nat /\ (wpc = "fired" => job \in Jobs)
    BY ConstFacts DEF TypeOK
  <2>2. wpc = "fired" \/ job <= N
    BY DEF Schedule, Reschedule
  <2> QED BY <2>1, <2>2 DEF Jobs
<1>2. cfg \in [Jobs -> Task] /\ cfg[job] \in Task
  BY <1>1 DEF TypeOK
<1>3. PICK c : c = cfg[job]
  OBVIOUS
<1>4. c \in Task /\ c.every \in Nat /\ c.tod \in Times
  BY <1>2, <1>3, ConstFacts, TaskTypes
<1>5. \A days \in Nat : Scheduled(c, days) \in Task
  <2> TAKE days \in Nat
  <2>1. NextRun(c.tod, days) \in Nat /\ zone \in {0, Zone}
    BY <1>4, ClockTypes, NextRunDay
  <2> QED BY <1>4, <2>1, TaskTypes DEF Scheduled
<1>6. [c EXCEPT !.on = FALSE, !.next = 0] \in Task
  BY <1>4, TaskTypes
<1>7. CASE Schedule
  <2>1. cfg' = [cfg EXCEPT ![job] = Scheduled(c, 0)] /\ wpc = "jobs"
    BY <1>3, <1>7 DEF Schedule
  <2>2. ~Reschedule
    BY <2>1 DEF Reschedule
  <2>3. Scheduled(c, 0) \in Task
    BY <1>5
  <2> QED BY <1>1, <1>2, <1>3, <2>1, <2>2, <2>3
<1>8. CASE Reschedule /\ c.every > 0
  <2>1. cfg' = [cfg EXCEPT ![job] = Scheduled(c, c.every)] /\ wpc = "fired"
    BY <1>3, <1>8 DEF Reschedule
  <2>2. ~Schedule
    BY <2>1 DEF Schedule
  <2>3. Scheduled(c, c.every) \in Task
    BY <1>4, <1>5
  <2> QED BY <1>1, <1>2, <1>3, <1>8, <2>1, <2>2, <2>3
<1>9. CASE Reschedule /\ ~(c.every > 0)
  <2>1. cfg' = [cfg EXCEPT ![job] = [c EXCEPT !.on = FALSE, !.next = 0]] /\ wpc = "fired"
    BY <1>3, <1>9 DEF Reschedule
  <2>2. ~Schedule
    BY <2>1 DEF Schedule
  <2> QED BY <1>1, <1>2, <1>3, <1>6, <1>9, <2>1, <2>2
<1> QED BY <1>3, <1>7, <1>8, <1>9

LEMMA TypeStep == TypeOK /\ [Next]_vars => TypeOK'
<1> SUFFICES ASSUME TypeOK, [Next]_vars PROVE TypeOK'
  OBVIOUS
<1>n. 1 \in 1..(N + 1) /\ N \in Nat /\ QueueCap \in Nat /\ MaxUpsets \in Nat
  BY ConstFacts
<1>1. CASE Wake
  <2>1. /\ now' \in Nat /\ now' + lag' >= DayLen + Zone /\ lag' \in {0, Zone}
        /\ lastRetry' \in Nat /\ seen' \in Nat /\ low' \in Nat
    <3>1. /\ now \in Nat /\ now + lag >= DayLen + Zone /\ lag \in {0, Zone}
          /\ {seen, low, lastRetry} \subseteq Nat
      BY DEF TypeOK
    <3>2. (now' = now + 1 \/ now' = now + 2) /\ lag' = lag
      BY <1>1 DEF Wake, clockVars
    <3>3. /\ lastRetry' = lastRetry \/ lastRetry' = now'
          /\ seen' = seen \/ seen' = now'
          /\ low' = low \/ low' = now'
      BY <1>1 DEF Wake, Retry
    <3> QED BY <3>1, <3>2, <3>3, ConstFacts
  <2>2. wpc' \in {"sleep", "jobs"} /\ job' \in 1..(N + 1)
    <3>1. wpc = "sleep" /\ job \in 1..(N + 1)
      BY <1>1 DEF Wake, TypeOK
    <3> QED BY <1>1, <1>n, <3>1 DEF Wake
  <2>3. {ticked', moved', jumped'} \subseteq BOOLEAN
    <3>1. ticked' = FALSE
      BY <1>1 DEF Wake
    <3>2. moved' = moved \/ moved' = FALSE
      BY <1>1, Zenon DEF Wake
    <3>3. jumped' = jumped \/ jumped' = moved
      BY <1>1, Zenon DEF Wake
    <3>4. moved \in BOOLEAN /\ jumped \in BOOLEAN
      BY DEF TypeOK
    <3> QED BY <3>1, <3>2, <3>3, <3>4, Zenon
  <2>4. UNCHANGED <<zone, synced, taskVars, dirty, queued, web, ran, upsets>>
    BY <1>1 DEF Wake
  <2> QED BY <2>1, <2>2, <2>3, <2>4 DEF TypeOK, taskVars
<1>2. CASE Skip
  <2>1. job' = job + 1 /\ job <= N /\ wpc = "jobs"
    BY <1>2 DEF Skip
  <2>2. UNCHANGED <<clockVars, seen, lastRetry, web, lookVars, upsets, taskVars, wpc,
                    dirty, queued, ran>>
    BY <1>2 DEF Skip, WorkerFrame
  <2> QED BY <1>n, <2>1, <2>2 DEF TypeOK, clockVars, lookVars, taskVars
<1>3. CASE Schedule \/ Reschedule
  <2>1. PICK c \in Task : cfg' = [cfg EXCEPT ![job] = c]
    BY <1>3, AtJob
  <2>2. cfg' \in [Jobs -> Task] /\ job \in Jobs
    BY <1>3, <2>1, AtJob DEF TypeOK
  <2>3. /\ job' = job + 1 /\ dirty' = TRUE /\ wpc' = "jobs"
        /\ UNCHANGED <<clockVars, seen, lastRetry, web, lookVars, upsets, nvs, queued, ran>>
    BY <1>3 DEF Schedule, Reschedule, WorkerFrame
  <2> QED BY <1>n, <2>2, <2>3 DEF TypeOK, clockVars, lookVars, Jobs
<1>4. CASE Fire
  <2>1. job \in Jobs
    BY <1>4, <1>n DEF Fire, TypeOK, Jobs
  <2>2. queued' \in 0..QueueCap
    <3>1. queued \in 0..QueueCap
      BY DEF TypeOK
    <3>2. queued' = IF queued < QueueCap THEN queued + 1 ELSE queued
      BY <1>4 DEF Fire
    <3> QED BY <1>n, <3>1, <3>2
  <2>3. ran' \in [Jobs -> Nat]
    <3>1. ran \in [Jobs -> Nat] /\ seen \in Nat
      BY DEF TypeOK
    <3>2. PICK x \in Nat : ran' = [ran EXCEPT ![job] = x]
      BY <1>4, <3>1 DEF Fire
    <3> QED BY <3>1, <3>2
  <2>4. /\ wpc' = "fired"
        /\ UNCHANGED <<clockVars, seen, lastRetry, web, lookVars, upsets, taskVars, job, dirty>>
    BY <1>4 DEF Fire, WorkerFrame
  <2> QED BY <2>1, <2>2, <2>3, <2>4 DEF TypeOK, clockVars, lookVars, taskVars
<1>5. CASE EndLoop \/ WorkerSave
  <2>1. /\ wpc' \in {"sleep", "save"} /\ job' \in 1..(N + 1) /\ seen' \in Nat
    BY <1>5, <1>n DEF EndLoop, WorkerSave, Sleep, TypeOK
  <2>2. jumped' \in BOOLEAN /\ dirty' \in BOOLEAN
    <3>1. jumped' = jumped \/ jumped' = TRUE
      BY <1>5, Zenon DEF EndLoop, WorkerSave, Sleep
    <3>2. dirty' = dirty \/ dirty' = FALSE
      BY <1>5, Zenon DEF EndLoop, WorkerSave
    <3>3. jumped \in BOOLEAN /\ dirty \in BOOLEAN
      BY DEF TypeOK
    <3> QED BY <3>1, <3>2, <3>3, Zenon
  <2>3. /\ nvs' \in [Jobs -> Task] /\ cfg' = cfg
        /\ UNCHANGED <<clockVars, lastRetry, queued, web, ticked, low, moved, ran, upsets>>
    BY <1>5 DEF EndLoop, WorkerSave, TypeOK, taskVars
  <2> QED BY <2>1, <2>2, <2>3 DEF TypeOK, clockVars
<1>6. ASSUME NEW j \in Editable, NEW on \in BOOLEAN, NEW tod \in EditTimes,
             NEW every \in EditIntervals, Edit(j, on, tod, every)
      PROVE  TypeOK'
  <2>1. j \in Jobs /\ tod \in Times /\ every \in Intervals
    BY ConstFacts
  <2>2. PICK c : c = [cfg[j] EXCEPT !.on = on, !.tod = tod, !.every = every]
    OBVIOUS
  <2>3. c \in Task
    <3>1. cfg[j] \in Task
      BY <2>1 DEF TypeOK
    <3> QED BY <2>1, <2>2, <3>1, TaskTypes
  <2>4. cfg' = [cfg EXCEPT ![j] = c] /\ web' = TRUE
    BY <1>6, <2>2 DEF Edit
  <2>5. cfg' \in [Jobs -> Task]
    BY <2>1, <2>3, <2>4 DEF TypeOK
  <2>6. UNCHANGED <<clockVars, nvs, workerVars, queued, lookVars, ran, upsets>>
    BY <1>6 DEF Edit
  <2> QED BY <2>4, <2>5, <2>6 DEF TypeOK, workerVars, clockVars, lookVars
<1>7. CASE WebSave
  BY <1>7 DEF WebSave, TypeOK, workerVars, clockVars, lookVars
<1>8. CASE TakeAction
  BY <1>8, <1>n DEF TakeAction, TypeOK, workerVars, clockVars, lookVars, taskVars
<1>9. ASSUME NEW behind \in {0, Zone}, SetClock(behind)
      PROVE  TypeOK'
  <2>1. now + lag >= DayLen + Zone /\ now \in Nat /\ lag \in Nat /\ behind \in Nat /\ low \in Nat
    <3>1. now + lag >= DayLen + Zone
      BY DEF TypeOK
    <3>2. behind \in Nat
      BY ConstFacts
    <3> QED BY <3>1, <3>2, ClockTypes
  <2>2. /\ now' = now + lag - behind /\ lag' = behind
        /\ low' = low \/ low' = now + lag - behind
    BY <1>9 DEF SetClock
  <2>3. now' \in Nat /\ now' + lag' >= DayLen + Zone /\ low' \in Nat
    BY <2>1, <2>2, ConstFacts
  <2>4. upsets' \in 0..MaxUpsets
    BY <1>9, <1>n DEF SetClock, TypeOK
  <2>5. ran' \in [Jobs -> Nat]
    BY <1>9 DEF SetClock, Disturb, TypeOK
  <2>6. /\ synced' = TRUE /\ moved' = TRUE
        /\ UNCHANGED <<zone, taskVars, workerVars, queued, web, ticked, jumped>>
    BY <1>9 DEF SetClock
  <2>7. {synced', dirty', web', ticked', moved', jumped'} \subseteq BOOLEAN
    BY <2>6 DEF TypeOK, workerVars
  <2>8. /\ lag' \in {0, Zone} /\ zone' \in {0, Zone} /\ cfg' \in [Jobs -> Task]
        /\ nvs' \in [Jobs -> Task] /\ wpc' \in {"sleep", "jobs", "fired", "save"}
        /\ job' \in 1..(N + 1) /\ (wpc' = "fired" => job' \in Jobs)
        /\ {seen', lastRetry'} \subseteq Nat /\ queued' \in 0..QueueCap
    BY <2>2, <2>6 DEF TypeOK, taskVars, workerVars
  <2> QED BY <2>3, <2>4, <2>5, <2>7, <2>8 DEF TypeOK
<1>10. CASE GnssFix \/ SntpSync
  <2>1. zone \in {0, Zone}
    BY DEF TypeOK
  <2> QED BY <1>9, <1>10, <2>1 DEF GnssFix, SntpSync
<1>11. CASE SetZone
  <2>1. zone' = Zone /\ ran' \in [Jobs -> Nat]
    BY <1>11 DEF SetZone, Disturb, TypeOK
  <2>2. UNCHANGED <<now, lag, synced, taskVars, workerVars, queued, web, lookVars, upsets>>
    BY <1>11 DEF SetZone
  <2> QED BY <2>1, <2>2 DEF TypeOK, taskVars, workerVars, lookVars
<1>12. CASE Tick
  <2>1. now' \in Nat /\ now' + lag' >= DayLen + Zone /\ lag' = lag
    BY <1>12, ConstFacts DEF Tick, TypeOK
  <2>2. /\ ticked' = TRUE
        /\ UNCHANGED <<lag, zone, synced, taskVars, workerVars, queued, web, low, moved,
                       jumped, ran, upsets>>
    BY <1>12 DEF Tick
  <2> QED BY <2>1, <2>2 DEF TypeOK, taskVars, workerVars
<1>13. CASE Restart
  <2>1. PICK off \in {0, DayLen - 1} : now' = now + lag + off - lag'
    BY <1>13 DEF Restart
  <2>2. lag' \in {0, lag} /\ zone' = 0 /\ synced' \in BOOLEAN
    BY <1>13 DEF Restart, TypeOK
  <2>3. now \in Nat /\ lag \in {0, Zone} /\ now + lag >= DayLen + Zone
    BY DEF TypeOK
  <2>4. now' \in Nat /\ now' + lag' >= DayLen + Zone /\ lag' \in {0, Zone}
    <3>1. /\ DayLen \in Nat /\ Zone \in Nat /\ off \in Nat
          /\ lag \in Nat /\ lag <= Zone /\ lag' \in Nat /\ lag' <= Zone
      BY <2>2, <2>3, ConstFacts
    <3>2. lag' \in {0, Zone}
      BY <2>2, <2>3
    <3>3. now' \in Nat /\ now' + lag' >= DayLen + Zone
      <4>1. now \in Nat /\ now + lag >= DayLen + Zone
        BY <2>3
      <4> QED BY <2>1, <3>1, <4>1, ClockSum
    <3> QED BY <3>2, <3>3
  <2>5. upsets' \in 0..MaxUpsets
    BY <1>13, <1>n DEF Restart, TypeOK
  <2>6. /\ wpc' = "sleep" /\ job' = 1 /\ dirty' = FALSE /\ lastRetry' = 0 /\ queued' = 0
        /\ web' = FALSE /\ moved' = TRUE /\ ticked' = FALSE /\ seen' = 0 /\ jumped' = TRUE
        /\ ran' = [j \in Jobs |-> 0] /\ cfg' = nvs /\ UNCHANGED <<nvs, low>>
    BY <1>13 DEF Restart
  <2>7. {seen', low', lastRetry'} \subseteq Nat /\ queued' \in 0..QueueCap /\ zone' \in {0, Zone}
    BY <1>n, <2>2, <2>6 DEF TypeOK
  <2>8. cfg' \in [Jobs -> Task] /\ nvs' \in [Jobs -> Task] /\ ran' \in [Jobs -> Nat]
    BY <2>6 DEF TypeOK
  <2>9. {synced', dirty', web', ticked', moved', jumped'} \subseteq BOOLEAN
    BY <2>2, <2>6
  <2>10. wpc' = "sleep" /\ job' \in 1..(N + 1)
    BY <1>n, <2>6
  <2> QED BY <2>4, <2>5, <2>7, <2>8, <2>9, <2>10 DEF TypeOK
<1>14. CASE UNCHANGED vars
  BY <1>14 DEF vars, clockVars, taskVars, workerVars, lookVars, TypeOK
<1> QED BY <1>1, <1>2, <1>3, <1>4, <1>5, <1>6, <1>7, <1>8, <1>10, <1>11, <1>12, <1>13, <1>14
     DEF Next, ClockStep, WorkerStep, WebStep

\* Every variable of the scheduler keeps its type.
THEOREM TypeCorrect == Spec => []TypeOK
BY InitType, TypeStep, PTL DEF Spec

-----------------------------------------------------------------------------
(* What is saved. *)

\* A change is either saved, or remembered by the worker's flag, or about to
\* be saved by the page; the worker never sleeps on its flag.
SaveInv == /\ wpc = "sleep" => dirty = FALSE
           /\ nvs = cfg \/ dirty = TRUE \/ web = TRUE

LEMMA SaveStep == TypeOK /\ SaveInv /\ [Next]_vars => SaveInv'
<1> SUFFICES ASSUME TypeOK, SaveInv, [Next]_vars PROVE SaveInv'
  OBVIOUS
<1> USE DEF SaveInv
<1>t. dirty \in BOOLEAN /\ web \in BOOLEAN
  BY DEF TypeOK
<1>1. CASE Wake
  BY <1>1 DEF Wake, taskVars
<1>2. CASE Skip \/ Fire
  BY <1>2 DEF Skip, Fire, WorkerFrame, taskVars
<1>3. CASE Schedule \/ Reschedule
  BY <1>3 DEF Schedule, Reschedule
<1>4. CASE EndLoop
  BY <1>4, <1>t DEF EndLoop, Sleep, taskVars
<1>5. CASE WorkerSave \/ WebSave \/ Restart
  BY <1>5 DEF WorkerSave, WebSave, Restart, workerVars, Sleep
<1>6. CASE \E j \in Editable, on \in BOOLEAN, tod \in EditTimes, every \in EditIntervals :
             Edit(j, on, tod, every)
  BY <1>6 DEF Edit, workerVars
<1>7. CASE TakeAction \/ ClockStep \/ UNCHANGED vars
  BY <1>7 DEF TakeAction, ClockStep, GnssFix, SntpSync, SetClock, SetZone, Tick,
              vars, workerVars, taskVars
<1> QED BY <1>1, <1>2, <1>3, <1>4, <1>5, <1>6, <1>7 DEF Next, WorkerStep, WebStep

\* When neither the worker nor the page is about to save, a restart would come
\* back with the tasks as they are configured.
THEOREM Saved == Spec => []SavedWhenIdle
<1>1. Init => SaveInv
  BY DEF Init, SaveInv
<1>2. TypeOK /\ SaveInv => SavedWhenIdle
  BY DEF TypeOK, SaveInv, SavedWhenIdle
<1> QED BY <1>1, <1>2, SaveStep, TypeCorrect, PTL DEF Spec

-----------------------------------------------------------------------------
(* What the worker knows of the time. *)

\* If nobody has set the clock since the worker read it, it reads the same still,
\* or a minute more; in any case it has never read less than low.
LookInv ==
  /\ lastRetry # 0 => synced = TRUE
  /\ wpc # "sleep" => lastRetry # 0 /\ low <= now /\ low <= seen
  /\ moved = FALSE => /\ lastRetry # 0
                      /\ now = IF ticked = TRUE THEN low + 1 ELSE low
                      /\ wpc # "sleep" => seen = low

\* What Wake does when the clock is set, and when it is not.
LEMMA Waking ==
  ASSUME TypeOK, LookInv, Wake
  PROVE  /\ now' \in {now + 1, now + 2} /\ wpc = "sleep" /\ UNCHANGED <<cfg, nvs, zone, ran>>
         /\ ticked = TRUE => now' = now + 1
         /\ \/ /\ wpc' = "jobs" /\ job' = 1 /\ seen' = now' /\ low' = now' /\ lastRetry' # 0
               /\ synced' = TRUE /\ moved' = FALSE /\ ticked' = FALSE
               /\ jumped' = FALSE => moved = FALSE
            \/ /\ wpc' = "sleep" /\ lastRetry = 0 /\ lastRetry' = 0 /\ moved # FALSE
               /\ moved' # FALSE
<1>1. /\ now' = now + 1 \/ (~ticked /\ now' = now + 2)
      /\ wpc = "sleep" /\ ticked' = FALSE /\ synced' = synced
      /\ UNCHANGED <<cfg, nvs, zone, ran>>
  BY DEF Wake, taskVars
<1>2. now \in Nat /\ lastRetry \in Nat /\ {synced, ticked, moved} \subseteq BOOLEAN
  BY ClockTypes
<1>3. CASE synced
  <2>1. /\ Retry /\ wpc' = "jobs" /\ job' = 1 /\ seen' = now' /\ low' = now'
        /\ moved' = FALSE
    BY <1>3 DEF Wake
  <2>2. lastRetry' # 0
    BY <1>1, <1>2, <2>1 DEF Retry
  <2>3. jumped' = FALSE => moved = FALSE
    <3>1. jumped' = moved
      BY <1>3, Zenon DEF Wake
    <3> QED BY <3>1, Zenon
  <2>4. synced' = TRUE
    BY <1>1, <1>2, <1>3
  <2> QED BY <1>1, <1>2, <2>1, <2>2, <2>3, <2>4
<1>4. CASE ~synced
  <2>1. wpc' = "sleep" /\ lastRetry' = lastRetry
    BY <1>1, <1>4 DEF Wake
  <2>2. moved' = moved
    BY <1>4, Zenon DEF Wake
  <2>3. lastRetry = 0 /\ moved # FALSE
    BY <1>2, <1>4 DEF LookInv
  <2> QED BY <1>1, <1>2, <2>1, <2>2, <2>3
<1> QED BY <1>3, <1>4

LEMMA LookStep == TypeOK /\ LookInv /\ [Next]_vars => LookInv'
<1> SUFFICES ASSUME TypeOK, LookInv, [Next]_vars PROVE LookInv'
  OBVIOUS
<1>t. /\ now \in Nat /\ low \in Nat /\ seen \in Nat /\ lag \in Nat
      /\ {synced, ticked, moved} \subseteq BOOLEAN
  BY ClockTypes
<1>1. CASE Wake
  <2>1. now' \in Nat
    BY <1>1, <1>t, Waking
  <2>2. CASE wpc' = "jobs"
    <3>1. /\ seen' = now' /\ low' = now' /\ lastRetry' # 0 /\ synced' = TRUE
          /\ ticked' = FALSE
      BY <1>1, <2>2, Waking
    <3> QED BY <2>1, <3>1 DEF LookInv
  <2>3. CASE wpc' # "jobs"
    <3>1. wpc' = "sleep" /\ lastRetry' = 0 /\ moved' # FALSE
      BY <1>1, <2>3, Waking
    <3> QED BY <3>1 DEF LookInv
  <2> QED BY <2>2, <2>3
<1>2. CASE Skip \/ Schedule \/ Fire \/ Reschedule
  <2>1. wpc # "sleep" /\ UNCHANGED <<lastRetry, synced, low, now, seen, moved, ticked>>
    BY <1>2 DEF Skip, Schedule, Fire, Reschedule, WorkerFrame, clockVars, lookVars
  <2> QED BY <2>1 DEF LookInv
<1>3. CASE EndLoop \/ WorkerSave
  <2>1. /\ wpc # "sleep" /\ UNCHANGED <<lastRetry, synced, low, now, moved, ticked>>
        /\ wpc' # "sleep" => UNCHANGED seen
    BY <1>3 DEF EndLoop, WorkerSave, Sleep, clockVars
  <2> QED BY <2>1 DEF LookInv
<1>4. CASE WebStep \/ TakeAction \/ SetZone \/ UNCHANGED vars
  <2>1. UNCHANGED <<lastRetry, synced, low, now, moved, ticked, wpc, seen>>
    BY <1>4 DEF WebStep, Edit, WebSave, TakeAction, SetZone, vars, clockVars, workerVars,
                lookVars
  <2> QED BY <2>1 DEF LookInv
<1>5. CASE GnssFix \/ SntpSync
  <2>1. PICK behind \in {0, Zone} : SetClock(behind)
    BY <1>5 DEF GnssFix, SntpSync, TypeOK
  <2>2. /\ now' = now + lag - behind /\ moved' = TRUE /\ synced' = TRUE
        /\ low' = IF wpc # "sleep" /\ now + lag - behind < low THEN now + lag - behind ELSE low
        /\ UNCHANGED <<wpc, seen, lastRetry>>
    BY <2>1 DEF SetClock, workerVars
  <2>3. behind \in Nat /\ now + lag - behind \in Int
    BY <1>t, ConstFacts
  <2>4. wpc # "sleep" => low' <= now' /\ low' <= low
    BY <1>t, <2>2, <2>3
  <2>5. wpc # "sleep" => low' <= seen
    BY <1>t, <2>2, <2>3, <2>4 DEF LookInv
  <2> QED BY <2>2, <2>4, <2>5 DEF LookInv
<1>6. CASE Tick
  <2>1. /\ wpc # "sleep" /\ ticked = FALSE /\ ticked' = TRUE /\ now' = now + 1
        /\ UNCHANGED <<lastRetry, synced, low, moved, wpc, seen>>
    BY <1>6, <1>t DEF Tick, workerVars
  <2> QED BY <1>t, <2>1 DEF LookInv
<1>7. CASE Restart
  <2>1. wpc' = "sleep" /\ lastRetry' = 0 /\ moved' = TRUE
    BY <1>7 DEF Restart
  <2> QED BY <2>1 DEF LookInv
<1> QED BY <1>1, <1>2, <1>3, <1>4, <1>5, <1>6, <1>7 DEF Next, ClockStep, WorkerStep

-----------------------------------------------------------------------------
(* What a step makes of the tasks. *)

\* Nothing of an unedited one, unless the worker is at it or the device restarts.
LEMMA OthersKept ==
  ASSUME TypeOK, [Next]_vars, NEW j \in Unedited
  PROVE  \/ cfg'[j] = cfg[j] /\ nvs'[j] \in {nvs[j], cfg[j]}
         \/ j = job /\ (Schedule \/ Reschedule) /\ nvs' = nvs
         \/ Restart
<1>1. j \in Jobs /\ j \notin Editable
  BY DEF Unedited
<1>2. CASE Schedule \/ Reschedule
  <2>1. j # job => cfg'[j] = cfg[j]
    BY <1>1, <1>2, AtJob
  <2>2. nvs' = nvs
    BY <1>2 DEF Schedule, Reschedule
  <2> QED BY <1>2, <2>1, <2>2
<1>3. CASE \E k \in Editable, on \in BOOLEAN, tod \in EditTimes, every \in EditIntervals :
             Edit(k, on, tod, every)
  <2>1. cfg \in [Jobs -> Task]
    BY DEF TypeOK
  <2> QED BY <1>1, <1>3, <2>1 DEF Edit
<1>4. CASE WebSave \/ WorkerSave
  BY <1>4 DEF WebSave, WorkerSave
<1>5. CASE Wake \/ Skip \/ Fire \/ EndLoop \/ TakeAction \/ ClockStep \/ UNCHANGED vars
  BY <1>5 DEF Wake, Skip, Fire, EndLoop, TakeAction, ClockStep, GnssFix, SntpSync, SetClock,
              SetZone, Tick, vars, taskVars, WorkerFrame
<1> QED BY <1>2, <1>3, <1>4, <1>5 DEF Next, WorkerStep, WebStep

\* The worker's computation of the next run of the task it is at.
LEMMA Rescheduled ==
  ASSUME TypeOK, Schedule \/ Reschedule
  PROVE  /\ job \in Jobs /\ cfg'[job].tod = cfg[job].tod /\ cfg'[job].every = cfg[job].every
         /\ cfg'[job].on => cfg'[job].next # 0
         /\ cfg'[job].next # 0 => /\ cfg'[job].next > now
                                  /\ TimeOfDay(cfg'[job].next + cfg'[job].tz) = cfg[job].tod
         /\ Reschedule /\ cfg[job].every > 0 =>
              /\ cfg'[job].next # 0 /\ cfg'[job].next \in Nat
              /\ cfg'[job].next + zone
                   = (Day(now + zone) + cfg[job].every) * DayLen + cfg[job].tod
<1>1. job \in Jobs /\ cfg[job] \in Task
  BY AtJob
<1>2. PICK c : c = cfg[job]
  OBVIOUS
<1>3. c \in Task /\ c.tod \in Times /\ c.every \in Nat
  BY <1>1, <1>2, ConstFacts, TaskTypes
<1>4. now \in Nat /\ now >= DayLen /\ zone \in {0, Zone}
  BY ClockTypes
<1>5. ASSUME NEW days \in Nat, cfg'[job] = Scheduled(c, days)
      PROVE  /\ cfg'[job].tod = c.tod /\ cfg'[job].every = c.every
             /\ cfg'[job].next # 0 /\ cfg'[job].next > now /\ cfg'[job].next \in Nat
             /\ TimeOfDay(cfg'[job].next + cfg'[job].tz) = c.tod
             /\ days > 0 =>
                  cfg'[job].next + zone = (Day(now + zone) + days) * DayLen + c.tod
  <2>1. PICK n : n = NextRun(c.tod, days)
    OBVIOUS
  <2>2. /\ n \in Nat /\ n > now /\ TimeOfDay(n + zone) = c.tod
        /\ days > 0 => n + zone = (Day(now + zone) + days) * DayLen + c.tod
    BY <1>3, <1>4, <2>1, NextRunDay
  <2>3. cfg'[job] = [c EXCEPT !.next = n, !.tz = zone]
    BY <1>5, <2>1 DEF Scheduled
  <2>4. /\ cfg'[job].tod = c.tod /\ cfg'[job].every = c.every
        /\ cfg'[job].next = n /\ cfg'[job].tz = zone
    BY <1>3, <2>3 DEF Task
  <2> QED BY <1>4, <2>2, <2>4
<1>6. CASE Schedule
  <2>1. cfg'[job] = Scheduled(c, 0)
    BY <1>2, <1>6, AtJob
  <2>2. ~Reschedule
    BY <1>6 DEF Schedule, Reschedule
  <2> QED BY <1>1, <1>2, <1>5, <2>1, <2>2
<1>7. CASE Reschedule /\ c.every > 0
  <2>1. cfg'[job] = Scheduled(c, c.every)
    BY <1>2, <1>7, AtJob
  <2> QED BY <1>1, <1>2, <1>3, <1>5, <1>7, <2>1
<1>8. CASE Reschedule /\ ~(c.every > 0)
  <2>1. cfg'[job] = [c EXCEPT !.on = FALSE, !.next = 0]
    BY <1>2, <1>8, AtJob
  <2>2. /\ cfg'[job].next = 0 /\ cfg'[job].on = FALSE
        /\ cfg'[job].tod = c.tod /\ cfg'[job].every = c.every
    BY <1>3, <2>1 DEF Task
  <2> QED BY <1>1, <1>2, <1>8, <2>2
<1> QED BY <1>2, <1>6, <1>7, <1>8

-----------------------------------------------------------------------------
(* No task is overdue. *)

OnSchedule(c) == c.on => c.next # 0 /\ low <= c.next

\* The unedited tasks the worker's loop has passed are on schedule, and so are
\* all of them from the end of the loop to the next.
LoopInv ==
  /\ wpc = "save" \/ (wpc = "sleep" /\ lastRetry # 0) =>
       \A j \in Unedited : OnSchedule(cfg[j])
  /\ wpc \in {"jobs", "fired"} => \A j \in Unedited : j < job => OnSchedule(cfg[j])

LEMMA LoopStep == TypeOK /\ LookInv /\ LoopInv /\ [Next]_vars => LoopInv'
<1> SUFFICES ASSUME TypeOK, LookInv, LoopInv, [Next]_vars PROVE LoopInv'
  OBVIOUS
<1>t. /\ now \in Nat /\ low \in Nat /\ seen \in Nat /\ lag \in Nat /\ job \in 1..(N + 1)
      /\ N \in Nat
  BY ClockTypes, ConstFacts
<1>c. ASSUME NEW j \in Unedited
      PROVE  j \in Jobs /\ j \in Nat /\ cfg[j].on \in BOOLEAN /\ cfg[j].next \in Nat
  BY DEF TypeOK, Task, Unedited, Jobs
<1>1. CASE Wake
  <2>1. CASE wpc' = "jobs"
    <3>1. job' = 1
      BY <1>1, <2>1, Waking
    <3> QED BY <2>1, <3>1, <1>c DEF LoopInv, Jobs
  <2>2. CASE wpc' # "jobs"
    <3>1. wpc' = "sleep" /\ lastRetry' = 0
      BY <1>1, <2>2, Waking
    <3> QED BY <3>1 DEF LoopInv
  <2> QED BY <2>1, <2>2
<1>2. CASE Skip
  <2>1. /\ wpc = "jobs" /\ wpc' = "jobs" /\ job' = job + 1
        /\ ~cfg[job].on \/ (cfg[job].next # 0 /\ ~Due(cfg[job]))
        /\ UNCHANGED <<cfg, low>>
    BY <1>2 DEF Skip, WorkerFrame, taskVars, lookVars
  <2>2. job \in Unedited => OnSchedule(cfg[job])
    <3>1. low <= seen
      BY <2>1 DEF LookInv
    <3> QED BY <2>1, <3>1, <1>t, <1>c DEF Due, OnSchedule
  <2>3. \A j \in Unedited : j < job + 1 => OnSchedule(cfg[j])
    BY <2>1, <2>2, <1>t, <1>c DEF LoopInv
  <2> QED BY <2>1, <2>3 DEF LoopInv, OnSchedule
<1>3. CASE Schedule \/ Reschedule
  <2>1. wpc \in {"jobs", "fired"} /\ wpc' = "jobs" /\ job' = job + 1 /\ low' = low
    BY <1>3 DEF Schedule, Reschedule, WorkerFrame, lookVars
  <2>2. cfg'[job].on => cfg'[job].next # 0 /\ low' <= cfg'[job].next
    <3>1. low <= now
      BY <2>1 DEF LookInv
    <3>2. cfg'[job].on => cfg'[job].next # 0 /\ cfg'[job].next > now
      BY <1>3, Rescheduled
    <3>3. cfg'[job].next \in Nat
      <4>1. TypeOK'
        BY TypeStep
      <4>2. cfg' \in [Jobs -> Task] /\ job \in Jobs
        BY <1>3, <4>1, AtJob DEF TypeOK
      <4>3. cfg'[job] \in Task
        BY <4>2
      <4> QED BY <4>3 DEF Task
    <3> QED BY <1>t, <2>1, <3>1, <3>2, <3>3
  <2>3. ASSUME NEW j \in Unedited, j < job + 1
        PROVE  cfg'[j].on => cfg'[j].next # 0 /\ low' <= cfg'[j].next
    <3>1. CASE j = job
      BY <2>2, <3>1
    <3>2. CASE j # job
      <4>1. cfg'[j] = cfg[j]
        BY <1>3, <1>c, <3>2, AtJob
      <4>2. j < job
        BY <1>t, <1>c, <2>3, <3>2
      <4>3. OnSchedule(cfg[j])
        BY <2>1, <4>2 DEF LoopInv
      <4> QED BY <2>1, <4>1, <4>3 DEF OnSchedule
    <3> QED BY <3>1, <3>2
  <2> QED BY <2>1, <2>3 DEF LoopInv, OnSchedule
<1>4. CASE Fire
  <2>1. wpc = "jobs" /\ wpc' = "fired" /\ UNCHANGED <<cfg, low, job>>
    BY <1>4 DEF Fire, WorkerFrame, taskVars, lookVars
  <2> QED BY <2>1 DEF LoopInv, OnSchedule
<1>5. CASE EndLoop
  <2>1. wpc = "jobs" /\ wpc' \in {"sleep", "save"} /\ job > N /\ UNCHANGED <<cfg, low>>
    BY <1>5 DEF EndLoop, Sleep, taskVars
  <2>2. \A j \in Unedited : j < job
    BY <1>t, <2>1 DEF Unedited, Jobs
  <2> QED BY <2>1, <2>2 DEF LoopInv, OnSchedule
<1>6. CASE WorkerSave
  <2>1. wpc = "save" /\ wpc' = "sleep" /\ UNCHANGED <<cfg, low>>
    BY <1>6 DEF WorkerSave, Sleep
  <2> QED BY <2>1 DEF LoopInv, OnSchedule
<1>7. CASE WebStep \/ TakeAction \/ SetZone \/ Tick \/ UNCHANGED vars
  <2>1. UNCHANGED <<lastRetry, low, wpc, job>>
    BY <1>7 DEF WebStep, Edit, WebSave, TakeAction, SetZone, Tick, vars, workerVars, lookVars
  <2>2. ~Restart /\ ~Schedule /\ ~Reschedule
    <3>1. upsets' = upsets
      BY <1>7 DEF WebStep, Edit, WebSave, TakeAction, SetZone, Tick, vars
    <3>2. upsets \in Nat
      BY ClockTypes, ConstFacts
    <3>3. ~Restart
      <4>1. Restart => upsets' = upsets + 1
        BY DEF Restart
      <4>2. upsets # upsets + 1
        BY <3>2
      <4> QED BY <3>1, <4>1, <4>2
    <3>4. job' = job /\ job \in Nat
      BY <1>t, <2>1
    <3>5. ~Schedule
      BY <3>4 DEF Schedule
    <3>6. ~Reschedule
      BY <3>4 DEF Reschedule
    <3> QED BY <3>3, <3>5, <3>6
  <2>3. \A j \in Unedited : cfg'[j] = cfg[j]
    BY <2>2, OthersKept
  <2> QED BY <2>1, <2>3 DEF LoopInv, OnSchedule
<1>8. CASE GnssFix \/ SntpSync
  <2>1. PICK behind \in {0, Zone} : SetClock(behind)
    BY <1>8 DEF GnssFix, SntpSync, TypeOK
  <2>2. /\ low' = IF wpc # "sleep" /\ now + lag - behind < low THEN now + lag - behind ELSE low
        /\ UNCHANGED <<cfg, wpc, lastRetry, job>>
    BY <2>1 DEF SetClock, workerVars, taskVars
  <2>3. low' <= low /\ low' \in Int
    <3>1. now + lag - behind \in Int
      BY <1>t, ConstFacts
    <3> QED BY <1>t, <2>2, <3>1
  <2>4. \A j \in Unedited : OnSchedule(cfg[j]) =>
          (cfg'[j].on => cfg'[j].next # 0 /\ low' <= cfg'[j].next)
    BY <1>t, <1>c, <2>2, <2>3 DEF OnSchedule
  <2> QED BY <2>2, <2>4 DEF LoopInv, OnSchedule
<1>9. CASE Restart
  <2>1. wpc' = "sleep" /\ lastRetry' = 0
    BY <1>9 DEF Restart
  <2> QED BY <2>1 DEF LoopInv
<1> QED BY <1>1, <1>2, <1>3, <1>4, <1>5, <1>6, <1>7, <1>8, <1>9
     DEF Next, ClockStep, WorkerStep

LEMMA LoopAlways == Spec => [](TypeOK /\ LookInv /\ LoopInv)
<1>1. Init => LookInv /\ LoopInv
  BY DEF Init, LookInv, LoopInv
<1>2. TypeOK /\ LookInv /\ LoopInv /\ [Next]_vars => (LookInv /\ LoopInv)'
  BY LookStep, LoopStep
<1> QED BY <1>1, <1>2, TypeCorrect, PTL DEF Spec

\* The worker never goes to sleep leaving a task that is switched on without a
\* next run or past it, by the least time the clock read meanwhile, unless that
\* very task is one the page edits.
THEOREM NothingOverdue == Spec => []NeverOverdue
<1>1. LoopInv => NeverOverdue
  BY DEF LoopInv, NeverOverdue, OnSchedule
<1> QED BY <1>1, LoopAlways, PTL

-----------------------------------------------------------------------------
(* A task runs at its time, and on every day of its period. *)

\* What is next for an unedited task, or was saved, is at its time of day in the
\* zone it was computed in.
ZoneInv ==
  \A j \in Unedited :
    /\ cfg[j].next # 0 => TimeOfDay(cfg[j].next + cfg[j].tz) = cfg[j].tod
    /\ nvs[j].next # 0 => TimeOfDay(nvs[j].next + nvs[j].tz) = nvs[j].tod

\* If the clock has not been set since the look before, what the worker finds due
\* has been so for two minutes at most.
DueInv ==
  wpc \in {"jobs", "fired"} /\ jumped = FALSE =>
    \A j \in Unedited :
      j >= job /\ cfg[j].on /\ cfg[j].next # 0 => seen <= cfg[j].next + 2

\* A task whose start counts is due its period later, or a day more, once the
\* worker has rescheduled it; until then nobody has set the clock or the zone.
PeriodInv ==
  \A j \in Unedited : ran[j] # 0 =>
    IF wpc = "fired" /\ job = j
    THEN /\ moved = FALSE /\ cfg[j].tz = zone /\ cfg[j].next # 0 /\ ran[j] = seen
         /\ \E late \in {1, 2} : seen = cfg[j].next + late
    ELSE cfg[j].every > 0 =>
           /\ cfg[j].next # 0
           /\ \E late \in {1, 2}, lost \in {0, 1} :
                cfg[j].next + late = ran[j] + (cfg[j].every + lost) * DayLen

LEMMA ZoneStep == TypeOK /\ ZoneInv /\ [Next]_vars => ZoneInv'
<1> SUFFICES ASSUME TypeOK, ZoneInv, [Next]_vars, NEW j \in Unedited
             PROVE  /\ cfg'[j].next # 0 => TimeOfDay(cfg'[j].next + cfg'[j].tz) = cfg'[j].tod
                    /\ nvs'[j].next # 0 => TimeOfDay(nvs'[j].next + nvs'[j].tz) = nvs'[j].tod
  BY DEF ZoneInv
<1>1. /\ cfg[j].next # 0 => TimeOfDay(cfg[j].next + cfg[j].tz) = cfg[j].tod
      /\ nvs[j].next # 0 => TimeOfDay(nvs[j].next + nvs[j].tz) = nvs[j].tod
  BY DEF ZoneInv
<1>2. CASE cfg'[j] = cfg[j] /\ nvs'[j] \in {nvs[j], cfg[j]}
  BY <1>1, <1>2
<1>3. CASE j = job /\ (Schedule \/ Reschedule) /\ nvs' = nvs
  BY <1>1, <1>3, Rescheduled
<1>4. CASE Restart
  <2>1. cfg' = nvs /\ nvs' = nvs
    BY <1>4 DEF Restart
  <2> QED BY <1>1, <2>1
<1> QED BY <1>2, <1>3, <1>4, OthersKept

LEMMA DueStep == TypeOK /\ LookInv /\ LoopInv /\ DueInv /\ [Next]_vars => DueInv'
<1> SUFFICES ASSUME TypeOK, LookInv, LoopInv, DueInv, [Next]_vars,
                    wpc' \in {"jobs", "fired"}, jumped' = FALSE, NEW j \in Unedited,
                    j >= job', cfg'[j].on, cfg'[j].next # 0
             PROVE  seen' <= cfg'[j].next + 2
  BY DEF DueInv
<1>t. /\ now \in Nat /\ low \in Nat /\ job \in 1..(N + 1) /\ j \in Nat /\ upsets \in Nat
      /\ cfg[j].next \in Nat
  <2>1. j \in Jobs /\ j \in Nat
    BY DEF Unedited, Jobs
  <2>2. cfg[j].next \in Nat
    BY <2>1 DEF TypeOK, Task
  <2>3. now \in Nat /\ low \in Nat /\ job \in 1..(N + 1) /\ upsets \in 0..MaxUpsets
    BY ClockTypes
  <2> QED BY <2>1, <2>2, <2>3, ConstFacts
<1>1. CASE Wake
  <2>1. /\ seen' = now' /\ moved = FALSE /\ cfg' = cfg /\ wpc = "sleep"
        /\ now' \in {now + 1, now + 2} /\ (ticked = TRUE => now' = now + 1)
    BY <1>1, Waking
  <2>2. lastRetry # 0 /\ now = IF ticked = TRUE THEN low + 1 ELSE low
    BY <2>1 DEF LookInv
  <2>3. low <= cfg[j].next
    BY <2>1, <2>2 DEF LoopInv, OnSchedule
  <2> QED BY <1>t, <2>1, <2>2, <2>3
<1>2. ASSUME wpc \in {"jobs", "fired"}, UNCHANGED <<seen, jumped>>, j >= job, cfg'[j] = cfg[j]
      PROVE  seen' <= cfg'[j].next + 2
  BY <1>2 DEF DueInv
<1>3. CASE Skip \/ Schedule \/ Reschedule
  <2>1. /\ wpc \in {"jobs", "fired"} /\ UNCHANGED <<seen, jumped, upsets>> /\ job' = job + 1
    BY <1>3 DEF Skip, Schedule, Reschedule, WorkerFrame, lookVars
  <2>2. j >= job /\ j # job
    BY <1>t, <2>1
  <2>3. ~Restart
    <3>1. Restart => upsets' = upsets + 1
      BY DEF Restart
    <3> QED BY <1>t, <2>1, <3>1
  <2>4. cfg'[j] = cfg[j]
    BY <2>2, <2>3, OthersKept
  <2> QED BY <1>2, <2>1, <2>2, <2>4
<1>4. CASE Fire
  <2>1. wpc = "jobs" /\ UNCHANGED <<seen, jumped, job, cfg>>
    BY <1>4 DEF Fire, WorkerFrame, lookVars, taskVars
  <2> QED BY <1>2, <2>1
<1>5. ~EndLoop /\ ~WorkerSave /\ ~Restart
  <2>1. EndLoop => wpc' \in {"sleep", "save"}
    BY DEF EndLoop, Sleep
  <2>2. WorkerSave => wpc' = "sleep"
    BY DEF WorkerSave, Sleep
  <2>3. Restart => wpc' = "sleep"
    BY DEF Restart
  <2> QED BY <2>1, <2>2, <2>3
<1>6. CASE WebStep \/ TakeAction \/ ClockStep \/ UNCHANGED vars
  <2>1. UNCHANGED <<wpc, seen, jumped, job>>
    BY <1>6 DEF WebStep, Edit, WebSave, TakeAction, ClockStep, GnssFix, SntpSync, SetClock,
                SetZone, Tick, vars, workerVars, lookVars
  <2>2. ~Schedule /\ ~Reschedule
    <3>1. job' = job /\ job \in Nat
      BY <1>t, <2>1
    <3>2. ~Schedule
      BY <3>1 DEF Schedule
    <3>3. ~Reschedule
      BY <3>1 DEF Reschedule
    <3> QED BY <3>2, <3>3
  <2>3. cfg'[j] = cfg[j]
    BY <1>5, <2>2, OthersKept
  <2> QED BY <1>2, <2>1, <2>3
<1> QED BY <1>1, <1>3, <1>4, <1>5, <1>6 DEF Next, WorkerStep

\* The n that calculate_next_run_epoch returns at t for that many days later.
Returned(n, t, z, days, tod) == n + z = (Day(t + z) + days) * DayLen + tod

PeriodLater(n, next, every) == \E lost \in {0, 1} : n = next + (every + lost) * DayLen

\* A task rescheduled up to three minutes after its time, from the day it is by
\* then, is due `every` days later, or one day more.
LEMMA NextPeriod ==
  ASSUME NEW next \in Nat, NEW z \in Nat, NEW tod \in Nat, NEW every \in Nat,
         NEW t \in Nat, next <= t, t <= next + 3, NEW n \in Nat,
         TimeOfDay(next + z) = tod, Returned(n, t, z, every, tod)
  PROVE  PeriodLater(n, next, every)
<1>1. next + z \in Nat /\ DayLen \in Nat
  BY ConstFacts
<1>2. PICK d \in Nat : d = Day(next + z)
  BY <1>1, DayBounds
<1>3. next + z = d * DayLen + tod
  <2>1. next + z + 0 = Day(next + z) * DayLen + (TimeOfDay(next + z) + 0)
    BY <1>1, DayParts
  <2> QED BY <1>1, <1>2, <2>1
<1>4. PICK lost \in {0, 1} : Day(t + z) = d + lost
  <2>1. PICK k \in 0..3 : t + z = next + z + k
    <3>1. t - next \in 0..3 /\ t + z = next + z + (t - next)
      OBVIOUS
    <3> QED BY <3>1
  <2>2. Day(next + z + k) = d \/ Day(next + z + k) = d + 1
    BY <1>1, <1>2, DayAfter
  <2> QED BY <1>2, <2>1, <2>2
<1>5. n + z = (d + lost + every) * DayLen + tod
  BY <1>4 DEF Returned
<1>6. (d + lost + every) * DayLen = d * DayLen + (every + lost) * DayLen
  BY <1>1, <1>2
<1>7. PICK x \in Nat, y \in Nat : x = d * DayLen /\ y = (every + lost) * DayLen
  BY <1>1, <1>2
<1>8. n + z = x + y + tod /\ next + z = x + tod
  BY <1>3, <1>5, <1>6, <1>7
<1>9. n = next + y
  BY <1>7, <1>8
<1> QED BY <1>7, <1>9 DEF PeriodLater

\* What Reschedule makes of a task whose start counts.
LEMMA PeriodKept ==
  ASSUME TypeOK, LookInv, ZoneInv, Reschedule, job \in Unedited, moved = FALSE,
         cfg[job].tz = zone, cfg[job].next # 0, cfg[job].every > 0,
         NEW late \in {1, 2}, seen = cfg[job].next + late
  PROVE  /\ cfg'[job].next # 0 /\ cfg'[job].every = cfg[job].every
         /\ \E lost \in {0, 1} :
              cfg'[job].next + late = seen + (cfg[job].every + lost) * DayLen
<1>1. /\ cfg'[job].next # 0 /\ cfg'[job].next \in Nat /\ cfg'[job].every = cfg[job].every
      /\ Returned(cfg'[job].next, now, zone, cfg[job].every, cfg[job].tod)
  BY Rescheduled DEF Returned
<1>2. cfg[job].next \in Nat /\ cfg[job].every \in Nat /\ cfg[job].tod \in Nat
  <2>1. cfg[job] \in Task
    BY DEF TypeOK, Unedited
  <2>2. cfg[job].next \in Nat /\ cfg[job].every \in Intervals /\ cfg[job].tod \in Times
    BY <2>1 DEF Task
  <2>3. (\A x \in Intervals : x \in Nat) /\ (\A x \in Times : x \in Nat)
    BY ConstFacts
  <2> QED BY <2>2, <2>3, Zenon
<1>3. TimeOfDay(cfg[job].next + zone) = cfg[job].tod
  BY DEF ZoneInv
<1>4. now \in Nat /\ cfg[job].next <= now /\ now <= cfg[job].next + 3
  <2>1. wpc = "fired"
    BY DEF Reschedule
  <2>2. seen = low /\ now = IF ticked = TRUE THEN low + 1 ELSE low
    BY <2>1 DEF LookInv
  <2>3. now = cfg[job].next + late \/ now = cfg[job].next + late + 1
    BY <2>2
  <2> QED BY <1>2, <2>3
<1>5. zone \in Nat
  BY ClockTypes
<1>6. PeriodLater(cfg'[job].next, cfg[job].next, cfg[job].every)
  BY <1>1, <1>2, <1>3, <1>4, <1>5, NextPeriod
<1>7. PICK lost \in {0, 1} :
        cfg'[job].next = cfg[job].next + (cfg[job].every + lost) * DayLen
  BY <1>6 DEF PeriodLater
<1>8. PICK y \in Nat : y = (cfg[job].every + lost) * DayLen
  BY <1>2, ConstFacts
<1>9. cfg'[job].next + late = seen + y
  BY <1>2, <1>7, <1>8
<1> QED BY <1>1, <1>8, <1>9

LEMMA PeriodStep ==
  TypeOK /\ LookInv /\ ZoneInv /\ DueInv /\ PeriodInv /\ [Next]_vars => PeriodInv'
<1> DEFINE Spaced(c, r) == c.every > 0 =>
             /\ c.next # 0
             /\ \E late \in {1, 2}, lost \in {0, 1} :
                  c.next + late = r + (c.every + lost) * DayLen
           Started(c, r, s) == /\ c.next # 0 /\ r = s
                               /\ \E late \in {1, 2} : s = c.next + late
<1> SUFFICES ASSUME TypeOK, LookInv, ZoneInv, DueInv, PeriodInv, [Next]_vars,
                    NEW j \in Unedited, ran'[j] # 0
             PROVE  IF wpc' = "fired" /\ job' = j
                    THEN moved' = FALSE /\ cfg'[j].tz = zone' /\ Started(cfg'[j], ran'[j], seen')
                    ELSE Spaced(cfg'[j], ran'[j])
  BY DEF PeriodInv
<1>t. /\ j \in Jobs /\ j \in Nat /\ job \in 1..(N + 1) /\ ran \in [Jobs -> Nat]
      /\ cfg[j].next \in Nat /\ seen \in Nat
  <2>1. j \in Jobs /\ j \in Nat /\ cfg \in [Jobs -> Task] /\ seen \in Nat
    BY ClockTypes DEF Unedited, Jobs
  <2>2. cfg[j].next \in Nat
    BY <2>1, TaskTypes
  <2> QED BY <2>1, <2>2, ClockTypes
<1>1. ASSUME ran[j] # 0, wpc = "fired", job = j
      PROVE  moved = FALSE /\ cfg[j].tz = zone /\ Started(cfg[j], ran[j], seen)
  BY <1>1 DEF PeriodInv
<1>2. ASSUME ran[j] # 0, ~(wpc = "fired" /\ job = j)
      PROVE  Spaced(cfg[j], ran[j])
  BY <1>2 DEF PeriodInv
<1> HIDE DEF Spaced, Started
\* A step that neither starts nor reschedules task j.
<1>3. ASSUME cfg'[j] = cfg[j], ran'[j] = ran[j], wpc # "fired", wpc' # "fired"
      PROVE  Spaced(cfg'[j], ran'[j])
  BY <1>2, <1>3
<1>4. CASE Wake
  <2>1. /\ cfg' = cfg /\ ran' = ran /\ wpc = "sleep" /\ wpc' \in {"jobs", "sleep"}
    BY <1>4, Waking
  <2> QED BY <1>3, <2>1
<1>5. CASE Skip \/ EndLoop \/ WorkerSave
  <2>1. /\ cfg' = cfg /\ ran' = ran /\ wpc # "fired" /\ wpc' # "fired"
    BY <1>5 DEF Skip, EndLoop, WorkerSave, Sleep, taskVars
  <2> QED BY <1>3, <2>1
<1>6. CASE Schedule
  <2>1. ran' = ran /\ wpc = "jobs" /\ wpc' = "jobs"
    BY <1>6 DEF Schedule
  <2>2. CASE j = job
    <3>1. cfg[j].next = 0 /\ Spaced(cfg[j], ran[j])
      BY <1>2, <1>6, <2>1, <2>2 DEF Schedule
    <3>2. ~(cfg[j].every > 0) /\ cfg'[j].every = cfg[j].every
      BY <1>6, <2>2, <3>1, Rescheduled DEF Spaced
    <3> QED BY <2>1, <3>2 DEF Spaced
  <2>3. CASE j # job
    <3>1. cfg'[j] = cfg[j]
      BY <1>6, <1>t, <2>3, AtJob
    <3> QED BY <1>3, <2>1, <3>1
  <2> QED BY <2>2, <2>3
<1>7. CASE Reschedule
  <2>1. ran' = ran /\ wpc = "fired" /\ wpc' = "jobs"
    BY <1>7 DEF Reschedule
  <2>2. CASE j = job
    <3>1. /\ moved = FALSE /\ cfg[j].tz = zone /\ cfg[j].next # 0 /\ ran[j] = seen
          /\ \E late \in {1, 2} : seen = cfg[j].next + late
      BY <1>1, <2>1, <2>2 DEF Started
    <3>2. cfg'[j].every = cfg[j].every
      BY <1>7, <2>2, Rescheduled
    <3>3. CASE cfg[j].every > 0
      <4>1. PICK late \in {1, 2} : seen = cfg[j].next + late
        BY <3>1
      <4>2. /\ cfg'[j].next # 0
            /\ \E lost \in {0, 1} :
                 cfg'[j].next + late = seen + (cfg[j].every + lost) * DayLen
        BY <1>7, <2>2, <3>1, <3>3, <4>1, PeriodKept
      <4> QED BY <2>1, <3>1, <3>2, <4>2 DEF Spaced
    <3>4. CASE ~(cfg[j].every > 0)
      BY <2>1, <3>2, <3>4 DEF Spaced
    <3> QED BY <3>3, <3>4
  <2>3. CASE j # job
    <3>1. cfg'[j] = cfg[j]
      BY <1>7, <1>t, <2>3, AtJob
    <3>2. Spaced(cfg[j], ran[j])
      BY <1>2, <2>1, <2>3
    <3> QED BY <2>1, <3>1, <3>2
  <2> QED BY <2>2, <2>3
<1>8. CASE Fire
  <2>1. /\ wpc = "jobs" /\ wpc' = "fired" /\ cfg[job].on /\ Due(cfg[job])
        /\ UNCHANGED <<cfg, job, seen, zone>>
        /\ ran' = [ran EXCEPT ![job] = IF Undisturbed THEN seen ELSE 0]
    BY <1>8 DEF Fire, WorkerFrame, clockVars, taskVars
  <2>2. moved' = moved
    BY <1>8, Zenon DEF Fire, WorkerFrame, lookVars
  <2>3. CASE j = job
    <3>1. Undisturbed /\ ran'[j] = seen
      BY <1>t, <2>1, <2>3
    <3>2. jumped = FALSE /\ moved = FALSE /\ cfg[j].tz = zone
      BY <2>3, <3>1, ClockTypes DEF Undisturbed
    <3>3. seen <= cfg[j].next + 2
      <4>1. j >= job
        BY <1>t, <2>3
      <4> QED BY <2>1, <2>3, <3>2, <4>1 DEF DueInv, Due
    <3>4. seen > cfg[j].next /\ cfg[j].next # 0
      BY <2>1, <2>3 DEF Due
    <3>5. \E late \in {1, 2} : seen = cfg[j].next + late
      BY <1>t, <3>3, <3>4
    <3> QED BY <2>1, <2>2, <2>3, <3>1, <3>2, <3>4, <3>5 DEF Started
  <2>4. CASE j # job
    <3>1. ran'[j] = ran[j]
      BY <1>t, <2>1, <2>4
    <3>2. Spaced(cfg[j], ran[j])
      BY <1>2, <2>1, <3>1
    <3> QED BY <2>1, <2>4, <3>1, <3>2
  <2> QED BY <2>3, <2>4
<1>9. CASE WebStep \/ TakeAction \/ Tick \/ UNCHANGED vars
  <2>1. UNCHANGED <<wpc, job, seen, zone, ran>>
    BY <1>9 DEF WebStep, Edit, WebSave, TakeAction, Tick, vars, clockVars, workerVars
  <2>2. moved' = moved
    BY <1>9 DEF WebStep, Edit, WebSave, TakeAction, Tick, vars, lookVars
  <2>3. cfg'[j] = cfg[j]
    <3>1. CASE TakeAction \/ Tick \/ UNCHANGED vars
      BY <3>1 DEF TakeAction, Tick, vars, taskVars
    <3>2. CASE WebStep
      <4>1. cfg \in [Jobs -> Task] /\ j \notin Editable
        BY DEF TypeOK, Unedited
      <4> QED BY <1>t, <3>2, <4>1 DEF WebStep, Edit, WebSave
    <3> QED BY <1>9, <3>1, <3>2
  <2>4. CASE wpc = "fired" /\ job = j
    BY <1>1, <2>1, <2>2, <2>3, <2>4
  <2>5. CASE ~(wpc = "fired" /\ job = j)
    BY <1>2, <2>1, <2>3, <2>5
  <2> QED BY <2>4, <2>5
<1>10. CASE GnssFix \/ SntpSync \/ SetZone
  <2>1. /\ UNCHANGED <<cfg, wpc, job>>
        /\ ran' = IF wpc = "fired" THEN [ran EXCEPT ![job] = 0] ELSE ran
    BY <1>10 DEF GnssFix, SntpSync, SetClock, SetZone, Disturb, workerVars, taskVars
  <2>2. ~(wpc = "fired" /\ job = j) /\ ran'[j] = ran[j]
    BY <1>t, <2>1
  <2>3. Spaced(cfg[j], ran[j])
    BY <1>2, <2>2
  <2> QED BY <2>1, <2>2, <2>3
<1>11. CASE Restart
  <2>1. ran' = [k \in Jobs |-> 0]
    BY <1>11 DEF Restart
  <2> QED BY <1>t, <2>1
<1> QED BY <1>4, <1>5, <1>6, <1>7, <1>8, <1>9, <1>10, <1>11
     DEF Next, ClockStep, WorkerStep

\* The start of a task that nobody edits, in the terms of the invariants.
LEMMA Starting ==
  ASSUME TypeOK, ZoneInv, DueInv, [Next]_vars, NEW j \in Unedited, Runs(j), ~jumped
  PROVE  /\ cfg[j] \in Task /\ cfg[j].next \in Nat \ {0} /\ wpc # "fired"
         /\ TimeOfDay(cfg[j].next + cfg[j].tz) = cfg[j].tod
         /\ \E late \in {1, 2} : seen = cfg[j].next + late
<1>1. j \in Jobs /\ j \in Nat /\ cfg[j] \in Task
  BY DEF Unedited, Jobs, TypeOK
<1>2. Fire
  BY <1>1 DEF Runs, Next, ClockStep, WorkerStep, WebStep, Wake, Skip, Schedule, Reschedule,
              EndLoop, WorkerSave, Sleep, Edit, WebSave, TakeAction, GnssFix, SntpSync,
              SetClock, SetZone, Tick, Restart, vars, workerVars
<1>3. job = j /\ wpc = "jobs" /\ cfg[j].on /\ cfg[j].next # 0 /\ seen > cfg[j].next
  BY <1>2 DEF Fire, Runs, Due
<1>4. cfg[j].next \in Nat /\ seen \in Nat
  BY <1>1, ClockTypes, TaskTypes
<1>5. seen <= cfg[j].next + 2
  <2>1. jumped = FALSE /\ j >= job
    BY <1>1, <1>3, ClockTypes
  <2> QED BY <1>3, <2>1 DEF DueInv
<1>6. \E late \in {1, 2} : seen = cfg[j].next + late
  BY <1>3, <1>4, <1>5
<1>7. TimeOfDay(cfg[j].next + cfg[j].tz) = cfg[j].tod
  BY <1>3 DEF ZoneInv
<1> QED BY <1>1, <1>3, <1>4, <1>6, <1>7

LEMMA RunsAlways == Spec => [](TypeOK /\ LookInv /\ ZoneInv /\ DueInv /\ PeriodInv)
<1>1. Init => ZoneInv /\ DueInv /\ PeriodInv
  <2> SUFFICES ASSUME Init PROVE ZoneInv /\ DueInv /\ PeriodInv
    OBVIOUS
  <2>1. \A j \in Unedited : cfg[j].next = 0 /\ nvs[j].next = 0 /\ ran[j] = 0
    BY DEF Init, Unedited
  <2>2. wpc = "sleep"
    BY DEF Init
  <2> QED BY <2>1, <2>2 DEF ZoneInv, DueInv, PeriodInv
<1>2. TypeOK /\ LookInv /\ LoopInv /\ ZoneInv /\ DueInv /\ PeriodInv /\ [Next]_vars
        => (ZoneInv /\ DueInv /\ PeriodInv)'
  BY ZoneStep, DueStep, PeriodStep
<1> QED BY <1>1, <1>2, LoopAlways, PTL DEF Spec

\* Whoever sets the clock and whatever is edited beside it, over restarts too, a
\* task that nobody edits starts one or two minutes after the time of day
\* configured for it, by the clock the worker has read, unless the clock was set
\* since the worker's look before that.
THEOREM OnTimeAlways == Spec => RunsOnTime
<1>1. TypeOK /\ ZoneInv /\ DueInv /\ [Next]_vars =>
        [\A j \in Unedited : Runs(j) /\ ~jumped => OnTime(j)]_vars
  <2> SUFFICES ASSUME TypeOK, ZoneInv, DueInv, [Next]_vars,
                      NEW j \in Unedited, Runs(j), ~jumped
               PROVE  OnTime(j)
    OBVIOUS
  <2>1. /\ cfg[j] \in Task /\ cfg[j].next \in Nat
        /\ TimeOfDay(cfg[j].next + cfg[j].tz) = cfg[j].tod
        /\ \E late \in {1, 2} : seen = cfg[j].next + late
    BY Starting
  <2>2. PICK late \in {1, 2} : seen = cfg[j].next + late
    BY <2>1
  <2>3. PICK t \in Nat : t = cfg[j].next + cfg[j].tz
    <3>1. cfg[j].tz \in Nat
      BY <2>1, ConstFacts DEF Task
    <3> QED BY <2>1, <3>1
  <2>4. seen + cfg[j].tz = t + late
    <3>1. cfg[j].tz \in Nat
      BY <2>1, ConstFacts DEF Task
    <3> QED BY <2>1, <2>2, <2>3, <3>1
  <2>5. (t + late) % DayLen = ((t % DayLen) + late) % DayLen
    BY ModAdd
  <2>6. t % DayLen = cfg[j].tod
    BY <2>1, <2>3 DEF TimeOfDay
  <2> QED BY <2>4, <2>5, <2>6 DEF OnTime, TimeOfDay
<1> QED BY <1>1, RunsAlways, PTL DEF Spec, RunsOnTime

\* A task with a period of n days that nobody edits starts again n or n + 1 days
\* later, give or take a minute, if neither clock nor zone was set around either
\* start and the device has not restarted in between: never sooner, and never
\* missing a turn.
THEOREM EveryInterval == Spec => RunsEveryInterval
<1>1. TypeOK /\ ZoneInv /\ DueInv /\ PeriodInv /\ [Next]_vars =>
        [\A j \in Unedited : Runs(j) /\ ~jumped /\ ran[j] # 0 /\ cfg[j].every > 0 =>
           \E lost \in {0, 1} : DaysApart(j, cfg[j].every + lost)]_vars
  <2> SUFFICES ASSUME TypeOK, ZoneInv, DueInv, PeriodInv, [Next]_vars,
                      NEW j \in Unedited, Runs(j), ~jumped, ran[j] # 0, cfg[j].every > 0
               PROVE  \E lost \in {0, 1} : DaysApart(j, cfg[j].every + lost)
    OBVIOUS
  <2>1. /\ cfg[j] \in Task /\ cfg[j].next \in Nat /\ wpc # "fired"
        /\ \E late \in {1, 2} : seen = cfg[j].next + late
    BY Starting
  <2>2. PICK late \in {1, 2} : seen = cfg[j].next + late
    BY <2>1
  <2>3. PICK late0 \in {1, 2}, lost \in {0, 1} :
          cfg[j].next + late0 = ran[j] + (cfg[j].every + lost) * DayLen
    BY <2>1 DEF PeriodInv
  <2>4. PICK y \in Nat : y = (cfg[j].every + lost) * DayLen
    <3>1. cfg[j].every \in Nat /\ DayLen \in Nat
      BY <2>1, ConstFacts DEF Task
    <3> QED BY <3>1
  <2>5. ran[j] \in Nat
    BY DEF TypeOK, Unedited
  <2>6. \E diff \in {-1, 0, 1} : seen = ran[j] + y + diff
    <3>1. seen = ran[j] + y + (late - late0)
      BY <2>1, <2>2, <2>3, <2>4, <2>5
    <3>2. late - late0 \in {-1, 0, 1}
      OBVIOUS
    <3> QED BY <3>1, <3>2
  <2>7. DaysApart(j, cfg[j].every + lost)
    BY <2>4, <2>6 DEF DaysApart
  <2> QED BY <2>7
<1> QED BY <1>1, RunsAlways, PTL DEF Spec, RunsEveryInterval

=============================================================================

--------------------------- MODULE NetLog_proofs ---------------------------
(***************************************************************************)
(* Proofs about the network events and the log service.                    *)
(***************************************************************************)
EXTENDS NetLog, TLAPS

-----------------------------------------------------------------------------
(* The event queue. *)

\* What stands in a queue after a post or a receive.
LEMMA AppendFacts ==
  ASSUME NEW S, NEW q \in Seq(S), NEW x \in S
  PROVE  /\ Append(q, x) \in Seq(S) /\ Len(Append(q, x)) = Len(q) + 1
         /\ DOMAIN Append(q, x) = 1..(Len(q) + 1)
         /\ \A i \in 1..Len(q) : Append(q, x)[i] = q[i]
         /\ Append(q, x)[Len(q) + 1] = x
  OBVIOUS

LEMMA TailFacts ==
  ASSUME NEW S, NEW q \in Seq(S), q # <<>>
  PROVE  /\ Tail(q) \in Seq(S) /\ Len(Tail(q)) = Len(q) - 1 /\ Len(q) \in Nat \ {0}
         /\ DOMAIN Tail(q) = 1..(Len(q) - 1)
         /\ \A i \in 1..(Len(q) - 1) : Tail(q)[i] = q[i + 1]
         /\ Head(q) = q[1] /\ Head(q) \in S /\ 1 \in DOMAIN q
         /\ \A i \in DOMAIN q : i # 1 => i - 1 \in DOMAIN Tail(q) /\ Tail(q)[i - 1] = q[i]
  OBVIOUS

\* Only events of the system are in the queue.
QueueOK == loop \in Seq(Events) /\ posting \in Urcs \cup {"no"}

LEMMA QueueStep == QueueOK /\ [Next]_vars => QueueOK'
<1> SUFFICES ASSUME QueueOK, [Next]_vars PROVE QueueOK' OBVIOUS
<1> USE DEF QueueOK
<1>1. ASSUME NEW e, Taken(e), posting' = posting PROVE QueueOK'
  BY <1>1, TailFacts DEF Taken
<1>2. ASSUME NEW e \in Events, StaEvent(e), posting' = posting PROVE QueueOK'
  BY <1>2, AppendFacts DEF StaEvent
<1>3. CASE UNCHANGED netVars BY <1>3 DEF netVars, modemVars
<1>4. CASE NetNext
  <2>1. ASSUME NEW e \in {"ring", "net"}, NEW b, Register(e, b) PROVE QueueOK'
    BY <2>1 DEF Register, modemVars
  <2>2. CASE StartWifi BY <2>2 DEF StartWifi, modemVars
  <2>3. ASSUME NEW s, NetUrc(s) PROVE QueueOK' BY <2>3 DEF NetUrc, Urcs
  <2>4. CASE RingUrc BY <2>4 DEF RingUrc, Urcs
  <2>5. CASE Post BY <2>5, AppendFacts DEF Post, Events
  <2>6. CASE PostTimeout BY <2>6 DEF PostTimeout
  <2>7. CASE StaStarts BY <2>7, <1>2 DEF StaStarts, Events, modemVars
  <2>8. CASE StaLoses BY <2>8, <1>2 DEF StaLoses, Events, modemVars
  <2>9. CASE StaGetsIp BY <2>9, <1>2 DEF StaGetsIp, Events, modemVars
  <2>10. ASSUME NEW r, HandleNet(r) PROVE QueueOK' BY <2>10, <1>1 DEF HandleNet, modemVars
  <2>11. CASE NetUnheard BY <2>11, <1>1 DEF NetUnheard, modemVars
  <2>12. ASSUME NEW on, HandleRing(on) PROVE QueueOK' BY <2>12, <1>1 DEF HandleRing, modemVars
  <2>13. CASE HandleStart BY <2>13, <1>1 DEF HandleStart, modemVars
  <2>14. CASE HandleLost BY <2>14, <1>1 DEF HandleLost, modemVars
  <2>15. CASE HandleIp BY <2>15, <1>1 DEF HandleIp, modemVars
  <2>16. CASE NtpEnds BY <2>16 DEF NtpEnds, modemVars
  <2> QED BY <1>4, <2>1, <2>2, <2>3, <2>4, <2>5, <2>6, <2>7, <2>8, <2>9, <2>10, <2>11,
            <2>12, <2>13, <2>14, <2>15, <2>16 DEF NetNext, LoopTask
<1> QED BY <1>3, <1>4 DEF Next, vars

LEMMA QueueTyped == Spec => []QueueOK
<1>1. Init => QueueOK BY DEF Init, NetInit, QueueOK, Urcs
<1> QED BY <1>1, QueueStep, PTL DEF Spec

\* What the queue holds at most.
LEMMA LengthStep == QueueOK /\ Len(loop) <= LoopCap /\ [Next]_vars => Len(loop') <= LoopCap
<1> SUFFICES ASSUME QueueOK, Len(loop) <= LoopCap, [Next]_vars PROVE Len(loop') <= LoopCap
  OBVIOUS
<1>0. Len(loop) \in Nat /\ LoopCap \in Nat BY NetAssumption DEF NetAssumption, QueueOK
<1>1. ASSUME NEW e \in Events, Room, loop' = Append(loop, e) PROVE Len(loop') <= LoopCap
  BY <1>0, <1>1, AppendFacts DEF Room, QueueOK
<1>2. ASSUME NEW e, Taken(e) PROVE Len(loop') <= LoopCap
  BY <1>0, <1>2, TailFacts DEF Taken, QueueOK
<1>3. CASE loop' = loop BY <1>3
<1>4. posting \in Urcs \cup {"no"} BY DEF QueueOK
<1> QED BY <1>1, <1>2, <1>3, <1>4
        DEF Next, vars, netVars, NetNext, LoopTask, Register, StartWifi, NetUrc, RingUrc, Post,
            PostTimeout, StaStarts, StaLoses, StaGetsIp, StaEvent, HandleNet, NetUnheard,
            HandleRing, HandleStart, HandleLost, HandleIp, NtpEnds, modemVars, Events

LEMMA BoundStep ==
  ASSUME [Next]_vars, urcs \in 0..MaxUrcs, drops \in 0..MaxDrops
  PROVE  urcs' \in 0..MaxUrcs /\ drops' \in 0..MaxDrops
<1>0. MaxUrcs \in Nat /\ MaxDrops \in Nat BY NetAssumption DEF NetAssumption
<1>1. urcs' = urcs \/ (urcs < MaxUrcs /\ urcs' = urcs + 1)
  BY DEF Next, vars, netVars, NetNext, LoopTask, Register, StartWifi, NetUrc, RingUrc, Post,
         PostTimeout, StaStarts, StaLoses, StaGetsIp, StaEvent, HandleNet, NetUnheard,
         HandleRing, HandleStart, HandleLost, HandleIp, NtpEnds, modemVars
<1>2. drops' = drops \/ (drops < MaxDrops /\ drops' = drops + 1)
  BY DEF Next, vars, netVars, NetNext, LoopTask, Register, StartWifi, NetUrc, RingUrc, Post,
         PostTimeout, StaStarts, StaLoses, StaGetsIp, StaEvent, HandleNet, NetUnheard,
         HandleRing, HandleStart, HandleLost, HandleIp, NtpEnds, staVars
<1> QED BY <1>0, <1>1, <1>2

NetBools ==
  /\ led \in BOOLEAN /\ attached \in BOOLEAN /\ missed \in BOOLEAN /\ untold \in BOOLEAN
  /\ netReady \in BOOLEAN /\ logReady \in BOOLEAN /\ ntp \in BOOLEAN

LEMMA NetBoolStep == NetBools /\ [Next]_vars => NetBools'
<1> SUFFICES ASSUME NetBools, [Next]_vars PROVE NetBools' OBVIOUS
<1>1. CASE UNCHANGED <<led, attached, missed, untold, netReady, logReady, ntp>>
  BY <1>1 DEF NetBools
<1>2. ASSUME NEW r, HandleNet(r) PROVE NetBools'
  <2>1. (~IsAttached(status)) \in BOOLEAN /\ IsAttached(status) \in BOOLEAN BY DEF IsAttached
  <2>2. led' = ~IsAttached(status) /\ attached' = IsAttached(status) /\ missed' = FALSE
    BY <1>2 DEF HandleNet
  <2>3. led' \in BOOLEAN /\ attached' \in BOOLEAN /\ missed' \in BOOLEAN BY <2>1, <2>2, Zenon
  <2>4. untold' \in {untold, TRUE, FALSE} BY <1>2 DEF HandleNet
  <2>5. UNCHANGED <<netReady, logReady, ntp>> BY <1>2 DEF HandleNet
  <2> QED BY <2>3, <2>4, <2>5 DEF NetBools
<1>3. CASE PostTimeout
  <2>1. missed' = (missed \/ posting = "net")
        /\ UNCHANGED <<led, attached, untold, netReady, logReady, ntp>>
    BY <1>3, Zenon DEF PostTimeout
  <2>2. missed' \in BOOLEAN BY <2>1, Zenon DEF NetBools
  <2> QED BY <2>1, <2>2 DEF NetBools
<1>4. CASE \/ missed' = TRUE
              /\ UNCHANGED <<led, attached, untold, netReady, logReady, ntp>>
           \/ logReady' \in {TRUE, FALSE} /\ netReady' \in {netReady, TRUE}
              /\ UNCHANGED <<led, attached, missed, untold, ntp>>
           \/ ntp' = TRUE
              /\ UNCHANGED <<led, attached, missed, untold, netReady, logReady>>
  BY <1>4 DEF NetBools
<1>5. CASE UNCHANGED netVars BY <1>1, <1>5 DEF netVars, noticeVars
<1>6. CASE NetNext
  <2>1. NetNext =>
          \/ UNCHANGED <<led, attached, missed, untold, netReady, logReady, ntp>>
          \/ PostTimeout \/ NetUnheard \/ HandleLost \/ HandleIp \/ NtpEnds
          \/ \E r \in BOOLEAN : HandleNet(r)
    BY DEF NetNext, LoopTask, Register, StartWifi, NetUrc, RingUrc, Post, StaStarts,
           StaLoses, StaGetsIp, HandleRing, HandleStart, noticeVars
  <2>2. NetUnheard \/ HandleLost \/ HandleIp \/ NtpEnds => NetBools'
    BY <1>4 DEF NetUnheard, HandleLost, HandleIp, NtpEnds, noticeVars
  <2> QED BY <1>1, <1>2, <1>3, <1>6, <2>1, <2>2
<1> QED BY <1>5, <1>6 DEF Next, vars

NetRest ==
  /\ handlers \in SUBSET {"ring", "net", "wifi"}
  /\ status \in Statuses \cup {"unknown"} /\ lpc \in {"idle", "ntp"}
  /\ told \in {"none", "up", "down"} /\ notices \in [boot : Nat, call : Nat]
  /\ sta \in {"off", "starting", "started", "trying", "online", "down"}

LEMMA NetRestStep == NetRest /\ [Next]_vars => NetRest'
<1> SUFFICES ASSUME NetRest, [Next]_vars PROVE NetRest' OBVIOUS
<1> USE DEF NetRest
<1>1. CASE UNCHANGED netVars BY <1>1 DEF netVars, modemVars, noticeVars, staVars
<1>2. CASE NetNext
  <2>1. ASSUME NEW e \in {"ring", "net"}, NEW b, Register(e, b) PROVE NetRest'
    BY <2>1 DEF Register, modemVars, noticeVars, staVars
  <2>2. CASE StartWifi BY <2>2 DEF StartWifi, modemVars, noticeVars, staVars
  <2>3. ASSUME NEW s \in Statuses \cup {status}, NetUrc(s) PROVE NetRest'
    BY <2>3 DEF NetUrc, modemVars, noticeVars, staVars
  <2>4. CASE RingUrc BY <2>4 DEF RingUrc, modemVars, noticeVars, staVars
  <2>5. CASE Post BY <2>5 DEF Post, modemVars, noticeVars, staVars
  <2>6. CASE PostTimeout BY <2>6 DEF PostTimeout, modemVars, noticeVars, staVars
  <2>7. CASE StaStarts BY <2>7 DEF StaStarts, modemVars, noticeVars, staVars, StaEvent
  <2>8. CASE StaLoses BY <2>8 DEF StaLoses, modemVars, noticeVars, staVars, StaEvent
  <2>9. CASE StaGetsIp BY <2>9 DEF StaGetsIp, modemVars, noticeVars, staVars, StaEvent
  <2>10. ASSUME NEW r \in BOOLEAN, HandleNet(r) PROVE NetRest'
    BY <2>10 DEF HandleNet, modemVars, noticeVars, staVars, Taken, IsAttached
  <2>11. CASE NetUnheard BY <2>11 DEF NetUnheard, modemVars, noticeVars, staVars, Taken
  <2>12. ASSUME NEW on \in BOOLEAN, HandleRing(on) PROVE NetRest'
    BY <2>12 DEF HandleRing, modemVars, noticeVars, staVars, Taken
  <2>13. CASE HandleStart BY <2>13 DEF HandleStart, modemVars, noticeVars, staVars, Taken
  <2>14. CASE HandleLost BY <2>14 DEF HandleLost, modemVars, noticeVars, staVars, Taken
  <2>15. CASE HandleIp BY <2>15 DEF HandleIp, modemVars, noticeVars, staVars, Taken
  <2>16. CASE NtpEnds BY <2>16 DEF NtpEnds, modemVars, noticeVars, staVars
  <2> QED BY <1>2, <2>1, <2>2, <2>3, <2>4, <2>5, <2>6, <2>7, <2>8, <2>9,
            <2>10, <2>11, <2>12, <2>13, <2>14, <2>15, <2>16 DEF NetNext, LoopTask
<1> QED BY <1>1, <1>2 DEF Next, vars

LEMMA NetTypeStep == QueueOK /\ NetTypeOK /\ [Next]_vars => NetTypeOK'
<1> SUFFICES ASSUME QueueOK, NetTypeOK, [Next]_vars PROVE NetTypeOK' OBVIOUS
<1>1. loop' \in Seq(Events) /\ posting' \in Urcs \cup {"no"} BY QueueStep DEF QueueOK
<1>2. Len(loop') <= LoopCap BY LengthStep DEF NetTypeOK
<1>3. urcs' \in 0..MaxUrcs /\ drops' \in 0..MaxDrops BY BoundStep DEF NetTypeOK
<1>4. NetRest' BY NetRestStep DEF NetTypeOK, NetRest
<1>5. NetBools' BY NetBoolStep DEF NetTypeOK, NetBools
<1> QED BY <1>1, <1>2, <1>3, <1>4, <1>5 DEF NetRest, NetBools, NetTypeOK

\* The state of the events keeps its types, and the queue its capacity
\* (main.c, modem_driver.c:322-357), for a queue of any length.
THEOREM TypeCorrect == Spec => []NetTypeOK
<1>1. ASSUME Init PROVE NetTypeOK
  <2>1. LoopCap \in Nat /\ MaxUrcs \in Nat /\ MaxDrops \in Nat
    BY NetAssumption DEF NetAssumption
  <2>2. loop \in Seq(Events) /\ Len(loop) = 0 BY <1>1 DEF Init, NetInit
  <2>3. NetBools BY <1>1 DEF Init, NetInit, NetBools
  <2>4. NetRest BY <1>1 DEF Init, NetInit, NetRest
  <2>5. posting \in Urcs \cup {"no"} /\ urcs = 0 /\ drops = 0 BY <1>1 DEF Init, NetInit
  <2> QED BY <2>1, <2>2, <2>3, <2>4, <2>5 DEF NetBools, NetRest, NetTypeOK
<1>2. QueueOK /\ NetTypeOK /\ [Next]_vars => NetTypeOK' BY NetTypeStep
<1> QED BY <1>1, <1>2, QueueTyped, PTL DEF Spec

-----------------------------------------------------------------------------
(* LED and notices. *)

\* The LED and s_last_attached are those of the status as soon as no change is
\* on its way; the last notice is that of s_last_attached.
StatusInv ==
  /\ led \in BOOLEAN /\ attached \in BOOLEAN
  /\ StatusHeard => led = ~Online /\ attached = Online
  /\ ~untold => (told = "up") = attached

\* A step that leaves the status and what was said of it alone, and loses no
\* report of a change.
LEMMA StatusKept ==
  ASSUME QueueOK, StatusInv, StatusHeard' => StatusHeard,
         UNCHANGED <<status, led, attached, told, untold>>
  PROVE  StatusInv'
BY DEF StatusInv, Online

\* An event other than NET_CHANGED leaves the queue.
LEMMA OtherTaken ==
  ASSUME QueueOK, NEW e, e # "net", Taken(e), UNCHANGED <<posting, missed>>
  PROVE  StatusHeard' => StatusHeard
<1> SUFFICES ASSUME StatusHeard' PROVE StatusHeard OBVIOUS
<1>1. posting # "net" /\ ~missed BY Zenon DEF StatusHeard
<1>2. \A i \in DOMAIN loop' : loop'[i] # "net" BY DEF StatusHeard
<1>3. \A i \in DOMAIN loop : loop[i] # "net"
  <2> SUFFICES ASSUME NEW i \in DOMAIN loop PROVE loop[i] # "net" OBVIOUS
  <2>1. CASE i = 1
    <3>1. loop \in Seq(Events) /\ loop # <<>> /\ Head(loop) = e BY DEF QueueOK, Taken
    <3>2. Head(loop) = loop[1] BY <3>1, TailFacts
    <3> QED BY <2>1, <3>1, <3>2
  <2>2. CASE i # 1
    <3>1. loop \in Seq(Events) /\ loop # <<>> /\ loop' = Tail(loop) BY DEF QueueOK, Taken
    <3>2. i - 1 \in DOMAIN Tail(loop) /\ Tail(loop)[i - 1] = loop[i] BY <2>2, <3>1, TailFacts
    <3> QED BY <3>1, <3>2, <1>2
  <2> QED BY <2>1, <2>2
<1> QED BY <1>1, <1>3, Zenon DEF StatusHeard

\* An event other than NET_CHANGED enters the queue.
LEMMA OtherPosted ==
  ASSUME QueueOK, NEW e \in Events, loop' = Append(loop, e), posting # "net", missed' = missed
  PROVE  StatusHeard' => StatusHeard
BY AppendFacts DEF QueueOK, StatusHeard

LEMMA HandleNetStep ==
  ASSUME QueueOK, StatusInv, NEW room \in BOOLEAN, HandleNet(room)
  PROVE  StatusInv'
<1> DEFINE a == status \in {"home", "roaming"}
<1>1. led' = ~a /\ attached' = a BY DEF HandleNet, IsAttached
<1>2. Online' = a BY DEF HandleNet, modemVars, Online
<1>3. led' \in BOOLEAN /\ attached' \in BOOLEAN BY <1>1
<1>4. ~untold' => (told' = "up") = attached'
  <2>1. CASE attached' = attached
    <3>1. told' = told /\ untold' = untold BY <2>1 DEF HandleNet
    <3> QED BY <2>1, <3>1 DEF StatusInv
  <2>2. CASE attached' # attached /\ room
    <3>1. told' = IF attached' THEN "up" ELSE "down" BY <2>2 DEF HandleNet
    <3> QED BY <3>1, <1>3
  <2>3. CASE attached' # attached /\ ~room
    <3>1. untold' = TRUE BY <2>3 DEF HandleNet
    <3> QED BY <3>1
  <2> QED BY <2>1, <2>2, <2>3
<1> QED BY <1>1, <1>2, <1>3, <1>4 DEF StatusInv

LEMMA StatusStep == QueueOK /\ StatusInv /\ [Next]_vars => StatusInv'
<1> SUFFICES ASSUME QueueOK, StatusInv, [Next]_vars PROVE StatusInv' OBVIOUS
<1>1. CASE UNCHANGED netVars
  <2>1. UNCHANGED <<status, led, attached, told, untold, posting, missed, loop>>
    BY <1>1 DEF netVars, modemVars, noticeVars
  <2> QED BY <2>1, StatusKept DEF StatusHeard
<1>2. CASE NetNext
  <2>1. ASSUME UNCHANGED <<modemVars, loop, noticeVars>> PROVE StatusInv'
    BY <2>1, StatusKept DEF StatusHeard, modemVars, noticeVars
  <2>2. ASSUME NEW e, e # "net", Taken(e),
               UNCHANGED <<modemVars, led, attached, missed, told, untold>>
        PROVE  StatusInv'
    BY <2>2, StatusKept, OtherTaken DEF modemVars
  <2>3. ASSUME NEW e \in Events, e # "net", StaEvent(e), UNCHANGED <<modemVars, noticeVars>>
        PROVE  StatusInv'
    <3>1. UNCHANGED <<status, led, attached, told, untold, missed, posting>>
      BY <2>3 DEF modemVars, noticeVars
    <3>2. StatusHeard' => StatusHeard
      BY <2>3, <3>1, AppendFacts DEF QueueOK, StatusHeard, StaEvent
    <3> QED BY <3>1, <3>2, StatusKept
  <2>4. ASSUME NEW e \in {"ring", "net"}, NEW b, Register(e, b) PROVE StatusInv'
    BY <2>4, <2>1 DEF Register
  <2>5. CASE StartWifi BY <2>5, <2>1 DEF StartWifi
  <2>6. ASSUME NEW s, NetUrc(s) PROVE StatusInv'
    <3>1. ~StatusHeard' BY <2>6 DEF NetUrc, StatusHeard
    <3>2. UNCHANGED <<led, attached, told, untold>> BY <2>6 DEF NetUrc, noticeVars
    <3> QED BY <3>1, <3>2 DEF StatusInv
  <2>7. CASE RingUrc
    <3>1. UNCHANGED <<status, led, attached, told, untold>> BY <2>7 DEF RingUrc, noticeVars
    <3>2. StatusHeard' => StatusHeard BY <2>7 DEF RingUrc, StatusHeard, noticeVars
    <3> QED BY <3>1, <3>2, StatusKept
  <2>8. CASE Post
    <3>1. UNCHANGED <<status, led, attached, told, untold, missed>> BY <2>8 DEF Post, noticeVars
    <3>2. StatusHeard' => StatusHeard
      BY <2>8, <3>1, AppendFacts DEF QueueOK, Post, StatusHeard, Events
    <3> QED BY <3>1, <3>2, StatusKept
  <2>9. CASE PostTimeout
    <3>1. UNCHANGED <<status, led, attached, told, untold>> BY <2>9 DEF PostTimeout
    <3>2. missed' = (missed \/ posting = "net") /\ loop' = loop BY <2>9 DEF PostTimeout
    <3>3. StatusHeard' => StatusHeard BY <3>2, Zenon DEF StatusHeard
    <3> QED BY <3>1, <3>3, StatusKept
  <2>10. CASE StaStarts BY <2>10, <2>3 DEF StaStarts, Events
  <2>11. CASE StaLoses BY <2>11, <2>3 DEF StaLoses, Events
  <2>12. CASE StaGetsIp BY <2>12, <2>3 DEF StaGetsIp, Events
  <2>13. ASSUME NEW r \in BOOLEAN, HandleNet(r) PROVE StatusInv' BY <2>13, HandleNetStep
  <2>14. CASE NetUnheard
    <3>1. UNCHANGED <<status, led, attached, told, untold>> /\ missed' = TRUE
      BY <2>14 DEF NetUnheard, modemVars
    <3>2. ~StatusHeard' BY <3>1 DEF StatusHeard
    <3> QED BY <3>1, <3>2, StatusKept
  <2>15. ASSUME NEW on, HandleRing(on) PROVE StatusInv' BY <2>15, <2>2 DEF HandleRing
  <2>16. CASE HandleStart BY <2>16, <2>2 DEF HandleStart, noticeVars
  <2>17. CASE HandleLost BY <2>17, <2>2 DEF HandleLost, noticeVars
  <2>18. CASE HandleIp BY <2>18, <2>2 DEF HandleIp, noticeVars
  <2>19. CASE NtpEnds
    <3>1. UNCHANGED <<status, led, attached, told, untold, posting, missed, loop>>
      BY <2>19 DEF NtpEnds, modemVars
    <3> QED BY <3>1, StatusKept DEF StatusHeard
  <2> QED BY <1>2, <2>4, <2>5, <2>6, <2>7, <2>8, <2>9, <2>10, <2>11, <2>12, <2>13, <2>14,
            <2>15, <2>16, <2>17, <2>18, <2>19 DEF NetNext, LoopTask
<1> QED BY <1>1, <1>2 DEF Next, vars

\* modem_net_event_handler leaves LED and notice as the status of the network
\* wants them, for a queue of any length and any number of changes.
THEOREM StatusIsShown == Spec => []StatusShown
<1>1. Init => StatusInv
  <2>1. Init => led = TRUE /\ attached = FALSE /\ status = "unknown" /\ told = "none"
    BY DEF Init, NetInit
  <2>2. Init => Online = FALSE /\ (told = "up") = FALSE BY <2>1 DEF Online
  <2>3. Init => led = ~Online /\ attached = Online /\ (told = "up") = attached
    BY <2>1, <2>2
  <2> QED BY <2>1, <2>3 DEF StatusInv
<1>2. StatusInv => StatusShown BY Zenon DEF StatusInv, StatusShown
<1> QED BY <1>1, <1>2, StatusStep, QueueTyped, PTL DEF Spec

-----------------------------------------------------------------------------
(* The log and the Wi-Fi station. *)

\* Which events of the station may be in the queue, and what they say of it.
WifiEvents ==
  /\ \A i \in DOMAIN loop : loop[i] = "start" =>
       sta = "started" /\ \A j \in DOMAIN loop : loop[j] = "start" => j = i
  /\ \A i \in DOMAIN loop : loop[i] = "lost" =>
       sta = "down" /\ \A j \in DOMAIN loop : j > i => loop[j] \notin {"lost", "ip"}
  /\ \A i \in DOMAIN loop : loop[i] = "ip" => sta \in {"online", "down"}
  /\ sta = "down" => \E i \in DOMAIN loop : loop[i] = "lost"
  /\ "wifi" \in handlers \/ sta = "off"

Wifi == {"start", "lost", "ip"}
WifiInv == WifiEvents /\ LogFollowsWifi

\* The queue before and after an event is taken, or posted, index by index.
LEMMA TakenFacts ==
  ASSUME QueueOK, NEW e, Taken(e)
  PROVE  /\ DOMAIN loop \subseteq Nat /\ DOMAIN loop' \subseteq Nat
         /\ 1 \in DOMAIN loop /\ loop[1] = e
         /\ \A i \in DOMAIN loop' : i + 1 \in DOMAIN loop /\ loop'[i] = loop[i + 1]
         /\ \A i \in DOMAIN loop : i # 1 => i - 1 \in DOMAIN loop' /\ loop'[i - 1] = loop[i]
<1>1. loop \in Seq(Events) /\ loop # <<>> /\ Head(loop) = e /\ loop' = Tail(loop)
  BY DEF QueueOK, Taken
<1>2. DOMAIN loop = 1..Len(loop) /\ Len(loop) \in Nat BY <1>1
<1> QED BY <1>1, <1>2, TailFacts

LEMMA PostedFacts ==
  ASSUME QueueOK, NEW e \in Events, loop' = Append(loop, e)
  PROVE  /\ Len(loop) \in Nat /\ DOMAIN loop = 1..Len(loop)
         /\ DOMAIN loop' = 1..(Len(loop) + 1) /\ loop'[Len(loop) + 1] = e
         /\ \A i \in 1..Len(loop) : loop'[i] = loop[i]
<1>1. loop \in Seq(Events) BY DEF QueueOK
<1>2. Len(loop) \in Nat /\ DOMAIN loop = 1..Len(loop) BY <1>1
<1> QED BY <1>1, <1>2, AppendFacts

LEMMA WifiEventsTaken ==
  ASSUME QueueOK, WifiEvents, NEW e, e # "lost", Taken(e), UNCHANGED <<handlers, sta>>
  PROVE  WifiEvents'
<1>1. \A i \in DOMAIN loop' : loop'[i] = "start" =>
        sta = "started" /\ \A j \in DOMAIN loop' : loop'[j] = "start" => j = i
  <2> SUFFICES ASSUME NEW i \in DOMAIN loop', loop'[i] = "start"
               PROVE  sta = "started" /\ \A j \in DOMAIN loop' : loop'[j] = "start" => j = i
    OBVIOUS
  <2>1. i + 1 \in DOMAIN loop /\ loop[i + 1] = "start" BY TakenFacts
  <2>2. sta = "started" /\ \A j \in DOMAIN loop : loop[j] = "start" => j = i + 1
    BY <2>1 DEF WifiEvents
  <2>3. ASSUME NEW j \in DOMAIN loop', loop'[j] = "start" PROVE j = i
    <3>1. j + 1 \in DOMAIN loop /\ loop[j + 1] = "start" BY <2>3, TakenFacts
    <3>2. j + 1 = i + 1 /\ i \in Nat /\ j \in Nat BY <3>1, <2>2, TakenFacts
    <3> QED BY <3>2
  <2> QED BY <2>2, <2>3
<1>2. \A i \in DOMAIN loop' : loop'[i] = "lost" =>
        sta = "down" /\ \A j \in DOMAIN loop' : j > i => loop'[j] \notin {"lost", "ip"}
  <2> SUFFICES ASSUME NEW i \in DOMAIN loop', loop'[i] = "lost"
               PROVE  sta = "down"
                      /\ \A j \in DOMAIN loop' : j > i => loop'[j] \notin {"lost", "ip"}
    OBVIOUS
  <2>1. i + 1 \in DOMAIN loop /\ loop[i + 1] = "lost" BY TakenFacts
  <2>2. sta = "down" /\ \A j \in DOMAIN loop : j > i + 1 => loop[j] \notin {"lost", "ip"}
    BY <2>1 DEF WifiEvents
  <2>3. ASSUME NEW j \in DOMAIN loop', j > i PROVE loop'[j] \notin {"lost", "ip"}
    <3>1. j + 1 \in DOMAIN loop /\ loop[j + 1] = loop'[j] BY TakenFacts
    <3>2. j + 1 > i + 1 BY <2>3, TakenFacts
    <3> QED BY <3>1, <3>2, <2>2
  <2> QED BY <2>2, <2>3
<1>3. \A i \in DOMAIN loop' : loop'[i] = "ip" => sta \in {"online", "down"}
  BY TakenFacts DEF WifiEvents
<1>4. sta = "down" => \E i \in DOMAIN loop' : loop'[i] = "lost"
  <2> SUFFICES ASSUME sta = "down" PROVE \E i \in DOMAIN loop' : loop'[i] = "lost" OBVIOUS
  <2>1. PICK i \in DOMAIN loop : loop[i] = "lost" BY DEF WifiEvents
  <2>2. i # 1 BY <2>1, TakenFacts
  <2> QED BY <2>1, <2>2, TakenFacts
<1> QED BY <1>1, <1>2, <1>3, <1>4 DEF WifiEvents

LEMMA WifiOtherTaken ==
  ASSUME QueueOK, WifiInv, NEW e, e \notin Wifi, Taken(e),
         UNCHANGED <<handlers, sta, logReady>>
  PROVE  WifiInv'
<1>1. WifiEvents' BY WifiEventsTaken DEF WifiInv, Wifi
<1>2. LogFollowsWifi'
  <2> SUFFICES ASSUME \A i \in DOMAIN loop' : loop'[i] \notin {"lost", "ip"}
               PROVE  logReady = (sta = "online")
    BY DEF LogFollowsWifi
  <2>1. ASSUME NEW i \in DOMAIN loop PROVE loop[i] \notin {"lost", "ip"}
    <3>1. CASE i = 1 BY <3>1, TakenFacts DEF Wifi
    <3>2. CASE i # 1 BY <3>2, TakenFacts
    <3> QED BY <3>1, <3>2
  <2> QED BY <2>1 DEF WifiInv, LogFollowsWifi
<1> QED BY <1>1, <1>2 DEF WifiInv

LEMMA WifiOtherPosted ==
  ASSUME QueueOK, WifiInv, NEW e \in Events, e \notin Wifi, loop' = Append(loop, e),
         UNCHANGED <<handlers, sta, logReady>>
  PROVE  WifiInv'
<1>1. WifiEvents' BY PostedFacts DEF WifiInv, WifiEvents, Wifi
<1>2. LogFollowsWifi' BY PostedFacts DEF WifiInv, LogFollowsWifi, Wifi
<1> QED BY <1>1, <1>2 DEF WifiInv

\* The station's own events enter the queue.
LEMMA WifiPosted ==
  ASSUME QueueOK, WifiInv, NEW e \in {"start", "lost", "ip"}, loop' = Append(loop, e),
         UNCHANGED <<handlers, logReady>>,
         \/ e = "start" /\ sta = "starting" /\ sta' = "started"
         \/ e = "lost" /\ sta \in {"trying", "online"} /\ sta' = "down"
         \/ e = "ip" /\ sta = "trying" /\ sta' = "online"
  PROVE  WifiInv'
<1>1. e \in Events BY DEF Events
<1>2. \A i \in DOMAIN loop : loop[i] \notin {"start", "lost"} BY DEF WifiInv, WifiEvents
<1>3. e # "lost" => \A i \in DOMAIN loop : loop[i] # "ip" BY DEF WifiInv, WifiEvents
<1>4. "wifi" \in handlers' BY DEF WifiInv, WifiEvents
<1>5. WifiEvents' BY <1>1, <1>2, <1>3, <1>4, PostedFacts DEF WifiEvents
<1>6. LogFollowsWifi'
  <2>1. CASE e = "start"
    <3>1. logReady = FALSE BY <2>1, <1>2, <1>3 DEF WifiInv, LogFollowsWifi
    <3> QED BY <2>1, <3>1 DEF LogFollowsWifi
  <2>2. CASE e \in {"lost", "ip"}
    <3>1. Len(loop) + 1 \in DOMAIN loop' /\ loop'[Len(loop) + 1] = e BY <1>1, PostedFacts
    <3> QED BY <2>2, <3>1 DEF LogFollowsWifi
  <2> QED BY <2>1, <2>2
<1> QED BY <1>5, <1>6 DEF WifiInv

\* No event of the station is left behind the one that is taken.
LEMMA NoneLeft ==
  ASSUME WifiInv, sta' = "trying", logReady' = FALSE, handlers' = handlers, sta # "off",
         \A i \in DOMAIN loop' : loop'[i] \notin Wifi
  PROVE  WifiInv'
<1>1. WifiEvents' BY DEF WifiInv, WifiEvents, Wifi
<1>2. LogFollowsWifi' BY DEF LogFollowsWifi
<1> QED BY <1>1, <1>2 DEF WifiInv

LEMMA StartTaken ==
  ASSUME QueueOK, WifiInv, Taken("start"), sta' = "trying", UNCHANGED <<handlers, logReady>>
  PROVE  WifiInv'
<1>1. sta = "started" /\ \A j \in DOMAIN loop : loop[j] = "start" => j = 1
  BY TakenFacts DEF WifiInv, WifiEvents
<1>2. \A i \in DOMAIN loop : loop[i] \notin {"lost", "ip"} BY <1>1 DEF WifiInv, WifiEvents
<1>3. logReady = FALSE BY <1>1, <1>2 DEF WifiInv, LogFollowsWifi
<1>4. ASSUME NEW i \in DOMAIN loop' PROVE loop'[i] \notin Wifi
  <2>1. i + 1 \in DOMAIN loop /\ loop'[i] = loop[i + 1] /\ i \in DOMAIN loop' BY TakenFacts
  <2>2. i # 0
    <3>1. loop' = Tail(loop) /\ loop \in Seq(Events) /\ loop # <<>> BY DEF Taken, QueueOK
    <3> QED BY <3>1, TailFacts
  <2>3. i + 1 # 1 BY <2>2, TakenFacts
  <2> QED BY <2>1, <2>3, <1>1, <1>2 DEF Wifi
<1> QED BY <1>1, <1>3, <1>4, NoneLeft

LEMMA LostTaken ==
  ASSUME QueueOK, WifiInv, Taken("lost"), sta' = "trying", logReady' = FALSE,
         handlers' = handlers
  PROVE  WifiInv'
<1>1. sta = "down" /\ \A j \in DOMAIN loop : j > 1 => loop[j] \notin {"lost", "ip"}
  BY TakenFacts DEF WifiInv, WifiEvents
<1>2. \A i \in DOMAIN loop : loop[i] # "start" BY <1>1 DEF WifiInv, WifiEvents
<1>3. ASSUME NEW i \in DOMAIN loop' PROVE loop'[i] \notin Wifi
  <2>1. i + 1 \in DOMAIN loop /\ loop'[i] = loop[i + 1] BY TakenFacts
  <2>2. i \in Nat /\ i # 0
    <3>1. loop' = Tail(loop) /\ loop \in Seq(Events) /\ loop # <<>> BY DEF Taken, QueueOK
    <3> QED BY <3>1, TailFacts
  <2>3. i + 1 > 1 BY <2>2
  <2> QED BY <2>1, <2>3, <1>1, <1>2 DEF Wifi
<1> QED BY <1>1, <1>3, NoneLeft

LEMMA IpTaken ==
  ASSUME QueueOK, WifiInv, Taken("ip"), logReady' = TRUE, UNCHANGED <<handlers, sta>>
  PROVE  WifiInv'
<1>1. WifiEvents' BY WifiEventsTaken DEF WifiInv
<1>2. sta \in {"online", "down"} BY TakenFacts DEF WifiInv, WifiEvents
<1>3. LogFollowsWifi'
  <2> SUFFICES ASSUME \A i \in DOMAIN loop' : loop'[i] \notin {"lost", "ip"}
               PROVE  sta' = "online"
    BY DEF LogFollowsWifi
  <2> QED BY <1>1, <1>2 DEF WifiEvents
<1> QED BY <1>1, <1>3 DEF WifiInv

LEMMA WifiStep == QueueOK /\ WifiInv /\ [Next]_vars => WifiInv'
<1> SUFFICES ASSUME QueueOK, WifiInv, [Next]_vars PROVE WifiInv' OBVIOUS
<1>1. ASSUME UNCHANGED <<loop, sta, logReady>>, "wifi" \in handlers => "wifi" \in handlers'
      PROVE  WifiInv'
  BY <1>1 DEF WifiInv, WifiEvents, LogFollowsWifi
<1>2. CASE UNCHANGED netVars BY <1>2, <1>1 DEF netVars, staVars
<1>3. CASE NetNext
  <2>1. ASSUME NEW e \in {"ring", "net"}, NEW b, Register(e, b) PROVE WifiInv'
    BY <2>1, <1>1 DEF Register, staVars
  <2>2. CASE StartWifi
    <3>1. UNCHANGED <<loop, logReady>> /\ sta' = "starting" /\ sta = "off" /\ "wifi" \in handlers'
      BY <2>2 DEF StartWifi, WifiInv, WifiEvents
    <3> QED BY <3>1 DEF WifiInv, WifiEvents, LogFollowsWifi
  <2>3. ASSUME NEW s, NetUrc(s) PROVE WifiInv' BY <2>3, <1>1 DEF NetUrc, staVars
  <2>4. CASE RingUrc BY <2>4, <1>1 DEF RingUrc, staVars
  <2>5. CASE Post BY <2>5, WifiOtherPosted DEF Post, QueueOK, Events, Urcs, Wifi, staVars
  <2>6. CASE PostTimeout BY <2>6, <1>1 DEF PostTimeout, staVars
  <2>7. CASE StaStarts
    <3>1. loop' = Append(loop, "start") /\ sta = "starting" /\ sta' = "started"
          /\ UNCHANGED <<handlers, logReady>>
      BY <2>7 DEF StaStarts, StaEvent
    <3> QED BY <3>1, WifiPosted DEF Events
  <2>8. CASE StaLoses
    <3>1. loop' = Append(loop, "lost") /\ sta \in {"trying", "online"} /\ sta' = "down"
          /\ UNCHANGED <<handlers, logReady>>
      BY <2>8 DEF StaLoses, StaEvent
    <3> QED BY <3>1, WifiPosted
  <2>9. CASE StaGetsIp
    <3>1. loop' = Append(loop, "ip") /\ sta = "trying" /\ sta' = "online"
          /\ UNCHANGED <<handlers, logReady>>
      BY <2>9 DEF StaGetsIp, StaEvent
    <3> QED BY <3>1, WifiPosted
  <2>10. ASSUME NEW room, HandleNet(room) PROVE WifiInv'
    BY <2>10, WifiOtherTaken DEF HandleNet, staVars, Wifi
  <2>11. CASE NetUnheard BY <2>11, WifiOtherTaken DEF NetUnheard, staVars, Wifi
  <2>12. ASSUME NEW on, HandleRing(on) PROVE WifiInv'
    BY <2>12, WifiOtherTaken DEF HandleRing, staVars, Wifi
  <2>13. CASE HandleStart
    <3>1. Taken("start") /\ sta' = "trying" /\ UNCHANGED <<handlers, logReady>>
      BY <2>13 DEF HandleStart
    <3> QED BY <3>1, StartTaken
  <2>14. CASE HandleLost
    <3>1. Taken("lost") /\ sta' = "trying" /\ logReady' = FALSE /\ handlers' = handlers
      BY <2>14 DEF HandleLost
    <3> QED BY <3>1, LostTaken
  <2>15. CASE HandleIp
    <3>1. Taken("ip") /\ logReady' = TRUE /\ UNCHANGED <<handlers, sta>>
      BY <2>15 DEF HandleIp, staVars
    <3> QED BY <3>1, IpTaken
  <2>16. CASE NtpEnds BY <2>16, <1>1 DEF NtpEnds, staVars
  <2> QED BY <1>3, <2>1, <2>2, <2>3, <2>4, <2>5, <2>6, <2>7, <2>8, <2>9, <2>10, <2>11,
            <2>12, <2>13, <2>14, <2>15, <2>16 DEF NetNext, LoopTask
<1> QED BY <1>2, <1>3, <1>1 DEF Next, vars

\* wifi_event_handler switches the log on and off with the link, for a queue of
\* any length and any number of losses.
THEOREM LogFollows == Spec => []LogFollowsWifi
<1>1. Init => WifiInv
  <2>1. Init => loop = <<>> /\ sta = "off" /\ logReady = FALSE BY DEF Init, NetInit
  <2>2. Init => DOMAIN loop = {} BY <2>1
  <2>3. Init => WifiEvents BY <2>1, <2>2 DEF WifiEvents
  <2>4. Init => LogFollowsWifi BY <2>1 DEF LogFollowsWifi
  <2> QED BY <2>3, <2>4 DEF WifiInv
<1>2. WifiInv => LogFollowsWifi BY DEF WifiInv
<1> QED BY <1>1, <1>2, WifiStep, QueueTyped, PTL DEF Spec

-----------------------------------------------------------------------------
(* The log's worker. *)

\* Which of the worker's steps have a socket; the worker's variables are typed.
SocketInv ==
  /\ cache \in [ready : BOOLEAN, server : STRING, port : Nat]
  /\ open = IF sock = NoSocket THEN {} ELSE {sock}
  /\ wpc \in {"lookup", "open"} => sock = NoSocket
  /\ wpc = "send" \/ cache.ready => sock # NoSocket
  /\ config.server \in STRING /\ port \in Nat /\ config.port \in Nat

\* The end of a step that closes the socket.
LEMMA Closed ==
  ASSUME SocketInv, Log!CloseSocket, cache' = [cache EXCEPT !.ready = FALSE], wpc' # "send",
         config'.server \in STRING, port' \in Nat, config'.port \in Nat
  PROVE  SocketInv'
<1>1. sock' = NoSocket /\ open' = {} BY DEF SocketInv, Log!CloseSocket
<1>2. cache' \in [ready : BOOLEAN, server : STRING, port : Nat] /\ ~cache'.ready
  BY DEF SocketInv
<1> QED BY <1>1, <1>2 DEF SocketInv

LEMMA SocketKept ==
  ASSUME SocketInv, UNCHANGED <<cache, open, sock>>,
         wpc' = wpc \/ wpc' = "receive" \/ wpc' = "resolve",
         config'.server \in STRING, port' \in Nat, config'.port \in Nat
  PROVE  SocketInv'
BY DEF SocketInv

LEMMA SocketStep == SocketInv /\ [Next]_vars => SocketInv'
<1> SUFFICES ASSUME SocketInv, [Next]_vars PROVE SocketInv' OBVIOUS
<1>0. config.server \in STRING /\ port \in Nat /\ config.port \in Nat BY DEF SocketInv
<1>1. CASE UNCHANGED logVars BY <1>1 DEF logVars, SocketInv
<1>2. CASE Log!LogNext
  <2>1. CASE Log!WriteLog BY <2>1, <1>0, SocketKept DEF Log!WriteLog, Log!workerVars
  <2>2. ASSUME NEW on \in BOOLEAN, NEW t \in Targets, Log!SaveLog(on, t) PROVE SocketInv'
    <3>1. config' = [enabled |-> on, server |-> t.server, port |-> t.port]
          /\ UNCHANGED <<wpc, port, cache, open, sock>>
      BY <2>2 DEF Log!SaveLog, Log!workerVars
    <3>2. t.server \in STRING /\ t.port \in Nat BY LogAssumption
    <3> QED BY <3>1, <3>2, <1>0, SocketKept
  <2>3. CASE Log!ReceiveLine
    <3>1. UNCHANGED <<config, cache, open, sock>> /\ port' \in {port, config.port}
          /\ wpc' \in {wpc, "resolve"}
      BY <2>3 DEF Log!ReceiveLine
    <3> QED BY <3>1, <1>0, SocketKept
  <2>4. CASE Log!Resolve
    <3>1. config' = config /\ port' = port BY <2>4 DEF Log!Resolve
    <3>2. CASE config.server = NoServer
      BY <3>1, <3>2, <2>4, <1>0, SocketKept DEF Log!Resolve
    <3>3. CASE config.server # NoServer /\ Log!CacheHit
      <4>1. wpc' = "send" /\ UNCHANGED <<cache, sock, open>> /\ cache.ready
        BY <3>3, <2>4 DEF Log!Resolve, Log!CacheHit
      <4> QED BY <4>1, <3>1 DEF SocketInv
    <3>4. CASE config.server # NoServer /\ ~Log!CacheHit
      <4>1. wpc' = "lookup" /\ cache' = [cache EXCEPT !.ready = FALSE] /\ Log!CloseSocket
        BY <3>4, <2>4 DEF Log!Resolve
      <4> QED BY <4>1, <3>1, <1>0, Closed
    <3> QED BY <3>2, <3>3, <3>4
  <2>5. ASSUME NEW ok \in BOOLEAN, Log!Lookup(ok) PROVE SocketInv'
    <3>1. UNCHANGED <<config, port, cache, sock, open>> /\ wpc = "lookup"
          /\ wpc' \in {"open", "receive"}
      BY <2>5 DEF Log!Lookup
    <3> QED BY <3>1, <1>0 DEF SocketInv
  <2>6. CASE Log!OpenSocket
    <3>1. PICK s \in Sockets : sock' = s /\ open' = open \cup {s} BY <2>6 DEF Log!OpenSocket
    <3>2. wpc = "open" /\ config' = config /\ port' = port /\ wpc' = "send"
          /\ cache' = [ready |-> TRUE, server |-> config.server, port |-> port]
      BY <2>6 DEF Log!OpenSocket
    <3>3. open' = {sock'} /\ sock' # NoSocket BY <3>1, <3>2, LogAssumption DEF SocketInv
    <3> QED BY <3>2, <3>3, <1>0 DEF SocketInv
  <2>7. CASE Log!SocketFails BY <2>7, <1>0, SocketKept DEF Log!SocketFails
  <2>8. CASE Log!SendOk BY <2>8, <1>0, SocketKept DEF Log!SendOk
  <2>9. CASE Log!SendFails BY <2>9, <1>0, Closed DEF Log!SendFails
  <2> QED BY <1>2, <2>1, <2>2, <2>3, <2>4, <2>5, <2>6, <2>7, <2>8, <2>9 DEF Log!LogNext
<1> QED BY <1>1, <1>2 DEF Next, vars

LEMMA SocketAlways == Spec => []SocketInv
<1>1. Init => SocketInv
  <2>1. Stored.server \in STRING /\ Stored.port \in Nat BY LogAssumption
  <2>2. Stored.server \in STRING /\ NoServer \in STRING BY <2>1, LogAssumption
  <2> SUFFICES ASSUME Init PROVE SocketInv OBVIOUS
  <2>3. config = [enabled |-> TRUE, server |-> Stored.server, port |-> Stored.port]
        /\ cache = [ready |-> FALSE, server |-> NoServer, port |-> 0]
        /\ wpc = "receive" /\ port = 0 /\ sock = NoSocket /\ open = {}
    BY DEF Init, Log!LogInit
  <2>4. cache \in [ready : BOOLEAN, server : STRING, port : Nat] /\ ~cache.ready
    BY <2>2, <2>3
  <2>5. config.server \in STRING /\ config.port \in Nat BY <2>1, <2>3
  <2> QED BY <2>3, <2>4, <2>5 DEF SocketInv
<1> QED BY <1>1, SocketStep, PTL DEF Spec

\* No path out of syslog_worker_task forgets a socket, whatever fails and
\* whenever the page changes the server.
THEOREM NoSocketLeaks == Spec => []NoSocketLeak
<1>1. SocketInv => NoSocketLeak BY DEF SocketInv, NoSocketLeak, Log!NoSocketLeak
<1> QED BY <1>1, SocketAlways, PTL

\* The cached address has the port it is cached for, and is that of the server
\* it is cached for unless a save came in between; the one that is being looked
\* up is that of the configuration, with the same exception.
AddressInv ==
  /\ cache.ready => addr.port = cache.port /\ (addr.host = cache.server \/ torn)
  /\ wpc \in {"lookup", "open"} => name = config.server \/ torn
  /\ wpc = "open" => addr.host = name /\ addr.port = port
  /\ wpc \in {"resolve", "lookup", "open"} => config.server \in hosts
  /\ wpc = "send" => addr.port = port /\ (addr.host \in hosts \/ torn)

LEMMA AddressKept ==
  ASSUME SocketInv, AddressInv, UNCHANGED <<cache, addr, config, name, port, hosts, torn>>,
         wpc' = wpc \/ wpc' = "receive"
  PROVE  AddressInv'
BY DEF AddressInv

LEMMA AddressStep == SocketInv /\ AddressInv /\ [Next]_vars => AddressInv'
<1> SUFFICES ASSUME SocketInv, AddressInv, [Next]_vars PROVE AddressInv' OBVIOUS
<1>1. CASE UNCHANGED logVars BY <1>1 DEF logVars, AddressInv
<1>2. CASE Log!LogNext
  <2>1. CASE Log!WriteLog BY <2>1, AddressKept DEF Log!WriteLog, Log!workerVars
  <2>2. ASSUME NEW on \in BOOLEAN, NEW t \in Targets, Log!SaveLog(on, t) PROVE AddressInv'
    <3>1. torn' = (torn \/ wpc \in {"lookup", "open"}) /\ hosts' = hosts \cup {t.server}
          /\ config'.server = t.server /\ UNCHANGED <<cache, addr, name, port, wpc>>
      BY <2>2 DEF Log!SaveLog, Log!workerVars
    <3> QED BY <3>1 DEF AddressInv
  <2>3. CASE Log!ReceiveLine
    <3>1. wpc = "receive" /\ wpc' \in {"receive", "resolve"} /\ hosts' = {config.server}
          /\ UNCHANGED <<cache, addr, name, config, torn>>
      BY <2>3 DEF Log!ReceiveLine
    <3> QED BY <3>1 DEF AddressInv
  <2>4. CASE Log!Resolve
    <3>1. wpc = "resolve" /\ UNCHANGED <<config, port, addr, hosts>> BY <2>4 DEF Log!Resolve
    <3>2. CASE config.server = NoServer
      BY <3>1, <3>2, <2>4, AddressKept DEF Log!Resolve
    <3>3. CASE config.server # NoServer /\ Log!CacheHit
      <4>1. wpc' = "send" /\ UNCHANGED <<cache, name, torn>> BY <3>3, <2>4 DEF Log!Resolve
      <4>2. cache.ready /\ cache.server = config.server /\ cache.port = port
        BY <3>3 DEF Log!CacheHit
      <4> QED BY <4>1, <4>2, <3>1 DEF AddressInv
    <3>4. CASE config.server # NoServer /\ ~Log!CacheHit
      <4>1. wpc' = "lookup" /\ name' = config.server /\ cache' = [cache EXCEPT !.ready = FALSE]
        BY <3>4, <2>4 DEF Log!Resolve
      <4>2. ~cache'.ready BY <4>1 DEF SocketInv
      <4> QED BY <4>1, <4>2, <3>1 DEF AddressInv
    <3> QED BY <3>2, <3>3, <3>4
  <2>5. ASSUME NEW ok \in BOOLEAN, Log!Lookup(ok) PROVE AddressInv'
    <3>1. wpc = "lookup" /\ UNCHANGED <<config, port, name, cache, hosts, sock, torn>>
      BY <2>5 DEF Log!Lookup
    <3>2. ~cache.ready BY <3>1 DEF SocketInv
    <3>3. CASE ok
      <4>1. addr' = [host |-> name, port |-> port] /\ wpc' = "open" BY <3>3, <2>5 DEF Log!Lookup
      <4> QED BY <4>1, <3>1, <3>2 DEF AddressInv
    <3>4. CASE ~ok BY <3>4, <3>1, <2>5, AddressKept DEF Log!Lookup
    <3> QED BY <3>3, <3>4
  <2>6. CASE Log!OpenSocket
    <3>1. wpc = "open" /\ wpc' = "send" /\ UNCHANGED <<config, port, name, addr, hosts, torn>>
          /\ cache' = [ready |-> TRUE, server |-> config.server, port |-> port]
      BY <2>6 DEF Log!OpenSocket
    <3> QED BY <3>1 DEF AddressInv
  <2>7. CASE Log!SocketFails BY <2>7, AddressKept DEF Log!SocketFails
  <2>8. CASE Log!SendOk BY <2>8, AddressKept DEF Log!SendOk
  <2>9. CASE Log!SendFails
    <3>1. wpc' = "receive" /\ cache' = [cache EXCEPT !.ready = FALSE] BY <2>9 DEF Log!SendFails
    <3>2. ~cache'.ready BY <3>1 DEF SocketInv
    <3> QED BY <3>1, <3>2 DEF AddressInv
  <2> QED BY <1>2, <2>1, <2>2, <2>3, <2>4, <2>5, <2>6, <2>7, <2>8, <2>9 DEF Log!LogNext
<1> QED BY <1>1, <1>2 DEF Next, vars

\* A line never goes to a port of an older configuration, and to its server only
\* if a save came between a lookup and its caching, wherever else the saves fall:
\* log_service_resolve_server looks at both fields of the cache.
THEOREM LinesArrive == Spec => []LinesReachConfigured
<1>1. Init => AddressInv BY DEF Init, Log!LogInit, AddressInv
<1>2. AddressInv => LinesReachConfigured
  BY DEF AddressInv, LinesReachConfigured, Log!LinesReachConfigured
<1>3. SocketInv /\ AddressInv /\ [Next]_vars => AddressInv' BY AddressStep
<1> QED BY <1>1, <1>2, <1>3, SocketAlways, PTL DEF Spec
=============================================================================

------------------------ MODULE PushDelivery_proofs ------------------------
(***************************************************************************)
(* Proofs about the push task, for any texts, channels and settings and    *)
(* any behaviour of servers and page.  That what was deleted has been      *)
(* received whole needs an assumption on the settings, RoomForText.        *)
(***************************************************************************)
EXTENDS PushDelivery, TLAPS

LEMMA ConstFacts ==
  /\ MaxPushes \in Nat /\ MaxSaves \in Nat
  /\ QueueCap \in Nat \ {0} /\ Channels \in Nat \ {0} /\ Attempts \in Nat \ {0}
  /\ \A p \in Pushes : p.slots \in Nat
  /\ Settings0 \in [1..Channels -> Settings]
  /\ \A c \in 1..Channels : Offered[c] \subseteq Settings
BY PushAssumption DEF PushAssumption, Settings

LEMMA SettingFacts ==
  /\ \A s \in Settings : s \in Channel
  /\ \A c \in Channel, s \in Settings :
       /\ [c EXCEPT !.enabled = s.enabled] \in Channel
       /\ [c EXCEPT !.type = s.type] \in Channel
       /\ [c EXCEPT !.url = s.url] \in Channel
       /\ [c EXCEPT !.body = s.body] \in Channel
<1>1. \A s \in Settings : s \in [enabled : BOOLEAN, type : Types, url : Nat, body : Bodies]
  BY PushAssumption DEF PushAssumption
<1>2. ASSUME NEW s \in Settings PROVE s \in Channel
  <2>1. s = [enabled |-> s.enabled, type |-> s.type, url |-> s.url, body |-> s.body]
        /\ s.enabled \in BOOLEAN
    BY <1>1
  <2> QED BY <2>1 DEF Channel
<1>3. \A s \in Settings : s.enabled \in BOOLEAN BY <1>1
<1> QED BY <1>2, <1>3 DEF Channel

-----------------------------------------------------------------------------
(* Sequences. *)

LEMMA SeqWider ==
  ASSUME NEW S, NEW T, S \subseteq T, NEW q \in Seq(S)
  PROVE  q \in Seq(T)
OBVIOUS

LEMMA AppendFacts ==
  ASSUME NEW S, NEW q \in Seq(S), NEW x \in S
  PROVE  /\ Append(q, x) \in Seq(S) /\ Len(q) \in Nat /\ Len(Append(q, x)) = Len(q) + 1
         /\ DOMAIN q = 1..Len(q) /\ DOMAIN Append(q, x) = 1..(Len(q) + 1)
         /\ \A i \in 1..Len(q) : Append(q, x)[i] = q[i]
         /\ Append(q, x)[Len(q) + 1] = x
OBVIOUS

LEMMA TailFacts ==
  ASSUME NEW S, NEW q \in Seq(S), q # <<>>
  PROVE  /\ Tail(q) \in Seq(S) /\ Len(q) \in Nat \ {0} /\ Len(Tail(q)) = Len(q) - 1
         /\ DOMAIN q = 1..Len(q) /\ DOMAIN Tail(q) = 1..(Len(q) - 1)
         /\ \A i \in 1..(Len(q) - 1) : Tail(q)[i] = q[i + 1]
         /\ Head(q) = q[1] /\ Head(q) \in S
OBVIOUS

-----------------------------------------------------------------------------
(* Who changes what. *)

SaveStep == \/ \E c \in 1..Channels : \E s \in Offered[c] : SaveEnabled(c, s)
            \/ SaveType \/ SaveRest

AttemptStep == AttemptFails \/ AnswerLost \/ Answered

LEMMA Frames ==
  /\ \A p \in Pushes : Enqueue(p) => UNCHANGED <<ready, taskVars, pageVars, serverVars>>
  /\ Task => UNCHANGED <<issued, ready, pageVars>>
  /\ NetReady => UNCHANGED <<issued, queue, held, taskVars, pageVars, serverVars>>
  /\ SaveStep => UNCHANGED <<issued, queue, held, ready, pc, cur, ch, attempt, req, ok, del,
                             asked, serverVars>>
<1>1. Task => UNCHANGED <<issued, ready, pageVars>>
  BY DEF Task, Start, Gate, Take, Select, Form, AttemptFails, AnswerLost, Answered,
         ChannelsDone, Delete, Deleted
<1>2. SaveStep => UNCHANGED <<issued, queue, held, ready, pc, cur, ch, attempt, req, ok, del,
                             asked, serverVars>>
  BY DEF SaveStep, SaveEnabled, SaveType, SaveRest, taskVars
<1> QED BY <1>1, <1>2 DEF Enqueue, NetReady

LEMMA NextCases ==
  ASSUME [Next]_vars
  PROVE  \/ \E p \in Pushes : Enqueue(p)
         \/ Task \/ NetReady \/ SaveStep \/ UNCHANGED vars
BY DEF Next, SaveStep

\* The queue and the slots.
QueueInv ==
  /\ issued \in Seq(Pushes) /\ Len(issued) <= MaxPushes
  /\ queue \in Seq(1..Len(issued)) /\ Len(queue) <= QueueCap
  /\ held \in [Ids -> SUBSET Nat]
  /\ \A i \in 1..Len(issued) : held[i] \subseteq 1..issued[i].slots

\* The task's own variables.
TaskInv ==
  /\ pc \in {"start", "dead", "gate", "receive", "channel", "form", "http", "delete"}
  /\ cur \in 0..Len(issued) /\ ch \in 1..(Channels + 1) /\ attempt \in 1..Attempts
  /\ del \in Nat \ {0}
  /\ IF pc = "delete" THEN del <= issued[cur].slots + 1 ELSE del = 1
  /\ pc \in {"form", "http"} => ch <= Channels
  /\ pc \notin {"channel", "form", "http"} => ch = 1
  /\ pc \in {"channel", "form", "http", "delete"} => cur > 0
  /\ req \in Channel \cup {NoRequest} /\ (pc = "http" => req # NoRequest)

\* The settings and the page.
PageInv ==
  /\ channels \in [1..Channels -> Channel] /\ saves \in 0..MaxSaves
  /\ save \in [ch : 1..Channels, to : Settings, field : {"type", "url"}] \cup {NoSave}

BoolInv == ready \in BOOLEAN /\ ok \in BOOLEAN

LEMMA PageStep == PageInv /\ [Next]_vars => PageInv'
<1> SUFFICES ASSUME PageInv, [Next]_vars PROVE PageInv' OBVIOUS
<1>1. CASE UNCHANGED pageVars BY <1>1 DEF pageVars, PageInv
<1>2. CASE SaveStep
  <2>1. ASSUME NEW c \in 1..Channels, NEW s \in Offered[c], SaveEnabled(c, s) PROVE PageInv'
    <3>1. s \in Settings /\ [channels[c] EXCEPT !.enabled = s.enabled] \in Channel
      BY ConstFacts, SettingFacts DEF PageInv
    <3>2. channels' = [channels EXCEPT ![c].enabled = s.enabled] BY <2>1 DEF SaveEnabled
    <3>3. channels' \in [1..Channels -> Channel] BY <3>1, <3>2 DEF PageInv
    <3>4. saves' \in 0..MaxSaves BY <2>1, ConstFacts DEF SaveEnabled, PageInv
    <3>5. save' \in [ch : 1..Channels, to : Settings, field : {"type", "url"}]
      BY <2>1, <3>1 DEF SaveEnabled
    <3> QED BY <3>3, <3>4, <3>5 DEF PageInv
  <2>2. CASE SaveType
    <3>1. save \in [ch : 1..Channels, to : Settings, field : {"type", "url"}]
      BY <2>2 DEF SaveType, PageInv
    <3>2. save.ch \in 1..Channels /\ save.to \in Settings BY <3>1
    <3>3. [channels[save.ch] EXCEPT !.type = save.to.type] \in Channel
      BY <3>2, SettingFacts DEF PageInv
    <3>4. channels' = [channels EXCEPT ![save.ch].type = save.to.type] BY <2>2 DEF SaveType
    <3>5. channels' \in [1..Channels -> Channel] BY <3>2, <3>3, <3>4 DEF PageInv
    <3>6. save' \in [ch : 1..Channels, to : Settings, field : {"type", "url"}]
      BY <3>1, <2>2 DEF SaveType
    <3> QED BY <3>5, <3>6, <2>2 DEF SaveType, PageInv
  <2>3. CASE SaveRest
    <3>1. save \in [ch : 1..Channels, to : Settings, field : {"type", "url"}]
      BY <2>3 DEF SaveRest, PageInv
    <3>2. save.ch \in 1..Channels /\ save.to \in Settings BY <3>1
    <3> DEFINE c == [channels[save.ch] EXCEPT !.url = save.to.url]
    <3>3. c \in Channel BY <3>2, SettingFacts DEF PageInv
    <3>4. [c EXCEPT !.body = save.to.body] \in Channel BY <3>2, <3>3, SettingFacts
    <3>5. channels' = [channels EXCEPT ![save.ch].url = save.to.url,
                                       ![save.ch].body = save.to.body]
      BY <2>3 DEF SaveRest
    <3>6. channels' = [channels EXCEPT ![save.ch] = [c EXCEPT !.body = save.to.body]]
      BY <3>2, <3>5 DEF PageInv
    <3>7. channels' \in [1..Channels -> Channel] BY <3>2, <3>4, <3>6 DEF PageInv
    <3> QED BY <3>7, <2>3 DEF SaveRest, PageInv
  <2> QED BY <1>2, <2>1, <2>2, <2>3 DEF SaveStep
<1> QED BY <1>1, <1>2, NextCases, Frames DEF vars

LEMMA QueueStep == QueueInv /\ TaskInv /\ [Next]_vars => QueueInv'
<1> SUFFICES ASSUME QueueInv, TaskInv, [Next]_vars PROVE QueueInv' OBVIOUS
<1>0. Len(issued) \in Nat /\ Len(queue) \in Nat BY DEF QueueInv
<1>1. CASE UNCHANGED <<issued, queue, held>> BY <1>1 DEF QueueInv
<1>2. ASSUME NEW p \in Pushes, Enqueue(p) PROVE QueueInv'
  <2> DEFINE n == Len(issued) + 1
  <2>1. n \in Ids /\ 1..Len(issued) \subseteq 1..n /\ n \in 1..n
    BY <1>0, <1>2, ConstFacts DEF Enqueue, Ids
  <2>2. issued' = Append(issued, p) BY <1>2 DEF Enqueue
  <2>3. issued' \in Seq(Pushes) /\ Len(issued') = n /\ issued'[n] = p
        /\ \A i \in 1..Len(issued) : issued'[i] = issued[i]
    BY <2>2, AppendFacts DEF QueueInv
  <2>4. queue \in Seq(1..n) BY <2>1, SeqWider DEF QueueInv
  <2>5. queue' \in Seq(1..n) /\ Len(queue') <= QueueCap
    <3>1. CASE Len(queue) < QueueCap
      <4>1. queue' = Append(queue, n) BY <1>2, <3>1 DEF Enqueue
      <4>2. queue' \in Seq(1..n) /\ Len(queue') = Len(queue) + 1
        BY <2>1, <2>4, <4>1, AppendFacts
      <4> QED BY <4>2, <3>1, <1>0, ConstFacts
    <3>2. CASE ~(Len(queue) < QueueCap)
      <4>1. queue' = queue BY <1>2, <3>2 DEF Enqueue
      <4> QED BY <4>1, <2>4 DEF QueueInv
    <3> QED BY <3>1, <3>2
  <2>6. held' = [held EXCEPT ![n] = 1..p.slots] BY <1>2 DEF Enqueue
  <2>7. p.slots \in Nat BY ConstFacts
  <2>8. held' \in [Ids -> SUBSET Nat] BY <2>1, <2>6, <2>7 DEF QueueInv
  <2>9. \A i \in 1..n : held'[i] \subseteq 1..issued'[i].slots
    <3> SUFFICES ASSUME NEW i \in 1..n PROVE held'[i] \subseteq 1..issued'[i].slots OBVIOUS
    <3>1. i \in Ids BY <1>0, <2>1, ConstFacts DEF Ids
    <3>2. CASE i = n BY <3>1, <3>2, <2>3, <2>6 DEF QueueInv
    <3>3. CASE i # n
      <4>1. i \in 1..Len(issued) BY <3>3, <1>0
      <4> QED BY <3>1, <3>3, <4>1, <2>3, <2>6 DEF QueueInv
    <3> QED BY <3>2, <3>3
  <2>10. n <= MaxPushes BY <2>1, <1>0, ConstFacts DEF Ids
  <2> QED BY <2>3, <2>5, <2>8, <2>9, <2>10 DEF QueueInv
<1>3. CASE Take
  <2>1. queue # <<>> /\ queue' = Tail(queue) /\ UNCHANGED <<issued, held>> BY <1>3 DEF Take
  <2>2. queue' \in Seq(1..Len(issued)) /\ Len(queue') <= QueueCap
    BY <2>1, <1>0, TailFacts, ConstFacts DEF QueueInv
  <2> QED BY <2>1, <2>2 DEF QueueInv
<1>4. ASSUME NEW done \in BOOLEAN, Delete(done) PROVE QueueInv'
  <2>1. cur \in 1..Len(issued) /\ cur \in Ids
    BY <1>0, <1>4, ConstFacts DEF Delete, TaskInv, QueueInv, Ids
  <2>2. UNCHANGED <<issued, queue>> /\ held' \in {held, [held EXCEPT ![cur] = @ \ {del}]}
    BY <1>4 DEF Delete
  <2>3. held' \in [Ids -> SUBSET Nat] BY <2>1, <2>2 DEF QueueInv
  <2>4. \A i \in Ids : held'[i] \subseteq held[i] BY <2>1, <2>2 DEF QueueInv
  <2>5. \A i \in 1..Len(issued) : i \in Ids BY <1>0, ConstFacts DEF QueueInv, Ids
  <2> QED BY <2>2, <2>3, <2>4, <2>5 DEF QueueInv
<1>5. CASE Task
  <2>1. Task => \/ Take \/ (\E done \in BOOLEAN : Delete(done))
                \/ UNCHANGED <<issued, queue, held>>
    BY DEF Task, Start, Gate, Select, Form, AttemptFails, AnswerLost, Answered,
           ChannelsDone, Deleted
  <2> QED BY <1>5, <2>1, <1>1, <1>3, <1>4
<1> QED BY <1>1, <1>2, <1>5, NextCases, Frames DEF vars


-----------------------------------------------------------------------------
(* The variables of the task. *)

LEMMA TaskStep == QueueInv /\ TaskInv /\ PageInv /\ [Next]_vars => TaskInv'
<1> SUFFICES ASSUME QueueInv, TaskInv, PageInv, [Next]_vars PROVE TaskInv' OBVIOUS
<1>0. Len(issued) \in Nat /\ Channels \in Nat \ {0} /\ Attempts \in Nat \ {0}
  BY ConstFacts DEF QueueInv
<1>a. ch \in Nat /\ attempt \in Nat /\ cur \in Nat /\ del \in Nat BY <1>0 DEF TaskInv
<1>1. CASE UNCHANGED <<issued, pc, cur, ch, attempt, req, ok, del>> BY <1>1 DEF TaskInv
<1>2. ASSUME NEW p \in Pushes, Enqueue(p) PROVE TaskInv'
  <2>1. UNCHANGED <<pc, cur, ch, attempt, req, ok, del>> /\ issued' = Append(issued, p)
    BY <1>2 DEF Enqueue, taskVars
  <2>2. Len(issued') = Len(issued) + 1 /\ \A i \in 1..Len(issued) : issued'[i] = issued[i]
    BY <2>1, AppendFacts DEF QueueInv
  <2>3. cur' \in 0..Len(issued') BY <2>1, <2>2, <1>0 DEF TaskInv
  <2>4. pc = "delete" => issued'[cur].slots = issued[cur].slots
    BY <2>2, <1>0 DEF TaskInv
  <2> QED BY <2>1, <2>3, <2>4 DEF TaskInv
<1>3. CASE Task
  <2>0. issued' = issued BY <1>3, Frames
  <2>1. ASSUME NEW memory \in BOOLEAN, Start(memory) PROVE TaskInv'
    BY <2>0, <2>1 DEF Start, TaskInv
  <2>2. CASE Gate BY <2>0, <2>2 DEF Gate, TaskInv
  <2>3. CASE Take
    <3>1. Head(queue) \in 1..Len(issued) BY <2>3, TailFacts DEF Take, QueueInv
    <3>2. cur' \in 0..Len(issued') /\ cur' > 0 BY <3>1, <2>0, <2>3, <1>0 DEF Take
    <3> QED BY <3>2, <2>3 DEF Take, TaskInv
  <2>4. CASE Select BY <2>0, <2>4, <1>0, <1>a DEF Select, TaskInv
  <2>5. CASE Form
    <3>1. channels[ch] \in Channel BY <2>5, <1>0 DEF Form, TaskInv, PageInv
    <3>2. channels[ch] # NoRequest
      <4>1. channels[ch] = [enabled |-> channels[ch].enabled, type |-> channels[ch].type,
                            url |-> channels[ch].url, body |-> channels[ch].body]
        BY <3>1 DEF Channel
      <4> QED BY <4>1 DEF NoRequest
    <3>3. \/ pc' = "http" /\ ch' = ch /\ attempt' = 1 /\ req' = channels[ch]
          \/ pc' = "channel" /\ ch' = ch + 1 /\ attempt' = 1 /\ req' = NoRequest
      BY <2>5 DEF Form, NextChannel
    <3> QED BY <2>0, <2>5, <3>1, <3>2, <3>3, <1>0, <1>a DEF Form, TaskInv
  <2>6. CASE GiveUpOrRetry /\ pc = "http" /\ UNCHANGED <<cur, del>>
    BY <2>0, <2>6, <1>0, <1>a DEF GiveUpOrRetry, NextChannel, TaskInv
  <2>7. CASE NextChannel /\ pc = "http" /\ UNCHANGED <<cur, del>>
    BY <2>0, <2>7, <1>0, <1>a DEF NextChannel, TaskInv
  <2>8. CASE ChannelsDone
    <3>1. cur \in 1..Len(issued) BY <2>8, <1>0 DEF ChannelsDone, TaskInv
    <3>2. issued[cur].slots \in Nat BY <3>1, ConstFacts DEF QueueInv
    <3> QED BY <2>0, <2>8, <3>2, <1>0, <1>a DEF ChannelsDone, TaskInv
  <2>9. ASSUME NEW done \in BOOLEAN, Delete(done) PROVE TaskInv'
    <3>1. cur \in 1..Len(issued) BY <2>9, <1>0 DEF Delete, TaskInv
    <3>2. issued[cur].slots \in Nat BY <3>1, ConstFacts DEF QueueInv
    <3> QED BY <2>0, <2>9, <3>2, <1>0, <1>a DEF Delete, TaskInv
  <2>10. CASE Deleted BY <2>0, <2>10, <1>0, <1>a DEF Deleted, TaskInv
  <2>11. AttemptFails \/ AnswerLost => GiveUpOrRetry /\ pc = "http" /\ UNCHANGED <<cur, del>>
    BY DEF AttemptFails, AnswerLost
  <2>12. Answered => NextChannel /\ pc = "http" /\ UNCHANGED <<cur, del>> BY DEF Answered
  <2> QED BY <1>3, <2>1, <2>2, <2>3, <2>4, <2>5, <2>6, <2>7, <2>8, <2>9, <2>10, <2>11, <2>12
          DEF Task
<1> QED BY <1>1, <1>2, <1>3, NextCases, Frames DEF vars, taskVars

LEMMA BoolStep == BoolInv /\ [Next]_vars => BoolInv'
<1> SUFFICES ASSUME BoolInv, [Next]_vars PROVE BoolInv' OBVIOUS
<1>1. ready' \in {ready, TRUE}
  <2>1. NetReady => ready' = TRUE BY DEF NetReady
  <2> QED BY <2>1, NextCases, Frames DEF vars
<1>2. ok' \in {ok, TRUE, FALSE}
  <2>1. Task => ok' \in {ok, TRUE, FALSE}
    BY DEF Task, Start, Gate, Take, Select, Form, AttemptFails, AnswerLost, Answered,
           ChannelsDone, Delete, Deleted
  <2> QED BY <2>1, NextCases, Frames DEF vars, taskVars
<1> QED BY <1>1, <1>2 DEF BoolInv

-----------------------------------------------------------------------------
(* No channel is skipped. *)

Trying == pc \in {"channel", "form", "http"}

\* The channels that stayed enabled and lie behind the task have been asked.
SkipInv ==
  /\ steady \subseteq 1..Channels /\ asked \subseteq 1..Channels
  /\ \A c \in steady : channels[c].enabled
  /\ Trying => \A c \in steady : c < ch => c \in asked
  /\ pc = "http" => ch \in asked

LEMMA SkipStep == TaskInv /\ PageInv /\ SkipInv /\ [Next]_vars => SkipInv'
<1> SUFFICES ASSUME TaskInv, PageInv, SkipInv, [Next]_vars PROVE SkipInv' OBVIOUS
<1>0. Channels \in Nat \ {0} /\ ch \in Nat /\ Channels + 1 \in Nat
  BY ConstFacts DEF TaskInv
<1>1. CASE UNCHANGED <<pc, ch, steady, asked, channels>> BY <1>1 DEF SkipInv, Trying
<1>2. CASE Task
  <2>0. channels' = channels BY <1>2, Frames DEF pageVars
  <2>1. ASSUME NEW memory \in BOOLEAN, Start(memory) PROVE SkipInv'
    BY <2>0, <2>1 DEF Start, SkipInv, Trying
  <2>2. CASE Gate BY <2>0, <2>2 DEF Gate, SkipInv, Trying
  <2>3. CASE Take
    <3>1. steady' = Enabled /\ asked' = {} /\ ch' = ch /\ pc' = "channel" BY <2>3 DEF Take
    <3>2. ch = 1 BY <2>3 DEF Take, TaskInv
    <3>3. steady' \subseteq 1..Channels /\ \A c \in steady' : channels[c].enabled
      BY <3>1 DEF Enabled
    <3>4. \A c \in 1..Channels : ~(c < 1) BY <1>0
    <3>5. \A c \in steady' : ~(c < ch') BY <3>1, <3>2, <3>3, <3>4
    <3> QED BY <2>0, <3>1, <3>3, <3>5 DEF SkipInv
  <2>4. CASE Select
    <3>1. ch \in 1..Channels /\ Trying /\ UNCHANGED <<steady, asked>>
      BY <2>4, <1>0 DEF Select, Trying, TaskInv
    <3>2. CASE channels[ch].enabled
      BY <2>0, <2>4, <3>1, <3>2 DEF Select, SkipInv, Trying
    <3>3. CASE ~channels[ch].enabled
      <4>1. ch \notin steady BY <3>3 DEF SkipInv
      <4>2. ch' = ch + 1 /\ pc' = "channel" BY <2>4, <3>3 DEF Select
      <4>3. \A c \in steady : c \in Nat BY <1>0 DEF SkipInv
      <4>4. \A c \in steady : c < ch' => c < ch BY <4>1, <4>2, <4>3, <1>0
      <4> QED BY <2>0, <3>1, <4>2, <4>4 DEF SkipInv, Trying
    <3> QED BY <3>2, <3>3
  <2>5. CASE Form
    <3>1. ch \in 1..Channels /\ asked' = asked \cup {ch} /\ steady' = steady /\ Trying
      BY <2>5, <1>0 DEF Form, Trying, TaskInv
    <3>2. (pc' = "http" /\ ch' = ch) \/ (pc' = "channel" /\ ch' = ch + 1)
      BY <2>5 DEF Form, NextChannel
    <3>3. \A c \in steady : c \in Nat BY <1>0 DEF SkipInv
    <3>4. \A c \in steady : c < ch' => c \in asked'
      BY <3>1, <3>2, <3>3, <1>0 DEF SkipInv
    <3> QED BY <2>0, <3>1, <3>2, <3>4 DEF SkipInv
  <2>6. CASE AttemptStep
    <3>1. pc = "http" /\ UNCHANGED <<steady, asked>>
      BY <2>6 DEF AttemptStep, AttemptFails, AnswerLost, Answered
    <3>2. (pc' = "http" /\ ch' = ch) \/ (pc' = "channel" /\ ch' = ch + 1)
      BY <2>6, <3>1 DEF AttemptStep, AttemptFails, AnswerLost, Answered, GiveUpOrRetry,
                        NextChannel
    <3>3. \A c \in steady : c \in Nat BY <1>0 DEF SkipInv
    <3>4. ch \in asked /\ \A c \in steady : c < ch' => c \in asked
      BY <3>1, <3>2, <3>3, <1>0 DEF SkipInv, Trying
    <3> QED BY <2>0, <3>1, <3>2, <3>4 DEF SkipInv
  <2>7. CASE ChannelsDone BY <2>0, <2>7 DEF ChannelsDone, SkipInv, Trying
  <2>8. ASSUME NEW done \in BOOLEAN, Delete(done) PROVE SkipInv'
    BY <2>0, <2>8 DEF Delete, SkipInv, Trying
  <2>9. CASE Deleted BY <2>0, <2>9 DEF Deleted, SkipInv, Trying
  <2> QED BY <1>2, <2>1, <2>2, <2>3, <2>4, <2>5, <2>6, <2>7, <2>8, <2>9
          DEF Task, AttemptStep
<1>3. CASE SaveStep
  <2>0. UNCHANGED <<pc, ch, asked>> BY <1>3, Frames
  <2>1. ASSUME NEW c \in 1..Channels, NEW s \in Offered[c], SaveEnabled(c, s) PROVE SkipInv'
    <3>1. channels' = [channels EXCEPT ![c].enabled = s.enabled]
          /\ steady' = IF s.enabled THEN steady ELSE steady \ {c}
      BY <2>1 DEF SaveEnabled
    <3>2. channels[c] \in Channel BY DEF PageInv
    <3>3. channels'[c] = [channels[c] EXCEPT !.enabled = s.enabled]
          /\ \A d \in (1..Channels) \ {c} : channels'[d] = channels[d]
      BY <3>1 DEF PageInv
    <3>4. channels'[c].enabled = s.enabled BY <3>2, <3>3 DEF Channel
    <3>5. steady' \subseteq steady /\ (c \in steady' => s.enabled) BY <3>1
    <3>6. \A d \in steady' : channels'[d].enabled BY <3>3, <3>4, <3>5 DEF SkipInv
    <3> QED BY <2>0, <3>5, <3>6 DEF SkipInv, Trying
  <2>2. CASE SaveType \/ SaveRest
    <3>1. save.ch \in 1..Channels BY <2>2 DEF SaveType, SaveRest, PageInv
    <3>2. channels[save.ch] \in Channel BY <3>1 DEF PageInv
    <3>3. \A d \in (1..Channels) \ {save.ch} : channels'[d] = channels[d]
      BY <2>2, <3>1 DEF SaveType, SaveRest, PageInv
    <3>4. channels'[save.ch].enabled = channels[save.ch].enabled
      <4>1. CASE SaveType
        <5>1. channels' = [channels EXCEPT ![save.ch].type = save.to.type]
          BY <4>1 DEF SaveType
        <5>2. channels'[save.ch] = [channels[save.ch] EXCEPT !.type = save.to.type]
          BY <3>1, <5>1 DEF PageInv
        <5> QED BY <3>2, <5>2 DEF Channel
      <4>2. CASE SaveRest
        <5>1. channels' = [channels EXCEPT ![save.ch].url = save.to.url,
                                           ![save.ch].body = save.to.body]
          BY <4>2 DEF SaveRest
        <5>2. channels'[save.ch] = [channels[save.ch] EXCEPT !.url = save.to.url,
                                                             !.body = save.to.body]
          BY <3>1, <5>1 DEF PageInv
        <5> QED BY <3>2, <5>2 DEF Channel
      <4> QED BY <2>2, <4>1, <4>2
    <3>5. steady' = steady BY <2>2 DEF SaveType, SaveRest, taskVars
    <3>6. \A d \in steady' : channels'[d].enabled
      <4> SUFFICES ASSUME NEW d \in steady PROVE channels'[d].enabled BY <3>5
      <4>1. channels[d].enabled /\ d \in 1..Channels BY DEF SkipInv
      <4>2. CASE d = save.ch BY <4>1, <4>2, <3>4
      <4>3. CASE d # save.ch BY <4>1, <4>3, <3>3
      <4> QED BY <4>2, <4>3
    <3> QED BY <2>0, <3>5, <3>6 DEF SkipInv, Trying
  <2> QED BY <1>3, <2>1, <2>2 DEF SaveStep
<1> QED BY <1>1, <1>2, <1>3, NextCases, Frames DEF vars, taskVars, pageVars

-----------------------------------------------------------------------------
(* The order of the texts. *)

\* The texts still queued are younger than the current one.
OrderInv ==
  /\ \A i, j \in 1..Len(queue) : i < j => queue[i] < queue[j]
  /\ \A i \in 1..Len(queue) : cur < queue[i]

\* No server has a text younger than the current one.
LogInv ==
  /\ log \in [1..Channels -> Seq(Nat)]
  /\ \A c \in 1..Channels : \A i \in 1..Len(log[c]) : log[c][i] <= cur
  /\ ServedInOrder

\* An answer for the current text comes from a channel behind the task.
AnswerInv ==
  /\ answered \subseteq [ch : 1..Channels, id : Nat, by : Channel]
  /\ \A a \in answered : a.id <= cur /\ (a.id = cur => ~Trying \/ a.ch < ch)

LEMMA OrderStep == QueueInv /\ TaskInv /\ OrderInv /\ [Next]_vars => OrderInv'
<1> SUFFICES ASSUME QueueInv, TaskInv, OrderInv, [Next]_vars PROVE OrderInv' OBVIOUS
<1>0. /\ Len(issued) \in Nat /\ cur \in 0..Len(issued) /\ Len(queue) \in Nat
      /\ \A i \in 1..Len(queue) : queue[i] \in 1..Len(issued)
  BY DEF QueueInv, TaskInv
<1>1. CASE UNCHANGED <<queue, cur>> BY <1>1 DEF OrderInv
<1>2. ASSUME NEW p \in Pushes, Enqueue(p) PROVE OrderInv'
  <2>1. cur' = cur BY <1>2 DEF Enqueue, taskVars
  <2>2. CASE queue' = queue BY <2>1, <2>2 DEF OrderInv
  <2>3. CASE queue' = Append(queue, Len(issued) + 1)
    <3> DEFINE n == Len(issued) + 1
    <3>1. queue \in Seq(Nat) /\ n \in Nat BY <1>0, SeqWider DEF QueueInv
    <3>2. /\ Len(queue') = Len(queue) + 1 /\ queue'[Len(queue) + 1] = n
          /\ \A i \in 1..Len(queue) : queue'[i] = queue[i]
      BY <2>3, <3>1, AppendFacts
    <3>3. ASSUME NEW i \in 1..Len(queue') PROVE cur < queue'[i]
      <4>1. CASE i = Len(queue) + 1 BY <4>1, <3>2, <1>0
      <4>2. CASE i # Len(queue) + 1
        <5>1. i \in 1..Len(queue) BY <4>2, <3>2, <1>0
        <5> QED BY <5>1, <3>2 DEF OrderInv
      <4> QED BY <4>1, <4>2
    <3>4. ASSUME NEW i \in 1..Len(queue'), NEW j \in 1..Len(queue'), i < j
          PROVE  queue'[i] < queue'[j]
      <4>1. i \in 1..Len(queue) BY <3>2, <3>4, <1>0
      <4>2. CASE j = Len(queue) + 1 BY <4>1, <4>2, <3>2, <1>0
      <4>3. CASE j # Len(queue) + 1
        <5>1. j \in 1..Len(queue) BY <4>3, <3>2, <1>0
        <5> QED BY <4>1, <5>1, <3>2, <3>4 DEF OrderInv
      <4> QED BY <4>2, <4>3
    <3> QED BY <2>1, <3>3, <3>4 DEF OrderInv
  <2> QED BY <1>2, <2>2, <2>3 DEF Enqueue
<1>3. CASE Take
  <2>1. queue # <<>> /\ queue' = Tail(queue) /\ cur' = Head(queue) BY <1>3 DEF Take
  <2>2. /\ Len(queue) \in Nat \ {0} /\ Len(queue') = Len(queue) - 1 /\ cur' = queue[1]
        /\ \A i \in 1..(Len(queue) - 1) : queue'[i] = queue[i + 1]
    BY <2>1, TailFacts DEF QueueInv
  <2>3. ASSUME NEW i \in 1..Len(queue') PROVE cur' < queue'[i]
    <3>1. 1 \in 1..Len(queue) /\ i + 1 \in 1..Len(queue) /\ 1 < i + 1 BY <2>2
    <3>2. queue'[i] = queue[i + 1] BY <2>2
    <3> QED BY <2>2, <3>1, <3>2 DEF OrderInv
  <2>4. ASSUME NEW i \in 1..Len(queue'), NEW j \in 1..Len(queue'), i < j
        PROVE  queue'[i] < queue'[j]
    <3>1. i + 1 \in 1..Len(queue) /\ j + 1 \in 1..Len(queue) /\ i + 1 < j + 1 BY <2>2, <2>4
    <3>2. queue'[i] = queue[i + 1] /\ queue'[j] = queue[j + 1] BY <2>2
    <3> QED BY <3>1, <3>2 DEF OrderInv
  <2> QED BY <2>3, <2>4 DEF OrderInv
<1>4. CASE Task
  <2>1. Task => Take \/ UNCHANGED <<queue, cur>>
    BY DEF Task, Start, Gate, Select, Form, AttemptFails, AnswerLost, Answered,
           ChannelsDone, Delete, Deleted
  <2> QED BY <1>4, <2>1, <1>1, <1>3
<1> QED BY <1>1, <1>2, <1>4, NextCases, Frames DEF vars, taskVars

\* A server takes a text only from an attempt, and it is the current one.
LEMMA LogChanges ==
  ASSUME [Next]_vars
  PROVE  \/ UNCHANGED log /\ (Take \/ UNCHANGED cur)
         \/ pc = "http" /\ Received /\ UNCHANGED cur
<1>1. Task => \/ UNCHANGED log /\ (Take \/ UNCHANGED cur)
              \/ pc = "http" /\ Received /\ UNCHANGED cur
  BY DEF Task, Start, Gate, Take, Select, Form, AttemptFails, AnswerLost, Answered,
         ChannelsDone, Delete, Deleted, serverVars
<1> QED BY <1>1, NextCases, Frames DEF vars, taskVars, serverVars

LEMMA LogStep == QueueInv /\ TaskInv /\ OrderInv /\ LogInv /\ [Next]_vars => LogInv'
<1> SUFFICES ASSUME QueueInv, TaskInv, OrderInv, LogInv, [Next]_vars PROVE LogInv' OBVIOUS
<1>0. cur \in Nat BY DEF TaskInv
<1>a. \A c \in 1..Channels : log[c] \in Seq(Nat) /\ Len(log[c]) \in Nat
                             /\ \A i \in 1..Len(log[c]) : log[c][i] \in Nat
  BY DEF LogInv
<1>1. CASE UNCHANGED <<log, cur>> BY <1>1 DEF LogInv, ServedInOrder
<1>2. CASE UNCHANGED log /\ Take
  <2>1. 1 \in 1..Len(queue) /\ cur' = queue[1] /\ queue[1] \in Nat
    BY <1>2, TailFacts DEF Take, QueueInv
  <2>2. cur < cur' BY <2>1 DEF OrderInv
  <2>3. \A c \in 1..Channels : \A i \in 1..Len(log[c]) : log[c][i] <= cur'
    BY <1>0, <1>a, <2>1, <2>2 DEF LogInv
  <2> QED BY <1>2, <2>3 DEF LogInv, ServedInOrder
<1>3. CASE pc = "http" /\ Received /\ UNCHANGED cur
  <2>1. ch \in 1..Channels BY <1>3 DEF TaskInv
  <2>2. /\ log'[ch] = Append(log[ch], cur)
        /\ \A c \in (1..Channels) \ {ch} : log'[c] = log[c]
    BY <1>3, <2>1 DEF Received, LogInv
  <2>3. log' \in [1..Channels -> Seq(Nat)]
    <3>1. Append(log[ch], cur) \in Seq(Nat) BY <1>0, <1>a, <2>1, AppendFacts
    <3> QED BY <1>3, <2>1, <3>1 DEF Received, LogInv
  <2>4. ASSUME NEW c \in 1..Channels
        PROVE  /\ \A i \in 1..Len(log'[c]) : log'[c][i] <= cur
               /\ \A i, j \in 1..Len(log'[c]) : i < j => log'[c][i] <= log'[c][j]
    <3>1. CASE c # ch BY <3>1, <2>2 DEF LogInv, ServedInOrder
    <3>2. CASE c = ch
      <4> DEFINE l == log[ch]
      <4>1. /\ Len(log'[c]) = Len(l) + 1 /\ log'[c][Len(l) + 1] = cur /\ Len(l) \in Nat
            /\ \A i \in 1..Len(l) : log'[c][i] = l[i]
        BY <1>0, <1>a, <2>1, <2>2, <3>2, AppendFacts, SMTT(30)
      <4>2. ASSUME NEW i \in 1..Len(log'[c]) PROVE log'[c][i] <= cur
        <5>1. CASE i = Len(l) + 1 BY <5>1, <4>1, <1>0
        <5>2. CASE i # Len(l) + 1
          <6>1. i \in 1..Len(l) BY <5>2, <4>1
          <6> QED BY <6>1, <4>1, <2>1 DEF LogInv
        <5> QED BY <5>1, <5>2
      <4>3. ASSUME NEW i \in 1..Len(log'[c]), NEW j \in 1..Len(log'[c]), i < j
            PROVE  log'[c][i] <= log'[c][j]
        <5>1. CASE j = Len(l) + 1 BY <5>1, <4>1, <4>2
        <5>2. CASE j # Len(l) + 1
          <6>1. i \in 1..Len(l) /\ j \in 1..Len(l) BY <5>2, <4>1, <4>3
          <6> QED BY <6>1, <4>1, <4>3, <2>1 DEF LogInv, ServedInOrder
        <5> QED BY <5>1, <5>2
      <4> QED BY <4>2, <4>3
    <3> QED BY <3>1, <3>2
  <2> QED BY <1>3, <2>3, <2>4 DEF LogInv, ServedInOrder
<1> QED BY <1>1, <1>2, <1>3, LogChanges

LEMMA AnswerStep ==
  QueueInv /\ TaskInv /\ OrderInv /\ AnswerInv /\ [Next]_vars => AnswerInv'
<1> SUFFICES ASSUME QueueInv, TaskInv, OrderInv, AnswerInv, [Next]_vars PROVE AnswerInv'
  OBVIOUS
<1>0. cur \in Nat /\ ch \in Nat BY ConstFacts DEF TaskInv
<1>a. \A a \in answered : a.id \in Nat /\ a.ch \in Nat BY ConstFacts DEF AnswerInv
<1>1. CASE UNCHANGED <<answered, cur, pc, ch>> BY <1>1 DEF AnswerInv, Trying
<1>2. CASE UNCHANGED <<answered, cur>> /\ ~Trying' BY <1>2 DEF AnswerInv
<1>3. CASE UNCHANGED <<answered, cur>> /\ Trying /\ ch' \in {ch, ch + 1}
  <2>1. \A a \in answered : a.ch < ch => a.ch < ch' BY <1>0, <1>a, <1>3
  <2> QED BY <1>3, <2>1 DEF AnswerInv
<1>4. CASE Take
  <2>1. 1 \in 1..Len(queue) /\ cur' = queue[1] /\ queue[1] \in Nat
    BY <1>4, TailFacts DEF Take, QueueInv
  <2>2. cur < cur' /\ cur' \in Nat BY <2>1 DEF OrderInv
  <2>3. \A a \in answered : a.id <= cur' /\ a.id # cur' BY <1>0, <1>a, <2>2 DEF AnswerInv
  <2>4. answered' = answered BY <1>4 DEF Take, serverVars
  <2> QED BY <2>3, <2>4 DEF AnswerInv
<1>5. CASE Answered
  <2> DEFINE new == [ch |-> ch, id |-> cur, by |-> req]
  <2>1. answered' = answered \cup {new} /\ ch' = ch + 1 /\ cur' = cur /\ Trying
    BY <1>5 DEF Answered, NextChannel, Trying
  <2>2. ch \in 1..Channels /\ req \in Channel BY <1>5 DEF Answered, TaskInv
  <2>3. answered' \subseteq [ch : 1..Channels, id : Nat, by : Channel]
    BY <1>0, <2>1, <2>2 DEF AnswerInv
  <2>4. \A a \in answered : a.id <= cur /\ (a.id = cur => a.ch < ch + 1)
    BY <1>0, <1>a, <2>1 DEF AnswerInv
  <2>5. new.id <= cur /\ new.ch < ch + 1 BY <1>0
  <2> QED BY <2>1, <2>3, <2>4, <2>5 DEF AnswerInv
<1>6. CASE Task
  <2>1. AttemptFails \/ AnswerLost =>
          UNCHANGED <<answered, cur>> /\ Trying /\ ch' \in {ch, ch + 1}
    BY DEF AttemptFails, AnswerLost, GiveUpOrRetry, NextChannel, Trying, serverVars
  <2>2. Select \/ Form => UNCHANGED <<answered, cur>> /\ Trying /\ ch' \in {ch, ch + 1}
    BY DEF Select, Form, NextChannel, Trying, serverVars
  <2>3. Gate \/ ChannelsDone \/ Deleted => UNCHANGED <<answered, cur>> /\ ~Trying'
    BY DEF Gate, ChannelsDone, Deleted, Trying, serverVars
  <2>4. \A memory \in BOOLEAN : Start(memory) => UNCHANGED <<answered, cur>> /\ ~Trying'
    BY DEF Start, Trying, serverVars
  <2>5. \A done \in BOOLEAN : Delete(done) => UNCHANGED <<answered, cur, pc, ch>>
    BY DEF Delete, serverVars
  <2> QED BY <1>1, <1>2, <1>3, <1>4, <1>5, <1>6, <2>1, <2>2, <2>3, <2>4, <2>5 DEF Task
<1> QED BY <1>1, <1>6, NextCases, Frames DEF vars, taskVars, serverVars

-----------------------------------------------------------------------------
(* What a success means. *)

\* any_success is set only by an answer for the current text, and only with
\* it are slots deleted.
AckInv ==
  /\ ok /\ (Trying \/ pc = "delete") => \E a \in answered : a.id = cur
  /\ pc = "delete" => ok

LEMMA AckStep == AckInv /\ [Next]_vars => AckInv'
<1> SUFFICES ASSUME AckInv, [Next]_vars PROVE AckInv' OBVIOUS
<1>1. CASE UNCHANGED <<answered, cur, ok, pc>> BY <1>1 DEF AckInv, Trying
<1>2. CASE UNCHANGED <<answered, cur, ok>> /\ Trying /\ Trying'
  <2>1. pc' # "delete" BY <1>2 DEF Trying
  <2> QED BY <1>2, <2>1 DEF AckInv
<1>3. CASE ~Trying' /\ pc' # "delete" BY <1>3 DEF AckInv
<1>4. CASE Take BY <1>4 DEF Take, AckInv
<1>5. CASE Answered
  <2>1. [ch |-> ch, id |-> cur, by |-> req] \in answered' /\ cur' = cur /\ ok' = TRUE
    BY <1>5 DEF Answered
  <2>2. \E a \in answered' : a.id = cur' BY <2>1
  <2> QED BY <2>1, <2>2 DEF AckInv
<1>6. CASE ChannelsDone
  <2>1. UNCHANGED <<answered, cur, ok>> /\ Trying BY <1>6 DEF ChannelsDone, Trying, serverVars
  <2>2. pc' = "delete" => ok BY <1>6 DEF ChannelsDone
  <2>3. ok => \E a \in answered : a.id = cur BY <2>1 DEF AckInv
  <2> QED BY <2>1, <2>2, <2>3 DEF AckInv
<1>7. CASE Task
  <2>1. AttemptFails \/ AnswerLost => UNCHANGED <<answered, cur, ok>> /\ Trying /\ Trying'
    BY DEF AttemptFails, AnswerLost, GiveUpOrRetry, NextChannel, Trying, serverVars
  <2>2. Select \/ Form => UNCHANGED <<answered, cur, ok>> /\ Trying /\ Trying'
    BY DEF Select, Form, NextChannel, Trying, serverVars
  <2>3. Gate \/ Deleted => ~Trying' /\ pc' # "delete" BY DEF Gate, Deleted, Trying
  <2>4. \A memory \in BOOLEAN : Start(memory) => ~Trying' /\ pc' # "delete"
    BY DEF Start, Trying
  <2>5. \A done \in BOOLEAN : Delete(done) => UNCHANGED <<answered, cur, ok, pc>>
    BY DEF Delete, serverVars
  <2> QED BY <1>1, <1>2, <1>3, <1>4, <1>5, <1>6, <1>7, <2>1, <2>2, <2>3, <2>4, <2>5 DEF Task
<1> QED BY <1>1, <1>7, NextCases, Frames DEF vars, taskVars, serverVars

-----------------------------------------------------------------------------
(* The inductive invariant. *)

IInv == QueueInv /\ TaskInv /\ PageInv /\ BoolInv /\ SkipInv /\ OrderInv /\ LogInv
          /\ AnswerInv /\ AckInv

LEMMA InitFacts == Init => IInv
<1> SUFFICES ASSUME Init PROVE IInv OBVIOUS
<1>0. Channels \in Nat \ {0} /\ Attempts \in Nat \ {0} /\ QueueCap \in Nat /\ MaxPushes \in Nat
      /\ MaxSaves \in Nat
  BY ConstFacts
<1>1. issued = <<>> /\ queue = <<>> /\ Len(issued) = 0 /\ Len(queue) = 0 BY DEF Init
<1>2. QueueInv
  <2>1. issued \in Seq(Pushes) /\ queue \in Seq(1..Len(issued)) BY <1>1
  <2>2. held \in [Ids -> SUBSET Nat] BY DEF Init
  <2>3. \A i \in 1..Len(issued) : FALSE BY <1>1
  <2> QED BY <1>0, <1>1, <2>1, <2>2, <2>3 DEF QueueInv
<1>3. TaskInv BY <1>0, <1>1 DEF Init, TaskInv
<1>4. PageInv
  <2>1. channels = Settings0 /\ Settings0 \in [1..Channels -> Settings] BY ConstFacts DEF Init
  <2>2. channels \in [1..Channels -> Channel] BY <2>1, SettingFacts
  <2> QED BY <2>2, <1>0 DEF Init, PageInv
<1>5. BoolInv BY DEF Init, BoolInv
<1>6. SkipInv BY DEF Init, SkipInv, Trying
<1>7. OrderInv
  <2>1. \A i \in 1..Len(queue) : FALSE BY <1>1
  <2> QED BY <2>1 DEF OrderInv
<1>8. LogInv
  <2>1. log = [c \in 1..Channels |-> <<>>] BY DEF Init
  <2>2. \A c \in 1..Channels : log[c] = <<>> /\ Len(log[c]) = 0 BY <2>1
  <2>3. log \in [1..Channels -> Seq(Nat)] BY <2>1
  <2>4. \A c \in 1..Channels : \A i \in 1..Len(log[c]) : FALSE BY <2>2
  <2> QED BY <2>3, <2>4 DEF LogInv, ServedInOrder
<1>9. AnswerInv BY DEF Init, AnswerInv
<1>10. AckInv BY DEF Init, AckInv
<1> QED BY <1>2, <1>3, <1>4, <1>5, <1>6, <1>7, <1>8, <1>9, <1>10 DEF IInv

LEMMA Inductive == IInv /\ [Next]_vars => IInv'
BY QueueStep, TaskStep, PageStep, BoolStep, SkipStep, OrderStep, LogStep, AnswerStep, AckStep
   DEF IInv

LEMMA Invariant == Spec => []IInv
BY InitFacts, Inductive, PTL DEF Spec

-----------------------------------------------------------------------------
\* The push service keeps the types of its state, its queue the capacity and
\* its loops their bounds (push_service.c:511-570).
THEOREM TypeCorrect == Spec => []TypeOK
<1>1. IInv => TypeOK
  <2> SUFFICES ASSUME IInv PROVE TypeOK OBVIOUS
  <2> QED BY DEF IInv, QueueInv, TaskInv, PageInv, BoolInv, SkipInv, TypeOK
<1> QED BY <1>1, Invariant, PTL

\* Every server gets the texts in the order in which they were queued,
\* whatever is retried or lost (push_service.c:520-559).
THEOREM InOrder == Spec => []ServedInOrder
<1>1. IInv => ServedInOrder BY DEF IInv, LogInv
<1> QED BY <1>1, Invariant, PTL

\* A channel that has answered for a text is not sent it again
\* (http_utils.c:131-136).
THEOREM NoCopies == Spec => NoCopyAfterAnswer
<1>1. IInv /\ [Next]_vars =>
        [\A c \in 1..Channels : log'[c] # log[c] =>
           ~\E a \in answered : a.ch = c /\ a.id = cur]_vars
  <2> SUFFICES ASSUME IInv, [Next]_vars, NEW c \in 1..Channels, log'[c] # log[c],
                      NEW a \in answered, a.ch = c, a.id = cur
               PROVE  FALSE
    OBVIOUS
  <2>1. pc = "http" /\ Received BY LogChanges
  <2>2. ch \in 1..Channels BY <2>1 DEF IInv, TaskInv
  <2>3. c = ch BY <2>1, <2>2 DEF Received, IInv, LogInv
  <2>4. a.ch < ch BY <2>1 DEF IInv, AnswerInv, Trying
  <2> QED BY <2>2, <2>3, <2>4, ConstFacts
<1> QED BY <1>1, Invariant, PTL DEF Spec, NoCopyAfterAnswer

\* Before the task leaves a text it has asked every channel that was enabled
\* all the time, with saves of the page at any step (push_service.c:541-559).
THEOREM NoneSkipped == Spec => NoChannelSkipped
<1>1. IInv /\ [Next]_vars =>
        [pc = "channel" /\ pc' \in {"gate", "delete"} => steady \subseteq asked]_vars
  <2> SUFFICES ASSUME IInv, [Next]_vars, pc = "channel", pc' \in {"gate", "delete"}
               PROVE  steady \subseteq asked
    OBVIOUS
  <2>1. ChannelsDone
    <3>1. Task => \/ ChannelsDone \/ pc # "channel" \/ pc' \notin {"gate", "delete"}
      BY DEF Task, Start, Gate, Take, Select, Form, AttemptFails, AnswerLost, Answered,
             Delete, Deleted, NextChannel
    <3> QED BY <3>1, NextCases, Frames DEF vars, taskVars
  <2>2. ch > Channels /\ ch \in Nat /\ Channels \in Nat
    BY <2>1, ConstFacts DEF ChannelsDone, IInv, TaskInv
  <2>3. \A c \in steady : c \in 1..Channels BY DEF IInv, SkipInv
  <2>4. \A c \in steady : c < ch BY <2>2, <2>3
  <2> QED BY <2>4 DEF IInv, SkipInv, Trying
<1> QED BY <1>1, Invariant, PTL DEF Spec, NoChannelSkipped

-----------------------------------------------------------------------------
(* A request carries a short text whole. *)

\* What the proof asks of the settings: a URL fits its field (config_manager.h:27),
\* and the template of a custom channel has room for a short text beside the
\* values of its other placeholders.
RoomForText ==
  /\ \A s \in Settings : s.url < 128
  /\ \A p \in Pushes, s \in Settings :
       Short(p.text) => InCustom(Copied(p.text), s.body) = p.text.n

\* None of the buffers and precisions on the way cuts a short text: the one of
\* a push message, those of json_escape and url_encode, and those of the formats.
LEMMA ShortFits ==
  ASSUME NEW t \in [n : Nat, json : {1, 2}, url : {1, 3}], Short(t)
  PROVE  /\ Copied(t) = t /\ InJson(t) = t.n /\ InDesp(t) = t.n
         /\ \A url \in 0..127 : InUrl(t, url) = t.n
<1>1. t.n \in Nat /\ t.json \in {1, 2} /\ t.url \in {1, 3} /\ t.n <= 366 /\ t.n * t.json <= 400
  BY DEF Short
<1>2. Copied(t) = t
  BY <1>1 DEF Copied, Least, MessageCap
<1>3. InJson(t) = t.n
  <2>1. Taken(t.n, t.json, 1022) = t.n
    BY <1>1 DEF Taken, Least
  <2>2. Within(t.n, t.json, 1000) = t.n
    BY <1>1 DEF Within, Least
  <2> QED BY <2>1, <2>2 DEF InJson, EscapeCap, Escaped, BodyMax
<1>4. InDesp(t) = t.n
  <2>1. Least(t.n, 800) = t.n
    BY <1>1 DEF Least
  <2>2. Taken(t.n, t.url, 1431) = t.n
    BY <1>1 DEF Taken, Least
  <2>3. Within(t.n, t.url, 1098) = t.n
    BY <1>1 DEF Within, Least
  <2> QED BY <2>1, <2>2, <2>3 DEF InDesp, RawMax, EncodeCap, Encoded, DespHead, DespMax
<1>5. ASSUME NEW url \in 0..127 PROVE InUrl(t, url) = t.n
  <2>1. Taken(t.n, t.url, 1533) = t.n
    BY <1>1 DEF Taken, Least
  <2>2. url + 72 + t.n * t.url < 1536
    BY <1>1
  <2> QED BY <2>1, <2>2 DEF InUrl, EncodeCap, Encoded, GetFrame
<1> QED BY <1>2, <1>3, <1>4, <1>5

LEMMA RequestCarries ==
  ASSUME RoomForText, NEW c \in Channel, MakesRequest(c), NEW p \in Pushes, Short(p.text)
  PROVE  Carried(c, Copied(p.text)) = p.text.n
<1>1. p.text \in [n : Nat, json : {1, 2}, url : {1, 3}]
  BY PushAssumption DEF PushAssumption
<1>2. /\ c.type \in Types /\ c.type # "NONE" /\ c.url \in 0..127
      /\ InCustom(Copied(p.text), c.body) = p.text.n
  <2>1. PICK s \in Settings, u \in Settings, b \in Settings :
          c.type = s.type /\ c.url = u.url /\ c.body = b.body
    BY DEF Channel
  <2>2. s.type \in Types /\ u.url \in Nat
    BY PushAssumption DEF PushAssumption
  <2>3. u.url < 128 /\ InCustom(Copied(p.text), b.body) = p.text.n
    BY DEF RoomForText
  <2> QED BY <2>1, <2>2, <2>3 DEF MakesRequest
<1>3. CASE c.type = "JSON"
  BY <1>1, <1>3, ShortFits DEF Carried
<1>4. CASE c.type = "GET"
  BY <1>1, <1>2, <1>4, ShortFits DEF Carried
<1>5. CASE c.type = "SERVERCHAN"
  BY <1>1, <1>5, ShortFits DEF Carried
<1>6. CASE c.type = "CUSTOM"
  BY <1>2, <1>6 DEF Carried
<1> QED BY <1>2, <1>3, <1>4, <1>5, <1>6 DEF Types

-----------------------------------------------------------------------------
(* What was deleted has been received. *)

\* Requests are made from channels that can make one, for texts that were
\* queued, and a slot is deleted only of a text that was answered for.
DeleteInv ==
  /\ pc = "http" => MakesRequest(req)
  /\ \A a \in answered : MakesRequest(a.by) /\ a.id \in 1..Len(issued)
  /\ \A i \in 1..Len(issued) : SomeDeleted(i) => \E a \in answered : a.id = i

LEMMA DeleteStep ==
  QueueInv /\ TaskInv /\ AckInv /\ DeleteInv /\ [Next]_vars => DeleteInv'
<1> SUFFICES ASSUME QueueInv, TaskInv, AckInv, DeleteInv, [Next]_vars PROVE DeleteInv'
  OBVIOUS
<1>0. Len(issued) \in Nat
  BY DEF QueueInv
<1>1. ASSUME UNCHANGED <<issued, held, answered>>, pc' = "http" => MakesRequest(req')
      PROVE  DeleteInv'
  BY <1>1 DEF DeleteInv, SomeDeleted
<1>2. ASSUME NEW p \in Pushes, Enqueue(p) PROVE DeleteInv'
  <2>1. PICK n \in Ids : n = Len(issued) + 1
    BY <1>0, <1>2, ConstFacts DEF Enqueue, Ids
  <2>2. /\ issued' = Append(issued, p) /\ held' = [held EXCEPT ![n] = 1..p.slots]
        /\ UNCHANGED <<answered, pc, req>>
    BY <1>2, <2>1 DEF Enqueue, serverVars, taskVars
  <2>3. /\ Len(issued') = n /\ issued'[n] = p
        /\ \A i \in 1..Len(issued) : issued'[i] = issued[i]
    BY <2>1, <2>2, AppendFacts DEF QueueInv
  <2>4. \A i \in 1..n : i \in 1..Len(issued) \/ i = n
    BY <1>0, <2>1
  <2>5. \A i \in 1..Len(issued) : i \in 1..n /\ i # n /\ i \in Ids
    BY <1>0, <2>1, ConstFacts DEF Ids
  <2>6. held'[n] = 1..issued'[n].slots /\ \A i \in 1..Len(issued) : held'[i] = held[i]
    BY <2>2, <2>3, <2>5 DEF QueueInv
  <2>7. \A i \in 1..Len(issued') : SomeDeleted(i)' => i \in 1..Len(issued) /\ SomeDeleted(i)
    BY <2>3, <2>4, <2>6 DEF SomeDeleted
  <2>8. \A i \in 1..Len(issued') : SomeDeleted(i)' => \E a \in answered' : a.id = i
    BY <2>2, <2>7 DEF DeleteInv
  <2>9. \A a \in answered' : MakesRequest(a.by) /\ a.id \in 1..Len(issued')
    BY <2>2, <2>3, <2>5 DEF DeleteInv
  <2> QED BY <2>2, <2>8, <2>9 DEF DeleteInv
<1>3. CASE Task
  <2>0. issued' = issued
    BY <1>3, Frames
  <2>1. CASE Form
    <3>1. pc' = "http" => MakesRequest(req')
      BY <2>1 DEF Form, NextChannel
    <3> QED BY <1>1, <2>0, <2>1, <3>1 DEF Form, serverVars
  <2>2. CASE AttemptFails \/ AnswerLost
    <3>1. pc = "http" /\ (pc' = "http" => req' = req) /\ UNCHANGED <<held, answered>>
      BY <2>2 DEF AttemptFails, AnswerLost, GiveUpOrRetry, NextChannel, serverVars
    <3> QED BY <1>1, <2>0, <3>1 DEF DeleteInv
  <2>3. CASE Answered
    <3>1. /\ answered' = answered \cup {[ch |-> ch, id |-> cur, by |-> req]}
          /\ held' = held /\ pc = "http" /\ pc' = "channel"
      BY <2>3 DEF Answered, NextChannel
    <3>2. MakesRequest(req) /\ cur \in 1..Len(issued)
      BY <1>0, <3>1 DEF DeleteInv, TaskInv
    <3>3. \A a \in answered' : MakesRequest(a.by) /\ a.id \in 1..Len(issued')
      BY <2>0, <3>1, <3>2 DEF DeleteInv
    <3>4. \A i \in 1..Len(issued') : SomeDeleted(i)' => \E a \in answered' : a.id = i
      BY <2>0, <3>1 DEF DeleteInv, SomeDeleted
    <3> QED BY <3>1, <3>3, <3>4 DEF DeleteInv
  <2>4. ASSUME NEW done \in BOOLEAN, Delete(done) PROVE DeleteInv'
    <3>1. /\ UNCHANGED <<answered, pc, req>> /\ pc = "delete"
          /\ held' \in {held, [held EXCEPT ![cur] = @ \ {del}]}
      BY <2>4 DEF Delete, serverVars
    <3>2. \E a \in answered : a.id = cur
      BY <3>1 DEF AckInv
    <3>3. \A i \in 1..Len(issued) : i # cur => held'[i] = held[i]
      <4>1. \A i \in 1..Len(issued) : i \in Ids
        BY ConstFacts DEF QueueInv, Ids
      <4> QED BY <3>1, <4>1 DEF QueueInv
    <3>4. \A i \in 1..Len(issued) : SomeDeleted(i)' => i = cur \/ SomeDeleted(i)
      BY <2>0, <3>3 DEF SomeDeleted
    <3> QED BY <2>0, <3>1, <3>2, <3>4 DEF DeleteInv
  <2>5. CASE \/ Gate \/ Take \/ Select \/ ChannelsDone \/ Deleted
             \/ \E memory \in BOOLEAN : Start(memory)
    <3>1. UNCHANGED <<held, answered>> /\ pc' # "http"
      BY <2>5 DEF Gate, Take, Select, ChannelsDone, Deleted, Start, serverVars
    <3> QED BY <1>1, <2>0, <3>1
  <2> QED BY <1>3, <2>1, <2>2, <2>3, <2>4, <2>5 DEF Task
<1>4. CASE NetReady \/ SaveStep \/ UNCHANGED vars
  <2>1. UNCHANGED <<issued, held, answered, pc, req>>
    BY <1>4, Frames DEF vars, taskVars, serverVars
  <2> QED BY <1>1, <2>1 DEF DeleteInv
<1> QED BY <1>2, <1>3, <1>4, NextCases

\* The slots of a short text are deleted only after a channel has answered for
\* the whole of it, for any queue, channels, saves and lost answers, as long as
\* the templates of the custom channels have room for it (push_service.c:563).
THEOREM WholeReceived == ASSUME RoomForText PROVE Spec => []DeletedWasReceived
<1>1. Init => DeleteInv
  BY DEF Init, DeleteInv
<1>2. IInv /\ DeleteInv /\ [Next]_vars => DeleteInv'
  BY DeleteStep DEF IInv
<1>3. IInv /\ DeleteInv => DeletedWasReceived
  <2> SUFFICES ASSUME IInv, DeleteInv, NEW i \in 1..Len(issued),
                      SomeDeleted(i), Short(issued[i].text)
               PROVE  \E a \in answered : a.id = i /\ Whole(a)
    BY DEF DeletedWasReceived
  <2>1. PICK a \in answered : a.id = i
    BY DEF DeleteInv
  <2>2. a.by \in Channel /\ MakesRequest(a.by) /\ issued[a.id] \in Pushes
    BY <2>1 DEF DeleteInv, IInv, AnswerInv, QueueInv
  <2>3. Whole(a)
    BY <2>1, <2>2, RequestCarries DEF Whole
  <2> QED BY <2>1, <2>3
<1> QED BY <1>1, <1>2, <1>3, Invariant, PTL DEF Spec

-----------------------------------------------------------------------------
(* The push service forwards. *)

TakenIds == 1..Len(issued)
KeptIds == {i \in 1..Len(issued) : issued[i].slots > 0 /\ ~SomeDeleted(i)}
ForwardedIds == {a.id : a \in answered}

LEMMA TakeMaps ==
  ASSUME QueueInv, NEW p \in Pushes, Enqueue(p) PROVE F!Next
<1> DEFINE n == Len(issued) + 1
<1>0. Len(issued) \in Nat /\ n \in Ids BY ConstFacts DEF QueueInv, Enqueue, Ids
<1>1. issued' = Append(issued, p) /\ held' = [held EXCEPT ![n] = 1..p.slots]
      /\ UNCHANGED answered
  BY DEF Enqueue, serverVars
<1>2. /\ Len(issued') = n /\ issued'[n] = p
      /\ \A i \in 1..Len(issued) : issued'[i] = issued[i]
  BY <1>1, AppendFacts DEF QueueInv
<1>3. TakenIds' = TakenIds \cup {n} /\ n \notin TakenIds BY <1>0, <1>2 DEF TakenIds
<1>4. \A i \in 1..Len(issued) : i \in Ids /\ i # n /\ i \in 1..n
  BY <1>0, ConstFacts DEF Ids
<1>5. held'[n] = 1..p.slots /\ \A i \in 1..Len(issued) : held'[i] = held[i]
  BY <1>0, <1>1, <1>4 DEF QueueInv
<1>6. n \in KeptIds' <=> p.slots > 0
  BY <1>0, <1>2, <1>5 DEF KeptIds, SomeDeleted
<1>7. \A i \in 1..Len(issued) : i \in KeptIds' <=> i \in KeptIds
  BY <1>2, <1>4, <1>5 DEF KeptIds, SomeDeleted
<1>8. KeptIds' \subseteq 1..n /\ KeptIds \subseteq 1..Len(issued) BY <1>2 DEF KeptIds
<1>9. \A i \in 1..n : i = n \/ i \in 1..Len(issued) BY <1>0
<1>10. KeptIds' = IF p.slots > 0 THEN KeptIds \cup {n} ELSE KeptIds
  <2>1. CASE p.slots > 0
    <3>1. \A i : i \in KeptIds' <=> i \in KeptIds \/ i = n BY <1>6, <1>7, <1>8, <1>9, <2>1
    <3> QED BY <2>1, <3>1
  <2>2. CASE ~(p.slots > 0)
    <3>1. \A i : i \in KeptIds' <=> i \in KeptIds BY <1>6, <1>7, <1>8, <1>9, <2>2
    <3> QED BY <2>2, <3>1
  <2> QED BY <2>1, <2>2
<1>11. ForwardedIds' = ForwardedIds BY <1>1 DEF ForwardedIds
<1>12. F!Take(n, p.slots > 0)
  BY <1>3, <1>10, <1>11 DEF F!Take, TakenIds, KeptIds, ForwardedIds
<1>13. (p.slots > 0) \in BOOLEAN OBVIOUS
<1> QED BY <1>0, <1>12, <1>13 DEF F!Next

LEMMA ForwardMaps ==
  ASSUME QueueInv, TaskInv, Answered
  PROVE  F!Next \/ UNCHANGED <<TakenIds, KeptIds, ForwardedIds>>
<1>1. cur \in 1..Len(issued) /\ cur \in Ids
  BY ConstFacts DEF Answered, TaskInv, QueueInv, Ids
<1>2. UNCHANGED <<TakenIds, KeptIds>>
  BY DEF Answered, TakenIds, KeptIds, SomeDeleted
<1>3. ForwardedIds' = ForwardedIds \cup {cur}
  <2> DEFINE new == [ch |-> ch, id |-> cur, by |-> req]
  <2>1. answered' = answered \cup {new} BY DEF Answered
  <2>2. new.id = cur OBVIOUS
  <2> HIDE DEF new
  <2> QED BY <2>1, <2>2 DEF ForwardedIds
<1>4. CASE cur \in ForwardedIds BY <1>2, <1>3, <1>4
<1>5. CASE cur \notin ForwardedIds
  <2>1. PICK i \in Ids : i = cur BY <1>1
  <2>2. F!Forward({i})
    BY <1>1, <1>2, <1>3, <1>5, <2>1 DEF F!Forward, TakenIds, KeptIds, ForwardedIds
  <2> QED BY <2>2 DEF F!Next
<1> QED BY <1>4, <1>5

LEMMA DiscardMaps ==
  ASSUME QueueInv, TaskInv, AckInv, NEW done \in BOOLEAN, Delete(done)
  PROVE  F!Next \/ UNCHANGED <<TakenIds, KeptIds, ForwardedIds>>
<1>1. cur \in 1..Len(issued) /\ cur \in Ids
  BY ConstFacts DEF Delete, TaskInv, QueueInv, Ids
<1>2. UNCHANGED <<issued, answered>> BY DEF Delete, serverVars
<1>3. cur \in ForwardedIds BY DEF AckInv, ForwardedIds, Delete
<1>4. UNCHANGED <<TakenIds, ForwardedIds>> BY <1>2 DEF TakenIds, ForwardedIds
<1>5. CASE held' = held BY <1>2, <1>4, <1>5 DEF KeptIds, SomeDeleted
<1>6. CASE held' = [held EXCEPT ![cur] = @ \ {del}]
  <2>1. held'[cur] = held[cur] \ {del} /\ \A i \in Ids \ {cur} : held'[i] = held[i]
    BY <1>1, <1>6 DEF QueueInv
  <2>2. issued[cur].slots \in Nat BY <1>1, ConstFacts DEF QueueInv
  <2>3. del \in 1..issued[cur].slots BY <2>2 DEF Delete, TaskInv
  <2>4. held'[cur] # 1..issued[cur].slots BY <2>1, <2>3
  <2>5. \A i \in 1..Len(issued) : i \in Ids BY ConstFacts DEF QueueInv, Ids
  <2>6. \A i \in (1..Len(issued)) \ {cur} : i \in KeptIds' <=> i \in KeptIds
    BY <1>2, <2>1, <2>5 DEF KeptIds, SomeDeleted
  <2>7. cur \notin KeptIds' BY <1>2, <2>4 DEF KeptIds, SomeDeleted
  <2>8. KeptIds' \subseteq 1..Len(issued) /\ KeptIds \subseteq 1..Len(issued)
    BY <1>2 DEF KeptIds
  <2>9. KeptIds' = KeptIds \ {cur} BY <2>6, <2>7, <2>8
  <2>10. CASE cur \in KeptIds
    <3>1. PICK i \in Ids : i = cur BY <1>1
    <3>2. F!Discard(i)
      BY <1>3, <1>4, <2>9, <2>10, <3>1 DEF F!Discard, TakenIds, KeptIds, ForwardedIds
    <3> QED BY <3>2 DEF F!Next
  <2>11. CASE cur \notin KeptIds BY <1>4, <2>9, <2>11
  <2> QED BY <2>10, <2>11
<1> QED BY <1>5, <1>6 DEF Delete

\* An SMS leaves the modem's store only after a channel has answered for its
\* text (push_service.c:554-568).
THEOREM Forwards == Spec => ImplementsForwarding
<1>1. Init => F!Init
  <2> SUFFICES ASSUME Init PROVE F!Init OBVIOUS
  <2>1. issued = <<>> /\ Len(issued) = 0 /\ answered = {} BY DEF Init
  <2> QED BY <2>1 DEF F!Init
<1>2. IInv /\ [Next]_vars => [F!Next]_<<TakenIds, KeptIds, ForwardedIds>>
  <2> SUFFICES ASSUME IInv, [Next]_vars
               PROVE  F!Next \/ UNCHANGED <<TakenIds, KeptIds, ForwardedIds>>
    OBVIOUS
  <2>1. CASE UNCHANGED <<issued, held, answered>>
    BY <2>1 DEF TakenIds, KeptIds, ForwardedIds, SomeDeleted
  <2>2. CASE Task
    <3>1. Task => \/ Answered \/ (\E done \in BOOLEAN : Delete(done))
                  \/ UNCHANGED <<issued, held, answered>>
      BY DEF Task, Start, Gate, Take, Select, Form, AttemptFails, AnswerLost,
             ChannelsDone, Deleted, serverVars
    <3> QED BY <2>1, <2>2, <3>1, ForwardMaps, DiscardMaps DEF IInv
  <2> QED BY <2>1, <2>2, TakeMaps, NextCases, Frames DEF vars, serverVars, IInv
<1> QED BY <1>1, <1>2, Invariant, PTL
        DEF Spec, ImplementsForwarding, F!Spec, TakenIds, KeptIds, ForwardedIds
=============================================================================

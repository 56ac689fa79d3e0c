-------------------------- MODULE SmsForward_proofs --------------------------
(***************************************************************************)
(* Theorems about SmsForward: types and the slots of long SMS for all      *)
(* values of its constants; then, without the retry and without text-mode  *)
(* sending, on a modem that counts its slots from 1, that an SMS is pushed *)
(* at most once and deleted only after that, and that the pipeline         *)
(* implements the abstract Forwarding.  The argument: a slot number        *)
(* travels through the pipeline at most once, so whoever holds it knows    *)
(* which SMS the slot contains; and a number whose SMS is behind a channel *)
(* already is left only with the push task.                                *)
(***************************************************************************)
EXTENDS SmsForward, TLAPS

LEMMA ConstFacts ==
  /\ Slots \subseteq Nat /\ NoMsg \notin Msgs
  /\ \A m \in Msgs : Header[m].total \in Nat /\ Header[m].part \in Nat
  /\ EventCap \in Nat \ {0} /\ PushCap \in Nat \ {0} /\ ConcatCap \in Nat \ {0}
  /\ PartCap \in Nat \ {0} /\ Timeout \in Nat \ {0} /\ ListCap \in Nat \ {0}
  /\ MaxRestarts \in Nat
BY ConstantsAssumption DEF ConstantsAssumption

ConcatRecord ==
  [inUse : BOOLEAN, sender : {Header[m].sender : m \in Msgs} \cup {NoMsg},
   ref : {Header[m].ref : m \in Msgs} \cup {0}, total : Nat,
   age : 0..Timeout, parts : SUBSET Part]

\* The facts about queues that the proofs need, for any element type.
LEMMA QueueTypes ==
  ASSUME NEW S
  PROVE  /\ <<>> \in Seq(S) /\ Len(<<>>) = 0
         /\ \A q \in Seq(S) : /\ Len(q) \in Nat
                             /\ \A e \in S : Append(q, e) \in Seq(S)
         /\ \A q \in Seq(S) : q # <<>> =>
              /\ Head(q) \in S /\ Tail(q) \in Seq(S) /\ Len(Tail(q)) = Len(q) - 1
OBVIOUS

LEMMA SlotTypes ==
  /\ NoEvent \in Event /\ NoText \in Text /\ FreeSlot \in ConcatRecord
  /\ \A s \in Slots : StoredEvent(s) \in Event
  /\ \A m \in Msgs : DirectEvent(m) \in Event /\ NewSlot(m) \in ConcatRecord
<1>1. 0 \in Idx /\ Slots \subseteq Idx BY DEF Idx
<1>2. NoEvent \in Event
  BY <1>1 DEF NoEvent, DirectEvent, Event
<1>3. NoText \in Text BY DEF NoText, Text
<1>4. FreeSlot \in ConcatRecord
  BY ConstFacts DEF FreeSlot, ConcatRecord
<1>5. ASSUME NEW s \in Slots PROVE StoredEvent(s) \in Event
  BY <1>1 DEF StoredEvent, Event
<1>6. ASSUME NEW m \in Msgs PROVE DirectEvent(m) \in Event
  BY <1>1 DEF DirectEvent, Event
<1>7. ASSUME NEW m \in Msgs PROVE NewSlot(m) \in ConcatRecord
  BY ConstFacts DEF NewSlot, ConcatRecord
<1> QED BY <1>2, <1>3, <1>4, <1>5, <1>6, <1>7

LEMMA EventFields ==
  ASSUME NEW e \in Event
  PROVE  /\ e.stored \in BOOLEAN /\ e.idx \in Idx /\ e.msg \in Msgs \cup {NoMsg}
         /\ e.stored => e.idx \in Slots
         /\ ~e.stored => e.idx = 0
BY DEF Event, Idx

\* Adding a part to a slot of the reassembly buffer yields such a slot, with
\* the same header and at most the one part more.
LEMMA WithPartType ==
  ASSUME NEW c \in ConcatRecord, NEW m \in Msgs, NEW i \in Idx
  PROVE  /\ WithPart(c, m, i) \in ConcatRecord
         /\ WithPart(c, m, i).parts \subseteq
              c.parts \cup {[part |-> Header[m].part, msg |-> m, idx |-> i]}
<1>1. [part |-> Header[m].part, msg |-> m, idx |-> i] \in Part
  BY ConstFacts DEF Part
<1> QED BY <1>1 DEF WithPart, ConcatRecord

LEMMA TextOfType ==
  ASSUME NEW ps \in SUBSET Part, NEW ack \in BOOLEAN
  PROVE  TextOf(ps, ack) \in Text
BY DEF TextOf, Text, Part

LEMMA AgeType ==
  ASSUME NEW c \in ConcatRecord, c.age < Timeout
  PROVE  [c EXCEPT !.age = @ + 1] \in ConcatRecord
<1>1. c.age + 1 \in 0..Timeout BY ConstFacts DEF ConcatRecord
<1> QED BY <1>1 DEF ConcatRecord

LEMMA SlotsForType ==
  ASSUME NEW m PROVE SlotsFor(m) \subseteq 1..ConcatCap
BY DEF SlotsFor

\* The push queue stays a sequence of texts within its capacity.
LEMMA EnqueuePushType ==
  ASSUME pushq \in Seq(Text), Len(pushq) <= PushCap, NEW t \in Text, EnqueuePush(t)
  PROVE  pushq' \in Seq(Text) /\ Len(pushq') <= PushCap
BY ConstFacts DEF EnqueuePush

LEMMA EnqueueEventType ==
  ASSUME smsq \in Seq(Event), Len(smsq) <= EventCap, NEW e \in Event, EnqueueEvent(e)
  PROVE  smsq' \in Seq(Event) /\ Len(smsq') <= EventCap
BY ConstFacts DEF EnqueueEvent

LEMMA ModemDeleteType ==
  ASSUME store \in [Slots -> Msgs \cup {NoMsg}], NEW s, NEW ok, ModemDelete(s, ok)
  PROVE  store' \in [Slots -> Msgs \cup {NoMsg}]
BY DEF ModemDelete

\* Every action keeps the types.
LEMMA TypeStep == TypeOK /\ [Next]_vars => TypeOK'
<1> SUFFICES ASSUME TypeOK, [Next]_vars PROVE TypeOK'
  OBVIOUS
<1> USE ConstFacts, SlotTypes DEF TypeOK, modemVars, smsVars, pushVars, envVars
<1> USE DEF ConcatRecord
<1>1. ASSUME NEW m \in Msgs, NEW s \in Slots, ArriveStored(m, s) PROVE TypeOK'
  BY <1>1, QueueTypes DEF ArriveStored
<1>2. ASSUME NEW m \in Msgs, ArriveDirect(m) PROVE TypeOK'
  BY <1>2, QueueTypes DEF ArriveDirect
<1>3. CASE LoseUrc
  BY <1>3, QueueTypes DEF LoseUrc
<1>4. CASE HandleUrc
  <2>1. Head(urcs) \in Event /\ urcs' \in Seq(Event)
    BY <1>4, QueueTypes DEF HandleUrc
  <2>2. smsq' \in Seq(Event) /\ Len(smsq') <= EventCap
    BY <1>4, <2>1, EnqueueEventType DEF HandleUrc
  <2> QED BY <1>4, <2>1, <2>2 DEF HandleUrc
<1>5. CASE Receive
  <2>1. /\ evt' \in Event /\ evt' = Head(smsq)
        /\ smsq' \in Seq(Event) /\ Len(smsq') <= EventCap
    BY <1>5, QueueTypes DEF Receive
  <2>2. evt'.msg \in Msgs \cup {NoMsg}
    BY <2>1, EventFields
  <2>3. pdu' \in Msgs \cup {NoMsg} /\ spc' \in {"read", "decode"}
    BY <1>5, <2>2 DEF Receive
  <2> QED BY <1>5, <2>1, <2>3 DEF Receive
<1>6. CASE ReadOk
  BY <1>6 DEF ReadOk, Occupied
<1>7. CASE ReadFail
  BY <1>7 DEF ReadFail
<1>8. CASE DecodeFails
  BY <1>8 DEF DecodeFails, Done
<1>9. CASE Intercept
  BY <1>9 DEF Intercept, Done
<1>10. CASE ForwardSingle
  <2>1. [text |-> {pdu}, del |-> IF evt.stored THEN {evt.idx} ELSE {}] \in Text
    BY <1>10, EventFields DEF ForwardSingle, Decoded, Text
  <2> QED BY <1>10, <2>1, EnqueuePushType DEF ForwardSingle, Done
<1>11. CASE CollectPart
  <2>1. pdu \in Msgs /\ evt.idx \in Idx /\ evt.stored \in BOOLEAN
    BY <1>11, EventFields DEF CollectPart, Decoded
  <2>2. PICK i \in SlotsFor(pdu) :
          LET c == AddPart(i, pdu)
          IN  IF Cardinality(c.parts) >= Header[pdu].total
              THEN /\ EnqueuePush(TextOf(PartsUpTo(c, Header[pdu].total), evt.stored))
                   /\ concat' = [concat EXCEPT ![i] = FreeSlot]
              ELSE /\ concat' = [concat EXCEPT ![i] = c]
                   /\ UNCHANGED pushq
    BY <1>11 DEF CollectPart
  <2> DEFINE c == AddPart(i, pdu)
  <2>3. i \in 1..ConcatCap BY SlotsForType
  <2>4. c \in ConcatRecord
    BY <2>1, <2>3, WithPartType DEF AddPart
  <2>5. TextOf(PartsUpTo(c, Header[pdu].total), evt.stored) \in Text
    <3>1. PartsUpTo(c, Header[pdu].total) \in SUBSET Part
      BY <2>4 DEF PartsUpTo
    <3> QED BY <3>1, <2>1, TextOfType
  <2>6. pushq' \in Seq(Text) /\ Len(pushq') <= PushCap
    BY <2>2, <2>5, EnqueuePushType
  <2>7. concat' \in [1..ConcatCap -> ConcatRecord]
    BY <2>2, <2>4
  <2> QED BY <1>11, <2>6, <2>7 DEF CollectPart, Done
<1>12. ASSUME NEW ok \in BOOLEAN, DeleteUnwanted(ok) PROVE TypeOK'
  BY <1>12, ModemDeleteType DEF DeleteUnwanted, Done
<1>13. CASE ReceiveTimeout
  BY <1>13 DEF ReceiveTimeout
<1>14. CASE ScanSlot
  <2>1. scanAt \in 1..ConcatCap /\ scanAt' \in 1..(ConcatCap + 1)
    BY <1>14 DEF ScanSlot
  <2>2. PartsUpTo(concat[scanAt], concat[scanAt].total) \in SUBSET Part
    BY <2>1 DEF PartsUpTo
  <2>3. TextOf(PartsUpTo(concat[scanAt], concat[scanAt].total), TRUE) \in Text
    BY <2>2, TextOfType
  <2>4. pushq' \in Seq(Text) /\ Len(pushq') <= PushCap
    BY <1>14, <2>3, EnqueuePushType DEF ScanSlot
  <2>5. concat' \in [1..ConcatCap -> ConcatRecord]
    BY <1>14 DEF ScanSlot
  <2> QED BY <1>14, <2>1, <2>4, <2>5 DEF ScanSlot
<1>15. CASE ScanEnd
  <2>1. 1 \in 1..(ConcatCap + 1)
    OBVIOUS
  <2> QED BY <1>15, <2>1 DEF ScanEnd
<1>16. CASE Tick
  <2>1. concat' \in [1..ConcatCap -> ConcatRecord]
    <3>1. ASSUME NEW i \in 1..ConcatCap PROVE concat'[i] \in ConcatRecord
      BY <1>16, AgeType DEF Tick
    <3> QED BY <1>16, <3>1 DEF Tick
  <2> QED BY <1>16, <2>1 DEF Tick
<1>17. CASE PushGate
  BY <1>17 DEF PushGate
<1>18. CASE PushTake
  <2>1. pmsg' \in Text /\ pushq' \in Seq(Text) /\ Len(pushq') <= PushCap
    BY <1>18, QueueTypes DEF PushTake
  <2> QED BY <1>18, <2>1 DEF PushTake
<1>19. CASE PushOk
  BY <1>19 DEF PushOk, Text
<1>20. CASE PushFail
  BY <1>20 DEF PushFail
<1>21. CASE PushDone
  BY <1>21 DEF PushDone
<1>22. ASSUME NEW s \in Idx, NEW ok \in BOOLEAN, PushDelete(s, ok) PROVE TypeOK'
  <2>1. pmsg' \in Text BY <1>22 DEF PushDelete, Text
  <2> QED BY <1>22, <2>1, ModemDeleteType DEF PushDelete
<1>23. CASE RetryList
  BY <1>23 DEF RetryList, Occupied
<1>24. CASE RetryEnqueue
  BY <1>24, EnqueueEventType DEF RetryEnqueue
<1>25. CASE EnvStep
  <2>1. CASE Restart
    <3>1. concat' \in [1..ConcatCap -> ConcatRecord] /\ scanAt' \in 1..(ConcatCap + 1)
      BY <2>1 DEF Restart, FreeSlot
    <3>2. /\ urcs' \in Seq(Event) /\ smsq' \in Seq(Event) /\ pushq' \in Seq(Text)
          /\ Len(smsq') <= EventCap /\ Len(pushq') <= PushCap
      BY <2>1, QueueTypes DEF Restart
    <3>3. restarts' \in 0..MaxRestarts
      BY <2>1 DEF Restart
    <3>4. /\ evt' \in Event /\ pmsg' \in Text /\ pdu' \in Msgs \cup {NoMsg}
          /\ todo' \subseteq Slots /\ {textMode', clockSet', web'} \subseteq BOOLEAN
          /\ spc' = "recv" /\ ppc' = "gate" /\ net' = "boot"
          /\ UNCHANGED <<store, arrived, delivered>>
      BY <2>1 DEF Restart
    <3> QED BY <3>1, <3>2, <3>3, <3>4
  <2>2. CASE GotIp \/ WifiLost \/ TimeSynced \/ SendTextBegin \/ SendTextEnd
    BY <2>2, ZenonT(40) DEF GotIp, WifiLost, TimeSynced, SendTextBegin, SendTextEnd
  <2> QED BY <1>25, <2>1, <2>2 DEF EnvStep
<1>26. CASE UNCHANGED vars
  BY <1>26 DEF vars
<1> QED BY <1>1, <1>2, <1>3, <1>4, <1>5, <1>6, <1>7, <1>8, <1>9, <1>10, <1>11,
           <1>12, <1>13, <1>14, <1>15, <1>16, <1>17, <1>18, <1>19, <1>20, <1>21,
           <1>22, <1>23, <1>24, <1>25, <1>26
        DEF Next, ModemStep, SmsStep, PushStep, RetryStep

LEMMA InitType == Init => TypeOK
<1> SUFFICES ASSUME Init PROVE TypeOK
  OBVIOUS
<1> USE ConstFacts, SlotTypes DEF Init
<1>1. store \in [Slots -> Msgs \cup {NoMsg}] /\ {textMode, clockSet, web} \subseteq BOOLEAN
  OBVIOUS
<1>2. concat \in [1..ConcatCap -> ConcatRecord] /\ scanAt \in 1..(ConcatCap + 1)
  OBVIOUS
<1>3. /\ urcs \in Seq(Event) /\ smsq \in Seq(Event) /\ pushq \in Seq(Text)
      /\ Len(smsq) <= EventCap /\ Len(pushq) <= PushCap
  BY QueueTypes
<1>4. restarts \in 0..MaxRestarts
  OBVIOUS
<1> QED BY <1>1, <1>2, <1>3, <1>4 DEF TypeOK, ConcatRecord

\* Every variable keeps its type and both queues their capacity, whatever the
\* sizes of the queues and buffers.
THEOREM TypeCorrect == Spec => []TypeOK
BY InitType, TypeStep, PTL DEF Spec

-----------------------------------------------------------------------------
(* The reassembly buffer. *)

\* The slot the task picks for a part is the one of its key, if there is one.
LEMMA SlotsForKey ==
  ASSUME NEW m, NEW i \in SlotsFor(m), NEW j \in 1..ConcatCap, SameKey(concat[j], m)
  PROVE  SameKey(concat[i], m)
BY DEF SlotsFor

\* A part goes into a slot of its own key, or opens one.
LEMMA AddPartKey ==
  ASSUME TypeOK, NEW m \in Msgs, NEW i \in 1..ConcatCap
  PROVE  SameKey(AddPart(i, m), m)
<1>1. concat[i] \in ConcatRecord /\ NewSlot(m) \in ConcatRecord
  BY SlotTypes DEF TypeOK, ConcatRecord
<1>2. SameKey(NewSlot(m), m)
  BY DEF SameKey, NewSlot
<1>3. ASSUME NEW c \in ConcatRecord, SameKey(c, m), NEW x
      PROVE  SameKey(WithPart(c, m, x), m)
  <2> DEFINE w == WithPart(c, m, x)
  <2>1. w.inUse = c.inUse /\ w.ref = c.ref /\ w.sender = c.sender
    BY DEF WithPart, ConcatRecord
  <2> QED BY <1>3, <2>1 DEF SameKey
<1>4. CASE SameKey(concat[i], m)
  BY <1>1, <1>3, <1>4 DEF AddPart
<1>5. CASE ~SameKey(concat[i], m)
  BY <1>1, <1>2, <1>3, <1>5 DEF AddPart
<1> QED BY <1>4, <1>5

\* Freeing a slot, or changing nothing in the keys, keeps the keys apart.
LEMMA FewerKeys ==
  ASSUME OneSlotPerLongSms,
         \A i \in 1..ConcatCap :
           \/ ~concat'[i].inUse
           \/ /\ concat'[i].inUse = concat[i].inUse
              /\ concat'[i].ref = concat[i].ref /\ concat'[i].sender = concat[i].sender
  PROVE  OneSlotPerLongSms'
BY DEF OneSlotPerLongSms

LEMMA OneSlotStep == TypeOK /\ OneSlotPerLongSms /\ [Next]_vars => OneSlotPerLongSms'
<1> SUFFICES ASSUME TypeOK, OneSlotPerLongSms, [Next]_vars PROVE OneSlotPerLongSms'
  OBVIOUS
<1> USE DEF modemVars, smsVars, pushVars, envVars
<1>1. \A i \in 1..ConcatCap : concat[i] \in ConcatRecord
  BY DEF TypeOK, ConcatRecord
<1>2. ASSUME UNCHANGED concat PROVE OneSlotPerLongSms'
  BY <1>2 DEF OneSlotPerLongSms
<1>3. ASSUME NEW i \in 1..ConcatCap, concat' = [concat EXCEPT ![i] = FreeSlot]
      PROVE  OneSlotPerLongSms'
  BY <1>3, FewerKeys DEF TypeOK, FreeSlot
<1>4. CASE CollectPart
  <2>1. PICK i \in SlotsFor(pdu) :
          concat' \in {[concat EXCEPT ![i] = FreeSlot], [concat EXCEPT ![i] = AddPart(i, pdu)]}
    BY <1>4 DEF CollectPart
  <2>2. pdu \in Msgs /\ i \in 1..ConcatCap
    BY <1>4, SlotsForType DEF CollectPart, Decoded
  <2>3. CASE concat' = [concat EXCEPT ![i] = FreeSlot]
    BY <1>3, <2>2, <2>3
  <2>4. CASE concat' = [concat EXCEPT ![i] = AddPart(i, pdu)]
    <3> DEFINE c == AddPart(i, pdu)
    <3>1. SameKey(c, pdu)
      BY <2>2, AddPartKey
    <3>2. ASSUME NEW j \in 1..ConcatCap, j # i, concat[j].inUse,
                 concat[j].ref = c.ref, concat[j].sender = c.sender
          PROVE  FALSE
      <4>1. SameKey(concat[j], pdu)
        BY <3>1, <3>2 DEF SameKey
      <4>2. SameKey(concat[i], pdu)
        BY <4>1, SlotsForKey
      <4> QED BY <2>2, <3>2, <4>1, <4>2 DEF SameKey, OneSlotPerLongSms
    <3> HIDE DEF c
    <3>3. \A j \in 1..ConcatCap : concat'[j] = IF j = i THEN c ELSE concat[j]
      BY <2>4 DEF TypeOK, c
    <3> QED BY <3>2, <3>3 DEF OneSlotPerLongSms
  <2> QED BY <2>1, <2>3, <2>4
<1>5. CASE ScanSlot
  <2>1. scanAt \in 1..ConcatCap
    BY <1>5 DEF ScanSlot, TypeOK
  <2> QED BY <1>2, <1>3, <1>5, <2>1 DEF ScanSlot
<1>6. CASE Tick
  <2>1. ASSUME NEW i \in 1..ConcatCap
        PROVE  /\ concat'[i].inUse = concat[i].inUse
               /\ concat'[i].ref = concat[i].ref /\ concat'[i].sender = concat[i].sender
    <3>1. concat'[i] \in {concat[i], [concat[i] EXCEPT !.age = @ + 1]}
      BY <1>6 DEF Tick
    <3> QED BY <1>1, <3>1 DEF ConcatRecord
  <2> QED BY <2>1, FewerKeys
<1>7. CASE Restart
  BY <1>7, FewerKeys DEF Restart, FreeSlot
<1>8. CASE ModemStep
  BY <1>2, <1>8 DEF ModemStep, ArriveStored, ArriveDirect, LoseUrc
<1>9. CASE HandleUrc \/ Receive \/ ReadOk \/ ReadFail \/ DecodeFails \/ Intercept
             \/ ForwardSingle \/ (\E ok \in BOOLEAN : DeleteUnwanted(ok))
             \/ ReceiveTimeout \/ ScanEnd
  BY <1>2, <1>9 DEF HandleUrc, Receive, ReadOk, ReadFail, DecodeFails, Intercept,
     ForwardSingle, DeleteUnwanted, ReceiveTimeout, ScanEnd
<1>10. CASE PushStep
  BY <1>2, <1>10 DEF PushStep, PushGate, PushTake, PushOk, PushFail, PushDone, PushDelete
<1>11. CASE RetryStep \/ UNCHANGED vars
  BY <1>2, <1>11 DEF RetryStep, RetryList, RetryEnqueue, vars
<1>12. CASE GotIp \/ WifiLost \/ TimeSynced \/ SendTextBegin \/ SendTextEnd
  BY <1>2, <1>12 DEF GotIp, WifiLost, TimeSynced, SendTextBegin, SendTextEnd
<1> QED BY <1>4, <1>5, <1>6, <1>7, <1>8, <1>9, <1>10, <1>11, <1>12
        DEF Next, SmsStep, EnvStep

\* A long SMS being reassembled has one slot, whatever is evicted, expires or
\* shares its reference number: the lookup prefers the slot of the same key
\* (sms_processor.c, find_or_create_concat_slot).
THEOREM OneSlot == Spec => []OneSlotPerLongSms
<1>1. Init => OneSlotPerLongSms
  BY DEF Init, FreeSlot, OneSlotPerLongSms
<1> QED BY <1>1, OneSlotStep, TypeCorrect, PTL DEF Spec

-----------------------------------------------------------------------------
(* Slot numbers: no retry, no text mode, slots counted from 1. *)

Quiet == ~RetryEnabled /\ ~WebSends /\ 0 \notin Slots

-----------------------------------------------------------------------------
(* Queues of anything that holds something. *)

\* What a queue holds: f says what each of its elements does.
Held(f, q)  == UNION {f[q[i]] : i \in 1..Len(q)}
Apart(f, q) == \A i, j \in 1..Len(q) : i # j => f[q[i]] \cap f[q[j]] = {}

LEMMA HeldMember ==
  ASSUME NEW f, NEW q, NEW m
  PROVE  m \in Held(f, q) <=> \E i \in 1..Len(q) : m \in f[q[i]]
BY DEF Held

LEMMA AppendHeld ==
  ASSUME NEW S, NEW f, NEW q \in Seq(S), NEW e \in S
  PROVE  /\ Held(f, Append(q, e)) = Held(f, q) \cup f[e]
         /\ Apart(f, q) /\ f[e] \cap Held(f, q) = {} => Apart(f, Append(q, e))
<1> DEFINE r == Append(q, e)
<1>1. /\ Len(q) \in Nat /\ Len(r) = Len(q) + 1
      /\ \A i \in 1..Len(q) : r[i] = q[i]
      /\ r[Len(q) + 1] = e
  OBVIOUS
<1>2. 1..Len(r) = 1..Len(q) \cup {Len(q) + 1}
  BY <1>1
<1> HIDE DEF r
<1>3. Held(f, r) = Held(f, q) \cup f[e]
  BY <1>1, <1>2, HeldMember
<1>4. ASSUME Apart(f, q), f[e] \cap Held(f, q) = {}
      PROVE  Apart(f, r)
  <2>1. \A i \in 1..Len(q) : f[q[i]] \subseteq Held(f, q)
    BY HeldMember
  <2> QED BY <1>1, <1>2, <1>4, <2>1 DEF Apart
<1> QED BY <1>3, <1>4 DEF r

LEMMA TailHeld ==
  ASSUME NEW S, NEW f, NEW q \in Seq(S), q # <<>>, Apart(f, q)
  PROVE  /\ f[Head(q)] \subseteq Held(f, q)
         /\ Held(f, Tail(q)) = Held(f, q) \ f[Head(q)]
         /\ Apart(f, Tail(q))
<1> DEFINE t == Tail(q)
<1>1. /\ Len(q) \in Nat \ {0} /\ Len(t) = Len(q) - 1 /\ Head(q) = q[1]
      /\ \A i \in 1..Len(t) : t[i] = q[i + 1]
  OBVIOUS
<1> HIDE DEF t
<1>2. /\ \A i \in 1..Len(t) : i + 1 \in 2..Len(q)
      /\ \A i \in 2..Len(q) : i - 1 \in 1..Len(t) /\ t[i - 1] = q[i]
      /\ \A i : i \in 1..Len(q) <=> i = 1 \/ i \in 2..Len(q)
      /\ 1 \notin 2..Len(q)
  <2>1. \A i \in 1..Len(t) : i + 1 \in 2..Len(q)
    BY <1>1
  <2>2. ASSUME NEW i \in 2..Len(q) PROVE i - 1 \in 1..Len(t) /\ t[i - 1] = q[i]
    <3>1. i - 1 \in 1..Len(t) /\ (i - 1) + 1 = i
      BY <1>1
    <3> QED BY <1>1, <3>1
  <2>3. \A i : i \in 1..Len(q) <=> i = 1 \/ i \in 2..Len(q)
    BY <1>1
  <2>4. 1 \notin 2..Len(q)
    BY <1>1
  <2> QED BY <2>1, <2>2, <2>3, <2>4
<1>3. ASSUME NEW m
      PROVE  m \in Held(f, t) <=> \E i \in 2..Len(q) : m \in f[q[i]]
  <2>1. ASSUME NEW i \in 1..Len(t), m \in f[t[i]]
        PROVE  \E j \in 2..Len(q) : m \in f[q[j]]
    BY <1>1, <1>2, <2>1
  <2>2. ASSUME NEW j \in 2..Len(q), m \in f[q[j]]
        PROVE  \E i \in 1..Len(t) : m \in f[t[i]]
    BY <1>2, <2>2
  <2> QED BY <2>1, <2>2, HeldMember
<1>4. \A m : m \in Held(f, q) <=> m \in f[q[1]] \/ \E i \in 2..Len(q) : m \in f[q[i]]
  BY <1>2, HeldMember
<1>5. \A i \in 2..Len(q) : f[q[i]] \cap f[q[1]] = {}
  BY <1>2 DEF Apart
<1>6. Held(f, t) = Held(f, q) \ f[q[1]]
  BY <1>3, <1>4, <1>5
<1>7. Apart(f, t)
  <2> SUFFICES ASSUME NEW i \in 1..Len(t), NEW j \in 1..Len(t), i # j
               PROVE  f[t[i]] \cap f[t[j]] = {}
    BY DEF Apart
  <2>1. i + 1 \in 1..Len(q) /\ j + 1 \in 1..Len(q) /\ i + 1 # j + 1
    BY <1>1, <1>2
  <2> QED BY <1>1, <2>1 DEF Apart
<1> QED BY <1>1, <1>4, <1>6, <1>7 DEF t

\* What a queue holds depends on its own elements only.
LEMMA SameHeld ==
  ASSUME NEW f, NEW g, NEW q, \A i \in 1..Len(q) : f[q[i]] = g[q[i]]
  PROVE  Held(f, q) = Held(g, q) /\ (Apart(f, q) <=> Apart(g, q))
BY DEF Held, Apart

LEMMA EmptyHeld ==
  ASSUME NEW f
  PROVE  Held(f, <<>>) = {} /\ Apart(f, <<>>)
<1>1. 1..Len(<<>>) = {}
  OBVIOUS
<1> QED BY <1>1, HeldMember DEF Apart

-----------------------------------------------------------------------------
(* Queues of events. *)

LEMMA EventSlotsMember ==
  ASSUME NEW q, NEW s
  PROVE  s \in EventSlots(q) <=> \E i \in 1..Len(q) : s \in EventSlot(q[i])
BY DEF EventSlots

EventSlotOf == [e \in Event |-> EventSlot(e)]

LEMMA EventSlotsHeld ==
  ASSUME NEW q \in Seq(Event)
  PROVE  /\ EventSlots(q) = Held(EventSlotOf, q)
         /\ DistinctEvents(q) <=> Apart(EventSlotOf, q)
<1>1. \A i \in 1..Len(q) : EventSlotOf[q[i]] = EventSlot(q[i])
  BY DEF EventSlotOf
<1> QED BY <1>1 DEF EventSlots, Held, DistinctEvents, Apart

LEMMA AppendEvent ==
  ASSUME NEW q \in Seq(Event), NEW e \in Event
  PROVE  /\ EventSlots(Append(q, e)) = EventSlots(q) \cup EventSlot(e)
         /\ DistinctEvents(q) /\ EventSlot(e) \cap EventSlots(q) = {}
              => DistinctEvents(Append(q, e))
<1>1. Append(q, e) \in Seq(Event) /\ EventSlotOf[e] = EventSlot(e)
  BY DEF EventSlotOf
<1>2. /\ EventSlots(q) = Held(EventSlotOf, q) /\ EventSlots(Append(q, e)) = Held(EventSlotOf, Append(q, e))
      /\ DistinctEvents(q) <=> Apart(EventSlotOf, q)
      /\ DistinctEvents(Append(q, e)) <=> Apart(EventSlotOf, Append(q, e))
  BY <1>1, EventSlotsHeld
<1>3. Held(EventSlotOf, Append(q, e)) = Held(EventSlotOf, q) \cup EventSlot(e)
  <2>1. Held(EventSlotOf, Append(q, e)) = Held(EventSlotOf, q) \cup EventSlotOf[e]
    BY AppendHeld
  <2> QED BY <1>1, <2>1
<1>4. ASSUME DistinctEvents(q), EventSlot(e) \cap EventSlots(q) = {}
      PROVE  DistinctEvents(Append(q, e))
  <2>1. Apart(EventSlotOf, q) /\ EventSlotOf[e] \cap Held(EventSlotOf, q) = {}
    BY <1>1, <1>2, <1>4
  <2> QED BY <1>2, <2>1, AppendHeld
<1> QED BY <1>2, <1>3, <1>4

LEMMA TailEvent ==
  ASSUME NEW q \in Seq(Event), q # <<>>, DistinctEvents(q)
  PROVE  /\ EventSlot(Head(q)) \subseteq EventSlots(q)
         /\ EventSlots(Tail(q)) = EventSlots(q) \ EventSlot(Head(q))
         /\ DistinctEvents(Tail(q))
<1>1. /\ Tail(q) \in Seq(Event) /\ Head(q) \in Event
      /\ EventSlotOf[Head(q)] = EventSlot(Head(q))
  BY DEF EventSlotOf
<1>2. /\ EventSlots(q) = Held(EventSlotOf, q) /\ EventSlots(Tail(q)) = Held(EventSlotOf, Tail(q))
      /\ DistinctEvents(Tail(q)) <=> Apart(EventSlotOf, Tail(q))
      /\ Apart(EventSlotOf, q)
  BY <1>1, EventSlotsHeld
<1>3. /\ EventSlotOf[Head(q)] \subseteq Held(EventSlotOf, q)
      /\ Held(EventSlotOf, Tail(q)) = Held(EventSlotOf, q) \ EventSlotOf[Head(q)]
      /\ Apart(EventSlotOf, Tail(q))
  BY <1>2, TailHeld
<1> QED BY <1>1, <1>2, <1>3

-----------------------------------------------------------------------------
(* Queues of texts, likewise. *)

TextSlot(t) == t.del \cap Slots

LEMMA TextSlotsMember ==
  ASSUME NEW q, NEW s
  PROVE  s \in TextSlots(q) <=> \E i \in 1..Len(q) : s \in TextSlot(q[i])
<1>1. s \in UNION {q[i].del : i \in 1..Len(q)} <=> \E i \in 1..Len(q) : s \in q[i].del
  OBVIOUS
<1>2. s \in TextSlots(q) <=>
        s \in (UNION {q[i].del : i \in 1..Len(q)}) /\ s \in Slots
  BY DEF TextSlots
<1>3. \A i \in 1..Len(q) : s \in TextSlot(q[i]) <=> s \in q[i].del /\ s \in Slots
  BY DEF TextSlot
<1> QED BY <1>1, <1>2, <1>3

TextSlotOf == [t \in Text |-> TextSlot(t)]

LEMMA TextSlotsHeld ==
  ASSUME NEW q \in Seq(Text)
  PROVE  /\ TextSlots(q) = Held(TextSlotOf, q)
         /\ DistinctTexts(q) <=> Apart(TextSlotOf, q)
<1>1. \A i \in 1..Len(q) : TextSlotOf[q[i]] = TextSlot(q[i])
  BY DEF TextSlotOf
<1>2. \A s : s \in TextSlots(q) <=> s \in Held(TextSlotOf, q)
  BY <1>1, TextSlotsMember, HeldMember
<1> QED BY <1>1, <1>2, ZenonT(40) DEF DistinctTexts, Apart, TextSlot

LEMMA AppendText ==
  ASSUME NEW q \in Seq(Text), NEW e \in Text
  PROVE  /\ TextSlots(Append(q, e)) = TextSlots(q) \cup TextSlot(e)
         /\ DistinctTexts(q) /\ TextSlot(e) \cap TextSlots(q) = {}
              => DistinctTexts(Append(q, e))
<1>1. Append(q, e) \in Seq(Text) /\ TextSlotOf[e] = TextSlot(e)
  BY DEF TextSlotOf
<1>2. /\ TextSlots(q) = Held(TextSlotOf, q) /\ TextSlots(Append(q, e)) = Held(TextSlotOf, Append(q, e))
      /\ DistinctTexts(q) <=> Apart(TextSlotOf, q)
      /\ DistinctTexts(Append(q, e)) <=> Apart(TextSlotOf, Append(q, e))
  BY <1>1, TextSlotsHeld
<1>3. Held(TextSlotOf, Append(q, e)) = Held(TextSlotOf, q) \cup TextSlot(e)
  <2>1. Held(TextSlotOf, Append(q, e)) = Held(TextSlotOf, q) \cup TextSlotOf[e]
    BY AppendHeld
  <2> QED BY <1>1, <2>1
<1>4. ASSUME DistinctTexts(q), TextSlot(e) \cap TextSlots(q) = {}
      PROVE  DistinctTexts(Append(q, e))
  <2>1. Apart(TextSlotOf, q) /\ TextSlotOf[e] \cap Held(TextSlotOf, q) = {}
    BY <1>1, <1>2, <1>4
  <2> QED BY <1>2, <2>1, AppendHeld
<1> QED BY <1>2, <1>3, <1>4

LEMMA TailText ==
  ASSUME NEW q \in Seq(Text), q # <<>>, DistinctTexts(q)
  PROVE  /\ TextSlot(Head(q)) \subseteq TextSlots(q)
         /\ TextSlots(Tail(q)) = TextSlots(q) \ TextSlot(Head(q))
         /\ DistinctTexts(Tail(q))
<1>1. /\ Tail(q) \in Seq(Text) /\ Head(q) \in Text
      /\ TextSlotOf[Head(q)] = TextSlot(Head(q))
  BY DEF TextSlotOf
<1>2. /\ TextSlots(q) = Held(TextSlotOf, q) /\ TextSlots(Tail(q)) = Held(TextSlotOf, Tail(q))
      /\ DistinctTexts(Tail(q)) <=> Apart(TextSlotOf, Tail(q))
      /\ Apart(TextSlotOf, q)
  BY <1>1, TextSlotsHeld
<1>3. /\ TextSlotOf[Head(q)] \subseteq Held(TextSlotOf, q)
      /\ Held(TextSlotOf, Tail(q)) = Held(TextSlotOf, q) \ TextSlotOf[Head(q)]
      /\ Apart(TextSlotOf, Tail(q))
  BY <1>2, TailHeld
<1> QED BY <1>1, <1>2, <1>3

-----------------------------------------------------------------------------
(* The inductive invariant. *)

Buffered == UNION {PartSlots(concat[i]) : i \in 1..ConcatCap}

\* HeldBy spelled out: the six stages hold disjoint sets of occupied slots.
Disjoint(u, e, t, b, p, a) ==
  /\ u \cap e = {} /\ u \cap t = {} /\ u \cap b = {} /\ u \cap p = {} /\ u \cap a = {}
  /\ e \cap t = {} /\ e \cap b = {} /\ e \cap p = {} /\ e \cap a = {}
  /\ t \cap b = {} /\ t \cap p = {} /\ t \cap a = {}
  /\ b \cap p = {} /\ b \cap a = {} /\ p \cap a = {}

HeldApart ==
  /\ Disjoint(EventSlots(urcs), EventSlots(smsq), EventSlot(evt), Buffered,
              TextSlots(pushq), TextSlot(pmsg))
  /\ EventSlots(urcs) \cup EventSlots(smsq) \cup EventSlot(evt) \cup Buffered
       \cup TextSlots(pushq) \cup TextSlot(pmsg) \subseteq Occupied

Distinct == /\ DistinctEvents(urcs) /\ DistinctEvents(smsq)
            /\ DistinctTexts(pushq) /\ DistinctParts

LEMMA HeldOnceIff == IndexHeldOnce <=> Distinct /\ HeldApart
<1>1. DOMAIN HeldBy = {"urcs", "events", "task", "buffer", "pushes", "ack"}
  BY DEF HeldBy
<1>2. /\ HeldBy["urcs"] = EventSlots(urcs) /\ HeldBy["events"] = EventSlots(smsq)
      /\ HeldBy["task"] = EventSlot(evt) /\ HeldBy["buffer"] = Buffered
      /\ HeldBy["pushes"] = TextSlots(pushq) /\ HeldBy["ack"] = TextSlot(pmsg)
  BY DEF HeldBy, Buffered, TextSlot
<1> DEFINE Separate == \A a, b \in DOMAIN HeldBy : a # b => HeldBy[a] \cap HeldBy[b] = {}
           Within == \A a \in DOMAIN HeldBy : HeldBy[a] \subseteq Occupied
<1>3. Separate <=> Disjoint(EventSlots(urcs), EventSlots(smsq), EventSlot(evt), Buffered,
                         TextSlots(pushq), TextSlot(pmsg))
  BY <1>1, <1>2 DEF Disjoint
<1>4. Within <=> EventSlots(urcs) \cup EventSlots(smsq) \cup EventSlot(evt) \cup Buffered
                   \cup TextSlots(pushq) \cup TextSlot(pmsg) \subseteq Occupied
  BY <1>1, <1>2
<1> QED BY <1>3, <1>4 DEF IndexHeldOnce, Distinct, HeldApart

\* What the holder of a slot number knows about the SMS in the slot.
TaskKnows ==
  /\ spc \in {"delete", "deleteBlack"} => evt.stored
  /\ evt.stored =>
       /\ spc = "decode" => pdu = store[evt.idx]
       /\ spc = "delete" => store[evt.idx] \in Garbled
       /\ spc = "deleteBlack" => IsBlacklisted(store[evt.idx])
PartsKnow ==
  \A i \in 1..ConcatCap : \A p \in concat[i].parts :
    p.idx \in Slots => store[p.idx] = p.msg
Knows(t, st) == \A s \in TextSlot(t) : st[s] \in t.text
PushesKnow == \A i \in 1..Len(pushq) : Knows(pushq[i], store)
AckKnows == Knows(pmsg, store) /\ (ppc = "ack" => pmsg.text \subseteq delivered)
NoInterference == todo = {} /\ ~textMode /\ ~web

-----------------------------------------------------------------------------
(* What the operations of the steps do to the invariant's ingredients. *)

\* Deleting slot x leaves every other slot alone.
LEMMA DeleteFacts ==
  ASSUME NEW x \in Slots, NEW ok \in BOOLEAN, ModemDelete(x, ok)
  PROVE  /\ \A s \in Slots : s # x => store'[s] = store[s]
         /\ Occupied \ {x} \subseteq Occupied'
         /\ store'[x] \in {store[x], NoMsg}
<1>1. /\ \A s \in Slots : s # x => store'[s] = store[s]
      /\ store'[x] = IF ok THEN NoMsg ELSE store[x]
  BY DEF ModemDelete
<1> QED BY <1>1 DEF Occupied

\* A deleted SMS that was pushed or is unwanted leaves DeletedWasPushed true.
LEMMA DeleteKeepsPromise ==
  ASSUME DeletedWasPushed, NEW x \in Slots, NEW ok \in BOOLEAN, ModemDelete(x, ok),
         UNCHANGED <<arrived, delivered>>,
         store[x] \in delivered \/ Unwanted(store[x])
  PROVE  DeletedWasPushed'
<1> SUFFICES ASSUME NEW m \in arrived \ Direct, m \notin delivered, ~Unwanted(m)
             PROVE  m \in Stored'
  BY DEF DeletedWasPushed, Unwanted, IsBlacklisted
<1>1. PICK s \in Occupied : store[s] = m
  BY DEF DeletedWasPushed, Stored
<1>2. s # x /\ s \in Slots
  BY <1>1 DEF Occupied
<1>3. s \in Occupied' /\ store'[s] = m
  BY <1>1, <1>2, DeleteFacts
<1> QED BY <1>3 DEF Stored

\* The indices of a text built from parts are those of the parts, and the
\* text holds the SMS of each.
LEMMA TextOfParts ==
  ASSUME NEW ps \in SUBSET Part, NEW ack \in BOOLEAN,
         \A p \in ps : p.idx \in Slots => store[p.idx] = p.msg
  PROVE  /\ TextSlot(TextOf(ps, ack)) \subseteq {p.idx : p \in ps}
         /\ Knows(TextOf(ps, ack), store)
BY DEF TextSlot, TextOf, Knows

\* Queueing a text whose slots no queued text holds, or dropping it.
LEMMA EnqueuePushFacts ==
  ASSUME pushq \in Seq(Text), DistinctTexts(pushq), PushesKnow,
         NEW t \in Text, EnqueuePush(t), UNCHANGED store,
         TextSlot(t) \cap TextSlots(pushq) = {}, Knows(t, store)
  PROVE  /\ DistinctTexts(pushq') /\ PushesKnow'
         /\ TextSlots(pushq') \subseteq TextSlots(pushq) \cup TextSlot(t)
<1>1. CASE pushq' = Append(pushq, t)
  <2>1. /\ Len(pushq) \in Nat /\ Len(pushq') = Len(pushq) + 1
        /\ \A i \in 1..Len(pushq) : pushq'[i] = pushq[i]
        /\ pushq'[Len(pushq) + 1] = t
    BY <1>1
  <2>2. \A i \in 1..Len(pushq') : pushq'[i] = t \/ \E k \in 1..Len(pushq) : pushq'[i] = pushq[k]
    BY <2>1
  <2>3. PushesKnow'
    BY <2>2 DEF PushesKnow
  <2> QED BY <1>1, <2>3, AppendText
<1>2. CASE pushq' = pushq
  BY <1>2 DEF PushesKnow
<1> QED BY <1>1, <1>2 DEF EnqueuePush

LEMMA EnqueueEventFacts ==
  ASSUME smsq \in Seq(Event), DistinctEvents(smsq), NEW e \in Event, EnqueueEvent(e),
         EventSlot(e) \cap EventSlots(smsq) = {}
  PROVE  /\ DistinctEvents(smsq')
         /\ EventSlots(smsq') \subseteq EventSlots(smsq) \cup EventSlot(e)
BY AppendEvent DEF EnqueueEvent

LEMMA EventSlotType ==
  ASSUME NEW e \in Event
  PROVE  /\ EventSlot(e) \subseteq Slots
         /\ e.stored => e.idx \in Slots /\ EventSlot(e) = {e.idx}
BY EventFields DEF EventSlot

LEMMA Empties ==
  /\ EventSlot(NoEvent) = {} /\ TextSlot(NoText) = {} /\ PartSlots(FreeSlot) = {}
  /\ EventSlots(<<>>) = {} /\ TextSlots(<<>>) = {}
  /\ DistinctEvents(<<>>) /\ DistinctTexts(<<>>)
<1>1. /\ EventSlot(NoEvent) = {} /\ TextSlot(NoText) = {} /\ PartSlots(FreeSlot) = {}
  BY DEF EventSlot, NoEvent, DirectEvent, TextSlot, NoText, PartSlots, FreeSlot
<1>2. 1..Len(<<>>) = {}
  OBVIOUS
<1> QED BY <1>1, <1>2, EventSlotsMember, TextSlotsMember
        DEF DistinctEvents, DistinctTexts

-----------------------------------------------------------------------------
(* Every step preserves the invariant. *)

\* The parts of the invariant that TypeStep does not give.
Safe == /\ NoInterference /\ Distinct /\ HeldApart
        /\ TaskKnows /\ PartsKnow /\ PushesKnow /\ AckKnows /\ DeletedWasPushed

\* A step that leaves the store and the history alone keeps what only they
\* determine.
LEMMA SameStore ==
  ASSUME UNCHANGED <<store, arrived, delivered>>
  PROVE  /\ Occupied' = Occupied
         /\ DeletedWasPushed => DeletedWasPushed'
BY DEF Occupied, DeletedWasPushed, Stored, Unwanted, IsBlacklisted

LEMMA SameBuffer ==
  ASSUME UNCHANGED concat
  PROVE  /\ Buffered' = Buffered /\ (DistinctParts => DistinctParts')
         /\ UNCHANGED store /\ PartsKnow => PartsKnow'
BY DEF Buffered, DistinctParts, PartsKnow

LEMMA SamePushes ==
  ASSUME UNCHANGED <<store, pushq>>
  PROVE  PushesKnow => PushesKnow'
BY DEF PushesKnow

LEMMA SameAck ==
  ASSUME UNCHANGED <<store, delivered, pmsg, ppc>>
  PROVE  AckKnows => AckKnows'
BY DEF AckKnows

LEMMA SameTask ==
  ASSUME UNCHANGED <<store, spc, evt, pdu>>
  PROVE  TaskKnows => TaskKnows'
BY DEF TaskKnows, IsBlacklisted

\* A URC arrives for a slot that was empty and that therefore nobody holds.
LEMMA ArriveStoredSafe ==
  ASSUME TypeOK, Safe, Quiet, NEW m \in Msgs, NEW s \in Slots, ArriveStored(m, s)
  PROVE  Safe'
<1> USE DEF Safe, ArriveStored, smsVars, pushVars, envVars
<1>1. /\ s \notin Occupied /\ store' = [store EXCEPT ![s] = m]
      /\ \A t \in Slots : t # s => store'[t] = store[t]
      /\ store'[s] = m /\ m # NoMsg
  BY ConstFacts DEF Occupied, TypeOK
<1>2. Occupied' = Occupied \cup {s}
  BY <1>1 DEF Occupied
<1>3. /\ StoredEvent(s) \in Event /\ EventSlot(StoredEvent(s)) = {s}
      /\ urcs \in Seq(Event)
  BY SlotTypes DEF EventSlot, StoredEvent, TypeOK
<1>4. s \notin EventSlots(urcs) /\ s \notin EventSlots(smsq) /\ s \notin EventSlot(evt)
      /\ s \notin Buffered /\ s \notin TextSlots(pushq) /\ s \notin TextSlot(pmsg)
  BY <1>1 DEF HeldApart
<1>5. /\ EventSlots(urcs') = EventSlots(urcs) \cup {s}
      /\ DistinctEvents(urcs')
  BY <1>3, <1>4, AppendEvent DEF Distinct
<1>6. Distinct'
  BY <1>5, SameBuffer DEF Distinct
<1>7. HeldApart'
  BY <1>2, <1>4, <1>5, SameBuffer DEF HeldApart, Disjoint
<1>8. TaskKnows'
  <2>1. evt.stored => evt.idx # s /\ evt.idx \in Slots
    BY <1>4, EventSlotType DEF TypeOK
  <2> QED BY <1>1, <2>1 DEF TaskKnows, IsBlacklisted
<1>9. PartsKnow'
  <2>1. \A i \in 1..ConcatCap : \A p \in concat[i].parts : p.idx \in Slots => p.idx # s
    BY <1>4 DEF Buffered, PartSlots
  <2> QED BY <1>1, <2>1 DEF PartsKnow
<1>10. PushesKnow'
  <2>1. \A i \in 1..Len(pushq) : s \notin TextSlot(pushq[i])
    BY <1>4, TextSlotsMember
  <2> QED BY <1>1, <2>1 DEF PushesKnow, Knows, TextSlot
<1>11. AckKnows'
  BY <1>1, <1>4 DEF AckKnows, Knows, TextSlot
<1>12. DeletedWasPushed'
  <2> SUFFICES ASSUME NEW k \in arrived' \ Direct, k \notin delivered, ~Unwanted(k)
               PROVE  k \in Stored'
    BY DEF DeletedWasPushed, Unwanted, IsBlacklisted
  <2>1. CASE k = m
    BY <1>1, <1>2, <2>1 DEF Stored
  <2>2. CASE k # m
    <3>1. PICK t \in Occupied : store[t] = k
      BY <2>2 DEF DeletedWasPushed, Stored
    <3> QED BY <1>1, <1>2, <3>1 DEF Stored, Occupied
  <2> QED BY <2>1, <2>2
<1> QED BY <1>6, <1>7, <1>8, <1>9, <1>10, <1>11, <1>12 DEF NoInterference

LEMMA ArriveDirectSafe ==
  ASSUME TypeOK, Safe, Quiet, NEW m \in Msgs, ArriveDirect(m)
  PROVE  Safe'
<1> USE DEF Safe, ArriveDirect, smsVars, pushVars, envVars
<1>1. /\ DirectEvent(m) \in Event /\ EventSlot(DirectEvent(m)) = {}
      /\ urcs \in Seq(Event)
  BY SlotTypes DEF EventSlot, DirectEvent, TypeOK
<1>2. EventSlots(urcs') = EventSlots(urcs) /\ DistinctEvents(urcs')
  BY <1>1, AppendEvent DEF Distinct
<1>3. DeletedWasPushed' /\ Occupied' = Occupied
  BY DEF DeletedWasPushed, Stored, Occupied, Unwanted, IsBlacklisted
<1> QED BY <1>2, <1>3, SameBuffer, SameTask, SamePushes, SameAck
        DEF Distinct, HeldApart, NoInterference

\* A URC leaves its queue: it is lost, or moves to the event queue if there
\* is room.
LEMMA UrcSafe ==
  ASSUME TypeOK, Safe, Quiet, LoseUrc \/ HandleUrc
  PROVE  Safe'
<1> USE DEF Safe, modemVars, smsVars, pushVars, envVars
<1>1. urcs \in Seq(Event) /\ urcs # <<>> /\ urcs' = Tail(urcs)
  BY DEF TypeOK, LoseUrc, HandleUrc
<1>2. /\ Head(urcs) \in Event /\ EventSlot(Head(urcs)) \subseteq EventSlots(urcs)
      /\ EventSlots(urcs') = EventSlots(urcs) \ EventSlot(Head(urcs))
      /\ DistinctEvents(urcs')
  BY <1>1, TailEvent, QueueTypes DEF Distinct
<1>3. /\ DistinctEvents(smsq')
      /\ EventSlots(smsq') \subseteq EventSlots(smsq) \cup EventSlot(Head(urcs))
  <2>1. CASE LoseUrc BY <2>1 DEF LoseUrc, Distinct
  <2>2. CASE HandleUrc
    BY <1>2, <2>2, EnqueueEventFacts DEF HandleUrc, Distinct, HeldApart, Disjoint, TypeOK
  <2> QED BY <2>1, <2>2
<1>4. UNCHANGED <<modemVars, smsVars, pushq, pushVars, todo, envVars>>
  BY DEF LoseUrc, HandleUrc
<1>5. Distinct'
  BY <1>2, <1>3, <1>4, SameBuffer DEF Distinct
<1>6. HeldApart'
  BY <1>2, <1>3, <1>4, SameBuffer, SameStore DEF HeldApart, Disjoint
<1> QED BY <1>4, <1>5, <1>6, SameStore, SameBuffer, SameTask, SamePushes, SameAck
        DEF NoInterference

\* The SMS task takes an event: the number moves from the queue to the task.
LEMMA ReceiveSafe ==
  ASSUME TypeOK, Safe, Quiet, Receive
  PROVE  Safe'
<1> USE DEF Safe, Receive, modemVars, pushVars, envVars
<1>1. smsq \in Seq(Event) /\ smsq # <<>>
  BY DEF TypeOK
<1>2. /\ EventSlot(evt') \subseteq EventSlots(smsq)
      /\ EventSlots(smsq') = EventSlots(smsq) \ EventSlot(evt')
      /\ DistinctEvents(smsq')
  BY <1>1, TailEvent DEF Distinct
<1>3. Distinct'
  BY <1>2, SameBuffer DEF Distinct
<1>4. HeldApart'
  BY <1>2, SameBuffer, SameStore DEF HeldApart, Disjoint
<1>5. evt' \in Event
  BY <1>1, QueueTypes
<1>6. spc' \in {"read", "decode"} /\ (evt'.stored => spc' = "read")
  OBVIOUS
<1>7. TaskKnows'
  BY <1>6 DEF TaskKnows
<1> QED BY <1>3, <1>4, <1>7, SameStore, SameBuffer, SamePushes, SameAck
        DEF NoInterference

\* Steps of the SMS task that keep its event or drop it, and touch no queue.
LEMMA TaskSafe ==
  ASSUME TypeOK, Safe, Quiet,
         ReadOk \/ ReadFail \/ DecodeFails \/ Intercept \/ ReceiveTimeout \/ ScanEnd
  PROVE  Safe'
<1> USE DEF Safe, modemVars, pushVars, envVars
<1>1. UNCHANGED <<modemVars, urcs, smsq, concat, pushq, pushVars, todo, envVars>>
  BY DEF ReadOk, ReadFail, DecodeFails, Intercept, ReceiveTimeout, ScanEnd
<1>2. evt' = evt \/ evt' = NoEvent
  BY DEF ReadOk, ReadFail, DecodeFails, Intercept, ReceiveTimeout, ScanEnd, Done
<1>3. EventSlot(evt') \subseteq EventSlot(evt)
  BY <1>2, Empties
<1>4. HeldApart' /\ Distinct'
  BY <1>1, <1>3, SameBuffer, SameStore DEF HeldApart, Disjoint, Distinct
<1>5. TaskKnows'
  <2>1. CASE ReadOk
    BY <1>1, <2>1 DEF ReadOk, TaskKnows, NoInterference
  <2>2. CASE ReadFail
    BY <2>2 DEF ReadFail, TaskKnows, NoEvent, DirectEvent
  <2>3. CASE DecodeFails
    <3>1. CASE evt.stored
      <4>1. evt.idx \in Occupied
        BY <3>1, EventSlotType DEF HeldApart, TypeOK
      <4>2. store[evt.idx] \in Msgs /\ pdu = store[evt.idx]
        BY <2>3, <3>1, <4>1 DEF DecodeFails, TaskKnows, Occupied, TypeOK
      <4>3. store[evt.idx] \in Garbled
        BY <2>3, <4>2 DEF DecodeFails, Decoded
      <4> QED BY <1>1, <2>3, <3>1, <4>3 DEF DecodeFails, TaskKnows
    <3>2. CASE ~evt.stored
      BY <2>3, <3>2 DEF DecodeFails, Done, TaskKnows, NoEvent, DirectEvent
    <3> QED BY <3>1, <3>2
  <2>4. CASE Intercept
    <3>1. CASE evt.stored
      BY <1>1, <2>4, <3>1 DEF Intercept, Decoded, TaskKnows, IsBlacklisted
    <3>2. CASE ~evt.stored
      BY <2>4, <3>2 DEF Intercept, Done, TaskKnows, NoEvent, DirectEvent
    <3> QED BY <3>1, <3>2
  <2>5. CASE ReceiveTimeout \/ ScanEnd
    BY <1>1, <2>5 DEF ReceiveTimeout, ScanEnd, TaskKnows
  <2> QED BY <2>1, <2>2, <2>3, <2>4, <2>5
<1> QED BY <1>1, <1>4, <1>5, SameStore, SameBuffer, SamePushes, SameAck
        DEF NoInterference

\* A complete SMS moves from the task to the push queue, or is dropped.
LEMMA ForwardSingleSafe ==
  ASSUME TypeOK, Safe, Quiet, ForwardSingle
  PROVE  Safe'
<1> USE DEF Safe, ForwardSingle, Done, modemVars, pushVars, envVars
<1> DEFINE t == [text |-> {pdu}, del |-> IF evt.stored THEN {evt.idx} ELSE {}]
<1>1. evt \in Event /\ pdu \in Msgs /\ pushq \in Seq(Text)
  BY DEF Decoded, TypeOK
<1>2. t \in Text /\ TextSlot(t) = EventSlot(evt)
  BY <1>1, EventFields DEF Text, TextSlot, EventSlot
<1>3. Knows(t, store)
  BY DEF Knows, TextSlot, TaskKnows, Decoded
<1>4. /\ DistinctTexts(pushq') /\ PushesKnow'
      /\ TextSlots(pushq') \subseteq TextSlots(pushq) \cup EventSlot(evt)
  BY <1>1, <1>2, <1>3, EnqueuePushFacts DEF HeldApart, Disjoint, Distinct
<1>5. EventSlot(evt') = {}
  BY Empties
<1>6. HeldApart' /\ Distinct'
  BY <1>4, <1>5, SameBuffer, SameStore DEF HeldApart, Disjoint, Distinct
<1>7. TaskKnows'
  BY DEF TaskKnows, NoEvent, DirectEvent
<1> QED BY <1>4, <1>6, <1>7, SameStore, SameBuffer, SameAck DEF NoInterference

\* An intercepted or undecodable SMS is deleted by the task that holds it.
LEMMA DeleteUnwantedSafe ==
  ASSUME TypeOK, Safe, Quiet, NEW ok \in BOOLEAN, DeleteUnwanted(ok)
  PROVE  Safe'
<1> USE DEF Safe, DeleteUnwanted, Done, pushVars, envVars
<1> DEFINE x == evt.idx
<1>1. x \in Slots /\ EventSlot(evt) = {x}
  BY EventSlotType DEF TaskKnows, TypeOK
<1>2. /\ \A s \in Slots : s # x => store'[s] = store[s]
      /\ Occupied \ {x} \subseteq Occupied'
  BY <1>1, DeleteFacts
<1>3. x \notin Buffered /\ x \notin TextSlots(pushq) /\ x \notin TextSlot(pmsg)
  BY <1>1 DEF HeldApart, Disjoint
<1>4. EventSlot(evt') = {}
  BY Empties
<1>5. HeldApart'
  BY <1>1, <1>2, <1>4, SameBuffer DEF HeldApart, Disjoint
<1>6. Distinct'
  BY SameBuffer DEF Distinct
<1>7. TaskKnows'
  BY DEF TaskKnows, NoEvent, DirectEvent
<1>8. PartsKnow'
  BY <1>2, <1>3 DEF PartsKnow, Buffered, PartSlots
<1>9. PushesKnow'
  BY <1>2, <1>3, TextSlotsMember DEF PushesKnow, Knows, TextSlot
<1>10. AckKnows'
  BY <1>2, <1>3 DEF AckKnows, Knows, TextSlot
<1>11. DeletedWasPushed'
  <2>1. Unwanted(store[x])
    BY DEF TaskKnows, Unwanted
  <2> QED BY <1>1, <2>1, DeleteKeepsPromise
<1> QED BY <1>5, <1>6, <1>7, <1>8, <1>9, <1>10, <1>11 DEF NoInterference

\* Replacing slot i of the buffer by c, whose parts are some of the old ones
\* and one for the task's slot at most.
LEMMA ReplaceSlot ==
  ASSUME TypeOK, Safe, NEW i \in 1..ConcatCap, NEW c \in ConcatRecord, NEW new \in Part,
         concat' = [concat EXCEPT ![i] = c],
         c.parts \subseteq concat[i].parts \cup {new},
         new.idx \in Slots => EventSlot(evt) = {new.idx} /\ store[new.idx] = new.msg,
         UNCHANGED store
  PROVE  /\ Buffered' \subseteq Buffered \cup EventSlot(evt)
         /\ DistinctParts' /\ PartsKnow'
         /\ PartSlots(c) \subseteq PartSlots(concat[i]) \cup EventSlot(evt)
<1> USE DEF Safe
<1>1. /\ \A k \in 1..ConcatCap : concat'[k] = IF k = i THEN c ELSE concat[k]
  BY DEF TypeOK
<1>2. \A k \in 1..ConcatCap : PartSlots(concat[k]) \subseteq Buffered
  BY DEF Buffered
<1>3. EventSlot(evt) \cap Buffered = {}
  BY DEF HeldApart, Disjoint
<1>4. PartSlots(c) \subseteq PartSlots(concat[i]) \cup EventSlot(evt)
  BY DEF PartSlots
<1>5. Buffered' \subseteq Buffered \cup EventSlot(evt)
  BY <1>1, <1>2, <1>4 DEF Buffered
<1>6. \A k, l \in 1..ConcatCap :
        k # l => PartSlots(concat'[k]) \cap PartSlots(concat'[l]) = {}
  <2>1. \A k, l \in 1..ConcatCap :
          k # l => PartSlots(concat[k]) \cap PartSlots(concat[l]) = {}
    BY DEF Distinct, DistinctParts
  <2> QED BY <1>1, <1>2, <1>3, <1>4, <2>1
<1>7. \A k \in 1..ConcatCap : \A p, r \in concat'[k].parts :
        p.idx = r.idx /\ p.idx \in Slots => p = r
  <2> SUFFICES ASSUME NEW k \in 1..ConcatCap, NEW p \in concat'[k].parts,
                      NEW r \in concat'[k].parts, p.idx = r.idx, p.idx \in Slots
               PROVE  p = r
    OBVIOUS
  <2>1. CASE p \in concat[k].parts /\ r \in concat[k].parts
    BY <2>1 DEF Distinct, DistinctParts
  <2>2. CASE p = new /\ r = new
    BY <2>2
  <2>3. ASSUME NEW q \in {p, r}, k = i, q \in concat[i].parts, new.idx = q.idx
        PROVE  FALSE
    <3>1. q.idx \in PartSlots(concat[i])
      BY <2>3 DEF PartSlots
    <3>2. q.idx \in EventSlot(evt)
      BY <2>3
    <3> QED BY <1>2, <1>3, <3>1, <3>2
  <2> QED BY <1>1, <2>1, <2>2, <2>3
<1>8. PartsKnow'
  BY <1>1 DEF PartsKnow
<1> QED BY <1>4, <1>5, <1>6, <1>7, <1>8 DEF DistinctParts

\* Freeing slot i of the buffer.
LEMMA FreeSlotSafe ==
  ASSUME TypeOK, Safe, NEW i \in 1..ConcatCap,
         concat' = [concat EXCEPT ![i] = FreeSlot], UNCHANGED store
  PROVE  /\ Buffered' \subseteq Buffered /\ Buffered' \cap PartSlots(concat[i]) = {}
         /\ DistinctParts' /\ PartsKnow'
<1> USE DEF Safe
<1>1. /\ \A k \in 1..ConcatCap : concat'[k] = IF k = i THEN FreeSlot ELSE concat[k]
      /\ FreeSlot.parts = {} /\ PartSlots(FreeSlot) = {}
  BY Empties DEF TypeOK, FreeSlot
<1>2. \A k, l \in 1..ConcatCap : k # l => PartSlots(concat[k]) \cap PartSlots(concat[l]) = {}
  BY DEF Distinct, DistinctParts
<1>3. Buffered' \subseteq Buffered /\ Buffered' \cap PartSlots(concat[i]) = {}
  BY <1>1, <1>2 DEF Buffered
<1>4. DistinctParts'
  BY <1>1, <1>2 DEF Distinct, DistinctParts
<1>5. PartsKnow'
  BY <1>1 DEF PartsKnow
<1> QED BY <1>3, <1>4, <1>5

\* A part moves from the task to the reassembly buffer, or with its slot's
\* other parts to the push queue.
LEMMA CollectPartSafe ==
  ASSUME TypeOK, Safe, Quiet, CollectPart
  PROVE  Safe'
<1> USE DEF Safe, Done, modemVars, pushVars, envVars
<1>1. PICK i \in SlotsFor(pdu) :
        LET c == AddPart(i, pdu)
        IN  IF Cardinality(c.parts) >= Header[pdu].total
            THEN /\ EnqueuePush(TextOf(PartsUpTo(c, Header[pdu].total), evt.stored))
                 /\ concat' = [concat EXCEPT ![i] = FreeSlot]
            ELSE /\ concat' = [concat EXCEPT ![i] = c]
                 /\ UNCHANGED pushq
  BY DEF CollectPart
<1>2. /\ UNCHANGED <<modemVars, urcs, smsq, scanAt, pushVars, todo, envVars>>
      /\ spc' = "scan" /\ evt' = NoEvent /\ pdu \in Msgs
  BY DEF CollectPart, Decoded
<1> DEFINE c == AddPart(i, pdu)
           new == [part |-> Header[pdu].part, msg |-> pdu, idx |-> evt.idx]
<1>3. /\ i \in 1..ConcatCap /\ evt \in Event /\ evt.idx \in Idx /\ evt.stored \in BOOLEAN
      /\ concat[i] \in ConcatRecord /\ pushq \in Seq(Text)
  BY SlotsForType, EventFields DEF TypeOK, ConcatRecord
<1>4. new \in Part
  BY <1>2, <1>3, ConstFacts DEF Part
<1>5. c \in ConcatRecord /\ c.parts \subseteq concat[i].parts \cup {new}
  <2>1. NewSlot(pdu) \in ConcatRecord /\ NewSlot(pdu).parts = {}
    BY <1>2, SlotTypes DEF NewSlot
  <2> QED BY <1>2, <1>3, <2>1, WithPartType DEF AddPart
<1>6. new.idx \in Slots => EventSlot(evt) = {new.idx} /\ store[new.idx] = new.msg
  <2>1. new.idx \in Slots => evt.stored
    BY <1>3, EventFields DEF Quiet
  <2> QED BY <1>2, <2>1 DEF CollectPart, Decoded, TaskKnows, EventSlot
<1>7. EventSlot(evt') = {}
  BY <1>2, Empties
<1>8. TaskKnows' /\ UNCHANGED store
  BY <1>2 DEF TaskKnows, NoEvent, DirectEvent
<1>9. CASE Cardinality(c.parts) >= Header[pdu].total
  <2> DEFINE ps == PartsUpTo(c, Header[pdu].total)
             t == TextOf(ps, evt.stored)
  <2>1. EnqueuePush(t) /\ concat' = [concat EXCEPT ![i] = FreeSlot]
    BY <1>1, <1>9
  <2>2. ps \in SUBSET Part /\ ps \subseteq c.parts
    BY <1>5 DEF PartsUpTo, ConcatRecord
  <2>3. \A p \in ps : p.idx \in Slots => store[p.idx] = p.msg
    BY <1>3, <1>5, <1>6, <2>2 DEF PartsKnow
  <2>4. t \in Text /\ TextSlot(t) \subseteq {p.idx : p \in ps} /\ Knows(t, store)
    BY <1>3, <2>2, <2>3, TextOfType, TextOfParts
  <2>5. TextSlot(t) \subseteq PartSlots(concat[i]) \cup EventSlot(evt)
    BY <1>5, <1>6, <2>2, <2>4 DEF PartSlots, TextSlot
  <2>6. PartSlots(concat[i]) \subseteq Buffered
    BY <1>3 DEF Buffered
  <2>7. TextSlot(t) \cap TextSlots(pushq) = {}
    BY <2>5, <2>6 DEF HeldApart, Disjoint
  <2>8. /\ DistinctTexts(pushq') /\ PushesKnow'
        /\ TextSlots(pushq') \subseteq TextSlots(pushq) \cup TextSlot(t)
    BY <1>3, <1>8, <2>1, <2>4, <2>7, EnqueuePushFacts DEF Distinct
  <2>9. /\ Buffered' \subseteq Buffered /\ Buffered' \cap PartSlots(concat[i]) = {}
        /\ DistinctParts' /\ PartsKnow'
    BY <1>3, <1>8, <2>1, FreeSlotSafe
  <2>10. HeldApart'
    BY <1>2, <1>7, <2>5, <2>6, <2>8, <2>9, SameStore DEF HeldApart, Disjoint
  <2> QED BY <1>2, <1>8, <2>8, <2>9, <2>10, SameStore, SameAck DEF NoInterference, Distinct
<1>10. CASE ~(Cardinality(c.parts) >= Header[pdu].total)
  <2>1. concat' = [concat EXCEPT ![i] = c] /\ UNCHANGED pushq
    BY <1>1, <1>10
  <2>2. /\ Buffered' \subseteq Buffered \cup EventSlot(evt)
        /\ DistinctParts' /\ PartsKnow'
    BY <1>3, <1>4, <1>5, <1>6, <1>8, <2>1, ReplaceSlot
  <2>3. HeldApart'
    BY <1>2, <1>7, <2>1, <2>2, SameStore DEF HeldApart, Disjoint
  <2> QED BY <1>2, <1>8, <2>1, <2>2, <2>3, SameStore, SamePushes, SameAck
          DEF NoInterference, Distinct
<1> QED BY <1>9, <1>10

\* An expired slot moves to the push queue, or is dropped.
LEMMA ScanSlotSafe ==
  ASSUME TypeOK, Safe, Quiet, ScanSlot
  PROVE  Safe'
<1> USE DEF Safe, modemVars, pushVars, envVars
<1> DEFINE c == concat[scanAt]
           ps == PartsUpTo(c, c.total)
           t == TextOf(ps, TRUE)
<1>1. UNCHANGED <<modemVars, urcs, smsq, spc, evt, pdu, pushVars, todo, envVars>>
  BY DEF ScanSlot
<1>2. CASE UNCHANGED <<pushq, concat>>
  BY <1>1, <1>2, SameStore, SameBuffer, SamePushes, SameAck, SameTask
  DEF NoInterference, Distinct, HeldApart
<1>3. CASE EnqueuePush(t) /\ concat' = [concat EXCEPT ![scanAt] = FreeSlot]
  <2>1. scanAt \in 1..ConcatCap /\ c \in ConcatRecord /\ pushq \in Seq(Text)
    BY DEF ScanSlot, TypeOK, ConcatRecord
  <2>2. ps \in SUBSET Part /\ ps \subseteq c.parts
    BY <2>1 DEF PartsUpTo, ConcatRecord
  <2>3. t \in Text /\ TextSlot(t) \subseteq {p.idx : p \in ps} /\ Knows(t, store)
    <3>1. \A p \in ps : p.idx \in Slots => store[p.idx] = p.msg
      BY <2>1, <2>2 DEF PartsKnow
    <3> QED BY <2>2, <3>1, TextOfType, TextOfParts
  <2>4. TextSlot(t) \subseteq PartSlots(c) /\ PartSlots(c) \subseteq Buffered
    BY <2>1, <2>2, <2>3 DEF PartSlots, TextSlot, Buffered
  <2>5. TextSlot(t) \cap TextSlots(pushq) = {}
    BY <2>4 DEF HeldApart, Disjoint
  <2>6. /\ DistinctTexts(pushq') /\ PushesKnow'
        /\ TextSlots(pushq') \subseteq TextSlots(pushq) \cup TextSlot(t)
    BY <1>1, <1>3, <2>1, <2>3, <2>5, EnqueuePushFacts DEF Distinct
  <2>7. /\ Buffered' \subseteq Buffered /\ Buffered' \cap PartSlots(c) = {}
        /\ DistinctParts' /\ PartsKnow'
    BY <1>1, <1>3, <2>1, FreeSlotSafe
  <2>8. HeldApart'
    BY <1>1, <2>4, <2>6, <2>7, SameStore DEF HeldApart, Disjoint
  <2> QED BY <1>1, <2>6, <2>7, <2>8, SameStore, SameTask, SameAck
          DEF NoInterference, Distinct
<1> QED BY <1>2, <1>3 DEF ScanSlot

\* Ageing changes no part.
LEMMA TickSafe ==
  ASSUME TypeOK, Safe, Quiet, Tick
  PROVE  Safe'
<1> USE DEF Safe, modemVars, pushVars, envVars
<1>1. UNCHANGED <<modemVars, urcs, smsq, spc, evt, pdu, scanAt, pushq, pushVars, todo, envVars>>
  BY DEF Tick
<1>2. \A i \in 1..ConcatCap : concat'[i].parts = concat[i].parts
  <2> SUFFICES ASSUME NEW i \in 1..ConcatCap PROVE concat'[i].parts = concat[i].parts
    OBVIOUS
  <2>1. concat[i] \in ConcatRecord
    BY DEF TypeOK, ConcatRecord
  <2> QED BY <2>1 DEF Tick, ConcatRecord
<1>3. /\ \A i \in 1..ConcatCap : PartSlots(concat'[i]) = PartSlots(concat[i])
  BY <1>2 DEF PartSlots
<1>4. Buffered' = Buffered /\ DistinctParts' /\ PartsKnow'
  BY <1>1, <1>2, <1>3 DEF Buffered, Distinct, DistinctParts, PartsKnow
<1> QED BY <1>1, <1>4, SameStore, SamePushes, SameAck, SameTask
        DEF NoInterference, Distinct, HeldApart

\* The push task takes a text: its numbers move from the queue to the task.
LEMMA PushTakeSafe ==
  ASSUME TypeOK, Safe, Quiet, PushTake
  PROVE  Safe'
<1> USE DEF Safe, PushTake, modemVars, smsVars, envVars
<1>1. pushq \in Seq(Text) /\ pushq # <<>>
  BY DEF TypeOK
<1>2. /\ TextSlot(pmsg') \subseteq TextSlots(pushq)
      /\ TextSlots(pushq') = TextSlots(pushq) \ TextSlot(pmsg')
      /\ DistinctTexts(pushq')
  BY <1>1, TailText DEF Distinct
<1>3. HeldApart' /\ Distinct'
  BY <1>2, SameStore, SameBuffer DEF HeldApart, Disjoint, Distinct
<1>4. /\ Len(pushq) \in Nat \ {0} /\ Len(pushq') = Len(pushq) - 1 /\ pmsg' = pushq[1]
      /\ \A i \in 1..Len(pushq') : pushq'[i] = pushq[i + 1]
  BY <1>1
<1>5. \A i \in 1..Len(pushq') : i + 1 \in 1..Len(pushq)
  BY <1>4
<1>6. 1 \in 1..Len(pushq)
  BY <1>4
<1>7. PushesKnow' /\ AckKnows'
  BY <1>4, <1>5, <1>6 DEF PushesKnow, AckKnows
<1> QED BY <1>3, <1>7, SameStore, SameBuffer, SameTask DEF NoInterference

\* Steps of the push task that keep its text or drop it.
LEMMA PushSafe ==
  ASSUME TypeOK, Safe, Quiet, PushGate \/ PushOk \/ PushFail \/ PushDone
  PROVE  Safe'
<1> USE DEF Safe, modemVars, smsVars, envVars
<1>1. /\ UNCHANGED <<modemVars, urcs, smsq, smsVars, pushq, todo, envVars>>
      /\ pmsg' \in {pmsg, NoText} /\ delivered \subseteq delivered'
  BY DEF PushGate, PushOk, PushFail, PushDone
<1>2. TextSlot(pmsg') \subseteq TextSlot(pmsg)
  BY <1>1, Empties
<1>3. HeldApart' /\ Distinct'
  BY <1>1, <1>2, SameBuffer DEF HeldApart, Disjoint, Distinct, Occupied
<1>4. Knows(pmsg', store)
  BY <1>1, Empties DEF AckKnows, Knows
<1>5. AckKnows'
  <2>1. CASE PushOk
    BY <1>1, <1>4, <2>1 DEF PushOk, AckKnows
  <2>2. CASE PushGate \/ PushFail \/ PushDone
    BY <1>1, <1>4, <2>2 DEF PushGate, PushFail, PushDone, AckKnows
  <2> QED BY <2>1, <2>2
<1>6. DeletedWasPushed'
  BY <1>1 DEF DeletedWasPushed, Stored, Occupied, Unwanted, IsBlacklisted
<1> QED BY <1>1, <1>3, <1>5, <1>6, SameBuffer, SamePushes, SameTask DEF NoInterference

\* The push task deletes a slot it holds; the SMS in it was just accepted.
LEMMA PushDeleteSafe ==
  ASSUME TypeOK, Safe, Quiet, NEW x \in Idx, NEW ok \in BOOLEAN, PushDelete(x, ok)
  PROVE  Safe'
<1> USE DEF Safe, PushDelete, smsVars, envVars
<1>1. /\ UNCHANGED <<textMode, arrived, urcs, smsq, smsVars, pushq, ppc, delivered, todo, envVars>>
      /\ pmsg' = [pmsg EXCEPT !.del = @ \ {x}] /\ ModemDelete(x, ok)
  OBVIOUS
<1>2. pmsg'.del = pmsg.del \ {x} /\ pmsg'.text = pmsg.text
  BY DEF TypeOK, Text
<1>3. TextSlot(pmsg') = TextSlot(pmsg) \ {x}
  BY <1>2 DEF TextSlot
<1>4. x \in Slots \/ store' = store
  BY DEF ModemDelete, TypeOK
<1>5. /\ \A s \in Slots : s # x => store'[s] = store[s]
      /\ Occupied \ {x} \subseteq Occupied'
  <2>1. CASE x \in Slots BY <2>1, DeleteFacts
  <2>2. CASE store' = store BY <2>2 DEF Occupied
  <2> QED BY <1>4, <2>1, <2>2
<1>6. x \in Slots => x \in TextSlot(pmsg)
  BY DEF TextSlot
<1>7. x \in Slots => /\ x \notin Buffered /\ x \notin TextSlots(pushq)
                     /\ x \notin EventSlot(evt) /\ x \notin EventSlots(urcs)
                     /\ x \notin EventSlots(smsq)
  BY <1>6 DEF HeldApart, Disjoint
<1>8. Distinct' /\ Buffered' = Buffered
  BY SameBuffer, <1>1 DEF Distinct, DistinctParts, Buffered
<1>9. HeldApart'
  <2>1. x \notin Slots => Occupied' = Occupied
    BY <1>4 DEF Occupied
  <2> QED BY <1>1, <1>3, <1>5, <1>7, <1>8, <2>1 DEF HeldApart, Disjoint
<1>10. TaskKnows'
  <2>1. evt.stored => evt.idx # x /\ evt.idx \in Slots
    BY <1>7, EventSlotType DEF TypeOK
  <2> QED BY <1>1, <1>5, <2>1 DEF TaskKnows, IsBlacklisted
<1>11. PartsKnow'
  BY <1>1, <1>5, <1>7 DEF PartsKnow, Buffered, PartSlots
<1>12. PushesKnow'
  <2>1. \A i \in 1..Len(pushq) : x \in Slots => x \notin TextSlot(pushq[i])
    BY <1>7, TextSlotsMember
  <2> QED BY <1>1, <1>5, <2>1 DEF PushesKnow, Knows, TextSlot
<1>13. AckKnows'
  BY <1>1, <1>2, <1>3, <1>5 DEF AckKnows, Knows, TextSlot
<1>14. DeletedWasPushed'
  <2>1. CASE x \in Slots
    <3>1. store[x] \in delivered
      BY <1>6, <2>1 DEF AckKnows, Knows
    <3> QED BY <1>1, <2>1, <3>1, DeleteKeepsPromise
  <2>2. CASE store' = store
    BY <1>1, <2>2, SameStore
  <2> QED BY <1>4, <2>1, <2>2
<1> QED BY <1>1, <1>8, <1>9, <1>10, <1>11, <1>12, <1>13, <1>14 DEF NoInterference

\* Network and clock do not touch the pipeline; a restart empties it.
LEMMA EnvSafe ==
  ASSUME TypeOK, Safe, Quiet, EnvStep
  PROVE  Safe'
<1> USE DEF Safe, modemVars, smsVars, pushVars, envVars
<1>1. CASE GotIp \/ WifiLost \/ TimeSynced
  <2>1. UNCHANGED <<modemVars, urcs, smsq, smsVars, pushq, pushVars, todo, web>>
    BY <1>1 DEF GotIp, WifiLost, TimeSynced
  <2> QED BY <2>1, SameStore, SameBuffer, SamePushes, SameAck, SameTask
          DEF NoInterference, Distinct, HeldApart
<1>2. CASE Restart
  <2> USE <1>2 DEF Restart
  <2>1. Buffered' = {} /\ DistinctParts' /\ PartsKnow'
    BY Empties DEF Buffered, DistinctParts, PartsKnow, FreeSlot
  <2>2. HeldApart' /\ Distinct'
    BY <2>1, Empties DEF HeldApart, Disjoint, Distinct
  <2>3. TaskKnows'
    BY DEF TaskKnows, NoEvent, DirectEvent
  <2>4. PushesKnow' /\ AckKnows'
    BY Empties DEF PushesKnow, AckKnows, Knows
  <2> QED BY <2>1, <2>2, <2>3, <2>4, SameStore DEF NoInterference
<1>3. ~SendTextBegin /\ ~SendTextEnd
  BY DEF SendTextBegin, SendTextEnd, Quiet, NoInterference
<1> QED BY <1>1, <1>2, <1>3 DEF EnvStep

LEMMA StepSafe == Quiet /\ TypeOK /\ Safe /\ [Next]_vars => Safe'
<1> SUFFICES ASSUME Quiet, TypeOK, Safe, [Next]_vars PROVE Safe'
  OBVIOUS
<1>1. CASE UNCHANGED vars
  BY <1>1, SameStore, SameBuffer, SamePushes, SameAck, SameTask
  DEF vars, modemVars, smsVars, pushVars, envVars, Safe, NoInterference, Distinct, HeldApart
<1>2. CASE ModemStep
  BY <1>2, ArriveStoredSafe, ArriveDirectSafe, UrcSafe DEF ModemStep
<1>3. CASE SmsStep
  BY <1>3, UrcSafe, ReceiveSafe, TaskSafe, ForwardSingleSafe, CollectPartSafe,
     DeleteUnwantedSafe, ScanSlotSafe, TickSafe DEF SmsStep
<1>4. CASE PushStep
  BY <1>4, PushSafe, PushTakeSafe, PushDeleteSafe DEF PushStep
<1>5. CASE RetryStep
  BY <1>5 DEF RetryStep, RetryList, RetryEnqueue, Quiet, Safe, NoInterference
<1>6. CASE EnvStep
  BY <1>6, EnvSafe
<1> QED BY <1>1, <1>2, <1>3, <1>4, <1>5, <1>6 DEF Next

LEMMA InitSafe == Init => Safe
<1> SUFFICES ASSUME Init PROVE Safe
  OBVIOUS
<1> USE DEF Init
<1>1. Buffered = {} /\ DistinctParts /\ PartsKnow
  BY Empties DEF Buffered, DistinctParts, PartsKnow, FreeSlot
<1>2. HeldApart /\ Distinct
  BY <1>1, Empties DEF HeldApart, Disjoint, Distinct
<1>3. TaskKnows
  BY DEF TaskKnows, NoEvent, DirectEvent
<1>4. PushesKnow /\ AckKnows
  BY Empties DEF PushesKnow, AckKnows, Knows
<1> QED BY <1>1, <1>2, <1>3, <1>4 DEF Safe, NoInterference, DeletedWasPushed

LEMMA SafeInvariant == ASSUME Quiet PROVE Spec => [](TypeOK /\ Safe)
<1>1. Init => TypeOK /\ Safe
  BY InitType, InitSafe
<1>2. TypeOK /\ Safe /\ [Next]_vars => (TypeOK /\ Safe)'
  BY TypeStep, StepSafe
<1> QED BY <1>1, <1>2, PTL DEF Spec

\* The pipeline holds every slot number at most once, for every number of
\* slots, SMS, reassembly slots and queue places (sms_processor.c, the task;
\* push_service.c, the task).
THEOREM HeldOnce == ASSUME Quiet PROVE Spec => []IndexHeldOnce
<1>1. TypeOK /\ Safe => IndexHeldOnce
  BY HeldOnceIff DEF Safe
<1> QED BY <1>1, SafeInvariant, PTL

\* An SMS the modem stored is deleted only after a channel accepted it, or
\* because it is blacklisted or undecodable, also across restarts.
THEOREM NothingLost == ASSUME Quiet PROVE Spec => []DeletedWasPushed
<1>1. TypeOK /\ Safe => DeletedWasPushed
  BY DEF Safe
<1> QED BY <1>1, SafeInvariant, PTL

-----------------------------------------------------------------------------
(* No SMS is pushed twice.  A slot number says nothing about a text whose  *)
(* numbers were dropped, so here the SMS themselves are followed: each is  *)
(* in one stage of the pipeline at most, and none of them is delivered.    *)

EventSms == [e \in Event |-> (IF e.stored THEN {store[e.idx]} ELSE {e.msg}) \ {NoMsg}]
TextSms  == [t \in Text |-> t.text]
PartsSms(c) == {p.msg : p \in c.parts}
Reassembled == UNION {PartsSms(concat[i]) : i \in 1..ConcatCap}
Sending  == IF ppc = "send" THEN pmsg.text ELSE {}

ApartInQueues ==
  /\ Apart(EventSms, urcs) /\ Apart(EventSms, smsq) /\ Apart(TextSms, pushq)
ApartInBuffer ==
  \A i, j \in 1..ConcatCap : i # j => PartsSms(concat[i]) \cap PartsSms(concat[j]) = {}
CarriedOnce ==
  Disjoint(Held(EventSms, urcs), Held(EventSms, smsq), EventSms[evt], Reassembled,
           Held(TextSms, pushq), Sending)
CarriedNew ==
  Held(EventSms, urcs) \cup Held(EventSms, smsq) \cup EventSms[evt] \cup Reassembled
    \cup Held(TextSms, pushq) \cup Sending \subseteq arrived \ delivered
History ==
  /\ delivered \subseteq arrived /\ Stored \subseteq arrived
  /\ \A s, t \in Occupied : store[s] = store[t] => s = t
TaskReads ==
  /\ spc = "read" => evt.stored
  /\ spc = "decode" /\ ~evt.stored => pdu = evt.msg

Once == /\ ApartInQueues /\ ApartInBuffer /\ CarriedOnce /\ CarriedNew
        /\ History /\ TaskReads

\* What one event or one text holds.
LEMMA EventSmsValue ==
  /\ \A e \in Event : e.stored => EventSms[e] = {store[e.idx]} \ {NoMsg}
  /\ \A e \in Event : ~e.stored => EventSms[e] = {e.msg} \ {NoMsg}
  /\ EventSms[NoEvent] = {}
<1>1. /\ \A e \in Event : e.stored => EventSms[e] = {store[e.idx]} \ {NoMsg}
      /\ \A e \in Event : ~e.stored => EventSms[e] = {e.msg} \ {NoMsg}
  BY DEF EventSms
<1>2. NoEvent \in Event /\ ~NoEvent.stored /\ NoEvent.msg = NoMsg
  BY SlotTypes DEF NoEvent, DirectEvent
<1> QED BY <1>1, <1>2

LEMMA TextSmsValue == \A t \in Text : TextSms[t] = t.text
BY DEF TextSms

\* A slot that changes hands changes nothing for the events on their way, as
\* long as none of them refers to it.
LEMMA SameEvent ==
  ASSUME NEW e \in Event, \A s \in EventSlot(e) : store'[s] = store[s]
  PROVE  EventSms'[e] = EventSms[e]
<1>1. e.stored => store'[e.idx] = store[e.idx]
  BY EventSlotType
<1> QED BY <1>1 DEF EventSms

LEMMA SameQueuedEvents ==
  ASSUME TypeOK, \A s \in EventSlots(urcs) \cup EventSlots(smsq) : store'[s] = store[s]
  PROVE  /\ Held(EventSms', urcs) = Held(EventSms, urcs)
         /\ Held(EventSms', smsq) = Held(EventSms, smsq)
         /\ Apart(EventSms', urcs) <=> Apart(EventSms, urcs)
         /\ Apart(EventSms', smsq) <=> Apart(EventSms, smsq)
<1>1. urcs \in Seq(Event) /\ smsq \in Seq(Event)
  BY DEF TypeOK
<1>2. /\ \A i \in 1..Len(urcs) : urcs[i] \in Event /\ EventSlot(urcs[i]) \subseteq EventSlots(urcs)
      /\ \A i \in 1..Len(smsq) : smsq[i] \in Event /\ EventSlot(smsq[i]) \subseteq EventSlots(smsq)
  BY <1>1, EventSlotsMember
<1>3. /\ \A i \in 1..Len(urcs) : EventSms'[urcs[i]] = EventSms[urcs[i]]
      /\ \A i \in 1..Len(smsq) : EventSms'[smsq[i]] = EventSms[smsq[i]]
  BY <1>2, SameEvent
<1> QED BY <1>3, SameHeld

LEMMA NoEventSms == EventSms'[NoEvent] = {}
<1>1. NoEvent \in Event /\ ~NoEvent.stored /\ NoEvent.msg = NoMsg
  BY SlotTypes DEF NoEvent, DirectEvent
<1> QED BY <1>1 DEF EventSms

LEMMA SameEventSms == UNCHANGED store => UNCHANGED EventSms
BY DEF EventSms

\* What the queues hold after a step, in terms of their elements.
LEMMA HeldNext ==
  /\ Held(EventSms, urcs)' = Held(EventSms', urcs')
  /\ Held(EventSms, smsq)' = Held(EventSms', smsq')
  /\ (EventSms[evt])' = EventSms'[evt']
  /\ Held(TextSms, pushq)' = Held(TextSms, pushq')
  /\ ApartInQueues' <=>
       Apart(EventSms', urcs') /\ Apart(EventSms', smsq') /\ Apart(TextSms, pushq')
BY DEF Held, Apart, ApartInQueues, TextSms

\* Steps that leave the queues, the buffer and the store alone.
LEMMA SameQueues ==
  ASSUME UNCHANGED <<store, urcs, smsq, pushq>>, ApartInQueues
  PROVE  /\ UNCHANGED <<Held(EventSms, urcs), Held(EventSms, smsq), Held(TextSms, pushq)>>
         /\ ApartInQueues'
BY SameEventSms, HeldNext DEF ApartInQueues

LEMMA SameReassembly ==
  ASSUME UNCHANGED concat
  PROVE  UNCHANGED Reassembled /\ (ApartInBuffer => ApartInBuffer')
BY DEF Reassembled, ApartInBuffer, PartsSms

LEMMA SameHistory ==
  ASSUME UNCHANGED <<store, arrived, delivered>>
  PROVE  History => History'
BY DEF History, Stored, Occupied

LEMMA SameReads ==
  ASSUME UNCHANGED <<spc, evt, pdu>>
  PROVE  TaskReads => TaskReads'
BY DEF TaskReads

LEMMA SameSending == UNCHANGED <<ppc, pmsg>> => UNCHANGED Sending
BY DEF Sending

\* A deletion leaves what is known about the remaining SMS.
LEMMA DeleteHistory ==
  ASSUME History, NEW x, NEW ok \in BOOLEAN, ModemDelete(x, ok),
         UNCHANGED <<arrived, delivered>>
  PROVE  History'
<1>1. \A s \in Slots : store'[s] \in {store[s], NoMsg}
  BY DEF ModemDelete
<1>2. \A s \in Occupied' : s \in Occupied /\ store'[s] = store[s]
  BY <1>1 DEF Occupied
<1> QED BY <1>2 DEF History, Stored

\* A stored SMS arrives: nobody holds it, for it has never arrived before.
LEMMA ArriveStoredOnce ==
  ASSUME TypeOK, Safe, Once, NEW m \in Msgs, NEW s \in Slots, ArriveStored(m, s)
  PROVE  Once'
<1> USE DEF Once, ArriveStored, smsVars, pushVars, envVars
<1>1. /\ s \notin Occupied /\ store' = [store EXCEPT ![s] = m]
      /\ \A t \in Slots : t # s => store'[t] = store[t]
      /\ store'[s] = m /\ m # NoMsg
  BY ConstFacts DEF Occupied, TypeOK
<1>2. /\ \A t \in EventSlots(urcs) \cup EventSlots(smsq) : store'[t] = store[t]
      /\ \A t \in EventSlot(evt) : store'[t] = store[t]
  BY <1>1 DEF Safe, HeldApart, Occupied
<1>3. /\ Held(EventSms', urcs) = Held(EventSms, urcs)
      /\ Held(EventSms', smsq) = Held(EventSms, smsq)
      /\ EventSms'[evt] = EventSms[evt]
      /\ Apart(EventSms', urcs) /\ Apart(EventSms', smsq)
  BY <1>2, SameEvent, SameQueuedEvents DEF ApartInQueues, TypeOK
<1>4. /\ StoredEvent(s) \in Event /\ EventSms'[StoredEvent(s)] = {m}
      /\ urcs \in Seq(Event)
  <2>1. StoredEvent(s) \in Event /\ StoredEvent(s).stored /\ StoredEvent(s).idx = s
    BY SlotTypes DEF StoredEvent
  <2>2. EventSms'[StoredEvent(s)] = {store'[s]} \ {NoMsg}
    BY <2>1 DEF EventSms
  <2> QED BY <1>1, <2>1, <2>2 DEF TypeOK
<1>5. m \notin Held(EventSms, urcs)
  BY DEF CarriedNew
<1>6. /\ Held(EventSms', urcs') = Held(EventSms, urcs) \cup {m}
      /\ Apart(EventSms', urcs')
  BY <1>3, <1>4, <1>5, AppendHeld
<1>7. UNCHANGED <<Reassembled, Held(TextSms, pushq), Sending>> /\ ApartInBuffer'
  BY SameReassembly, SameSending, HeldNext
<1>8. ApartInQueues'
  BY <1>3, <1>6, HeldNext DEF ApartInQueues
<1>9. CarriedOnce' /\ CarriedNew'
  <2>1. /\ Held(EventSms, smsq)' = Held(EventSms, smsq)
        /\ (EventSms[evt])' = EventSms[evt]
        /\ Held(EventSms, urcs)' = Held(EventSms, urcs) \cup {m}
    BY <1>3, <1>6, HeldNext
  <2>2. m \notin delivered /\ m \notin arrived
    BY DEF History
  <2>3. CarriedNew'
    BY <1>7, <2>1, <2>2 DEF CarriedNew
  <2>4. CarriedOnce'
    BY <1>7, <2>1, <2>2 DEF CarriedNew, CarriedOnce, Disjoint
  <2> QED BY <2>3, <2>4
<1>10. History'
  <2>1. Occupied' = Occupied \cup {s}
    BY <1>1 DEF Occupied
  <2>2. \A t \in Occupied : t # s /\ store'[t] = store[t] /\ store[t] # m
    BY <1>1 DEF Occupied, History, Stored
  <2> QED BY <1>1, <2>1, <2>2 DEF History, Stored
<1> QED BY <1>7, <1>8, <1>9, <1>10, SameReads

LEMMA ArriveDirectOnce ==
  ASSUME TypeOK, Once, NEW m \in Msgs, ArriveDirect(m)
  PROVE  Once'
<1> USE DEF Once, ArriveDirect, smsVars, pushVars, envVars
<1>1. /\ DirectEvent(m) \in Event /\ EventSms[DirectEvent(m)] = {m}
      /\ urcs \in Seq(Event) /\ UNCHANGED EventSms
  <2>1. DirectEvent(m) \in Event /\ ~DirectEvent(m).stored /\ DirectEvent(m).msg = m
    BY SlotTypes DEF DirectEvent
  <2>2. EventSms[DirectEvent(m)] = {m} \ {NoMsg}
    BY <2>1, EventSmsValue
  <2> QED BY <2>1, <2>2, ConstFacts, SameEventSms DEF TypeOK
<1>2. m \notin Held(EventSms, urcs)
  BY DEF CarriedNew
<1>3. /\ Held(EventSms, urcs') = Held(EventSms, urcs) \cup {m}
      /\ Apart(EventSms, urcs')
  BY <1>1, <1>2, AppendHeld DEF ApartInQueues
<1>4. /\ Held(EventSms, urcs)' = Held(EventSms, urcs) \cup {m}
      /\ UNCHANGED <<Held(EventSms, smsq), EventSms[evt], Reassembled,
                     Held(TextSms, pushq), Sending>>
      /\ ApartInBuffer' /\ ApartInQueues'
  BY <1>1, <1>3, SameReassembly, SameSending, HeldNext DEF ApartInQueues
<1>5. m \notin delivered /\ m \notin arrived
  BY DEF History
<1>6. CarriedNew'
  BY <1>4, <1>5 DEF CarriedNew
<1>7. CarriedOnce'
  BY <1>4, <1>5 DEF CarriedNew, CarriedOnce, Disjoint
<1>8. History'
  BY DEF History, Stored, Occupied
<1> QED BY <1>4, <1>6, <1>7, <1>8, SameReads

\* An announcement is lost, or moves to the event queue if there is room.
LEMMA UrcOnce ==
  ASSUME TypeOK, Once, LoseUrc \/ HandleUrc
  PROVE  Once'
<1> USE DEF Once, modemVars, smsVars, pushVars, envVars
<1>1. urcs \in Seq(Event) /\ urcs # <<>> /\ urcs' = Tail(urcs) /\ smsq \in Seq(Event)
  BY DEF TypeOK, LoseUrc, HandleUrc
<1>2. UNCHANGED <<modemVars, smsVars, pushq, pushVars, todo, envVars, EventSms>>
  BY SameEventSms DEF LoseUrc, HandleUrc
<1> DEFINE moved == EventSms[Head(urcs)]
<1>3. /\ Head(urcs) \in Event /\ moved \subseteq Held(EventSms, urcs)
      /\ Held(EventSms, urcs') = Held(EventSms, urcs) \ moved
      /\ Apart(EventSms, urcs')
  BY <1>1, TailHeld, QueueTypes DEF ApartInQueues
<1>4. /\ Held(EventSms, smsq') \subseteq Held(EventSms, smsq) \cup moved
      /\ Apart(EventSms, smsq')
  <2>1. CASE smsq' = smsq
    BY <2>1 DEF ApartInQueues
  <2>2. CASE smsq' = Append(smsq, Head(urcs))
    <3>1. moved \cap Held(EventSms, smsq) = {}
      BY <1>3 DEF CarriedOnce, Disjoint
    <3>2. /\ Held(EventSms, Append(smsq, Head(urcs))) = Held(EventSms, smsq) \cup moved
          /\ Apart(EventSms, Append(smsq, Head(urcs)))
      <4>1. PICK e \in Event : e = Head(urcs)
        BY <1>3
      <4>2. Apart(EventSms, smsq) /\ EventSms[e] \cap Held(EventSms, smsq) = {}
        BY <3>1, <4>1 DEF ApartInQueues
      <4>3. /\ Held(EventSms, Append(smsq, e)) = Held(EventSms, smsq) \cup EventSms[e]
            /\ Apart(EventSms, Append(smsq, e))
        BY <1>1, <4>2, AppendHeld
      <4> QED BY <4>1, <4>3
    <3> QED BY <2>2, <3>2
  <2> QED BY <2>1, <2>2 DEF LoseUrc, HandleUrc, EnqueueEvent
<1> HIDE DEF moved
<1>5. /\ Held(EventSms, urcs)' = Held(EventSms, urcs) \ moved
      /\ Held(EventSms, smsq)' \subseteq Held(EventSms, smsq) \cup moved
      /\ UNCHANGED <<EventSms[evt], Reassembled, Held(TextSms, pushq), Sending>>
      /\ ApartInBuffer' /\ ApartInQueues'
  BY <1>2, <1>3, <1>4, SameReassembly, SameSending, HeldNext DEF ApartInQueues
<1>6. CarriedNew'
  BY <1>2, <1>3, <1>5 DEF CarriedNew
<1>7. CarriedOnce'
  BY <1>3, <1>5 DEF CarriedOnce, Disjoint
<1> QED BY <1>2, <1>5, <1>6, <1>7, SameReads, SameHistory

\* The SMS task takes an event and gives its own one up.
LEMMA ReceiveOnce ==
  ASSUME TypeOK, Once, Receive
  PROVE  Once'
<1> USE DEF Once, Receive, modemVars, pushVars, envVars
<1>1. smsq \in Seq(Event) /\ smsq # <<>> /\ UNCHANGED EventSms
  BY SameEventSms DEF TypeOK
<1>2. /\ EventSms[evt'] \subseteq Held(EventSms, smsq)
      /\ Held(EventSms, smsq') = Held(EventSms, smsq) \ EventSms[evt']
      /\ Apart(EventSms, smsq')
  BY <1>1, TailHeld DEF ApartInQueues
<1>3. /\ Held(EventSms, smsq)' = Held(EventSms, smsq) \ EventSms[evt']
      /\ (EventSms[evt])' = EventSms[evt']
      /\ UNCHANGED <<Held(EventSms, urcs), Reassembled, Held(TextSms, pushq), Sending>>
      /\ ApartInBuffer' /\ ApartInQueues'
  BY <1>1, <1>2, SameReassembly, SameSending, HeldNext DEF ApartInQueues
<1>4. CarriedNew'
  BY <1>2, <1>3 DEF CarriedNew
<1>5. CarriedOnce'
  BY <1>2, <1>3 DEF CarriedOnce, Disjoint
<1>6. TaskReads'
  <2>1. CASE evt'.stored
    BY <2>1 DEF TaskReads
  <2>2. CASE ~evt'.stored
    BY <2>2 DEF TaskReads
  <2> QED BY <2>1, <2>2
<1> QED BY <1>3, <1>4, <1>5, <1>6, SameHistory

\* Steps of the SMS task that keep its event or drop it, and touch no queue.
LEMMA TaskOnce ==
  ASSUME TypeOK, Safe, Once,
         ReadOk \/ ReadFail \/ DecodeFails \/ Intercept \/ ReceiveTimeout \/ ScanEnd
  PROVE  Once'
<1> USE DEF Once, modemVars, pushVars, envVars
<1>1. UNCHANGED <<modemVars, urcs, smsq, concat, pushq, pushVars, todo, envVars, EventSms>>
  BY SameEventSms DEF ReadOk, ReadFail, DecodeFails, Intercept, ReceiveTimeout, ScanEnd
<1>2. evt' = evt \/ evt' = NoEvent
  BY DEF ReadOk, ReadFail, DecodeFails, Intercept, ReceiveTimeout, ScanEnd, Done
<1>3. (EventSms[evt])' \subseteq EventSms[evt]
  BY <1>1, <1>2, EventSmsValue
<1>4. /\ UNCHANGED <<Held(EventSms, urcs), Held(EventSms, smsq), Reassembled,
                     Held(TextSms, pushq), Sending>>
      /\ ApartInBuffer' /\ ApartInQueues'
  BY <1>1, SameQueues, SameReassembly, SameSending
<1>5. CarriedNew'
  BY <1>1, <1>3, <1>4 DEF CarriedNew
<1>6. CarriedOnce'
  BY <1>3, <1>4 DEF CarriedOnce, Disjoint
<1>7. TaskReads'
  BY DEF ReadOk, ReadFail, DecodeFails, Intercept, ReceiveTimeout, ScanEnd, Done, TaskReads
<1> QED BY <1>1, <1>4, <1>5, <1>6, <1>7, SameHistory

\* What the task decodes is the SMS its event stands for.
LEMMA TaskHolds ==
  ASSUME TypeOK, Safe, Once, Decoded
  PROVE  pdu \in Msgs /\ EventSms[evt] = {pdu}
<1>1. evt \in Event /\ pdu \in Msgs /\ pdu # NoMsg
  BY ConstFacts DEF TypeOK, Decoded
<1>2. CASE evt.stored
  BY <1>1, <1>2, EventSmsValue DEF Safe, TaskKnows, Decoded
<1>3. CASE ~evt.stored
  BY <1>1, <1>3, EventSmsValue DEF Once, TaskReads, Decoded
<1> QED BY <1>1, <1>2, <1>3

\* A text of SMS that no queued text holds goes into the push queue or not.
LEMMA EnqueuePushHeld ==
  ASSUME pushq \in Seq(Text), Apart(TextSms, pushq), NEW t \in Text, EnqueuePush(t),
         t.text \cap Held(TextSms, pushq) = {}
  PROVE  /\ Held(TextSms, pushq') \subseteq Held(TextSms, pushq) \cup t.text
         /\ Apart(TextSms, pushq')
<1>1. TextSms[t] = t.text
  BY TextSmsValue
<1>2. /\ Held(TextSms, Append(pushq, t)) = Held(TextSms, pushq) \cup t.text
      /\ Apart(TextSms, Append(pushq, t))
  BY <1>1, AppendHeld
<1> QED BY <1>2 DEF EnqueuePush

\* A complete SMS moves from the task to the push queue, or is dropped.
LEMMA ForwardSingleOnce ==
  ASSUME TypeOK, Safe, Once, ForwardSingle
  PROVE  Once'
<1> USE DEF Once, ForwardSingle, Done, modemVars, pushVars, envVars
<1> DEFINE t == [text |-> {pdu}, del |-> IF evt.stored THEN {evt.idx} ELSE {}]
<1>1. EventSms[evt] = {pdu} /\ pdu \in Msgs /\ UNCHANGED EventSms
  BY TaskHolds, SameEventSms
<1>2. /\ t \in Text /\ t.text = EventSms[evt] /\ EnqueuePush(t) /\ pushq \in Seq(Text)
  BY <1>1, EventFields DEF Text, TypeOK
<1> HIDE DEF t
<1>3. t.text \cap Held(TextSms, pushq) = {}
  BY <1>2 DEF CarriedOnce, Disjoint
<1>4. /\ Held(TextSms, pushq') \subseteq Held(TextSms, pushq) \cup EventSms[evt]
      /\ Apart(TextSms, pushq')
  BY <1>2, <1>3, EnqueuePushHeld DEF ApartInQueues
<1>5. /\ Held(TextSms, pushq)' \subseteq Held(TextSms, pushq) \cup EventSms[evt]
      /\ (EventSms[evt])' = {}
      /\ UNCHANGED <<Held(EventSms, urcs), Held(EventSms, smsq), Reassembled, Sending>>
      /\ ApartInBuffer' /\ ApartInQueues'
  BY <1>1, <1>4, SameReassembly, SameSending, HeldNext, EventSmsValue DEF ApartInQueues
<1>6. CarriedNew'
  BY <1>5 DEF CarriedNew
<1>7. CarriedOnce'
  BY <1>5 DEF CarriedOnce, Disjoint
<1>8. TaskReads'
  BY DEF TaskReads
<1> QED BY <1>5, <1>6, <1>7, <1>8, SameHistory

\* Replacing slot i of the buffer by c, whose parts are some of the old ones
\* and the task's SMS at most.
LEMMA ReplaceSlotOnce ==
  ASSUME TypeOK, Once, NEW i \in 1..ConcatCap, NEW c,
         concat' = [concat EXCEPT ![i] = c],
         PartsSms(c) \subseteq PartsSms(concat[i]) \cup EventSms[evt]
  PROVE  /\ Reassembled' \subseteq Reassembled \cup EventSms[evt]
         /\ ApartInBuffer'
<1> USE DEF Once
<1>1. \A k \in 1..ConcatCap : concat'[k] = IF k = i THEN c ELSE concat[k]
  BY DEF TypeOK
<1>2. \A k \in 1..ConcatCap : PartsSms(concat[k]) \subseteq Reassembled
  BY DEF Reassembled
<1>3. EventSms[evt] \cap Reassembled = {}
  BY DEF CarriedOnce, Disjoint
<1>4. \A k \in 1..ConcatCap : PartsSms(concat'[k]) =
        IF k = i THEN PartsSms(c) ELSE PartsSms(concat[k])
  BY <1>1
<1>5. Reassembled' = UNION {PartsSms(concat'[k]) : k \in 1..ConcatCap}
  BY DEF Reassembled, PartsSms
<1>6. Reassembled' \subseteq Reassembled \cup EventSms[evt]
  BY <1>2, <1>4, <1>5
<1>7. ApartInBuffer' <=> \A k, l \in 1..ConcatCap :
        k # l => PartsSms(concat'[k]) \cap PartsSms(concat'[l]) = {}
  BY DEF ApartInBuffer, PartsSms
<1>8. \A k, l \in 1..ConcatCap : k # l => PartsSms(concat[k]) \cap PartsSms(concat[l]) = {}
  BY DEF ApartInBuffer
<1>9. ApartInBuffer'
  BY <1>2, <1>3, <1>4, <1>7, <1>8
<1> QED BY <1>6, <1>9

\* Freeing slot i of the buffer.
LEMMA FreeSlotOnce ==
  ASSUME TypeOK, Once, NEW i \in 1..ConcatCap, concat' = [concat EXCEPT ![i] = FreeSlot]
  PROVE  /\ Reassembled' \subseteq Reassembled
         /\ Reassembled' \cap PartsSms(concat[i]) = {}
         /\ ApartInBuffer'
<1> USE DEF Once
<1>1. \A k \in 1..ConcatCap : concat'[k] = IF k = i THEN FreeSlot ELSE concat[k]
  BY DEF TypeOK
<1>2. PartsSms(FreeSlot) = {}
  BY DEF PartsSms, FreeSlot
<1>3. \A k \in 1..ConcatCap : PartsSms(concat'[k]) =
        IF k = i THEN {} ELSE PartsSms(concat[k])
  BY <1>1, <1>2
<1>4. Reassembled' = UNION {PartsSms(concat'[k]) : k \in 1..ConcatCap}
  BY DEF Reassembled, PartsSms
<1>5. \A k, l \in 1..ConcatCap : k # l => PartsSms(concat[k]) \cap PartsSms(concat[l]) = {}
  BY DEF ApartInBuffer
<1>6. Reassembled' \subseteq Reassembled
  BY <1>3, <1>4 DEF Reassembled
<1>7. Reassembled' \cap PartsSms(concat[i]) = {}
  BY <1>3, <1>4, <1>5
<1>8. ApartInBuffer' <=> \A k, l \in 1..ConcatCap :
        k # l => PartsSms(concat'[k]) \cap PartsSms(concat'[l]) = {}
  BY DEF ApartInBuffer, PartsSms
<1> QED BY <1>3, <1>5, <1>6, <1>7, <1>8

\* A part moves from the task to the reassembly buffer, or with its slot's
\* other parts to the push queue.
LEMMA CollectPartOnce ==
  ASSUME TypeOK, Safe, Once, CollectPart
  PROVE  Once'
<1> USE DEF Once, Done, modemVars, pushVars, envVars
<1>1. PICK i \in SlotsFor(pdu) :
        LET c == AddPart(i, pdu)
        IN  IF Cardinality(c.parts) >= Header[pdu].total
            THEN /\ EnqueuePush(TextOf(PartsUpTo(c, Header[pdu].total), evt.stored))
                 /\ concat' = [concat EXCEPT ![i] = FreeSlot]
            ELSE /\ concat' = [concat EXCEPT ![i] = c]
                 /\ UNCHANGED pushq
  BY DEF CollectPart
<1>2. /\ UNCHANGED <<modemVars, urcs, smsq, scanAt, pushVars, todo, envVars>>
      /\ spc' = "scan" /\ evt' = NoEvent /\ UNCHANGED EventSms
  BY SameEventSms DEF CollectPart
<1>3. pdu \in Msgs /\ EventSms[evt] = {pdu}
  BY TaskHolds DEF CollectPart
<1> DEFINE c == AddPart(i, pdu)
<1>4. /\ i \in 1..ConcatCap /\ evt.idx \in Idx /\ evt.stored \in BOOLEAN
      /\ concat[i] \in ConcatRecord /\ pushq \in Seq(Text)
  BY SlotsForType, EventFields DEF TypeOK, ConcatRecord
<1>5. c \in ConcatRecord /\ PartsSms(c) \subseteq PartsSms(concat[i]) \cup {pdu}
  <2>1. NewSlot(pdu) \in ConcatRecord /\ PartsSms(NewSlot(pdu)) = {}
    BY <1>3, SlotTypes DEF NewSlot, PartsSms
  <2>2. ASSUME NEW d \in ConcatRecord
        PROVE  /\ WithPart(d, pdu, evt.idx) \in ConcatRecord
               /\ PartsSms(WithPart(d, pdu, evt.idx)) \subseteq PartsSms(d) \cup {pdu}
    BY <1>3, <1>4, WithPartType DEF PartsSms
  <2> QED BY <1>4, <2>1, <2>2 DEF AddPart
<1> HIDE DEF c
<1>6. /\ (EventSms[evt])' = {}
      /\ UNCHANGED <<Held(EventSms, urcs), Held(EventSms, smsq), Sending>>
  BY <1>2, SameSending, HeldNext, EventSmsValue
<1>7. CASE Cardinality(c.parts) >= Header[pdu].total
  <2> DEFINE t == TextOf(PartsUpTo(c, Header[pdu].total), evt.stored)
  <2>1. EnqueuePush(t) /\ concat' = [concat EXCEPT ![i] = FreeSlot]
    BY <1>1, <1>7 DEF c
  <2>2. t \in Text /\ t.text \subseteq PartsSms(c)
    <3>1. PartsUpTo(c, Header[pdu].total) \in SUBSET Part
      BY <1>5 DEF PartsUpTo, ConcatRecord
    <3>2. t \in Text
      BY <1>4, <3>1, TextOfType
    <3>3. t.text \subseteq PartsSms(c)
      BY DEF PartsUpTo, TextOf, PartsSms
    <3> QED BY <3>2, <3>3
  <2> HIDE DEF t
  <2>3. PartsSms(concat[i]) \subseteq Reassembled
    BY <1>4 DEF Reassembled
  <2>4. t.text \cap Held(TextSms, pushq) = {}
    BY <1>3, <1>5, <2>2, <2>3 DEF CarriedOnce, Disjoint
  <2>5. /\ Held(TextSms, pushq') \subseteq Held(TextSms, pushq) \cup t.text
        /\ Apart(TextSms, pushq')
    BY <1>4, <2>1, <2>2, <2>4, EnqueuePushHeld DEF ApartInQueues
  <2>6. /\ Reassembled' \subseteq Reassembled
        /\ Reassembled' \cap PartsSms(concat[i]) = {}
        /\ ApartInBuffer'
    BY <1>4, <2>1, FreeSlotOnce
  <2>7. /\ Held(TextSms, pushq)' \subseteq
             Held(TextSms, pushq) \cup PartsSms(concat[i]) \cup EventSms[evt]
        /\ ApartInQueues'
    BY <1>2, <1>3, <1>5, <2>2, <2>5, HeldNext DEF ApartInQueues
  <2>8. CarriedNew'
    BY <1>2, <1>6, <2>3, <2>6, <2>7 DEF CarriedNew
  <2>9. CarriedOnce'
    BY <1>6, <2>3, <2>6, <2>7 DEF CarriedOnce, Disjoint
  <2>10. TaskReads'
    BY <1>2 DEF TaskReads
  <2> QED BY <1>2, <2>6, <2>7, <2>8, <2>9, <2>10, SameHistory
<1>8. CASE ~(Cardinality(c.parts) >= Header[pdu].total)
  <2>1. concat' = [concat EXCEPT ![i] = c] /\ UNCHANGED pushq
    BY <1>1, <1>8 DEF c
  <2>2. Reassembled' \subseteq Reassembled \cup EventSms[evt] /\ ApartInBuffer'
    BY <1>3, <1>4, <1>5, <2>1, ReplaceSlotOnce
  <2>3. UNCHANGED Held(TextSms, pushq) /\ ApartInQueues'
    BY <1>2, <2>1, HeldNext DEF ApartInQueues
  <2>4. CarriedNew'
    BY <1>2, <1>6, <2>2, <2>3 DEF CarriedNew
  <2>5. CarriedOnce'
    BY <1>6, <2>2, <2>3 DEF CarriedOnce, Disjoint
  <2>6. TaskReads'
    BY <1>2 DEF TaskReads
  <2> QED BY <1>2, <2>2, <2>3, <2>4, <2>5, <2>6, SameHistory
<1> QED BY <1>7, <1>8

\* An intercepted or undecodable SMS is deleted by the task that holds it;
\* nobody else's event refers to its slot.
LEMMA DeleteUnwantedOnce ==
  ASSUME TypeOK, Safe, Once, NEW ok \in BOOLEAN, DeleteUnwanted(ok)
  PROVE  Once'
<1> USE DEF Once, DeleteUnwanted, Done, pushVars, envVars
<1> DEFINE x == evt.idx
<1>1. x \in Slots /\ EventSlot(evt) = {x}
  BY EventSlotType DEF Safe, TaskKnows, TypeOK
<1>2. \A s \in EventSlots(urcs) \cup EventSlots(smsq) : store'[s] = store[s]
  <2>1. \A s \in EventSlots(urcs) \cup EventSlots(smsq) : s \in Slots /\ s # x
    BY <1>1 DEF Safe, HeldApart, Disjoint, Occupied
  <2> QED BY <1>1, <2>1, DeleteFacts
<1>3. /\ Held(EventSms', urcs) = Held(EventSms, urcs)
      /\ Held(EventSms', smsq) = Held(EventSms, smsq)
      /\ Apart(EventSms', urcs) /\ Apart(EventSms', smsq)
  BY <1>2, SameQueuedEvents DEF ApartInQueues
<1>4. (EventSms[evt])' = {}
  <2>1. EventSms'[NoEvent] = {}
    BY NoEventSms
  <2> QED BY <2>1, HeldNext
<1>5. /\ UNCHANGED <<Held(EventSms, urcs), Held(EventSms, smsq), Held(TextSms, pushq),
                     Reassembled, Sending>>
      /\ ApartInBuffer' /\ ApartInQueues'
  BY <1>3, SameReassembly, SameSending, HeldNext DEF ApartInQueues
<1>6. CarriedNew'
  BY <1>4, <1>5 DEF CarriedNew
<1>7. CarriedOnce'
  BY <1>4, <1>5 DEF CarriedOnce, Disjoint
<1>8. TaskReads'
  BY DEF TaskReads
<1> QED BY <1>5, <1>6, <1>7, <1>8, DeleteHistory

\* An expired slot moves to the push queue, or is dropped.
LEMMA ScanSlotOnce ==
  ASSUME TypeOK, Once, ScanSlot
  PROVE  Once'
<1> USE DEF Once, modemVars, pushVars, envVars
<1> DEFINE c == concat[scanAt]
           t == TextOf(PartsUpTo(c, c.total), TRUE)
<1>1. UNCHANGED <<modemVars, urcs, smsq, spc, evt, pdu, pushVars, todo, envVars, EventSms>>
  BY SameEventSms DEF ScanSlot
<1>2. /\ UNCHANGED <<Held(EventSms, urcs), Held(EventSms, smsq), EventSms[evt], Sending>>
  BY <1>1, SameSending, HeldNext
<1>3. CASE UNCHANGED <<pushq, concat>>
  <2>1. /\ UNCHANGED <<Held(TextSms, pushq), Reassembled>>
        /\ ApartInBuffer' /\ ApartInQueues'
    BY <1>1, <1>3, SameReassembly, SameQueues
  <2> QED BY <1>1, <1>2, <2>1, SameReads, SameHistory DEF CarriedNew, CarriedOnce
<1>4. CASE EnqueuePush(t) /\ concat' = [concat EXCEPT ![scanAt] = FreeSlot]
  <2>1. scanAt \in 1..ConcatCap /\ c \in ConcatRecord /\ pushq \in Seq(Text)
    BY DEF ScanSlot, TypeOK, ConcatRecord
  <2>2. t \in Text /\ t.text \subseteq PartsSms(c)
    <3>1. PartsUpTo(c, c.total) \in SUBSET Part
      BY <2>1 DEF PartsUpTo, ConcatRecord
    <3>2. t \in Text
      BY <3>1, TextOfType
    <3>3. t.text \subseteq PartsSms(c)
      BY DEF PartsUpTo, TextOf, PartsSms
    <3> QED BY <3>2, <3>3
  <2>3. PartsSms(c) \subseteq Reassembled
    BY <2>1 DEF Reassembled
  <2>4. EnqueuePush(t)
    BY <1>4
  <2>5. /\ Reassembled' \subseteq Reassembled
        /\ Reassembled' \cap PartsSms(c) = {}
        /\ ApartInBuffer'
    BY <1>4, <2>1, FreeSlotOnce
  <2> HIDE DEF t, c
  <2>6. t.text \cap Held(TextSms, pushq) = {}
    BY <2>2, <2>3 DEF CarriedOnce, Disjoint
  <2>7. /\ Held(TextSms, pushq') \subseteq Held(TextSms, pushq) \cup t.text
        /\ Apart(TextSms, pushq')
    BY <2>1, <2>2, <2>4, <2>6, EnqueuePushHeld DEF ApartInQueues
  <2>8. /\ Held(TextSms, pushq)' \subseteq Held(TextSms, pushq) \cup PartsSms(c)
        /\ ApartInQueues'
    BY <1>1, <2>2, <2>7, HeldNext DEF ApartInQueues
  <2>9. CarriedNew'
    BY <1>1, <1>2, <2>3, <2>5, <2>8 DEF CarriedNew
  <2>10. CarriedOnce'
    BY <1>2, <2>3, <2>5, <2>8 DEF CarriedOnce, Disjoint
  <2> QED BY <1>1, <2>5, <2>8, <2>9, <2>10, SameReads, SameHistory
<1> QED BY <1>3, <1>4 DEF ScanSlot

\* Ageing changes no part.
LEMMA TickOnce ==
  ASSUME TypeOK, Once, Tick
  PROVE  Once'
<1> USE DEF Once, modemVars, pushVars, envVars
<1>1. UNCHANGED <<modemVars, urcs, smsq, spc, evt, pdu, scanAt, pushq, pushVars, todo,
                  envVars, EventSms>>
  BY SameEventSms DEF Tick
<1>2. \A i \in 1..ConcatCap : concat'[i].parts = concat[i].parts
  <2> SUFFICES ASSUME NEW i \in 1..ConcatCap PROVE concat'[i].parts = concat[i].parts
    OBVIOUS
  <2>1. concat[i] \in ConcatRecord
    BY DEF TypeOK, ConcatRecord
  <2> QED BY <2>1 DEF Tick, ConcatRecord
<1>3. UNCHANGED Reassembled /\ ApartInBuffer'
  BY <1>2 DEF Reassembled, ApartInBuffer, PartsSms
<1>4. /\ UNCHANGED <<Held(EventSms, urcs), Held(EventSms, smsq), EventSms[evt],
                     Held(TextSms, pushq), Sending>>
      /\ ApartInQueues'
  BY <1>1, SameSending, SameQueues, HeldNext
<1> QED BY <1>1, <1>3, <1>4, SameReads, SameHistory DEF CarriedNew, CarriedOnce

\* The push task takes a text: its SMS move from the queue to the task.
LEMMA PushTakeOnce ==
  ASSUME TypeOK, Once, PushTake
  PROVE  Once'
<1> USE DEF Once, PushTake, modemVars, smsVars, envVars
<1>1. pushq \in Seq(Text) /\ pushq # <<>> /\ UNCHANGED EventSms
  BY SameEventSms DEF TypeOK
<1>2. pmsg' \in Text /\ TextSms[pmsg'] = pmsg'.text
  BY <1>1, QueueTypes, TextSmsValue
<1>3. /\ pmsg'.text \subseteq Held(TextSms, pushq)
      /\ Held(TextSms, pushq') = Held(TextSms, pushq) \ pmsg'.text
      /\ Apart(TextSms, pushq')
  BY <1>1, <1>2, TailHeld DEF ApartInQueues
<1>4. Sending' = pmsg'.text
  BY DEF Sending
<1>5. /\ Held(TextSms, pushq)' = Held(TextSms, pushq) \ Sending'
      /\ UNCHANGED <<Held(EventSms, urcs), Held(EventSms, smsq), EventSms[evt], Reassembled>>
      /\ ApartInBuffer' /\ ApartInQueues'
  BY <1>1, <1>3, <1>4, SameReassembly, HeldNext DEF ApartInQueues
<1>6. CarriedNew'
  BY <1>3, <1>4, <1>5 DEF CarriedNew
<1>7. CarriedOnce'
  BY <1>3, <1>4, <1>5 DEF CarriedOnce, Disjoint
<1> QED BY <1>5, <1>6, <1>7, SameReads, SameHistory

\* Steps of the push task that keep its text or drop it; an accepted text is
\* delivered and no longer on its way.
LEMMA PushOnce ==
  ASSUME TypeOK, Once, PushGate \/ PushOk \/ PushFail \/ PushDone
  PROVE  Once'
<1> USE DEF Once, modemVars, smsVars, envVars
<1>1. UNCHANGED <<modemVars, urcs, smsq, smsVars, pushq, todo, envVars, EventSms>>
  BY SameEventSms DEF PushGate, PushOk, PushFail, PushDone
<1>2. /\ UNCHANGED <<Held(EventSms, urcs), Held(EventSms, smsq), EventSms[evt],
                     Held(TextSms, pushq), Reassembled>>
      /\ ApartInBuffer' /\ ApartInQueues'
  BY <1>1, SameReassembly, SameQueues, HeldNext
<1>3. Sending' = {}
  BY DEF PushGate, PushOk, PushFail, PushDone, Sending
<1>4. delivered' \subseteq delivered \cup Sending
  BY DEF PushGate, PushOk, PushFail, PushDone, Sending
<1>5. CarriedOnce'
  BY <1>2, <1>3 DEF CarriedOnce, Disjoint
<1>6. CarriedNew'
  BY <1>1, <1>2, <1>3, <1>4 DEF CarriedNew, CarriedOnce, Disjoint
<1>7. History'
  <2>1. Stored' = Stored /\ Occupied' = Occupied
    BY <1>1 DEF Stored, Occupied
  <2>2. Sending \subseteq arrived
    BY DEF CarriedNew
  <2> QED BY <1>1, <1>4, <2>1, <2>2 DEF History
<1> QED BY <1>1, <1>2, <1>5, <1>6, <1>7, SameReads

\* The push task deletes a slot it holds; no event refers to it.
LEMMA PushDeleteOnce ==
  ASSUME TypeOK, Safe, Once, NEW x \in Idx, NEW ok \in BOOLEAN, PushDelete(x, ok)
  PROVE  Once'
<1> USE DEF Once, PushDelete, smsVars, envVars
<1>1. x \in Slots => x \in TextSlot(pmsg)
  BY DEF TextSlot
<1>2. x \notin EventSlots(urcs) /\ x \notin EventSlots(smsq) /\ x \notin EventSlot(evt)
  BY <1>1 DEF Safe, HeldApart, Disjoint, Occupied
<1>3. \A s \in Slots : s # x => store'[s] = store[s]
  BY DEF ModemDelete
<1>4. /\ \A s \in EventSlots(urcs) \cup EventSlots(smsq) : store'[s] = store[s]
      /\ \A s \in EventSlot(evt) : store'[s] = store[s]
  BY <1>2, <1>3 DEF Safe, HeldApart, Occupied
<1>5. /\ Held(EventSms', urcs) = Held(EventSms, urcs)
      /\ Held(EventSms', smsq) = Held(EventSms, smsq)
      /\ EventSms'[evt] = EventSms[evt]
      /\ Apart(EventSms', urcs) /\ Apart(EventSms', smsq)
  BY <1>4, SameEvent, SameQueuedEvents DEF ApartInQueues, TypeOK
<1>6. Sending = {} /\ Sending' = {}
  BY DEF Sending
<1>7. /\ UNCHANGED <<Held(EventSms, urcs), Held(EventSms, smsq), EventSms[evt],
                     Held(TextSms, pushq), Reassembled, Sending>>
      /\ ApartInBuffer' /\ ApartInQueues'
  BY <1>5, <1>6, SameReassembly, HeldNext DEF ApartInQueues
<1>8. CarriedNew' /\ CarriedOnce'
  BY <1>7 DEF CarriedNew, CarriedOnce
<1> QED BY <1>7, <1>8, SameReads, DeleteHistory

\* Nothing is on its way when everything is empty.
LEMMA EmptyOnce ==
  ASSUME urcs = <<>>, smsq = <<>>, pushq = <<>>, evt = NoEvent, spc = "recv",
         concat = [i \in 1..ConcatCap |-> FreeSlot], ppc = "gate", History
  PROVE  Once
<1>1. /\ Held(EventSms, urcs) = {} /\ Held(EventSms, smsq) = {} /\ Held(TextSms, pushq) = {}
      /\ ApartInQueues
  BY EmptyHeld DEF ApartInQueues
<1>2. EventSms[evt] = {} /\ Sending = {} /\ TaskReads
  BY EventSmsValue DEF Sending, TaskReads
<1>3. \A i \in 1..ConcatCap : PartsSms(concat[i]) = {}
  BY DEF PartsSms, FreeSlot
<1>4. Reassembled = {} /\ ApartInBuffer
  BY <1>3 DEF Reassembled, ApartInBuffer
<1> QED BY <1>1, <1>2, <1>4 DEF Once, CarriedOnce, CarriedNew, Disjoint

LEMMA EnvOnce ==
  ASSUME TypeOK, Safe, Once, Quiet, EnvStep
  PROVE  Once'
<1> USE DEF Once, modemVars, smsVars, pushVars, envVars
<1>1. CASE GotIp \/ WifiLost \/ TimeSynced
  <2>1. UNCHANGED <<modemVars, urcs, smsq, smsVars, pushq, pushVars, EventSms>>
    BY <1>1, SameEventSms DEF GotIp, WifiLost, TimeSynced
  <2>2. /\ UNCHANGED <<Held(EventSms, urcs), Held(EventSms, smsq), EventSms[evt],
                       Held(TextSms, pushq), Reassembled, Sending>>
        /\ ApartInBuffer' /\ ApartInQueues'
    BY <2>1, SameReassembly, SameQueues, SameSending, HeldNext
  <2> QED BY <2>1, <2>2, SameReads, SameHistory DEF CarriedNew, CarriedOnce
<1>2. CASE Restart
  <2>1. History'
    BY <1>2, SameHistory DEF Restart
  <2>2. /\ urcs' = <<>> /\ smsq' = <<>> /\ pushq' = <<>> /\ evt' = NoEvent /\ spc' = "recv"
        /\ concat' = [i \in 1..ConcatCap |-> FreeSlot] /\ ppc' = "gate"
    BY <1>2 DEF Restart
  <2>3. /\ Held(EventSms, urcs)' = {} /\ Held(EventSms, smsq)' = {}
        /\ Held(TextSms, pushq)' = {} /\ ApartInQueues'
    BY <2>2, EmptyHeld, HeldNext
  <2>4. (EventSms[evt])' = {} /\ Sending' = {} /\ TaskReads'
    BY <2>2, NoEventSms, HeldNext DEF Sending, TaskReads
  <2>5. \A i \in 1..ConcatCap : concat'[i].parts = {}
    BY <2>2 DEF FreeSlot
  <2>6. Reassembled' = {} /\ ApartInBuffer'
    BY <2>5 DEF Reassembled, ApartInBuffer, PartsSms
  <2> QED BY <2>1, <2>3, <2>4, <2>6 DEF CarriedOnce, CarriedNew, Disjoint
<1>3. ~SendTextBegin /\ ~SendTextEnd
  BY DEF SendTextBegin, SendTextEnd, Quiet, Safe, NoInterference
<1> QED BY <1>1, <1>2, <1>3 DEF EnvStep

LEMMA StepOnce == Quiet /\ TypeOK /\ Safe /\ Once /\ [Next]_vars => Once'
<1> SUFFICES ASSUME Quiet, TypeOK, Safe, Once, [Next]_vars PROVE Once'
  OBVIOUS
<1>1. CASE UNCHANGED vars
  <2> USE <1>1 DEF vars, modemVars, smsVars, pushVars, envVars, Once
  <2>1. /\ UNCHANGED <<Held(EventSms, urcs), Held(EventSms, smsq), EventSms[evt],
                       Held(TextSms, pushq), Reassembled, Sending>>
        /\ ApartInBuffer' /\ ApartInQueues'
    BY SameReassembly, SameQueues, SameSending, SameEventSms, HeldNext
  <2> QED BY <2>1, SameReads, SameHistory DEF CarriedNew, CarriedOnce
<1>2. CASE ModemStep
  BY <1>2, ArriveStoredOnce, ArriveDirectOnce, UrcOnce DEF ModemStep
<1>3. CASE SmsStep
  BY <1>3, UrcOnce, ReceiveOnce, TaskOnce, ForwardSingleOnce, CollectPartOnce,
     DeleteUnwantedOnce, ScanSlotOnce, TickOnce DEF SmsStep
<1>4. CASE PushStep
  BY <1>4, PushOnce, PushTakeOnce, PushDeleteOnce DEF PushStep
<1>5. CASE RetryStep
  BY <1>5 DEF RetryStep, RetryList, RetryEnqueue, Quiet, Safe, NoInterference
<1>6. CASE EnvStep
  BY <1>6, EnvOnce
<1> QED BY <1>1, <1>2, <1>3, <1>4, <1>5, <1>6 DEF Next

LEMMA InitOnce == Init => Once
<1> SUFFICES ASSUME Init PROVE Once
  OBVIOUS
<1>1. History
  BY DEF Init, History, Stored, Occupied
<1> QED BY <1>1, EmptyOnce DEF Init

LEMMA OnceInvariant == ASSUME Quiet PROVE Spec => [](TypeOK /\ Safe /\ Once)
<1>1. Init => Once
  BY InitOnce
<1>2. TypeOK /\ Safe /\ Once /\ [Next]_vars => Once'
  BY StepOnce
<1> QED BY <1>1, <1>2, SafeInvariant, PTL DEF Spec

\* Without the retry nothing is pushed twice: a text about to be sent holds no
\* SMS a channel has accepted before, whatever the order of announcements,
\* parts, expiries, failed deletions and restarts.
THEOREM PushedOnce == ASSUME Quiet PROVE Spec => []NeverPushedTwice
<1>1. Once => NeverPushedTwice
  BY DEF Once, CarriedNew, Sending, NeverPushedTwice
<1> QED BY <1>1, OnceInvariant, PTL

-----------------------------------------------------------------------------
(* The pipeline implements Forwarding. *)

\* Emptying a slot takes its SMS, and no other, from the store.
LEMMA DiscardStep ==
  ASSUME TypeOK, History, NEW x \in Slots, NEW ok \in BOOLEAN, ModemDelete(x, ok),
         x \in Occupied, UNCHANGED <<arrived, delivered>>,
         store[x] \in delivered \/ Unwanted(store[x])
  PROVE  [F!Next]_<<arrived, Stored, delivered>>
<1>1. /\ \A s \in Slots : s # x => store'[s] = store[s]
      /\ store'[x] = IF ok THEN NoMsg ELSE store[x]
  BY DEF ModemDelete
<1>2. CASE ~ok
  <2>1. \A s \in Slots : store'[s] = store[s]
    BY <1>1, <1>2
  <2> QED BY <2>1 DEF Stored, Occupied
<1>3. CASE ok
  <2>1. PICK m \in Msgs : m = store[x]
    BY DEF TypeOK, Occupied
  <2>2. m \in Stored \cap (delivered \cup {k \in Msgs : Unwanted(k)})
    BY <2>1 DEF Stored
  <2>3. \A s : s \in Occupied' <=> s \in Occupied /\ s # x
    BY <1>1, <1>3 DEF Occupied
  <2>4. \A k : k \in Stored' <=> k \in Stored /\ k # m
    BY <1>1, <2>1, <2>3 DEF Stored, History, Occupied
  <2>5. Stored' = Stored \ {m}
    BY <2>4
  <2>6. F!Discard(m)
    BY <2>2, <2>5 DEF F!Discard
  <2> QED BY <2>6 DEF F!Next
<1> QED BY <1>2, <1>3

LEMMA ForwardingStep ==
  ASSUME Quiet, TypeOK, Safe, Once, [Next]_vars
  PROVE  [F!Next]_<<arrived, Stored, delivered>>
<1> USE DEF modemVars, smsVars, pushVars, envVars
<1> DEFINE Same == UNCHANGED <<store, arrived, delivered>>
<1>1. Same => UNCHANGED <<arrived, Stored, delivered>>
  BY DEF Stored, Occupied
<1>2. ASSUME NEW m \in Msgs, NEW s \in Slots, ArriveStored(m, s)
      PROVE  [F!Next]_<<arrived, Stored, delivered>>
  <2>1. /\ s \notin Occupied /\ m \notin arrived /\ arrived' = arrived \cup {m}
        /\ \A t \in Slots : t # s => store'[t] = store[t]
        /\ store'[s] = m /\ m # NoMsg /\ delivered' = delivered
    BY <1>2, ConstFacts DEF ArriveStored, Occupied, TypeOK
  <2>2. Occupied' = Occupied \cup {s}
    BY <2>1 DEF Occupied
  <2>3. Stored' = Stored \cup {m}
    BY <2>1, <2>2 DEF Stored, Occupied
  <2>4. F!Take(m, TRUE)
    BY <2>1, <2>3 DEF F!Take
  <2> QED BY <2>4 DEF F!Next
<1>3. ASSUME NEW m \in Msgs, ArriveDirect(m)
      PROVE  [F!Next]_<<arrived, Stored, delivered>>
  <2>1. m \notin arrived /\ arrived' = arrived \cup {m} /\ delivered' = delivered
    BY <1>3 DEF ArriveDirect
  <2>2. Stored' = Stored
    BY <1>3 DEF ArriveDirect, Stored, Occupied
  <2>3. F!Take(m, FALSE)
    BY <2>1, <2>2 DEF F!Take
  <2> QED BY <2>3 DEF F!Next
<1>4. CASE PushOk
  <2>1. pmsg.text \in SUBSET Msgs /\ pmsg.text \subseteq arrived \ delivered
    BY <1>4 DEF PushOk, Once, CarriedNew, Sending, TypeOK, Text
  <2>2. delivered' = delivered \cup pmsg.text /\ arrived' = arrived /\ Stored' = Stored
    BY <1>4 DEF PushOk, Stored, Occupied
  <2>3. PICK S \in SUBSET Msgs : S = pmsg.text
    BY <2>1
  <2>4. F!Forward(S)
    BY <2>1, <2>2, <2>3 DEF F!Forward
  <2> QED BY <2>4 DEF F!Next
<1>5. ASSUME NEW ok \in BOOLEAN, DeleteUnwanted(ok)
      PROVE  [F!Next]_<<arrived, Stored, delivered>>
  <2>1. PICK x \in Slots : x = evt.idx /\ EventSlot(evt) = {x}
    BY <1>5, EventSlotType DEF DeleteUnwanted, Safe, TaskKnows, TypeOK
  <2>2. ModemDelete(x, ok) /\ UNCHANGED <<arrived, delivered>> /\ x \in Occupied
    BY <1>5, <2>1 DEF DeleteUnwanted, Safe, HeldApart
  <2>3. Unwanted(store[x])
    BY <1>5, <2>1 DEF DeleteUnwanted, Safe, TaskKnows, Unwanted
  <2> QED BY <2>2, <2>3, DiscardStep DEF Once
<1>6. ASSUME NEW x \in Idx, NEW ok \in BOOLEAN, PushDelete(x, ok)
      PROVE  [F!Next]_<<arrived, Stored, delivered>>
  <2>1. ModemDelete(x, ok) /\ UNCHANGED <<arrived, delivered>>
    BY <1>6 DEF PushDelete
  <2>2. CASE x \in Slots
    <3>1. x \in TextSlot(pmsg)
      BY <1>6, <2>2 DEF PushDelete, TextSlot
    <3>2. x \in Occupied /\ store[x] \in delivered
      BY <1>6, <3>1 DEF PushDelete, Safe, HeldApart, AckKnows, Knows
    <3> QED BY <2>1, <2>2, <3>2, DiscardStep DEF Once
  <2>3. CASE x \notin Slots
    BY <1>1, <2>1, <2>3 DEF ModemDelete, TypeOK
  <2> QED BY <2>2, <2>3
<1>7. CASE LoseUrc \/ HandleUrc \/ Receive \/ ReadOk \/ ReadFail \/ DecodeFails
             \/ Intercept \/ ForwardSingle \/ CollectPart \/ ReceiveTimeout
             \/ ScanSlot \/ ScanEnd \/ Tick
  <2>1. Same
    BY <1>7 DEF LoseUrc, HandleUrc, Receive, ReadOk, ReadFail, DecodeFails, Intercept,
       ForwardSingle, CollectPart, ReceiveTimeout, ScanSlot, ScanEnd, Tick
  <2> QED BY <1>1, <2>1
<1>8. CASE PushGate \/ PushTake \/ PushFail \/ PushDone
  BY <1>1, <1>8 DEF PushGate, PushTake, PushFail, PushDone
<1>9. CASE RetryStep \/ EnvStep \/ UNCHANGED vars
  BY <1>1, <1>9 DEF RetryStep, RetryList, RetryEnqueue, EnvStep, GotIp, WifiLost, TimeSynced,
     SendTextBegin, SendTextEnd, Restart, vars
<1> QED BY <1>2, <1>3, <1>4, <1>5, <1>6, <1>7, <1>8, <1>9
        DEF Next, ModemStep, SmsStep, PushStep

\* The pipeline with its queues, tasks and slot numbers implements Forwarding:
\* each SMS is forwarded at most once and leaves the store only afterwards.
THEOREM Forwards == ASSUME Quiet PROVE Spec => ImplementsForwarding
<1>1. Init => F!Init
  BY DEF Init, F!Init, Stored, Occupied
<1>2. TypeOK /\ Safe /\ Once /\ [Next]_vars => [F!Next]_<<arrived, Stored, delivered>>
  BY ForwardingStep
<1> QED BY <1>1, <1>2, OnceInvariant, PTL DEF Spec, ImplementsForwarding, F!Spec
=============================================================================

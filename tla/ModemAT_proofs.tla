--------------------------- MODULE ModemAT_proofs ---------------------------
(***************************************************************************)
(* Proofs about ModemAT for any number of tasks and any sizes: type        *)
(* correctness, that the shared response pointer never outlives the call   *)
(* whose buffer it points to, and that without late answers and SMS        *)
(* sending every call is answered with its own answer, whole.              *)
(***************************************************************************)
EXTENDS ModemAT, TLAPS

PCs == {"idle", "lock"} \cup InCall \cup InSms

LEMMA ConstFacts ==
  /\ Senders \subseteq Tasks /\ None \notin Tasks
  /\ \A t \in Tasks : Size[t] \in Nat
BY ConstantsAssumption DEF ConstantsAssumption

\* The facts about sequences that the proofs need, for any element type.
LEMMA QueueTypes ==
  ASSUME NEW S
  PROVE  /\ <<>> \in Seq(S)
         /\ \A q \in Seq(S) : /\ Len(q) \in Nat
                             /\ \A e \in S : Append(q, e) \in Seq(S)
                             /\ \A i \in 1..Len(q) : q[i] \in S
         /\ \A q \in Seq(S) : q # <<>> => /\ Head(q) \in S /\ Tail(q) \in Seq(S)
                                          /\ q[1] \in S /\ 1 \in 1..Len(q)
OBVIOUS

LEMMA OlderTypes ==
  ASSUME NEW t \in Tasks
  PROVE  /\ \A q \in Seq(Line) : OlderSeq(q, t) \in Seq(Line)
         /\ \A q \in Seq(Query) : OlderSeq(q, t) \in Seq(Query)
         /\ \A f \in SUBSET Flag : {Older(x, t) : x \in f} \in SUBSET Flag
<1>1. \A x \in Line : Older(x, t) \in Line BY DEF Older, Line, Who
<1>2. \A x \in Query : Older(x, t) \in Query BY DEF Older, Query, Who
<1>3. \A x \in Flag : Older(x, t) \in Flag BY DEF Older, Flag, Who
<1>4. ASSUME NEW S, NEW q \in Seq(S), \A x \in S : Older(x, t) \in S
      PROVE  OlderSeq(q, t) \in Seq(S)
  <2>1. Len(q) \in Nat /\ \A i \in 1..Len(q) : q[i] \in S BY <1>4, QueueTypes
  <2>2. OlderSeq(q, t) \in [1..Len(q) -> S] BY <2>1, <1>4 DEF OlderSeq
  <2> QED BY <2>1, <2>2
<1> QED BY <1>1, <1>2, <1>3, <1>4

LEMMA WriteTypes ==
  ASSUME TypeOK, NEW t \in Tasks, NEW kind \in {"command", "cmgs", "body"},
         WriteToModem(t, kind)
  PROVE  /\ modem' \in Seq(Query) /\ rx' \in Seq(Line)
         /\ flags' \subseteq Flag /\ resp' \in [Tasks -> Seq(Who)]
<1>1. [kind |-> kind, of |-> t, said |-> FALSE] \in Query BY DEF Query, Who
<1>2. /\ OlderSeq(modem, t) \in Seq(Query) /\ OlderSeq(rx, t) \in Seq(Line)
      /\ {Older(x, t) : x \in flags} \subseteq Flag
  BY OlderTypes DEF TypeOK
<1>3. modem' \in Seq(Query) BY <1>1, <1>2, QueueTypes DEF WriteToModem
<1>4. [i \in 1..Len(resp[t]) |-> None] \in Seq(Who)
  <2>1. Len(resp[t]) \in Nat BY QueueTypes DEF TypeOK
  <2>2. [i \in 1..Len(resp[t]) |-> None] \in [1..Len(resp[t]) -> Who] BY DEF Who
  <2> QED BY <2>1, <2>2
<1>5. resp' \in [Tasks -> Seq(Who)] BY <1>4 DEF WriteToModem, TypeOK
<1> QED BY <1>2, <1>3, <1>5 DEF WriteToModem

\* A wait moves to, and out of, the blocked state it belongs to.
LEMMA WaitStates ==
  /\ \A p \in PCs : AfterWait(p) \in PCs /\ ToBlocked(p) \in PCs
  /\ \A p \in {"wait", "blocked"} : AfterWait(p) = "return"
  /\ \A p \in {"promptWait", "promptBlocked"} : AfterWait(p) = "prompted"
  /\ \A p \in {"finalWait", "finalBlocked"} : AfterWait(p) = "sent"
  /\ ToBlocked("wait") = "blocked" /\ ToBlocked("promptWait") = "promptBlocked"
  /\ ToBlocked("finalWait") = "finalBlocked"
<1>1. \A p : AfterWait(p) \in {"return", "prompted", "sent"}
  BY DEF AfterWait
<1>2. \A p : ToBlocked(p) \in {"blocked", "promptBlocked", "finalBlocked"}
  BY DEF ToBlocked
<1>3. \A p \in {"wait", "blocked"} : AfterWait(p) = "return"
  BY DEF AfterWait
<1>4. \A p \in {"promptWait", "promptBlocked"} : AfterWait(p) = "prompted"
  BY DEF AfterWait
<1>5. \A p \in {"finalWait", "finalBlocked"} : AfterWait(p) = "sent"
  BY DEF AfterWait
<1>6. /\ ToBlocked("wait") = "blocked" /\ ToBlocked("promptWait") = "promptBlocked"
      /\ ToBlocked("finalWait") = "finalBlocked"
  BY DEF ToBlocked
<1>7. {"return", "prompted", "sent", "blocked", "promptBlocked", "finalBlocked"} \subseteq PCs
  BY DEF PCs, InCall, InSms
<1> QED BY <1>1, <1>2, <1>3, <1>4, <1>5, <1>6, <1>7

LEMMA SetBitTypes ==
  ASSUME TypeOK, NEW b \in Bits, NEW of \in Who, SetBit(b, of)
  PROVE  /\ pc' \in [Tasks -> PCs] /\ got' \in [Tasks -> SUBSET Flag]
         /\ flags' \subseteq Flag
<1> DEFINE f == flags \cup {[bit |-> b, of |-> of]}
           W == {t \in Tasks : pc[t] \in Blocked /\ b \in Mask(pc[t])}
<1>1. f \subseteq Flag BY DEF TypeOK, Flag
<1>2. pc \in [Tasks -> PCs] BY DEF TypeOK, PCs
<1>3. got' = [t \in Tasks |-> IF t \in W THEN f ELSE got[t]] BY DEF SetBit
<1>4. pc' = [t \in Tasks |-> IF t \in W THEN AfterWait(pc[t]) ELSE pc[t]] BY DEF SetBit
<1>5. flags' \subseteq f BY DEF SetBit
<1>6. got \in [Tasks -> SUBSET Flag] BY DEF TypeOK
<1>7. got' \in [Tasks -> SUBSET Flag] BY <1>1, <1>3, <1>6
<1>8. pc' \in [Tasks -> PCs] BY <1>2, <1>4, WaitStates
<1> QED BY <1>1, <1>5, <1>7, <1>8

LEMMA CopyTypes ==
  ASSUME TypeOK, NEW l \in Line, CopyLine(l)
  PROVE  resp' \in [Tasks -> Seq(Who)] /\ curLen' \in Nat
<1>1. CASE buf # None /\ curLen < maxLen
  <2>1. buf \in Tasks BY <1>1 DEF TypeOK, Who
  <2>2. resp[buf] \in Seq(Who) /\ l.of \in Who BY <2>1 DEF TypeOK, Line
  <2>3. Append(resp[buf], l.of) \in Seq(Who) /\ Len(resp[buf]) \in Nat
    BY <2>2, QueueTypes
  <2>4. resp' = [resp EXCEPT ![buf] = Append(@, l.of)] /\ curLen' = Len(resp[buf]) + 1
    BY <1>1 DEF CopyLine
  <2> QED BY <2>1, <2>3, <2>4 DEF TypeOK
<1>2. CASE ~(buf # None /\ curLen < maxLen) BY <1>2 DEF CopyLine, TypeOK
<1> QED BY <1>1, <1>2

-----------------------------------------------------------------------------
(* Type correctness. *)

LEMMA InitType == Init => TypeOK
<1> SUFFICES ASSUME Init PROVE TypeOK OBVIOUS
<1>1. <<>> \in Seq(Who) /\ <<>> \in Seq(Line) /\ <<>> \in Seq(Query) BY QueueTypes
<1>2. resp \in [Tasks -> Seq(Who)] BY <1>1 DEF Init
<1>3. rx \in Seq(Line) /\ modem \in Seq(Query) BY <1>1 DEF Init
<1>4. got \in [Tasks -> SUBSET Flag] /\ flags \subseteq Flag BY DEF Init
<1>5. /\ pc \in [Tasks -> {"idle", "lock"} \cup InCall \cup InSms]
      /\ call \in [Tasks -> {"plain", "text", "pdu"}]
  BY DEF Init
<1> QED BY <1>2, <1>3, <1>4, <1>5 DEF Init, TypeOK, Who

LEMMA PCTypes == TypeOK => pc \in [Tasks -> PCs]
BY DEF TypeOK, PCs

LEMMA TypeStep == TypeOK /\ [Next]_vars => TypeOK'
<1> SUFFICES ASSUME TypeOK, [Next]_vars PROVE TypeOK' OBVIOUS
<1> USE ConstFacts
<1>t. ASSUME NEW t \in Tasks, Start(t) \/ StartSms(t) PROVE TypeOK'
  BY <1>t DEF TypeOK, Start, StartSms, CallFrom, hostVars, modemVars
<1>c. ASSUME NEW t \in Tasks, CallStep(t) PROVE TypeOK'
  <2>1. CASE Lock(t) \/ LockTimeout(t)
    BY <2>1 DEF TypeOK, Lock, LockTimeout, hostVars, modemVars, InCall, Who
  <2>2. CASE SetBuf(t)
    BY <2>2, QueueTypes, ZenonT(40) DEF TypeOK, SetBuf, modemVars, InCall, Who
  <2>3. CASE SetMax(t) \/ SetCur(t)
    <3>1. Size[t] \in Nat OBVIOUS
    <3>2. maxLen' \in Nat /\ curLen' \in Nat
      BY <2>3, <3>1 DEF SetMax, SetCur, TypeOK
    <3>3. pc' \in [Tasks -> PCs]
      BY <2>3, PCTypes DEF SetMax, SetCur, PCs, InCall
    <3> QED BY <2>3, <3>2, <3>3 DEF SetMax, SetCur, TypeOK, PCs, modemVars
  <2>8. CASE Flush(t)
    <3>1. <<>> \in Seq(Line) BY QueueTypes
    <3> QED BY <2>8, <3>1 DEF TypeOK, Flush, hostVars, modemVars, InCall
  <2>4. CASE Write(t)
    <3>1. WriteToModem(t, "command") BY <2>4 DEF Write
    <3> QED BY <2>4, <3>1, WriteTypes DEF TypeOK, Write, InCall
  <2>5. CASE Wait(t)
    <3>1. pc[t] \in PCs /\ flags \subseteq Flag BY PCTypes DEF TypeOK
    <3>2. AfterWait(pc[t]) \in PCs /\ ToBlocked(pc[t]) \in PCs BY <3>1, WaitStates
    <3>3. flags' \subseteq Flag /\ got' \in [Tasks -> SUBSET Flag]
      BY <2>5, <3>1 DEF Wait, TypeOK
    <3>4. pc' = [pc EXCEPT ![t] = AfterWait(pc[t])] \/ pc' = [pc EXCEPT ![t] = ToBlocked(pc[t])]
      BY <2>5 DEF Wait
    <3>5. pc' \in [Tasks -> PCs] BY <3>2, <3>4, PCTypes
    <3> QED BY <2>5, <3>3, <3>5 DEF Wait, TypeOK, PCs, modemVars
  <2>6. CASE WaitTimeout(t)
    <3>1. AfterWait(pc[t]) \in PCs BY PCTypes, WaitStates
    <3> QED BY <2>6, <3>1 DEF WaitTimeout, TypeOK, PCs, hostVars, modemVars
  <2>7. CASE Return(t)
    BY <2>7, QueueTypes DEF TypeOK, Return, modemVars, Who, InSms
  <2> QED BY <1>c, <2>1, <2>2, <2>3, <2>4, <2>5, <2>6, <2>7, <2>8 DEF CallStep
<1>s. ASSUME NEW t \in Tasks, SmsStep(t) PROVE TypeOK'
  <2>1. CASE SmsClear(t)
    BY <2>1 DEF TypeOK, SmsClear, modemVars, InSms
  <2>2. CASE SmsCommand(t)
    <3>1. WriteToModem(t, "cmgs") BY <2>2 DEF SmsCommand
    <3> QED BY <2>2, <3>1, WriteTypes DEF TypeOK, SmsCommand, InSms
  <2>3. CASE SmsCommandTimeout(t) \/ SmsFinal(t)
    BY <2>3 DEF TypeOK, SmsCommandTimeout, SmsFinal, CallFrom, hostVars, modemVars
  <2>4. CASE Prompted(t) \/ SmsBody(t)
    BY <2>4 DEF TypeOK, Prompted, SmsBody, CallFrom, hostVars, modemVars, InSms
  <2>5. CASE SmsCtrlZ(t)
    <3>1. /\ OlderSeq(modem, t) \in Seq(Query) /\ OlderSeq(rx, t) \in Seq(Line)
          /\ {Older(x, t) : x \in flags} \subseteq Flag
      BY OlderTypes DEF TypeOK
    <3>2. [kind |-> "body", of |-> t, said |-> FALSE] \in Query BY DEF Query, Who
    <3>3. <<[kind |-> "body", of |-> t, said |-> FALSE]>> \o OlderSeq(modem, t) \in Seq(Query)
      BY <3>1, <3>2
    <3> QED BY <2>5, <3>1, <3>3 DEF TypeOK, SmsCtrlZ, InSms
  <2> QED BY <1>s, <2>1, <2>2, <2>3, <2>4, <2>5 DEF SmsStep
<1>r. CASE ReadLine
  <2> DEFINE l == Head(rx)
  <2>1. l \in Line /\ rx' \in Seq(Line) BY <1>r, QueueTypes DEF ReadLine, TypeOK
  <2>2. resp' \in [Tasks -> Seq(Who)] /\ curLen' \in Nat
    BY <1>r, <2>1, CopyTypes DEF ReadLine, TypeOK
  <2>3. CASE l.kind = "text" BY <1>r, <2>1, <2>2, <2>3 DEF ReadLine, TypeOK, modemVars
  <2>4. CASE l.kind # "text"
    <3>1. l.kind \in Bits /\ l.of \in Who BY <2>1, <2>4 DEF Line
    <3>2. SetBit(l.kind, l.of) BY <1>r, <2>4 DEF ReadLine
    <3> QED BY <1>r, <2>1, <2>2, <3>1, <3>2, SetBitTypes
          DEF ReadLine, TypeOK, PCs, modemVars
  <2> QED BY <2>3, <2>4
<1>m. CASE ModemStep
  <2>1. ASSUME NEW kind \in Bits \cup {"text"}, NEW of \in Who, Say(kind, of)
        PROVE  rx' \in Seq(Line)
    <3>1. [kind |-> kind, of |-> of] \in Line BY DEF Line
    <3> QED BY <2>1, <3>1, QueueTypes DEF Say, TypeOK
  <2>2. modem # <<>> => modem[1] \in Query /\ 1 \in 1..Len(modem) /\ Tail(modem) \in Seq(Query)
    BY QueueTypes DEF TypeOK
  <2>3. CASE ModemText
    <3>1. modem[1] \in Query /\ modem # <<>> BY <2>2, <2>3 DEF ModemText
    <3>2. rx' \in Seq(Line) BY <2>1, <2>3, <3>1 DEF ModemText, Query
    <3>3. [modem[1] EXCEPT !.said = TRUE] \in Query BY <3>1 DEF Query
    <3>4. modem' = [modem EXCEPT ![1] = [modem[1] EXCEPT !.said = TRUE]]
      BY <2>3 DEF ModemText
    <3>5. modem' \in Seq(Query) BY <3>1, <3>3, <3>4 DEF TypeOK
    <3> QED BY <2>3, <3>2, <3>5 DEF ModemText, TypeOK, hostVars, taskVars
  <2>4. ASSUME NEW k \in Final, ModemFinal(k) PROVE TypeOK'
    <3>1. modem[1] \in Query /\ Tail(modem) \in Seq(Query) BY <2>2, <2>4 DEF ModemFinal
    <3>2. rx' \in Seq(Line) BY <2>1, <2>4, <3>1 DEF ModemFinal, Query, Final, Bits
    <3> QED BY <2>4, <3>1, <3>2 DEF ModemFinal, TypeOK, hostVars, taskVars
  <2>5. CASE ModemPrompt
    <3>1. modem[1] \in Query BY <2>2, <2>5 DEF ModemPrompt
    <3>2. rx' \in Seq(Line) BY <2>1, <2>5, <3>1 DEF ModemPrompt, Query, Bits
    <3> QED BY <2>5, <3>2, QueueTypes DEF ModemPrompt, TypeOK, hostVars, taskVars
  <2>6. CASE ModemSilent
    BY <2>2, <2>6 DEF ModemSilent, TypeOK, hostVars, taskVars
  <2>7. CASE ModemUrc
    <3>1. rx' \in Seq(Line) BY <2>1, <2>7 DEF ModemUrc, Who
    <3> QED BY <2>7, <3>1 DEF ModemUrc, TypeOK, hostVars, taskVars, modemVars
  <2> QED BY <1>m, <2>3, <2>4, <2>5, <2>6, <2>7 DEF ModemStep
<1>u. CASE UNCHANGED vars
  BY <1>u DEF TypeOK, vars, hostVars, taskVars, modemVars
<1> QED BY <1>t, <1>c, <1>s, <1>r, <1>m, <1>u DEF Next

\* Every variable of the AT channel keeps its type.
THEOREM TypeCorrect == Spec => []TypeOK
BY InitType, TypeStep, PTL DEF Spec

-----------------------------------------------------------------------------
(* The shared pointer. *)

LEMMA BufferStep == TypeOK /\ BufferOwned /\ [Next]_vars => BufferOwned'
<1> SUFFICES ASSUME TypeOK, BufferOwned, [Next]_vars PROVE BufferOwned' OBVIOUS
<1> USE ConstFacts
<1>p. pc \in [Tasks -> PCs] /\ owner \in Who /\ buf \in Who BY PCTypes DEF TypeOK
\* A step that moves one task within or outside the calls.
<1>1. ASSUME NEW t \in Tasks, NEW p, pc' = [pc EXCEPT ![t] = p],
             p \in InCall <=> pc[t] \in InCall, p # "setbuf",
             owner' = owner, buf' = buf
      PROVE  BufferOwned'
  BY <1>1, <1>p DEF BufferOwned, Who
<1>t. ASSUME NEW t \in Tasks, Start(t) \/ StartSms(t) PROVE BufferOwned'
  BY <1>t, <1>1 DEF Start, StartSms, CallFrom, hostVars, InCall
<1>c. ASSUME NEW t \in Tasks, CallStep(t) PROVE BufferOwned'
  <2>1. CASE Lock(t)
    BY <2>1, <1>p DEF Lock, BufferOwned, InCall, Who
  <2>2. CASE LockTimeout(t) \/ SetMax(t) \/ SetCur(t) \/ Flush(t) \/ Write(t)
    BY <2>2, <1>1 DEF LockTimeout, SetMax, SetCur, Flush, Write, hostVars, InCall
  <2>3. CASE SetBuf(t)
    BY <2>3, <1>p DEF SetBuf, BufferOwned, InCall, Who
  <2>4. CASE Wait(t)
    <3>1. AfterWait(pc[t]) \in InCall <=> pc[t] \in InCall
      BY <2>4, WaitStates DEF Wait, InCall
    <3>2. ToBlocked(pc[t]) \in InCall <=> pc[t] \in InCall
      BY <2>4, WaitStates DEF Wait, InCall
    <3>3. AfterWait(pc[t]) # "setbuf" /\ ToBlocked(pc[t]) # "setbuf"
      BY <2>4, WaitStates DEF Wait
    <3> QED BY <2>4, <3>1, <3>2, <3>3, <1>1 DEF Wait
  <2>5. CASE WaitTimeout(t)
    <3>1. AfterWait(pc[t]) \in InCall <=> pc[t] \in InCall
      BY <2>5, WaitStates DEF WaitTimeout, InCall, Blocked
    <3>2. AfterWait(pc[t]) # "setbuf"
      BY <2>5, WaitStates DEF WaitTimeout, Blocked
    <3> QED BY <2>5, <3>1, <3>2, <1>1 DEF WaitTimeout, hostVars
  <2>6. CASE Return(t)
    BY <2>6, <1>p DEF Return, BufferOwned, InCall, Who
  <2> QED BY <1>c, <2>1, <2>2, <2>3, <2>4, <2>5, <2>6 DEF CallStep
<1>s. ASSUME NEW t \in Tasks, SmsStep(t) PROVE BufferOwned'
  <2>1. CASE SmsClear(t) \/ SmsCommand(t) \/ SmsBody(t) \/ SmsCtrlZ(t)
    BY <2>1, <1>1 DEF SmsClear, SmsCommand, SmsBody, SmsCtrlZ, hostVars, InCall
  <2>2. CASE SmsCommandTimeout(t) \/ SmsFinal(t)
    BY <2>2, <1>1 DEF SmsCommandTimeout, SmsFinal, CallFrom, hostVars, InCall
  <2>3. CASE Prompted(t)
    BY <2>3, <1>1 DEF Prompted, CallFrom, hostVars, InCall
  <2> QED BY <1>s, <2>1, <2>2, <2>3 DEF SmsStep
<1>r. CASE ReadLine
  <2>1. owner' = owner /\ buf' = buf BY <1>r DEF ReadLine
  <2>2. \A t \in Tasks : \/ pc'[t] = pc[t]
                         \/ pc[t] \in Blocked /\ pc'[t] = AfterWait(pc[t])
    BY <1>r, <1>p DEF ReadLine, SetBit
  <2>3. \A t \in Tasks : /\ pc'[t] \in InCall <=> pc[t] \in InCall
                         /\ pc'[t] = "setbuf" => pc[t] = "setbuf"
    BY <2>2, WaitStates DEF Blocked, InCall
  <2> QED BY <2>1, <2>3, <1>p DEF BufferOwned, Who
<1>m. CASE ModemStep \/ UNCHANGED vars
  <2>1. owner' = owner /\ buf' = buf /\ pc' = pc
    BY <1>m DEF ModemStep, ModemText, ModemFinal, ModemPrompt, ModemSilent, ModemUrc,
                vars, hostVars, taskVars
  <2> QED BY <2>1 DEF BufferOwned
<1> QED BY <1>t, <1>c, <1>s, <1>r, <1>m DEF Next

\* The mutex is held by the task inside a call, and shared_resp_buf points to
\* no buffer or to the one of that call: never to one whose owner returned.
THEOREM PointerOwned == Spec => []BufferOwned
<1>1. Init => BufferOwned BY ConstFacts DEF Init, BufferOwned, InCall
<1> QED BY <1>1, BufferStep, TypeCorrect, PTL DEF Spec

-----------------------------------------------------------------------------
(* Without late answers and SMS sending, a call gets its own answer, whole. *)

Punctual == ~Late /\ Senders = {}

\* The task whose command may still be answered.
Awaited(t) == t \in Tasks /\ owner = t /\ pc[t] \in {"wait", "blocked"}

Plain == /\ \A t \in Tasks : pc[t] \in {"idle", "lock"} \cup InCall /\ call[t] = "plain"
         /\ ~prompt

\* Only the answer of the call in progress is on its way, its last line last.
InFlight ==
  /\ modem # <<>> => Len(modem) = 1 /\ modem[1].kind = "command" /\ Awaited(modem[1].of)
  /\ \A i \in 1..Len(rx) : /\ rx[i].kind # "PROMPT"
                           /\ rx[i].of = None => rx[i].kind = "text"
                           /\ rx[i].of # None => Awaited(rx[i].of)
  /\ \A i \in 1..Len(rx) : rx[i].kind \in Final =>
       modem = <<>> /\ \A j \in 1..Len(rx) : j > i => rx[j].of = None

\* A bit is set by the last line, for the task that has not begun to wait.
OwnFlags ==
  /\ \A x \in flags : x.bit \in Final /\ Awaited(x.of) /\ pc[x.of] = "wait"
  /\ flags # {} => modem = <<>> /\ \A i \in 1..Len(rx) : rx[i].of = None
OwnGot ==
  \A t \in Tasks : /\ \A x \in got[t] : x.of = t /\ x.bit \in Final
                   /\ got[t] # {} => pc[t] = "return"

\* The buffer of t is full, or holds one line of its answer, or two.
Told(t)  == Len(resp[t]) >= Size[t] \/ \E i \in 1..Len(resp[t]) : resp[t][i] = t
Whole(t) == \/ Len(resp[t]) >= Size[t]
            \/ \E i, j \in 1..Len(resp[t]) : i < j /\ resp[t][i] = t /\ resp[t][j] = t
TextBefore(t, n) == \E j \in 1..Len(rx) : j < n /\ rx[j].kind = "text" /\ rx[j].of = t

Measured(t) ==
  /\ pc[t] \in {"setcur", "flush", "write", "wait", "blocked", "return"} => maxLen = Size[t]
  /\ pc[t] \in {"flush", "write", "wait", "blocked", "return"} => curLen <= Len(resp[t])
Filled(t) ==
  /\ modem # <<>> /\ modem[1].said => Told(t) \/ TextBefore(t, Len(rx) + 1)
  /\ \A i \in 1..Len(rx) : rx[i].kind \in Final => Told(t) \/ TextBefore(t, i)
  /\ flags # {} \/ got[t] # {} => Whole(t)
Copied == \A t \in Tasks : buf = t => Measured(t) /\ Filled(t)

Orderly == Plain /\ InFlight /\ OwnFlags /\ OwnGot /\ Copied

\* When nobody waits, the modem owes nothing and only URCs are in the UART.
Still == /\ modem = <<>> /\ flags = {}
         /\ \A i \in 1..Len(rx) : rx[i].of = None /\ rx[i].kind = "text"

LEMMA NobodyAwaited ==
  ASSUME Orderly, \A t \in Tasks : ~Awaited(t)
  PROVE  Still
<1> USE DEF Orderly
<1>1. modem = <<>>
  BY DEF InFlight, Awaited
<1>2. \A i \in 1..Len(rx) : rx[i].of = None /\ rx[i].kind = "text"
  BY DEF InFlight, Awaited
<1>3. flags = {}
  BY DEF OwnFlags, Awaited
<1> QED BY <1>1, <1>2, <1>3 DEF Still

LEMMA StillNext ==
  ASSUME Still'
  PROVE  /\ InFlight' /\ OwnFlags'
         /\ \A t \in Tasks : got'[t] = {} => Filled(t)'
<1>1. modem' = <<>> /\ flags' = {} /\ \A i \in 1..Len(rx') : rx'[i].of = None /\ rx'[i].kind = "text"
  BY DEF Still
<1>2. \A i \in 1..Len(rx') : rx'[i].kind \notin Final /\ rx'[i].kind # "PROMPT"
  BY <1>1 DEF Final
<1> QED BY <1>1, <1>2 DEF InFlight, OwnFlags, Filled

\* Outside the waits the task that holds the mutex has nothing to expect.
LEMMA CallerStill ==
  ASSUME TypeOK, BufferOwned, Orderly, NEW t \in Tasks,
         pc[t] \in {"lock", "setbuf", "setmax", "setcur", "flush", "write", "return"},
         pc[t] = "lock" => owner = None
  PROVE  Still /\ (pc[t] # "lock" => owner = t)
<1>1. pc[t] # "lock" => owner = t
  BY DEF BufferOwned, InCall
<1>2. \A u \in Tasks : ~Awaited(u)
  BY <1>1, ConstFacts DEF Awaited
<1> QED BY <1>1, <1>2, NobodyAwaited

\* A step of a call before its command is written.
LEMMA BeforeWrite ==
  ASSUME TypeOK, BufferOwned, Orderly, Punctual, NEW t \in Tasks,
         \/ Lock(t) \/ SetBuf(t) \/ SetMax(t) \/ SetCur(t) \/ Flush(t)
  PROVE  Orderly'
<1> USE DEF Orderly, modemVars
<1>1. Still /\ (pc[t] # "lock" => owner = t)
  BY CallerStill DEF Lock, SetBuf, SetMax, SetCur, Flush
<1>2. Still'
  <2>1. modem' = modem /\ flags' \in {flags, {}} /\ rx' \in {rx, <<>>}
    BY DEF Lock, SetBuf, SetMax, SetCur, Flush, hostVars
  <2> QED BY <1>1, <2>1 DEF Still
<1>3. /\ pc' = [pc EXCEPT ![t] = pc'[t]] /\ UNCHANGED <<call, got, prompt>>
      /\ pc'[t] \in {"setbuf", "setmax", "setcur", "flush", "write"}
      /\ pc[t] # "return"
  BY DEF Lock, SetBuf, SetMax, SetCur, Flush, hostVars, TypeOK
<1>4. Plain'
  BY <1>3 DEF Plain, InCall, TypeOK
<1>5. OwnGot'
  BY <1>3 DEF OwnGot, TypeOK
<1>6. \A u \in Tasks : buf' = u => u = t /\ got'[u] = {}
  BY <1>1, <1>3, ConstFacts
  DEF BufferOwned, OwnGot, Lock, SetBuf, SetMax, SetCur, Flush, hostVars
<1>7. ASSUME buf' = t PROVE Measured(t)'
  <2>1. CASE Lock(t)
    BY <2>1, <1>7, ConstFacts DEF Lock, BufferOwned
  <2>2. CASE SetBuf(t)
    <3>1. pc'[t] \in {"setmax", "flush"} /\ (buf' = t => pc'[t] = "setmax")
      BY <2>2, ConstFacts DEF SetBuf, TypeOK
    <3> QED BY <1>7, <3>1 DEF Measured
  <2>3. CASE SetMax(t)
    <3>1. pc'[t] = "setcur" /\ maxLen' = Size[t]
      BY <2>3 DEF SetMax, TypeOK
    <3> QED BY <3>1 DEF Measured
  <2>4. CASE SetCur(t)
    <3>1. buf = t /\ curLen' = 0 /\ UNCHANGED <<maxLen, resp>> /\ pc[t] = "setcur"
      BY <2>4, <1>7 DEF SetCur
    <3>2. Len(resp[t]) \in Nat
      BY DEF TypeOK
    <3> QED BY <3>1, <3>2 DEF Measured, Copied
  <2>5. CASE Flush(t)
    <3>1. buf = t /\ UNCHANGED <<maxLen, curLen, resp>> /\ pc[t] = "flush"
      BY <2>5, <1>7 DEF Flush, hostVars
    <3> QED BY <3>1 DEF Measured, Copied
  <2> QED BY <2>1, <2>2, <2>3, <2>4, <2>5
<1>8. Copied'
  <2>1. ASSUME NEW u \in Tasks, buf' = u PROVE Measured(u)' /\ Filled(u)'
    BY <1>2, <1>6, <1>7, <2>1, StillNext
  <2> QED BY <2>1 DEF Copied
<1> QED BY <1>2, <1>4, <1>5, <1>8, StillNext

\* A call begins, or gives up the mutex it did not get.
LEMMA OutsideCall ==
  ASSUME TypeOK, BufferOwned, Orderly, NEW t \in Tasks, Start(t) \/ LockTimeout(t)
  PROVE  Orderly'
<1> USE DEF Orderly, modemVars, hostVars
<1>1. /\ UNCHANGED <<owner, flags, buf, maxLen, curLen, resp, got, rx, modem, prompt>>
      /\ pc[t] \in {"idle", "lock"} /\ pc'[t] \in {"idle", "lock"}
      /\ \A u \in Tasks : u # t => pc'[u] = pc[u]
      /\ \A u \in Tasks : call'[u] = "plain"
  BY DEF Start, LockTimeout, TypeOK, Plain
<1>2. owner # t /\ buf # t /\ got[t] = {}
  BY <1>1, ConstFacts DEF BufferOwned, InCall, OwnGot
<1>3. \A u : Awaited(u)' <=> Awaited(u)
  BY <1>1, <1>2 DEF Awaited
<1>4. Plain'
  BY <1>1 DEF Plain
<1>5. InFlight'
  BY <1>1, <1>3 DEF InFlight
<1>6. OwnFlags'
  <2>1. \A x \in flags : pc'[x.of] = "wait"
    BY <1>1, <1>2 DEF OwnFlags, Awaited
  <2> QED BY <1>1, <1>3, <2>1 DEF OwnFlags
<1>7. OwnGot'
  BY <1>1, <1>2 DEF OwnGot
<1>8. Copied'
  <2>1. ASSUME NEW u \in Tasks, buf' = u PROVE Measured(u)' /\ Filled(u)'
    <3>1. u # t /\ buf = u /\ pc'[u] = pc[u]
      BY <1>1, <1>2, <2>1
    <3>2. Measured(u) /\ Filled(u)
      BY <3>1 DEF Copied
    <3> QED BY <1>1, <3>1, <3>2 DEF Measured, Filled, Told, Whole, TextBefore
  <2> QED BY <2>1 DEF Copied
<1> QED BY <1>4, <1>5, <1>6, <1>7, <1>8

\* The command goes out: the modem owes the call one answer and nothing else.
LEMMA WriteOrderly ==
  ASSUME TypeOK, BufferOwned, Orderly, NEW t \in Tasks, Write(t)
  PROVE  Orderly'
<1> USE DEF Orderly
<1> DEFINE query == [kind |-> "command", of |-> t, said |-> FALSE]
<1>1. Still /\ owner = t
  BY CallerStill DEF Write
<1>2. /\ pc' = [pc EXCEPT ![t] = "wait"] /\ pc'[t] = "wait"
      /\ UNCHANGED <<owner, buf, maxLen, curLen, call, got, prompt>>
  BY DEF Write, TypeOK
<1>3. Awaited(t)'
  BY <1>1, <1>2 DEF Awaited
<1>4. modem' \in {<<>>, <<query>>}
  <2>1. modem = <<>> /\ OlderSeq(<<>>, t) = <<>> /\ Append(<<>>, query) = <<query>>
    BY <1>1 DEF Still, OlderSeq
  <2> QED BY <2>1 DEF Write, WriteToModem
<1>5. modem' # <<>> => /\ Len(modem') = 1 /\ modem'[1].kind = "command"
                       /\ modem'[1].of = t /\ ~modem'[1].said
  BY <1>4
<1>6. /\ Len(rx') = Len(rx)
      /\ \A i \in 1..Len(rx') : rx'[i].of = None /\ rx'[i].kind = "text"
  <2>1. rx' = OlderSeq(rx, t) /\ Len(rx) \in Nat
    BY DEF Write, WriteToModem, TypeOK
  <2>2. Len(rx') = Len(rx) /\ \A i \in 1..Len(rx) : rx'[i] = Older(rx[i], t)
    BY <2>1 DEF OlderSeq
  <2>3. \A i \in 1..Len(rx) : Older(rx[i], t) = rx[i]
    BY <1>1, ConstFacts DEF Older, Still
  <2> QED BY <1>1, <2>2, <2>3 DEF Still
<1>7. flags' = {}
  BY <1>1 DEF Write, WriteToModem, Still
<1>8. /\ resp'[t] = [i \in 1..Len(resp[t]) |-> None] /\ Len(resp'[t]) = Len(resp[t])
  <2>1. Len(resp[t]) \in Nat
    BY DEF TypeOK
  <2> QED BY <2>1 DEF Write, WriteToModem, TypeOK
<1>9. Plain'
  BY <1>2 DEF Plain, InCall, TypeOK
<1>10. InFlight'
  <2>1. \A i \in 1..Len(rx') : rx'[i].kind \notin Final /\ rx'[i].kind # "PROMPT"
    BY <1>6 DEF Final
  <2> QED BY <1>3, <1>5, <1>6, <2>1 DEF InFlight
<1>11. OwnFlags'
  BY <1>7 DEF OwnFlags
<1>12. OwnGot' /\ got'[t] = {}
  BY <1>2, ZenonT(40) DEF OwnGot, Write, TypeOK
<1>13. Copied'
  <2>1. ASSUME NEW u \in Tasks, buf' = u PROVE Measured(u)' /\ Filled(u)'
    <3>1. u = t /\ buf = t
      BY <1>1, <1>2, <2>1, ConstFacts DEF BufferOwned
    <3>2. Measured(t) /\ pc[t] = "write"
      BY <3>1 DEF Copied, Write
    <3>3. Measured(t)'
      BY <1>2, <1>8, <3>2 DEF Measured
    <3>4. Filled(t)'
      <4>1. \A i \in 1..Len(rx') : rx'[i].kind \notin Final
        BY <1>6 DEF Final
      <4> QED BY <1>5, <1>7, <1>12, <4>1 DEF Filled
    <3> QED BY <3>1, <3>3, <3>4
  <2> QED BY <2>1 DEF Copied
<1> QED BY <1>9, <1>10, <1>11, <1>12, <1>13

\* The wait ends at once with the bits of the last line, or begins.
LEMMA WaitOrderly ==
  ASSUME TypeOK, BufferOwned, Orderly, NEW t \in Tasks, Wait(t)
  PROVE  Orderly'
<1> USE DEF Orderly, modemVars
<1>1. pc[t] = "wait" /\ owner = t /\ Mask(pc[t]) = Final
  <2>1. pc[t] = "wait"
    BY DEF Wait, Plain, InCall
  <2> QED BY <2>1 DEF BufferOwned, InCall, Mask
<1>2. UNCHANGED <<owner, buf, maxLen, curLen, resp, call, rx, modem, prompt>>
  BY DEF Wait
<1>3. AfterWait(pc[t]) = "return" /\ ToBlocked(pc[t]) = "blocked"
  BY <1>1, WaitStates
<1>4. \A x \in flags : x.bit \in Final /\ x.of = t
  BY <1>1 DEF OwnFlags, Awaited
<1>5. \A u \in Tasks : buf = u => u = t
  BY <1>1, ConstFacts DEF BufferOwned
<1>6. got[t] = {}
  BY <1>1 DEF OwnGot
<1>7. CASE flags # {}
  <2>1. \E b \in Mask(pc[t]) : HasBit(flags, b)
    BY <1>1, <1>4, <1>7 DEF HasBit
  <2>2. /\ got' = [got EXCEPT ![t] = flags]
        /\ flags' = {x \in flags : x.bit \notin Mask(pc[t])}
        /\ pc' = [pc EXCEPT ![t] = "return"]
    BY <1>3, <2>1 DEF Wait
  <2>3. flags' = {}
    BY <1>1, <1>4, <2>2
  <2>4. Still'
    <3>1. modem = <<>> /\ \A i \in 1..Len(rx) : rx[i].of = None
      BY <1>7 DEF OwnFlags
    <3> QED BY <1>2, <2>3, <3>1 DEF Still, InFlight
  <2>5. got'[t] = flags /\ pc'[t] = "return" /\ \A u \in Tasks : u # t => got'[u] = got[u] /\ pc'[u] = pc[u]
    BY <2>2 DEF TypeOK
  <2>6. Plain'
    BY <1>2, <2>5 DEF Plain, InCall
  <2>7. OwnGot'
    BY <1>4, <2>5 DEF OwnGot
  <2>8. Copied'
    <3>1. ASSUME NEW u \in Tasks, buf' = u PROVE Measured(u)' /\ Filled(u)'
      <4>1. u = t /\ buf = t
        BY <1>2, <1>5, <3>1
      <4>2. Measured(t) /\ Whole(t)
        BY <1>7, <4>1 DEF Copied, Filled
      <4>3. Measured(t)'
        BY <1>1, <1>2, <4>2 DEF Measured
      <4>4. Whole(t)'
        BY <1>2, <4>2 DEF Whole
      <4>5. Filled(t)'
        <5>1. \A i \in 1..Len(rx') : rx'[i].kind \notin Final
          BY <2>4 DEF Still, Final
        <5> QED BY <2>4, <4>4, <5>1 DEF Filled, Still
      <4> QED BY <4>1, <4>3, <4>5
    <3> QED BY <3>1 DEF Copied
  <2> QED BY <2>4, <2>6, <2>7, <2>8, StillNext
<1>8. CASE flags = {}
  <2>1. ~\E b \in Mask(pc[t]) : HasBit(flags, b)
    BY <1>8 DEF HasBit
  <2>2. UNCHANGED <<got, flags>> /\ pc' = [pc EXCEPT ![t] = "blocked"]
    BY <1>3, <2>1 DEF Wait
  <2>3. pc'[t] = "blocked" /\ \A u \in Tasks : u # t => pc'[u] = pc[u]
    BY <2>2 DEF TypeOK
  <2>4. \A u : Awaited(u)' <=> Awaited(u)
    BY <1>1, <1>2, <2>3 DEF Awaited
  <2>5. Plain'
    BY <1>2, <2>3 DEF Plain, InCall
  <2>6. InFlight'
    BY <1>2, <2>4 DEF InFlight
  <2>7. OwnFlags'
    BY <1>8, <2>2 DEF OwnFlags
  <2>8. OwnGot'
    BY <1>6, <2>2, <2>3 DEF OwnGot
  <2>9. Copied'
    <3>1. ASSUME NEW u \in Tasks, buf' = u PROVE Measured(u)' /\ Filled(u)'
      <4>1. u = t /\ buf = t
        BY <1>2, <1>5, <3>1
      <4>2. Measured(t) /\ Filled(t)
        BY <4>1 DEF Copied
      <4>3. Measured(t)'
        BY <1>1, <1>2, <4>2 DEF Measured
      <4>4. Filled(t)'
        BY <1>2, <2>2, <4>2 DEF Filled, Told, Whole, TextBefore
      <4> QED BY <4>1, <4>3, <4>4
    <3> QED BY <3>1 DEF Copied
  <2> QED BY <2>5, <2>6, <2>7, <2>8, <2>9
<1> QED BY <1>7, <1>8

\* A call that times out has nothing more to expect.
LEMMA TimeoutOrderly ==
  ASSUME TypeOK, BufferOwned, Orderly, Punctual, NEW t \in Tasks, WaitTimeout(t)
  PROVE  Orderly'
<1> USE DEF Orderly, modemVars, hostVars
<1>1. pc[t] = "blocked" /\ owner = t
  <2>1. pc[t] = "blocked"
    BY DEF WaitTimeout, Plain, Blocked, InCall
  <2> QED BY <2>1 DEF BufferOwned, InCall
<1>2. UNCHANGED <<owner, flags, buf, maxLen, curLen, resp, call, rx, modem, prompt>>
  BY DEF WaitTimeout
<1>3. pc' = [pc EXCEPT ![t] = "return"] /\ got' = [got EXCEPT ![t] = {}]
  BY <1>1, WaitStates DEF WaitTimeout
<1>4. /\ pc'[t] = "return" /\ got'[t] = {}
      /\ \A u \in Tasks : u # t => pc'[u] = pc[u] /\ got'[u] = got[u]
  BY <1>3 DEF TypeOK
<1>5. Still'
  <2>1. ~AnswerDue(t)
    BY DEF WaitTimeout, Punctual
  <2>2. \A u : Awaited(u) => u = t
    BY <1>1 DEF Awaited
  <2>3. modem = <<>>
    <3>1. modem # <<>> => Len(modem) = 1 /\ modem[1].of = t
      BY <2>2 DEF InFlight
    <3> QED BY <2>1, <3>1 DEF AnswerDue
  <2>4. \A i \in 1..Len(rx) : rx[i].of = None /\ rx[i].kind = "text"
    <3>1. \A i \in 1..Len(rx) : rx[i].of # None => rx[i].of = t
      BY <2>2 DEF InFlight
    <3> QED BY <2>1, <3>1 DEF AnswerDue, InFlight
  <2>5. flags = {}
    BY <1>1, <2>2 DEF OwnFlags
  <2> QED BY <1>2, <2>3, <2>4, <2>5 DEF Still
<1>6. Plain'
  BY <1>2, <1>4 DEF Plain, InCall
<1>7. OwnGot'
  BY <1>4 DEF OwnGot
<1>8. Copied'
  <2>1. ASSUME NEW u \in Tasks, buf' = u PROVE Measured(u)' /\ Filled(u)'
    <3>1. u = t /\ buf = t
      BY <1>1, <1>2, <2>1, ConstFacts DEF BufferOwned
    <3>2. Measured(t)'
      BY <1>1, <1>2, <3>1 DEF Copied, Measured
    <3> QED BY <1>4, <1>5, <3>1, <3>2, StillNext
  <2> QED BY <2>1 DEF Copied
<1> QED BY <1>5, <1>6, <1>7, <1>8, StillNext

\* The mutex is given back with nothing on its way.
LEMMA ReturnOrderly ==
  ASSUME TypeOK, BufferOwned, Orderly, NEW t \in Tasks, Return(t)
  PROVE  Orderly'
<1> USE DEF Orderly, modemVars
<1>1. Still
  BY CallerStill DEF Return
<1>2. UNCHANGED <<flags, rx, modem, call, prompt>> /\ buf' = None
  BY DEF Return
<1>3. /\ pc'[t] = "idle" /\ got'[t] = {}
      /\ \A u \in Tasks : u # t => pc'[u] = pc[u] /\ got'[u] = got[u]
  BY DEF Return, TypeOK, Plain
<1>4. Still'
  BY <1>1, <1>2 DEF Still
<1>5. Plain'
  BY <1>2, <1>3 DEF Plain
<1>6. OwnGot'
  BY <1>3 DEF OwnGot
<1>7. Copied'
  BY <1>2, ConstFacts DEF Copied
<1> QED BY <1>4, <1>5, <1>6, <1>7, StillNext

\* A line of the modem goes behind those that wait in the UART.
LEMMA SaidLast ==
  ASSUME TypeOK, NEW kind, NEW of, Say(kind, of)
  PROVE  /\ Len(rx) \in Nat /\ Len(rx') = Len(rx) + 1
         /\ \A i \in 1..Len(rx) : rx'[i] = rx[i]
         /\ rx'[Len(rx) + 1].kind = kind /\ rx'[Len(rx) + 1].of = of
         /\ \A i \in 1..Len(rx') : i \in 1..Len(rx) \/ i = Len(rx) + 1
         /\ \A u, n : TextBefore(u, n) => TextBefore(u, n)'
<1> DEFINE l == [kind |-> kind, of |-> of]
<1>1. Len(rx) \in Nat
  BY DEF TypeOK
<1>2. /\ Len(rx') = Len(rx) + 1 /\ rx'[Len(rx) + 1] = l
      /\ \A i \in 1..Len(rx) : rx'[i] = rx[i]
  BY DEF Say, TypeOK
<1>3. l.kind = kind /\ l.of = of
  OBVIOUS
<1> HIDE DEF l
<1>4. \A i \in 1..Len(rx') : i \in 1..Len(rx) \/ i = Len(rx) + 1
  BY <1>1, <1>2
<1>5. \A u, n : TextBefore(u, n) => TextBefore(u, n)'
  <2>1. \A j \in 1..Len(rx) : j \in 1..Len(rx')
    BY <1>1, <1>2
  <2> QED BY <1>2, <2>1 DEF TextBefore
<1> QED BY <1>1, <1>2, <1>3, <1>4, <1>5

\* Whatever the modem says or leaves unsaid, it is about the call in progress.
LEMMA ModemOrderly ==
  ASSUME TypeOK, BufferOwned, Orderly, ModemStep
  PROVE  Orderly'
<1> USE DEF Orderly
<1>1. modem # <<>> => /\ Len(modem) = 1 /\ modem[1].kind = "command"
                      /\ Awaited(modem[1].of) /\ flags = {}
                      /\ \A i \in 1..Len(rx) : rx[i].kind \notin Final
  BY DEF InFlight, OwnFlags
<1>2. /\ UNCHANGED <<owner, flags, buf, maxLen, curLen, resp, pc, call, got, prompt>>
      /\ ~ModemPrompt
  BY <1>1 DEF ModemStep, ModemText, ModemFinal, ModemPrompt, ModemSilent, ModemUrc,
              hostVars, taskVars, modemVars
<1>3. \A u : /\ Awaited(u)' <=> Awaited(u)
             /\ Told(u)' <=> Told(u)
             /\ Whole(u)' <=> Whole(u)
  BY <1>2 DEF Awaited, Told, Whole
<1>4. Plain' /\ OwnGot' /\ \A u \in Tasks : buf' = u => Measured(u)'
  BY <1>2 DEF Plain, OwnGot, Copied, Measured
<1>5. \A u \in Tasks : buf' = u => /\ owner = u /\ Filled(u)
                                   /\ flags' # {} \/ got'[u] # {} => Whole(u)'
  BY <1>2, <1>3, ConstFacts DEF BufferOwned, Copied, Filled
<1>6. CASE ModemText
  <2>1. /\ Say("text", modem[1].of) /\ modem # <<>> /\ modem[1].of \in Tasks
        /\ modem' = [modem EXCEPT ![1].said = TRUE]
    BY <1>1, <1>6 DEF ModemText, Awaited
  <2>2. Len(modem') = 1 /\ modem'[1].kind = "command" /\ modem'[1].of = modem[1].of /\ modem' # <<>>
    <3>1. Len(modem) = 1 /\ modem \in Seq(Query) /\ modem[1] \in Query /\ modem[1].kind = "command"
      BY <1>1, <2>1 DEF TypeOK
    <3>2. modem' = [modem EXCEPT ![1] = [modem[1] EXCEPT !.said = TRUE]]
      BY <2>1
    <3>3. /\ [modem[1] EXCEPT !.said = TRUE].kind = "command"
          /\ [modem[1] EXCEPT !.said = TRUE].of = modem[1].of
      BY <3>1 DEF Query
    <3>4. Len(modem') = 1 /\ modem'[1] = [modem[1] EXCEPT !.said = TRUE]
      BY <3>1, <3>2
    <3> QED BY <3>3, <3>4
  <2>3. \A i \in 1..Len(rx') : rx'[i].kind \notin Final
    BY <1>1, <2>1, SaidLast DEF Final
  <2>4. InFlight'
    <3>1. \A i \in 1..Len(rx') : /\ rx'[i].kind # "PROMPT"
                                 /\ rx'[i].of = None => rx'[i].kind = "text"
                                 /\ rx'[i].of # None => Awaited(rx'[i].of)
      BY <1>1, <2>1, SaidLast, ConstFacts DEF InFlight
    <3> QED BY <1>1, <1>3, <2>1, <2>2, <2>3, <3>1 DEF InFlight
  <2>5. OwnFlags'
    BY <1>1, <1>2, <2>1 DEF OwnFlags
  <2>6. Copied'
    <3>1. ASSUME NEW u \in Tasks, buf' = u PROVE Filled(u)'
      <4>1. modem[1].of = u
        BY <1>1, <1>5, <2>1, <3>1 DEF Awaited
      <4>2. TextBefore(u, Len(rx) + 1)'
        <5>1. Len(rx) + 1 \in 1..Len(rx') /\ Len(rx) + 1 < Len(rx') + 1
          BY <2>1, SaidLast
        <5> QED BY <2>1, <4>1, <5>1, SaidLast DEF TextBefore
      <4> QED BY <1>5, <2>3, <3>1, <4>2 DEF Filled
    <3> QED BY <1>4, <3>1 DEF Copied
  <2> QED BY <1>4, <2>4, <2>5, <2>6
<1>7. ASSUME NEW k \in Final, ModemFinal(k) PROVE Orderly'
  <2>1. /\ Say(k, modem[1].of) /\ modem # <<>> /\ modem[1].of \in Tasks
        /\ modem[1].said /\ modem' = Tail(modem)
    BY <1>1, <1>7 DEF ModemFinal, Awaited
  <2>2. modem' = <<>>
    BY <1>1, <2>1 DEF TypeOK
  <2>3. k # "PROMPT" /\ k # "text"
    BY DEF Final
  <2>4. \A i \in 1..Len(rx') : rx'[i].kind \in Final => i = Len(rx) + 1
    BY <1>1, <2>1, SaidLast
  <2>5. InFlight'
    <3>1. \A i \in 1..Len(rx') : /\ rx'[i].kind # "PROMPT"
                                 /\ rx'[i].of = None => rx'[i].kind = "text"
                                 /\ rx'[i].of # None => Awaited(rx'[i].of)
      BY <1>1, <2>1, <2>3, SaidLast, ConstFacts DEF InFlight
    <3>2. \A j \in 1..Len(rx') : ~(j > Len(rx) + 1)
      BY <2>1, SaidLast
    <3> QED BY <1>3, <2>2, <2>4, <3>1, <3>2 DEF InFlight
  <2>6. OwnFlags'
    BY <1>1, <1>2, <2>1 DEF OwnFlags
  <2>7. Copied'
    <3>1. ASSUME NEW u \in Tasks, buf' = u PROVE Filled(u)'
      <4>1. Told(u) \/ TextBefore(u, Len(rx) + 1)
        BY <1>5, <2>1, <3>1 DEF Filled
      <4>2. Told(u)' \/ \E j \in 1..Len(rx') : j < Len(rx) + 1 /\ rx'[j].kind = "text" /\ rx'[j].of = u
        <5>1. \A j \in 1..Len(rx) : j \in 1..Len(rx') /\ rx'[j] = rx[j]
          BY <2>1, SaidLast
        <5> QED BY <1>3, <4>1, <5>1 DEF TextBefore
      <4>3. \A i \in 1..Len(rx') : rx'[i].kind \in Final => Told(u)' \/ TextBefore(u, i)'
        BY <2>4, <4>2 DEF TextBefore
      <4> QED BY <1>5, <2>2, <3>1, <4>3 DEF Filled
    <3> QED BY <1>4, <3>1 DEF Copied
  <2> QED BY <1>4, <2>5, <2>6, <2>7
<1>8. CASE ModemSilent
  <2>1. modem # <<>> /\ modem' = <<>> /\ rx' = rx
    BY <1>1, <1>8 DEF ModemSilent, TypeOK
  <2>2. InFlight'
    BY <1>3, <2>1 DEF InFlight
  <2>3. OwnFlags'
    BY <1>1, <1>2, <2>1 DEF OwnFlags
  <2>4. Copied'
    <3>1. \A u \in Tasks : buf' = u => Filled(u)'
      BY <1>1, <1>5, <2>1 DEF Filled
    <3> QED BY <1>4, <3>1 DEF Copied
  <2> QED BY <1>4, <2>2, <2>3, <2>4
<1>9. CASE ModemUrc
  <2>1. Say("text", None) /\ modem' = modem
    BY <1>9 DEF ModemUrc, modemVars
  <2>2. InFlight'
    <3>1. \A i \in 1..Len(rx') : /\ rx'[i].kind # "PROMPT"
                                 /\ rx'[i].of = None => rx'[i].kind = "text"
                                 /\ rx'[i].of # None => Awaited(rx'[i].of)
      BY <2>1, SaidLast, ConstFacts DEF InFlight
    <3>2. \A i \in 1..Len(rx') : rx'[i].kind \in Final =>
            modem = <<>> /\ \A j \in 1..Len(rx') : j > i => rx'[j].of = None
      BY <2>1, SaidLast DEF InFlight, Final
    <3> QED BY <1>3, <2>1, <3>1, <3>2 DEF InFlight
  <2>3. OwnFlags'
    <3>1. flags # {} => modem = <<>> /\ \A i \in 1..Len(rx') : rx'[i].of = None
      BY <2>1, SaidLast DEF OwnFlags
    <3>2. \A x \in flags : x.bit \in Final /\ Awaited(x.of)' /\ pc[x.of] = "wait"
      BY <1>3 DEF OwnFlags
    <3> QED BY <1>2, <2>1, <3>1, <3>2 DEF OwnFlags
  <2>4. Copied'
    <3>1. ASSUME NEW u \in Tasks, buf' = u PROVE Filled(u)'
      <4>1. modem' # <<>> /\ modem'[1].said => Told(u)' \/ TextBefore(u, Len(rx) + 1)'
        <5>1. modem # <<>> /\ modem[1].said => Told(u) \/ \E j \in 1..Len(rx) : rx[j].kind = "text" /\ rx[j].of = u
          BY <1>5, <3>1 DEF Filled, TextBefore
        <5>2. \A j \in 1..Len(rx) : j \in 1..Len(rx') /\ rx'[j] = rx[j] /\ j < Len(rx') + 1
          BY <2>1, SaidLast
        <5> QED BY <1>3, <2>1, <5>1, <5>2 DEF TextBefore
      <4>2. \A i \in 1..Len(rx') : rx'[i].kind \in Final => i \in 1..Len(rx) /\ rx[i].kind \in Final
        BY <2>1, SaidLast DEF Final
      <4>3. \A i \in 1..Len(rx') : rx'[i].kind \in Final => Told(u)' \/ TextBefore(u, i)'
        <5>1. \A i \in 1..Len(rx) : rx[i].kind \in Final => Told(u) \/ TextBefore(u, i)
          BY <1>5, <3>1 DEF Filled
        <5> QED BY <1>3, <2>1, <4>2, <5>1, SaidLast
      <4> QED BY <1>5, <3>1, <4>1, <4>3 DEF Filled
    <3> QED BY <1>4, <3>1 DEF Copied
  <2> QED BY <1>4, <2>2, <2>3, <2>4
<1> QED BY <1>2, <1>6, <1>7, <1>8, <1>9 DEF ModemStep

\* The buffer keeps its lines, and takes the next one unless it is full.
LEMMA CopyKeeps ==
  ASSUME TypeOK, NEW l \in Line, CopyLine(l), NEW u \in Tasks
  PROVE  /\ Told(u) => Told(u)'
         /\ Whole(u) => Whole(u)'
         /\ buf = u /\ curLen <= Len(resp[u]) => curLen' <= Len(resp'[u])
         /\ buf = u /\ maxLen = Size[u] /\ curLen <= Len(resp[u]) /\ l.of = u =>
              Told(u)' /\ (Told(u) => Whole(u)')
<1>1. /\ Len(resp[u]) \in Nat /\ Size[u] \in Nat /\ curLen \in Nat /\ maxLen \in Nat
      /\ resp[u] \in Seq(Who) /\ l.of \in Who
  BY ConstFacts DEF TypeOK, Line
<1>2. CASE buf = u /\ curLen < maxLen
  <2>1. resp'[u] = Append(resp[u], l.of) /\ curLen' = Len(resp[u]) + 1
    BY <1>2, ConstFacts DEF CopyLine, TypeOK
  <2>2. /\ Len(resp'[u]) = Len(resp[u]) + 1 /\ resp'[u][Len(resp[u]) + 1] = l.of
        /\ \A i \in 1..Len(resp[u]) : resp'[u][i] = resp[u][i]
    BY <1>1, <2>1
  <2>3. \A i \in 1..Len(resp[u]) : i \in 1..Len(resp'[u]) /\ i < Len(resp[u]) + 1
    BY <1>1, <2>2
  <2>4. Len(resp[u]) + 1 \in 1..Len(resp'[u])
    BY <1>1, <2>2
  <2>5. Told(u) => Told(u)'
    BY <1>1, <2>2, <2>3 DEF Told
  <2>6. Whole(u) => Whole(u)'
    BY <1>1, <2>2, <2>3, SMTT(30) DEF Whole
  <2>7. l.of = u => Told(u)'
    BY <2>2, <2>4 DEF Told
  <2>8. l.of = u /\ Told(u) => Whole(u)'
    <3>1. CASE Len(resp[u]) >= Size[u]
      BY <1>1, <2>2, <3>1 DEF Whole
    <3>2. ASSUME NEW i \in 1..Len(resp[u]), resp[u][i] = u, l.of = u
          PROVE  Whole(u)'
      BY <2>2, <2>3, <2>4, <3>2 DEF Whole
    <3> QED BY <3>1, <3>2 DEF Told
  <2> QED BY <1>1, <2>1, <2>2, <2>5, <2>6, <2>7, <2>8
<1>3. CASE ~(buf = u /\ curLen < maxLen)
  <2>1. resp'[u] = resp[u] /\ (buf = u => curLen' = curLen)
    BY <1>3 DEF CopyLine, TypeOK
  <2>2. maxLen = Size[u] /\ curLen <= Len(resp[u]) /\ buf = u => Len(resp[u]) >= Size[u]
    BY <1>1, <1>3
  <2>3. (Told(u)' <=> Told(u)) /\ (Whole(u)' <=> Whole(u))
    BY <2>1 DEF Told, Whole
  <2>4. Len(resp[u]) >= Size[u] => Told(u) /\ Whole(u)
    BY DEF Told, Whole
  <2> QED BY <2>1, <2>2, <2>3, <2>4
<1> QED BY <1>2, <1>3

\* The lines behind the first one move up.
LEMMA ReadFirst ==
  ASSUME TypeOK, ReadLine
  PROVE  /\ rx[1] \in Line /\ 1 \in 1..Len(rx) /\ Head(rx) = rx[1]
         /\ Len(rx) \in Nat /\ Len(rx') = Len(rx) - 1
         /\ \A i \in 1..Len(rx') : i + 1 \in 1..Len(rx) /\ rx'[i] = rx[i + 1]
         /\ \A u, n : n \in Nat /\ TextBefore(u, n + 1) =>
              (rx[1].kind = "text" /\ rx[1].of = u) \/ TextBefore(u, n)'
<1>1. rx \in Seq(Line) /\ rx # <<>> /\ rx' = Tail(rx)
  BY DEF ReadLine, TypeOK
<1>2. /\ rx[1] \in Line /\ 1 \in 1..Len(rx) /\ Head(rx) = rx[1]
      /\ Len(rx) \in Nat /\ Len(rx') = Len(rx) - 1
      /\ \A i \in 1..Len(rx') : i + 1 \in 1..Len(rx) /\ rx'[i] = rx[i + 1]
  BY <1>1
<1>3. ASSUME NEW u, NEW n \in Nat, NEW j \in 1..Len(rx), j < n + 1, j # 1,
             rx[j].kind = "text", rx[j].of = u
      PROVE  TextBefore(u, n)'
  <2>1. j - 1 \in 1..Len(rx') /\ j - 1 < n /\ (j - 1) + 1 = j
    BY <1>2, <1>3
  <2>2. rx'[j - 1] = rx[j]
    BY <1>2, <2>1
  <2> QED BY <1>3, <2>1, <2>2 DEF TextBefore
<1>4. ASSUME NEW u, NEW n \in Nat, TextBefore(u, n + 1)
      PROVE  (rx[1].kind = "text" /\ rx[1].of = u) \/ TextBefore(u, n)'
  BY <1>3, <1>4 DEF TextBefore
<1> QED BY <1>2, <1>4

\* A line before the last one of the answer, or a URC.
LEMMA TextRead ==
  ASSUME TypeOK, BufferOwned, Orderly, ReadLine, rx[1].kind = "text"
  PROVE  Orderly'
<1> USE DEF Orderly
<1>1. /\ UNCHANGED <<owner, flags, buf, maxLen, pc, call, got, modem, prompt>>
      /\ CopyLine(rx[1])
  BY ReadFirst DEF ReadLine, modemVars
<1>2. \A u : Awaited(u)' <=> Awaited(u)
  BY <1>1 DEF Awaited
<1>3. Plain' /\ OwnGot'
  BY <1>1 DEF Plain, OwnGot
<1>4. InFlight'
  <2>1. modem' # <<>> => Len(modem') = 1 /\ modem'[1].kind = "command" /\ Awaited(modem'[1].of)
    BY <1>1, <1>2 DEF InFlight
  <2>2. \A i \in 1..Len(rx') : /\ rx'[i].kind # "PROMPT"
                               /\ rx'[i].of = None => rx'[i].kind = "text"
                               /\ rx'[i].of # None => Awaited(rx'[i].of)
    BY ReadFirst DEF InFlight
  <2>3. ASSUME NEW i \in 1..Len(rx'), rx'[i].kind \in Final
        PROVE  modem' = <<>> /\ \A j \in 1..Len(rx') : j > i => rx'[j].of = None
    <3>1. i + 1 \in 1..Len(rx) /\ rx[i + 1].kind \in Final
      BY <2>3, ReadFirst
    <3>2. modem = <<>> /\ \A j \in 1..Len(rx) : j > i + 1 => rx[j].of = None
      BY <3>1 DEF InFlight
    <3>3. \A j \in 1..Len(rx') : j > i => j + 1 > i + 1
      BY ReadFirst
    <3> QED BY <1>1, <3>2, <3>3, ReadFirst
  <2> QED BY <1>2, <2>1, <2>2, <2>3 DEF InFlight
<1>5. OwnFlags'
  BY <1>1, <1>2, ReadFirst DEF OwnFlags
<1>6. Copied'
  <2>1. ASSUME NEW u \in Tasks, buf' = u PROVE Measured(u)' /\ Filled(u)'
    <3>1. buf = u /\ owner = u /\ Measured(u) /\ Filled(u)
      BY <1>1, <2>1, ConstFacts DEF BufferOwned, Copied
    <3>2. Measured(u)'
      BY <1>1, <3>1, CopyKeeps, ReadFirst DEF Measured
    <3>3. rx[1].of = u => Told(u)'
      <4>1. rx[1].of = u => pc[u] \in {"wait", "blocked"}
        BY ReadFirst, ConstFacts DEF InFlight, Awaited
      <4> QED BY <1>1, <3>1, <4>1, CopyKeeps, ReadFirst DEF Measured
    <3>4. \A n \in Nat : Told(u) \/ TextBefore(u, n + 1) => Told(u)' \/ TextBefore(u, n)'
      BY <1>1, <3>3, CopyKeeps, ReadFirst
    <3>5. modem' # <<>> /\ modem'[1].said => Told(u)' \/ TextBefore(u, Len(rx) + 1)'
      <4>1. Len(rx') + 1 = Len(rx) /\ Len(rx) \in Nat
        BY ReadFirst
      <4>2. Told(u) \/ TextBefore(u, Len(rx) + 1) => Told(u)' \/ TextBefore(u, Len(rx) + 1)'
        BY <3>4, <4>1 DEF TextBefore
      <4> QED BY <1>1, <3>1, <4>2 DEF Filled
    <3>6. ASSUME NEW i \in 1..Len(rx'), rx'[i].kind \in Final
          PROVE  Told(u)' \/ TextBefore(u, i)'
      <4>1. i + 1 \in 1..Len(rx) /\ rx[i + 1].kind \in Final /\ i \in Nat
        BY <3>6, ReadFirst
      <4>2. Told(u) \/ TextBefore(u, i + 1)
        BY <3>1, <4>1 DEF Filled
      <4> QED BY <3>4, <4>1, <4>2
    <3>7. flags' # {} \/ got'[u] # {} => Whole(u)'
      BY <1>1, <3>1, CopyKeeps, ReadFirst DEF Filled
    <3>8. Filled(u)'
      BY <3>5, <3>6, <3>7 DEF Filled
    <3> QED BY <3>2, <3>8
  <2> QED BY <2>1 DEF Copied
<1> QED BY <1>3, <1>4, <1>5, <1>6

\* The last line of the answer: its bit ends the wait, or the next one.
LEMMA FinalRead ==
  ASSUME TypeOK, BufferOwned, Orderly, ReadLine,
         NEW t \in Tasks, NEW k \in Final, rx[1] = [kind |-> k, of |-> t]
  PROVE  Orderly'
<1> USE DEF Orderly
<1> DEFINE f == {[bit |-> k, of |-> t]}
<1>1. rx[1].kind = k /\ rx[1].of = t /\ t # None /\ k # "text" /\ k # "PROMPT" /\ Awaited(t)
  <2>1. rx[1].kind = k /\ rx[1].of = t /\ t # None
    BY ConstFacts
  <2> QED BY <2>1, ReadFirst DEF Final, InFlight
<1>2. modem = <<>> /\ \A i \in 1..Len(rx') : rx'[i].of = None /\ rx'[i].kind = "text"
  <2>1. modem = <<>> /\ \A j \in 1..Len(rx) : j > 1 => rx[j].of = None
    BY <1>1, ReadFirst DEF InFlight
  <2>2. \A i \in 1..Len(rx') : i + 1 > 1
    BY ReadFirst
  <2> QED BY <2>1, <2>2, ReadFirst DEF InFlight
<1>3. flags = {}
  BY <1>1, ReadFirst DEF OwnFlags
<1>4. /\ UNCHANGED <<owner, buf, maxLen, call, modem, prompt>>
      /\ CopyLine(rx[1]) /\ SetBit(k, t)
  BY <1>1, ReadFirst DEF ReadLine, modemVars
<1>5. t \in Tasks /\ owner = t /\ pc[t] \in {"wait", "blocked"} /\ got[t] = {}
  BY <1>1 DEF Awaited, OwnGot
<1>6. \A u \in Tasks : u # t => pc[u] \notin Blocked
  BY <1>5 DEF Plain, BufferOwned, Blocked, InCall
<1>7. Mask("blocked") = Final /\ AfterWait("blocked") = "return"
  BY WaitStates DEF Mask, Final
<1>8. \A u \in Tasks : buf' = u => u = t /\ Whole(t)'
  <2>1. ASSUME NEW u \in Tasks, buf' = u PROVE u = t /\ Whole(t)'
    <3>1. u = t /\ buf = t
      BY <1>4, <1>5, <2>1, ConstFacts DEF BufferOwned
    <3>2. Measured(t) /\ Filled(t)
      BY <3>1, <1>5 DEF Copied
    <3>3. Told(t)
      <4>1. ~TextBefore(t, 1)
        BY ReadFirst DEF TextBefore
      <4> QED BY <1>1, <3>2, <4>1, ReadFirst DEF Filled
    <3> QED BY <1>4, <1>5, <3>1, <3>2, <3>3, CopyKeeps, ReadFirst DEF Measured
  <2> QED BY <2>1
<1>9. ASSUME pc'[t] \in {"wait", "return"}, buf' = t PROVE Measured(t)'
  <2>1. buf = t /\ Measured(t)
    BY <1>4, <1>5, <1>9 DEF Copied
  <2>2. maxLen = Size[t] /\ curLen <= Len(resp[t])
    BY <1>5, <2>1 DEF Measured
  <2> QED BY <1>4, <1>5, <2>1, <2>2, CopyKeeps, ReadFirst DEF Measured
<1>10. \A i \in 1..Len(rx') : rx'[i].kind \notin Final /\ rx'[i].kind # "PROMPT"
  BY <1>2 DEF Final
<1>11. CASE pc[t] = "blocked"
  <2>1. \A u \in Tasks : pc[u] \in Blocked /\ k \in Mask(pc[u]) <=> u = t
    BY <1>1, <1>5, <1>6, <1>7, <1>11 DEF Blocked
  <2>2. /\ got'[t] = f /\ pc'[t] = "return" /\ flags' = {}
        /\ \A u \in Tasks : u # t => got'[u] = got[u] /\ pc'[u] = pc[u]
    <3>1. flags \cup f = f
      BY <1>3
    <3>2. \A x \in f : x.bit = k
      OBVIOUS
    <3> QED BY <1>1, <1>4, <1>5, <1>7, <1>11, <2>1, <3>1, <3>2 DEF SetBit
  <2>3. Still'
    BY <1>2, <1>4, <2>2 DEF Still
  <2>4. Plain'
    BY <1>4, <2>2 DEF Plain, InCall
  <2>5. OwnGot'
    <3>1. \A x \in f : x.of = t /\ x.bit \in Final
      BY <1>1
    <3> QED BY <2>2, <3>1 DEF OwnGot
  <2>6. Copied'
    <3>1. \A u \in Tasks : buf' = u => Measured(u)' /\ Filled(u)'
      BY <1>4, <1>2, <1>8, <1>9, <1>10, <2>2 DEF Filled
    <3> QED BY <3>1 DEF Copied
  <2> QED BY <2>3, <2>4, <2>5, <2>6, StillNext
<1>12. CASE pc[t] = "wait"
  <2>1. \A u \in Tasks : pc[u] \notin Blocked
    BY <1>6, <1>12 DEF Blocked
  <2>2. /\ flags' = f
        /\ \A u \in Tasks : got'[u] = got[u] /\ pc'[u] = pc[u]
    <3>1. flags \cup f = f
      BY <1>3
    <3> QED BY <1>4, <2>1, <3>1 DEF SetBit
  <2>3. \A x \in f : x.of = t /\ x.bit \in Final
    BY <1>1
  <2>4. Awaited(t)'
    BY <1>4, <1>5, <2>2 DEF Awaited
  <2>5. InFlight'
    BY <1>2, <1>4, <1>10 DEF InFlight
  <2>6. OwnFlags'
    BY <1>2, <1>4, <1>5, <1>12, <2>2, <2>3, <2>4 DEF OwnFlags
  <2>7. Plain' /\ OwnGot'
    BY <1>4, <2>2 DEF Plain, OwnGot
  <2>8. Copied'
    <3>1. \A u \in Tasks : buf' = u => Measured(u)' /\ Filled(u)'
      BY <1>2, <1>4, <1>5, <1>8, <1>9, <1>10, <1>12, <2>2 DEF Filled
    <3> QED BY <3>1 DEF Copied
  <2> QED BY <2>5, <2>6, <2>7, <2>8
<1> QED BY <1>5, <1>11, <1>12

LEMMA OrderlyStep ==
  TypeOK /\ BufferOwned /\ Orderly /\ Punctual /\ [Next]_vars => Orderly'
<1> SUFFICES ASSUME TypeOK, BufferOwned, Orderly, Punctual, [Next]_vars
             PROVE  Orderly'
  OBVIOUS
<1>1. ASSUME NEW t \in Tasks, Start(t) \/ StartSms(t) PROVE Orderly'
  BY <1>1, OutsideCall DEF StartSms, Punctual
<1>2. ASSUME NEW t \in Tasks, CallStep(t) PROVE Orderly'
  BY <1>2, BeforeWrite, OutsideCall, WriteOrderly, WaitOrderly, TimeoutOrderly, ReturnOrderly
  DEF CallStep
<1>3. ASSUME NEW t \in Tasks, SmsStep(t) PROVE FALSE
  <2>1. pc[t] \in InSms
    BY <1>3 DEF SmsStep, SmsClear, SmsCommand, SmsCommandTimeout, Prompted, SmsBody,
                SmsCtrlZ, SmsFinal, CallFrom, InSms
  <2>2. InSms \cap ({"idle", "lock"} \cup InCall) = {}
    BY DEF InSms, InCall
  <2> QED BY <2>1, <2>2 DEF Orderly, Plain
<1>4. CASE ReadLine
  <2>1. CASE rx[1].kind = "text"
    BY <1>4, <2>1, TextRead
  <2>2. CASE rx[1].kind # "text"
    <3>1. rx[1] \in Line /\ 1 \in 1..Len(rx)
      BY <1>4, ReadFirst
    <3>2. rx[1].kind \in Final /\ rx[1].of \in Tasks
      BY <2>2, <3>1 DEF Orderly, InFlight, Awaited, Line, Bits, Final, Who
    <3>3. rx[1] = [kind |-> rx[1].kind, of |-> rx[1].of]
      BY <3>1 DEF Line
    <3> QED BY <1>4, <3>2, <3>3, FinalRead
  <2> QED BY <2>1, <2>2
<1>5. CASE ModemStep
  BY <1>5, ModemOrderly
<1>6. CASE UNCHANGED vars
  BY <1>6 DEF vars, hostVars, taskVars, modemVars, Orderly, Plain, InFlight, OwnFlags,
              OwnGot, Copied, Measured, Filled, Told, Whole, TextBefore, Awaited
<1> QED BY <1>1, <1>2, <1>3, <1>4, <1>5, <1>6 DEF Next

LEMMA InitOrderly == Init => Orderly
<1> SUFFICES ASSUME Init PROVE Orderly
  OBVIOUS
<1>1. Plain /\ OwnGot /\ Copied
  BY ConstFacts DEF Init, Plain, OwnGot, Copied
<1>2. InFlight /\ OwnFlags
  BY DEF Init, InFlight, OwnFlags
<1> QED BY <1>1, <1>2 DEF Orderly

LEMMA OrderlyAlways == ASSUME Punctual PROVE Spec => []Orderly
<1>1. TypeOK /\ BufferOwned /\ Orderly /\ [Next]_vars => Orderly'
  BY OrderlyStep
<1> QED BY <1>1, InitOrderly, TypeCorrect, PointerOwned, PTL DEF Spec

\* If no answer comes after the timeout of its command and no task sends SMS,
\* ESP_OK and ESP_FAIL of every call say what the modem answered to the command
\* of that call, for any number of callers and any order of their steps.
THEOREM AnswerIsOwn == ASSUME Punctual PROVE Spec => []OwnAnswer
<1>1. Orderly => OwnAnswer
  BY DEF Orderly, OwnGot, OwnAnswer, HasBit, OwnBit
<1> QED BY <1>1, OrderlyAlways, PTL

\* Under the same assumption a call that gave a buffer finds in it the line of
\* its answer before the final OK and the OK itself, unless the buffer is full.
THEOREM AnswerWhole == ASSUME Punctual PROVE Spec => []AnswerComplete
<1>1. TypeOK /\ Orderly => AnswerComplete
  <2> SUFFICES ASSUME TypeOK, Orderly, NEW t \in Tasks, buf = t,
                      OwnBit(got[t], "OK", t), Len(resp[t]) < Size[t]
               PROVE  \E i, j \in 1..Len(resp[t]) : i < j /\ resp[t][i] = t /\ resp[t][j] = t
    BY DEF AnswerComplete
  <2>1. Whole(t)
    BY DEF Orderly, Copied, Filled, OwnBit
  <2>2. ~(Len(resp[t]) >= Size[t])
    BY ConstFacts DEF TypeOK
  <2> QED BY <2>1, <2>2 DEF Whole
<1> QED BY <1>1, OrderlyAlways, TypeCorrect, PTL

=============================================================================

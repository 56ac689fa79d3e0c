------------------------------- MODULE ModemAT -------------------------------
(***************************************************************************)
(* The AT channel of modem_driver.c: tasks send commands over one UART     *)
(* under at_mutex and wait on one event group; modem_event_task takes the  *)
(* modem's lines off the UART, copies them to the response buffer of the   *)
(* command in progress and sets the OK, ERROR and PROMPT bits.  Sending an *)
(* SMS (modem_send_sms_text) holds a conversation of several writes with   *)
(* the mutex released in between.                                          *)
(*                                                                         *)
(* A line, a bit and a pending answer carry the task whose newest write    *)
(* they answer (None: a URC, or the answer to something older), which is   *)
(* what a C program cannot see.  The event task has a higher priority than *)
(* every caller on the one core, so its handling of a line is one step and *)
(* may come between any two steps of a caller.                             *)
(***************************************************************************)
EXTENDS Integers, Sequences, FiniteSets

CONSTANTS
  Tasks,      \* the tasks that call modem_send_at_command
  Senders,    \* those of them that also send SMS
  None,       \* no task
  Size,       \* Size[t]: lines that fit the response buffer of t
  Late,       \* an answer may come after the command's timeout
  LineCap,    \* bound: lines in the UART driver's buffer
  PendingCap  \* bound: commands the modem has not answered

ASSUME ConstantsAssumption ==
  /\ Senders \subseteq Tasks /\ None \notin Tasks
  /\ Size \in [Tasks -> Nat \ {0}]
  /\ Late \in BOOLEAN
  /\ {LineCap, PendingCap} \subseteq Nat \ {0}

VARIABLES
  owner,   \* the task that holds at_mutex
  flags,   \* the bits set in at_event_group
  buf,     \* the task whose buffer shared_resp_buf points to
  maxLen,  \* shared_resp_max_len
  curLen,  \* shared_resp_current_len
  resp,    \* the lines in the response buffer of each task
  pc,      \* where each task is
  call,    \* the AT call of each task: "plain", "text" (CMGF=1), "pdu" (CMGF=0)
  got,     \* the bits each task's wait returned
  rx,      \* lines in the UART driver's buffer
  modem,   \* what the modem has still to answer
  prompt   \* the modem takes what is written as the body of an SMS

hostVars  == <<owner, flags, buf, maxLen, curLen, resp>>
taskVars  == <<pc, call, got>>
modemVars == <<modem, prompt>>
vars == <<hostVars, taskVars, rx, modemVars>>

-----------------------------------------------------------------------------
Who   == Tasks \cup {None}
Bits  == {"OK", "ERROR", "PROMPT"}
Flag  == [bit : Bits, of : Who]
Line  == [kind : Bits \cup {"text"}, of : Who]
Query == [kind : {"command", "cmgs", "body"}, of : Who, said : BOOLEAN]

InCall == {"setbuf", "setmax", "setcur", "flush", "write", "wait", "blocked", "return"}
InSms  == {"clear", "cmgs", "promptWait", "promptBlocked", "prompted", "body",
           "ctrlZ", "finalWait", "finalBlocked", "sent"}

Final == {"OK", "ERROR"}

\* The bits a task blocked in xEventGroupWaitBits waits for.
Mask(p) == CASE p \in {"wait", "blocked", "finalWait", "finalBlocked"} -> Final
             [] p \in {"promptWait", "promptBlocked"} -> {"PROMPT", "ERROR"}
             [] OTHER -> {}
Blocked == {"blocked", "promptBlocked", "finalBlocked"}
AfterWait(p) == CASE p \in {"wait", "blocked"} -> "return"
                  [] p \in {"promptWait", "promptBlocked"} -> "prompted"
                  [] OTHER -> "sent"
ToBlocked(p) == CASE p = "wait" -> "blocked"
                  [] p = "promptWait" -> "promptBlocked"
                  [] OTHER -> "finalBlocked"

HasBit(f, b) == \E x \in f : x.bit = b
OwnBit(f, b, t) == \E x \in f : x.bit = b /\ x.of = t

\* With a new write of t, whatever still answers an older one is nobody's.
Older(x, t) == IF x.of = t THEN [x EXCEPT !.of = None] ELSE x
OlderSeq(q, t) == [i \in 1..Len(q) |-> Older(q[i], t)]

\* What is written goes to the modem's command interpreter, unless the modem
\* is taking the body of an SMS; a modem that is too busy loses it.
WriteToModem(t, kind) ==
  /\ modem' = LET q == OlderSeq(modem, t)
              IN  IF prompt \/ Len(modem) = PendingCap THEN q
                  ELSE Append(q, [kind |-> kind, of |-> t, said |-> FALSE])
  /\ rx' = OlderSeq(rx, t)
  /\ flags' = {Older(x, t) : x \in flags}
  /\ resp' = [resp EXCEPT ![t] = [i \in 1..Len(@) |-> None]]

-----------------------------------------------------------------------------
(* modem_send_at_command. *)

Start(t) ==
  /\ pc[t] = "idle"
  /\ pc' = [pc EXCEPT ![t] = "lock"]
  /\ call' = [call EXCEPT ![t] = "plain"]
  /\ UNCHANGED <<hostVars, got, rx, modemVars>>

\* Mutant: the mutex is not waited for.
LockAnyway(t) ==
  /\ pc[t] = "lock"
  /\ owner' = t /\ flags' = {}
  /\ pc' = [pc EXCEPT ![t] = "setbuf"]
  /\ UNCHANGED <<buf, maxLen, curLen, resp, call, got, rx, modemVars>>

\* at_mutex is taken and the three bits are cleared.
Lock(t) ==
  /\ pc[t] = "lock" /\ owner = None
  /\ owner' = t /\ flags' = {}
  /\ pc' = [pc EXCEPT ![t] = "setbuf"]
  /\ UNCHANGED <<buf, maxLen, curLen, resp, call, got, rx, modemVars>>

LockTimeout(t) ==
  /\ pc[t] = "lock" /\ owner # None
  /\ pc' = [pc EXCEPT ![t] = "idle"]
  /\ UNCHANGED <<hostVars, call, got, rx, modemVars>>

\* A caller without a buffer leaves the pointer NULL and the lengths alone.
SetBuf(t) ==
  /\ pc[t] = "setbuf"
  /\ \/ call[t] = "plain" /\ buf' = t /\ pc' = [pc EXCEPT ![t] = "setmax"]
     \/ buf' = None /\ pc' = [pc EXCEPT ![t] = "flush"]
  /\ resp' = [resp EXCEPT ![t] = <<>>]
  /\ UNCHANGED <<owner, flags, maxLen, curLen, call, got, rx, modemVars>>

SetMax(t) ==
  /\ pc[t] = "setmax"
  /\ maxLen' = Size[t]
  /\ pc' = [pc EXCEPT ![t] = "setcur"]
  /\ UNCHANGED <<owner, flags, buf, curLen, resp, call, got, rx, modemVars>>

\* Mutant: the fill of the previous caller's buffer is kept.
SetCurKeeps(t) ==
  /\ pc[t] = "setcur"
  /\ pc' = [pc EXCEPT ![t] = "flush"]
  /\ UNCHANGED <<hostVars, call, got, rx, modemVars>>

SetCur(t) ==
  /\ pc[t] = "setcur"
  /\ curLen' = 0
  /\ pc' = [pc EXCEPT ![t] = "flush"]
  /\ UNCHANGED <<owner, flags, buf, maxLen, resp, call, got, rx, modemVars>>

\* uart_flush_input: what the event task has not read is gone.
Flush(t) ==
  /\ pc[t] = "flush"
  /\ rx' = <<>>
  /\ pc' = [pc EXCEPT ![t] = "write"]
  /\ UNCHANGED <<hostVars, call, got, modemVars>>

Write(t) ==
  /\ pc[t] = "write"
  /\ WriteToModem(t, "command")
  /\ pc' = [pc EXCEPT ![t] = "wait"]
  /\ UNCHANGED <<owner, buf, maxLen, curLen, call, got, prompt>>

-----------------------------------------------------------------------------
(* xEventGroupWaitBits, cleared on exit, for any of a mask of bits. *)

\* Bits that are set already end the wait at once.
Wait(t) ==
  /\ pc[t] \in {"wait", "promptWait", "finalWait"}
  /\ LET hit == \E b \in Mask(pc[t]) : HasBit(flags, b)
     IN  IF hit
         THEN /\ got' = [got EXCEPT ![t] = flags]
              /\ flags' = {x \in flags : x.bit \notin Mask(pc[t])}
              /\ pc' = [pc EXCEPT ![t] = AfterWait(pc[t])]
         ELSE /\ pc' = [pc EXCEPT ![t] = ToBlocked(pc[t])]
              /\ UNCHANGED <<got, flags>>
  /\ UNCHANGED <<owner, buf, maxLen, curLen, resp, call, rx, modemVars>>

\* The modem or the UART still has an answer to the newest write of t.
AnswerDue(t) == \/ \E i \in 1..Len(modem) : modem[i].of = t
                \/ \E i \in 1..Len(rx) : rx[i].of = t

\* Mutant: a wait that only an answer can end.
WaitTimeoutNever(t) ==
  /\ pc[t] \in Blocked /\ FALSE
  /\ UNCHANGED vars

WaitTimeout(t) ==
  /\ pc[t] \in Blocked
  /\ Late \/ ~AnswerDue(t)
  /\ got' = [got EXCEPT ![t] = {}]
  /\ pc' = [pc EXCEPT ![t] = AfterWait(pc[t])]
  /\ UNCHANGED <<hostVars, call, rx, modemVars>>

\* Mutant: the buffer's pointer survives the call that timed out.
ReturnKeepsBuf(t) ==
  /\ pc[t] = "return"
  /\ owner' = None
  /\ buf' = IF got[t] = {} THEN buf ELSE None
  /\ resp' = [resp EXCEPT ![t] = <<>>]
  /\ got' = [got EXCEPT ![t] = {}]
  /\ pc' = [pc EXCEPT ![t] = IF call[t] = "text" /\ HasBit(got[t], "OK")
                             THEN "clear" ELSE "idle"]
  /\ UNCHANGED <<flags, maxLen, curLen, call, rx, modemVars>>

\* The pointer is cleared, the mutex given, and the caller's buffer is gone.
\* AT+CMGF=1 must be answered with OK, AT+CMGF=0 need not.
Return(t) ==
  /\ pc[t] = "return"
  /\ buf' = None /\ owner' = None
  /\ resp' = [resp EXCEPT ![t] = <<>>]
  /\ got' = [got EXCEPT ![t] = {}]
  /\ pc' = [pc EXCEPT ![t] = IF call[t] = "text" /\ HasBit(got[t], "OK")
                             THEN "clear" ELSE "idle"]
  /\ UNCHANGED <<flags, maxLen, curLen, call, rx, modemVars>>

-----------------------------------------------------------------------------
(* modem_send_sms_text, around its calls of modem_send_at_command. *)

CallFrom(t, from, c) ==
  /\ pc[t] = from
  /\ pc' = [pc EXCEPT ![t] = "lock"]
  /\ call' = [call EXCEPT ![t] = c]

StartSms(t) ==
  /\ t \in Senders
  /\ CallFrom(t, "idle", "text")
  /\ UNCHANGED <<hostVars, got, rx, modemVars>>

\* The bits are cleared without the mutex.
SmsClear(t) ==
  /\ pc[t] = "clear"
  /\ flags' = {}
  /\ pc' = [pc EXCEPT ![t] = "cmgs"]
  /\ UNCHANGED <<owner, buf, maxLen, curLen, resp, call, got, rx, modemVars>>

\* modem_send_at_command_no_wait: the mutex is held for the write alone.
SmsCommand(t) ==
  /\ pc[t] = "cmgs" /\ owner = None
  /\ WriteToModem(t, "cmgs")
  /\ pc' = [pc EXCEPT ![t] = "promptWait"]
  /\ UNCHANGED <<owner, buf, maxLen, curLen, call, got, prompt>>

SmsCommandTimeout(t) ==
  /\ owner # None
  /\ CallFrom(t, "cmgs", "pdu")
  /\ UNCHANGED <<hostVars, got, rx, modemVars>>

\* modem_wait_for_prompt looks at the PROMPT bit only.
Prompted(t) ==
  /\ IF HasBit(got[t], "PROMPT")
     THEN pc[t] = "prompted" /\ pc' = [pc EXCEPT ![t] = "body"] /\ UNCHANGED call
     ELSE CallFrom(t, "prompted", "pdu")
  /\ got' = [got EXCEPT ![t] = {}]
  /\ UNCHANGED <<hostVars, rx, modemVars>>

\* The text, and then the Ctrl-Z that ends the body; out of the body the
\* modem ignores both.
SmsBody(t) ==
  /\ pc[t] = "body"
  /\ pc' = [pc EXCEPT ![t] = "ctrlZ"]
  /\ UNCHANGED <<hostVars, call, got, rx, modemVars>>

SmsCtrlZ(t) ==
  /\ pc[t] = "ctrlZ"
  /\ rx' = OlderSeq(rx, t)
  /\ flags' = {Older(x, t) : x \in flags}
  /\ modem' = LET q == OlderSeq(modem, t)
              IN  IF prompt
                  THEN <<[kind |-> "body", of |-> t, said |-> FALSE]>> \o q
                  ELSE q
  /\ prompt' = FALSE
  /\ pc' = [pc EXCEPT ![t] = "finalWait"]
  /\ UNCHANGED <<owner, buf, maxLen, curLen, resp, call, got>>

\* Whatever the answer, AT+CMGF=0 follows.
SmsFinal(t) ==
  /\ CallFrom(t, "sent", "pdu")
  /\ got' = [got EXCEPT ![t] = {}]
  /\ UNCHANGED <<hostVars, rx, modemVars>>

-----------------------------------------------------------------------------
(* modem_event_task: one line off the UART. *)

\* strncat into the shared buffer, as far as the shared lengths allow.
CopyLine(l) ==
  IF buf # None /\ curLen < maxLen
  THEN /\ resp' = [resp EXCEPT ![buf] = Append(@, l.of)]
       /\ curLen' = Len(resp[buf]) + 1
  ELSE UNCHANGED <<resp, curLen>>

\* xEventGroupSetBits: every task blocked on the bit is woken with it; the
\* bits the woken tasks waited for are cleared.
SetBit(b, of) ==
  LET f == flags \cup {[bit |-> b, of |-> of]}
      W == {t \in Tasks : pc[t] \in Blocked /\ b \in Mask(pc[t])}
  IN  /\ got' = [t \in Tasks |-> IF t \in W THEN f ELSE got[t]]
      /\ pc' = [t \in Tasks |-> IF t \in W THEN AfterWait(pc[t]) ELSE pc[t]]
      /\ flags' = {x \in f : \A t \in W : x.bit \notin Mask(pc[t])}

\* '>' sets its bit and is not part of any line.
ReadLine ==
  /\ rx # <<>>
  /\ rx' = Tail(rx)
  /\ LET l == Head(rx)
     IN  /\ IF l.kind = "PROMPT" THEN UNCHANGED <<resp, curLen>> ELSE CopyLine(l)
         /\ IF l.kind = "text" THEN UNCHANGED <<flags, pc, got>>
                               ELSE SetBit(l.kind, l.of)
  /\ UNCHANGED <<owner, buf, maxLen, call, modemVars>>

-----------------------------------------------------------------------------
(* The modem: it answers in the order it was asked. *)

Say(kind, of) == rx' = Append(rx, [kind |-> kind, of |-> of])

\* A line of the answer before its final OK or ERROR.
ModemText ==
  /\ modem # <<>> /\ Len(rx) < LineCap
  /\ modem[1].kind = "command" /\ ~modem[1].said
  /\ Say("text", modem[1].of)
  /\ modem' = [modem EXCEPT ![1].said = TRUE]
  /\ UNCHANGED <<hostVars, taskVars, prompt>>

ModemFinal(kind) ==
  /\ modem # <<>> /\ Len(rx) < LineCap
  /\ modem[1].kind = "cmgs" => kind = "ERROR"
  /\ modem[1].kind = "command" => modem[1].said
  /\ Say(kind, modem[1].of)
  /\ modem' = Tail(modem)
  /\ UNCHANGED <<hostVars, taskVars, prompt>>

\* AT+CMGS is answered with the prompt; what was written behind it is body.
ModemPrompt ==
  /\ modem # <<>> /\ Len(rx) < LineCap
  /\ modem[1].kind = "cmgs"
  /\ Say("PROMPT", modem[1].of)
  /\ modem' = <<>> /\ prompt' = TRUE
  /\ UNCHANGED <<hostVars, taskVars>>

\* An answer, or the line noise took for one, that never comes.
ModemSilent ==
  /\ modem # <<>>
  /\ modem' = Tail(modem)
  /\ UNCHANGED <<hostVars, taskVars, rx, prompt>>

ModemUrc ==
  /\ Len(rx) < LineCap
  /\ Say("text", None)
  /\ UNCHANGED <<hostVars, taskVars, modemVars>>

-----------------------------------------------------------------------------
Init ==
  /\ owner = None /\ flags = {} /\ buf = None /\ maxLen = 0 /\ curLen = 0
  /\ resp = [t \in Tasks |-> <<>>]
  /\ pc = [t \in Tasks |-> "idle"] /\ call = [t \in Tasks |-> "plain"]
  /\ got = [t \in Tasks |-> {}]
  /\ rx = <<>> /\ modem = <<>> /\ prompt = FALSE

CallStep(t) == \/ Lock(t) \/ LockTimeout(t) \/ SetBuf(t) \/ SetMax(t) \/ SetCur(t)
               \/ Flush(t) \/ Write(t) \/ Wait(t) \/ WaitTimeout(t) \/ Return(t)
SmsStep(t)  == \/ SmsClear(t) \/ SmsCommand(t) \/ SmsCommandTimeout(t) \/ Prompted(t)
               \/ SmsBody(t) \/ SmsCtrlZ(t) \/ SmsFinal(t)
ModemStep   == \/ ModemText \/ (\E k \in Final : ModemFinal(k)) \/ ModemPrompt
               \/ ModemSilent \/ ModemUrc

Next == \/ \E t \in Tasks : Start(t) \/ StartSms(t) \/ CallStep(t) \/ SmsStep(t)
        \/ ReadLine \/ ModemStep

Spec == Init /\ [][Next]_vars

\* Every task is scheduled, time passes, and the event task reads what comes.
\* Nothing is asked of the modem when its answers may be late or missing.
Fairness ==
  /\ \A t \in Tasks : WF_vars(CallStep(t)) /\ WF_vars(SmsStep(t))
  /\ WF_vars(ReadLine)
  /\ ~Late => WF_vars(ModemText \/ ModemPrompt \/ \E k \in Final : ModemFinal(k))

FairSpec == Spec /\ Fairness

-----------------------------------------------------------------------------
(* Properties. *)

\* Every variable keeps its type.
TypeOK ==
  /\ owner \in Who /\ buf \in Who
  /\ flags \subseteq Flag
  /\ maxLen \in Nat /\ curLen \in Nat
  /\ resp \in [Tasks -> Seq(Who)]
  /\ pc \in [Tasks -> {"idle", "lock"} \cup InCall \cup InSms]
  /\ call \in [Tasks -> {"plain", "text", "pdu"}]
  /\ got \in [Tasks -> SUBSET Flag]
  /\ rx \in Seq(Line) /\ modem \in Seq(Query)
  /\ prompt \in BOOLEAN

\* at_mutex is held by exactly the task that is inside a call, and the shared
\* pointer never outlives the call whose buffer it points to: the event task
\* does not write into the stack of a function that has returned
\* (modem_driver.c:468-469).
BufferOwned ==
  /\ \A t \in Tasks : pc[t] \in InCall <=> owner = t
  /\ buf # None => owner = buf /\ pc[buf] # "setbuf"

\* modem_driver.h:138: ESP_OK and ESP_FAIL say what the modem answered to the
\* command of this call, not to an earlier one or to another task's.
OwnAnswer ==
  \A t \in Tasks, b \in Final :
    pc[t] = "return" /\ HasBit(got[t], b) => OwnBit(got[t], b, t)

\* A call whose command was answered finds the answer in its buffer, the line
\* before the final OK as well as the OK, if it gave a buffer the lines fit.
AnswerComplete ==
  \A t \in Tasks :
    /\ pc[t] = "return" /\ buf = t /\ OwnBit(got[t], "OK", t)
    /\ Len(resp[t]) < Size[t]
    => \E i, j \in 1..Len(resp[t]) : i < j /\ resp[t][i] = t /\ resp[t][j] = t

\* modem_driver.c:40: the shared buffer and its lengths are protected by
\* at_mutex, so no line goes in beyond the size of the buffer.
BufferFits == \A t \in Tasks : Len(resp[t]) <= Size[t]

\* modem_driver.h:199: ESP_OK of modem_send_sms_text means the modem accepted
\* the SMS.
SmsConfirmed ==
  \A t \in Senders :
    pc[t] = "sent" /\ HasBit(got[t], "OK") => OwnBit(got[t], "OK", t)

\* Every call returns, whatever the modem and the other callers do.
CallsReturn == \A t \in Tasks : pc[t] # "idle" ~> pc[t] = "idle"

\* The modem is not left waiting for the body of an SMS, in which it takes
\* every later command for text (modem_driver.h:200: once the SMS is sent the
\* modem is back in PDU mode).
PromptEnds == prompt ~> ~prompt

=============================================================================

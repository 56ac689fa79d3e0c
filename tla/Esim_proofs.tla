----------------------------- MODULE Esim_proofs -----------------------------
(***************************************************************************)
(* Proofs about Esim, for any card, any number of channels and of lost     *)
(* answers: no operation leaves a channel open, channels left open by lost *)
(* answers do not lock the eSIM up, and an operation that reports success  *)
(* has been done, unless a refusal in tag 80 was taken for it.             *)
(***************************************************************************)
EXTENDS Esim, TLAPS

LEMMA ConstFacts ==
  /\ NoProfile \notin Profiles
  /\ MaxChannel \in Nat \ {0} /\ CleanTo \in Nat /\ ListUnits \in Nat \ {0}
  /\ 3 <= CleanTo /\ MaxChannel <= CleanTo
  /\ Isdr \subseteq 0..3 /\ Isdr # {} /\ RefusalTags \subseteq {"80", "81"} /\ Losses \in Nat
BY ConstantsAssumption DEF ConstantsAssumption

-----------------------------------------------------------------------------
(* Type correctness. *)

LEMMA InitType == Init => TypeOK
<1> SUFFICES ASSUME Init PROVE TypeOK OBVIOUS
<1> USE ConstFacts
<1>1. ch \in Channel /\ open \subseteq Channel /\ leaked \subseteq Channel
  BY DEF Init, Channel
<1>2. op \in Op /\ ans \in Answer BY DEF Init, Op, Kinds, Answer, Tags, NoAnswer
<1>3. before \in [enabled : Profiles \cup {NoProfile}, present : SUBSET Profiles]
  BY DEF Init, Card
<1>4. /\ enabled \in Profiles \cup {NoProfile} /\ present \subseteq Profiles
      /\ cache \subseteq Profiles
  BY DEF Init
<1>5. supported \in BOOLEAN /\ ok \in BOOLEAN /\ misread \in BOOLEAN /\ heard \in BOOLEAN
  BY Zenon DEF Init
<1>6. /\ mode \in 1..3 /\ pc = "idle" /\ k \in 0..CleanTo /\ ret = "none"
      /\ got \in 0..ListUnits /\ losses \in 0..Losses
  BY DEF Init
<1> QED BY <1>1, <1>2, <1>3, <1>4, <1>5, <1>6 DEF TypeOK

\* The counters of an operation stay in their bounds, heard or not.
LEMMA HearingType ==
  ASSUME TypeOK, Heard \/ Lost
  PROVE  heard' \in BOOLEAN /\ losses' \in 0..Losses
<1>0. heard \in BOOLEAN /\ losses \in 0..Losses BY DEF TypeOK
<1>1. CASE Heard BY <1>0, <1>1 DEF Heard
<1>2. CASE Lost
  <2>1. losses' \in 0..Losses BY <1>0, <1>2, ConstFacts DEF Lost
  <2>2. heard' \in BOOLEAN BY <1>2, Zenon DEF Lost
  <2> QED BY <2>1, <2>2
<1> QED BY <1>1, <1>2

\* Opening a channel keeps the types of what it changes.
LEMMA OpenTypes ==
  ASSUME TypeOK, NEW aid, OpenOk(aid) \/ OpenRefused(aid) \/ OpenLost(aid) \/ OpenUnread(aid)
  PROVE  /\ open' \subseteq Channel /\ leaked' \subseteq Channel /\ ch' \in Channel
         /\ heard' \in BOOLEAN /\ losses' \in 0..Losses
<1>0. heard' \in BOOLEAN /\ losses' \in 0..Losses
  <2>1. Heard \/ Lost BY DEF OpenOk, OpenRefused, OpenLost, OpenUnread
  <2> QED BY <2>1, HearingType
<1>1. CASE OpenOk(aid) BY <1>1, <1>0 DEF OpenOk, Free, TypeOK
<1>2. CASE OpenRefused(aid) BY <1>2, <1>0 DEF OpenRefused, TypeOK
<1>3. CASE OpenLost(aid) BY <1>3, <1>0 DEF OpenLost, Free, TypeOK
<1>4. CASE OpenUnread(aid) BY <1>4, <1>0 DEF OpenUnread, Free, TypeOK
<1> QED BY <1>1, <1>2, <1>3, <1>4

\* The answer and the profiles a command leaves are well typed.
LEMMA ExecuteTypes ==
  ASSUME TypeOK, NEW code \in Codes, Execute(code)
  PROVE  /\ enabled' \in Profiles \cup {NoProfile} /\ present' \subseteq Profiles
         /\ ans' \in Answer
<1>1. code \in {0, 1, 2, 5} BY DEF Codes
<1>2. op.target \in Profiles \cup {NoProfile} BY DEF TypeOK, Op
<1>3. op.kind \in {"switch", "disable", "delete", "list"} BY DEF TypeOK, Op, Kinds
<1>4. ReplyTags(code) \subseteq Tags BY <1>1, <1>3, ConstFacts DEF ReplyTags, Tags
<1>5. ans' \in Replies(code) BY DEF Execute
<1>6. ans' \in Answer BY <1>1, <1>4, <1>5 DEF Replies, Answer
<1> QED BY <1>2, <1>6 DEF Execute, TypeOK

LEMMA NextType == TypeOK /\ [Next]_vars => TypeOK'
<1> SUFFICES ASSUME TypeOK, [Next]_vars PROVE TypeOK' OBVIOUS
<1> USE ConstFacts
<1>1. CASE Detect BY <1>1 DEF Detect, TypeOK, cardVars, linkVars, ansVars, Units
<1>2. ASSUME NEW kind \in Kinds, NEW target \in Profiles \cup {NoProfile},
             NEW aid \in BOOLEAN, Request(kind, target, aid)
      PROVE TypeOK'
  <2>1. op' \in Op BY <1>2 DEF Request, Op
  <2>2. before' \in [enabled : Profiles \cup {NoProfile}, present : SUBSET Profiles]
    BY <1>2 DEF Request, Card, TypeOK
  <2>3. ok' \in BOOLEAN /\ misread' \in BOOLEAN /\ heard' \in BOOLEAN BY <1>2, Zenon DEF Request
  <2> QED BY <1>2, <2>1, <2>2, <2>3 DEF Request, GoTo, TypeOK, cardVars, ansVars
<1>3. CASE OpenStandard
  <2>1. OpenOk(0) \/ OpenRefused(0) \/ OpenLost(0) \/ OpenUnread(0) BY <1>3 DEF OpenStandard
  <2>2. /\ open' \subseteq Channel /\ leaked' \subseteq Channel /\ ch' \in Channel
        /\ heard' \in BOOLEAN /\ losses' \in 0..Losses BY <2>1, OpenTypes
  <2>3. /\ pc' \in {"apdu", "parse", "clean", "alt"} /\ k' \in {0, 1} /\ (pc' = "alt" => k' = 1)
    BY <1>3 DEF OpenStandard, OpenOk, OpenUnread, GoTo
  <2> QED BY <1>3, <2>2, <2>3 DEF OpenStandard, OpenFrame, TypeOK, cardVars, opVars, Card
<1>4. CASE Clean
  <2>1. Heard \/ Lost BY <1>4 DEF Clean
  <2>2. heard' \in BOOLEAN /\ losses' \in 0..Losses BY <2>1, HearingType
  <2>3. open' \subseteq Channel /\ leaked' \subseteq Channel BY <1>4 DEF Clean, TypeOK
  <2>4. pc' \in {"clean", "reopen"} /\ k' \in 0..CleanTo BY <1>4 DEF Clean, GoTo, TypeOK
  <2> QED BY <1>4, <2>2, <2>3, <2>4 DEF Clean, OpenFrame, TypeOK, cardVars, opVars
<1>5. CASE Reopen
  <2>1. OpenOk(0) \/ OpenRefused(0) \/ OpenLost(0) \/ OpenUnread(0) BY <1>5 DEF Reopen
  <2>2. /\ open' \subseteq Channel /\ leaked' \subseteq Channel /\ ch' \in Channel
        /\ heard' \in BOOLEAN /\ losses' \in 0..Losses BY <2>1, OpenTypes
  <2>3. /\ pc' \in {"apdu", "parse", "alt"} /\ k' \in {0, 1} /\ (pc' = "alt" => k' = 1)
    BY <1>5 DEF Reopen, OpenOk, OpenUnread, GoTo
  <2> QED BY <1>5, <2>2, <2>3 DEF Reopen, OpenFrame, TypeOK, cardVars, opVars
<1>6. CASE OpenAlternative
  <2>1. OpenOk(k) \/ OpenRefused(k) \/ OpenLost(k) \/ OpenUnread(k) BY <1>6 DEF OpenAlternative
  <2>2. /\ open' \subseteq Channel /\ leaked' \subseteq Channel /\ ch' \in Channel
        /\ heard' \in BOOLEAN /\ losses' \in 0..Losses BY <2>1, OpenTypes
  <2>3. /\ pc' \in {"apdu", "parse", "alt"} /\ k' \in 0..3 /\ (pc' = "alt" => k' \in 1..3)
    BY <1>6 DEF OpenAlternative, OpenOk, OpenUnread, GoTo, TypeOK
  <2> QED BY <1>6, <2>2, <2>3 DEF OpenAlternative, OpenFrame, TypeOK, cardVars, opVars
<1>7. CASE CloseChannel
  <2>1. Heard \/ Lost BY <1>7 DEF CloseChannel
  <2>2. heard' \in BOOLEAN /\ losses' \in 0..Losses BY <2>1, HearingType
  <2>3. open' \subseteq Channel /\ leaked' \subseteq Channel BY <1>7 DEF CloseChannel, TypeOK
  <2> QED BY <1>7, <2>2, <2>3 DEF CloseChannel, GoTo, TypeOK, cardVars, opVars, ansVars
<1>8. CASE Transmit
  <2>1. Heard \/ Lost BY <1>8 DEF Transmit
  <2>2. heard' \in BOOLEAN /\ losses' \in 0..Losses BY <2>1, HearingType
  <2>3. /\ enabled' \in Profiles \cup {NoProfile} /\ present' \subseteq Profiles
        /\ ans' \in Answer
    BY <1>8, ExecuteTypes DEF Transmit, TypeOK, cardVars
  <2>4. /\ got' \in 0..ListUnits /\ pc' \in {"chain", "close"} /\ k' = 0
        /\ (pc' = "chain" => got' < Units(op.kind)) /\ ret' \in {"none", "fail", "ok"}
    BY <1>8 DEF Transmit, Received, GoTo, TypeOK
  <2>5. op' = op BY <1>8 DEF Transmit, LinkFrame, opVars
  <2> QED BY <1>8, <2>2, <2>3, <2>4, <2>5 DEF Transmit, LinkFrame, TypeOK, opVars
<1>9. CASE GetResponse
  <2>1. Heard \/ Lost BY <1>9 DEF GetResponse
  <2>2. heard' \in BOOLEAN /\ losses' \in 0..Losses BY <2>1, HearingType
  <2>3. Units(op.kind) \in Nat /\ Units(op.kind) <= ListUnits BY DEF Units
  <2>4. /\ got' \in 0..ListUnits /\ pc' \in {"chain", "close"} /\ k' = 0
        /\ (pc' = "chain" => got' < Units(op.kind)) /\ ret' \in {"none", "fail", "ok"}
    BY <1>9, <2>3 DEF GetResponse, Received, GoTo, TypeOK
  <2>5. op' = op BY <1>9 DEF GetResponse, LinkFrame, opVars
  <2> QED BY <1>9, <2>2, <2>4, <2>5 DEF GetResponse, LinkFrame, TypeOK, opVars, cardVars
<1>10. CASE RetryBusy BY <1>10 DEF RetryBusy, GoTo, TypeOK, cardVars, linkVars
<1>11. CASE Return
  <2>1. ok' \in BOOLEAN /\ cache' \subseteq Profiles BY <1>11 DEF Return, Succeeded, Complete, TypeOK
  <2>3. misread' \in BOOLEAN BY <1>11, Zenon DEF Return
  <2>2. ch' \in Channel /\ ans' \in Answer BY <1>11 DEF Return, Channel, NoAnswer, Answer, Tags
  <2> QED BY <1>11, <2>1, <2>2, <2>3 DEF Return, GoTo, TypeOK, cardVars, linkVars
<1>12. CASE UNCHANGED vars
  BY <1>12 DEF vars, cardVars, linkVars, opVars, ansVars, TypeOK
<1>13. ASSUME WebStep PROVE TypeOK'
  <2>1. CASE \E kind \in Kinds \ {"list"}, p \in Profiles, aid \in BOOLEAN : Request(kind, p, aid)
    BY <2>1, <1>2
  <2>2. CASE Request("list", NoProfile, FALSE) BY <2>2, <1>2 DEF Kinds
  <2> QED BY <1>13, <2>1, <2>2, <1>1 DEF WebStep
<1> QED
  BY <1>3, <1>4, <1>5, <1>6, <1>7, <1>8, <1>9, <1>10, <1>11, <1>12, <1>13
  DEF Next, ChannelStep, CommandStep

\* Every variable keeps its type; the loops over channels and AIDs and the
\* chain of GET RESPONSEs keep their bounds.
THEOREM TypeCorrect == Spec => []TypeOK
BY InitType, NextType, PTL DEF Spec

-----------------------------------------------------------------------------
(* Channels. *)

\* Outside the exchange with the card only leaked channels are open, in it the
\* operation's own too.
ChannelsInv ==
  /\ open \subseteq leaked \cup {ch}
  /\ pc \notin {"apdu", "chain", "close"} => open \subseteq leaked

\* Every path through es10x_command closes the channel it opened: between
\* operations no channel is open but those an answer was lost of.
THEOREM ChannelsClosed == Spec => []NoChannelLeft
<1>1. Init => ChannelsInv BY DEF Init, ChannelsInv
<1>2. ChannelsInv /\ [Next]_vars => ChannelsInv'
  <2> SUFFICES ASSUME ChannelsInv, [Next]_vars PROVE ChannelsInv' OBVIOUS
  <2>1. CASE OpenStandard
    BY <2>1 DEF OpenStandard, OpenOk, OpenUnread, OpenRefused, OpenLost, GoTo, ChannelsInv
  <2>2. CASE Clean BY <2>2 DEF Clean, GoTo, ChannelsInv
  <2>3. CASE Reopen
    BY <2>3 DEF Reopen, OpenOk, OpenUnread, OpenRefused, OpenLost, GoTo, ChannelsInv
  <2>4. CASE OpenAlternative
    BY <2>4 DEF OpenAlternative, OpenOk, OpenUnread, OpenRefused, OpenLost, GoTo, ChannelsInv
  <2>5. CASE CloseChannel BY <2>5 DEF CloseChannel, GoTo, ansVars, ChannelsInv
  <2>6. CASE Transmit BY <2>6 DEF Transmit, Received, LinkFrame, GoTo, ChannelsInv
  <2>7. CASE GetResponse BY <2>7 DEF GetResponse, Received, LinkFrame, GoTo, ChannelsInv
  <2>8. CASE RetryBusy BY <2>8 DEF RetryBusy, linkVars, GoTo, ChannelsInv
  <2>9. CASE Return BY <2>9 DEF Return, linkVars, GoTo, ChannelsInv
  <2>10. CASE WebStep
    BY <2>10 DEF WebStep, Detect, Request, linkVars, ansVars, GoTo, ChannelsInv
  <2>11. CASE UNCHANGED vars BY <2>11 DEF vars, linkVars, ansVars, ChannelsInv
  <2> QED BY <2>1, <2>2, <2>3, <2>4, <2>5, <2>6, <2>7, <2>8, <2>9, <2>10, <2>11
          DEF Next, ChannelStep, CommandStep
<1>3. ChannelsInv => NoChannelLeft BY DEF ChannelsInv, NoChannelLeft
<1> QED BY <1>1, <1>2, <1>3, PTL DEF Spec

\* While every answer has arrived, the channels below the one to close are
\* free, and the AIDs below the one to try do not select the ISD-R.
ReopenInv ==
  heard =>
    /\ pc = "clean"  => k >= 1 /\ open \cap 1..(k - 1) = {}
    /\ pc = "reopen" => open = {}
    /\ pc = "alt"    => open = {} /\ Isdr \cap 0..(k - 1) = {}
    /\ pc = "close"  => ret # "none"
    /\ pc = "parse"  => ret # "none"

\* With every channel free, only an AID of something else is refused.
LEMMA RefusedAid ==
  ASSUME NEW aid, open = {}, ~Grants(aid)
  PROVE  aid \notin Isdr
BY ConstFacts DEF Grants, Free, Channel

LEMMA NextReopen == TypeOK /\ ReopenInv /\ [Next]_vars => ReopenInv'
<1> SUFFICES ASSUME TypeOK, ReopenInv, [Next]_vars, heard' = TRUE PROVE ReopenInv'
  BY DEF ReopenInv
<1> USE ConstFacts
<1>0. k \in 0..CleanTo /\ open \subseteq 1..MaxChannel BY DEF TypeOK, Channel
<1>1. CASE OpenStandard
  <2>1. pc' \in {"apdu", "clean"} /\ (pc' = "clean" => k' = 1)
    BY <1>1 DEF OpenStandard, OpenOk, OpenUnread, OpenLost, Lost, GoTo
  <2> QED BY <2>1 DEF ReopenInv
<1>2. CASE Clean
  <2>1. heard = TRUE /\ open' = open \ {k} BY <1>2 DEF Clean, Heard, Lost
  <2>2. k >= 1 /\ open \cap 1..(k - 1) = {} BY <1>2, <2>1 DEF Clean, ReopenInv
  <2>3. open' \cap 1..k = {} BY <1>0, <2>1, <2>2
  <2>4. CASE k < CleanTo
    <3>1. pc' = "clean" /\ k' = k + 1 BY <1>2, <2>4 DEF Clean, GoTo
    <3>2. k' >= 1 /\ k' - 1 = k BY <3>1, <1>0
    <3> QED BY <3>1, <3>2, <2>3 DEF ReopenInv
  <2>5. CASE ~(k < CleanTo)
    <3>1. pc' = "reopen" BY <1>2, <2>5 DEF Clean, GoTo
    <3>2. k = CleanTo BY <1>0, <2>5
    <3>3. open' = {} BY <1>0, <2>1, <2>3, <3>2
    <3> QED BY <3>1, <3>3 DEF ReopenInv
  <2> QED BY <2>4, <2>5
<1>3. CASE Reopen
  <2>1. CASE OpenRefused(0) /\ GoTo("alt", 1)
    <3>1. heard = TRUE /\ open' = open /\ open = {}
      BY <1>3, <2>1 DEF Reopen, OpenRefused, Heard, ReopenInv
    <3>2. 0 \notin Isdr BY <2>1, <3>1, RefusedAid DEF OpenRefused
    <3>3. Isdr \cap 0..(1 - 1) = {} BY <3>2
    <3> QED BY <2>1, <3>1, <3>3 DEF GoTo, ReopenInv
  <2>2. CASE OpenOk(0) BY <2>2 DEF OpenOk, GoTo, ReopenInv
  <2> QED BY <1>3, <2>1, <2>2 DEF Reopen, OpenUnread, OpenLost, Lost
<1>4. CASE OpenAlternative
  <2>1. CASE OpenRefused(k)
    <3>1. heard = TRUE /\ open' = open /\ open = {} /\ Isdr \cap 0..(k - 1) = {}
      BY <1>4, <2>1 DEF OpenAlternative, OpenRefused, Heard, ReopenInv
    <3>2. k \notin Isdr BY <2>1, <3>1, RefusedAid DEF OpenRefused
    <3>3. k \in 1..3 BY <1>4 DEF OpenAlternative, TypeOK
    <3>4. Isdr \cap 0..k = {} BY <3>1, <3>2, <3>3
    <3>5. k < 3
      <4>1. k # 3
        <5> SUFFICES ASSUME k = 3 PROVE FALSE OBVIOUS
        <5>1. Isdr \cap 0..3 = {} BY <3>4
        <5> QED BY <5>1
      <4> QED BY <3>3, <4>1
    <3>6. CASE OpenOk(k) BY <3>6 DEF OpenOk, GoTo, ReopenInv
    <3>7. CASE GoTo("alt", k + 1)
      <4>1. k' - 1 = k /\ pc' = "alt" BY <3>3, <3>7 DEF GoTo
      <4> QED BY <3>1, <3>4, <4>1 DEF ReopenInv
    <3> QED BY <1>4, <3>5, <3>6, <3>7 DEF OpenAlternative, OpenUnread, Lost
  <2>2. CASE OpenOk(k) BY <2>2 DEF OpenOk, GoTo, ReopenInv
  <2> QED BY <1>4, <2>1, <2>2 DEF OpenAlternative, OpenUnread, OpenLost, Lost
<1>5. CASE CloseChannel
  <2>1. heard = TRUE BY <1>5 DEF CloseChannel, Heard, Lost
  <2> QED BY <1>5, <2>1 DEF CloseChannel, ansVars, GoTo, ReopenInv
<1>6. CASE Transmit BY <1>6 DEF Transmit, Received, GoTo, ReopenInv
<1>7. CASE GetResponse BY <1>7 DEF GetResponse, Received, GoTo, ReopenInv
<1>8. CASE RetryBusy BY <1>8 DEF RetryBusy, GoTo, ReopenInv
<1>9. CASE Return BY <1>9 DEF Return, GoTo, ReopenInv
<1>10. CASE WebStep BY <1>10 DEF WebStep, Detect, Request, GoTo, ReopenInv
<1>11. CASE UNCHANGED vars BY <1>11 DEF vars, linkVars, ansVars, ReopenInv
<1> QED BY <1>1, <1>2, <1>3, <1>4, <1>5, <1>6, <1>7, <1>8, <1>9, <1>10, <1>11
        DEF Next, ChannelStep, CommandStep

\* Channels that were left open do not lock the eSIM up: an operation whose
\* answers all arrive always gets a channel.
THEOREM Reopens == Spec => []AlwaysReopens
<1>1. Init => ReopenInv BY DEF Init, ReopenInv
<1>2. ReopenInv => AlwaysReopens BY DEF ReopenInv, AlwaysReopens
<1> QED BY <1>1, <1>2, NextReopen, TypeCorrect, PTL DEF Spec

-----------------------------------------------------------------------------
(* What an operation reports and what the card has done. *)

\* The answer says that the command is done.
Affirmed ==
  /\ op.kind = "delete" => ans.code = 0
  /\ op.kind \in {"switch", "disable"} => ans.tag \in {"80", "A0"}

\* The card is as the operation asked.
Done ==
  CASE op.kind = "switch"  -> enabled = op.target
    [] op.kind = "disable" -> enabled # op.target
    [] op.kind = "delete"  -> op.target \notin present
    [] op.kind = "list"    -> TRUE

\* Nothing has been answered before the channel is open.
Unanswered == pc \in {"idle", "open", "clean", "reopen", "alt"} => ret = "none"

LEMMA NextUnanswered == Unanswered /\ [Next]_vars => Unanswered'
<1> SUFFICES ASSUME Unanswered, [Next]_vars PROVE Unanswered' OBVIOUS
<1>1. CASE OpenStandard \/ Clean \/ Reopen \/ OpenAlternative
  BY <1>1 DEF OpenStandard, Clean, Reopen, OpenAlternative, OpenFrame, Unanswered
<1>2. CASE CloseChannel \/ Transmit \/ GetResponse
  BY <1>2 DEF CloseChannel, Transmit, GetResponse, Received, GoTo, Unanswered
<1>3. CASE RetryBusy \/ Return BY <1>3 DEF RetryBusy, Return, Unanswered
<1>4. CASE WebStep BY <1>4 DEF WebStep, Detect, Request, ansVars, Unanswered
<1>5. CASE UNCHANGED vars BY <1>5 DEF vars, ansVars, Unanswered
<1> QED BY <1>1, <1>2, <1>3, <1>4, <1>5 DEF Next, ChannelStep, CommandStep

\* The answer is a refusal that reads as a success.
Misread == ans.tag = "80" /\ ans.code # 0

\* An answer, once there, tells what the card has done, unless it is misread.
DoneInv ==
  /\ Unanswered
  /\ pc = "chain" \/ (pc \in {"close", "parse"} /\ ret = "ok") => (Affirmed => Done \/ Misread)
  /\ SuccessUnlessMisread

LEMMA ExecuteDone ==
  ASSUME TypeOK, NEW code \in Codes, Execute(code), op' = op
  PROVE  (Affirmed => Done \/ Misread)'
<1> USE ConstFacts
<1>1. op.kind \in {"switch", "disable", "delete", "list"} BY DEF TypeOK, Op, Kinds
<1>2. ans' \in Replies(code) BY DEF Execute
<1>3. CASE op.kind = "switch"
  <2>1. code = 0 => enabled' = op.target BY <1>3 DEF Execute
  <2>2. code # 0 => ans'.tag \in {"80", "81"} /\ ans'.code = code BY <1>2, <1>3 DEF Replies, ReplyTags
  <2> QED BY <1>3, <2>1, <2>2 DEF Affirmed, Done, Misread
<1>4. CASE op.kind = "disable"
  <2>1. code = 0 => op.target \in present BY <1>4 DEF Codes, Found
  <2>2. code = 0 => enabled' = NoProfile BY <1>4 DEF Execute
  <2>3. code = 0 => enabled' # op.target BY <2>1, <2>2 DEF TypeOK
  <2>4. code # 0 => ans'.tag \in {"80", "81"} /\ ans'.code = code BY <1>2, <1>4 DEF Replies, ReplyTags
  <2> QED BY <1>4, <2>3, <2>4 DEF Affirmed, Done, Misread
<1>5. CASE op.kind = "delete"
  <2>1. code = 0 => present' = present \ {op.target} BY <1>5 DEF Execute
  <2>2. ans'.code = code BY <1>2, <1>5 DEF Replies, ReplyTags
  <2> QED BY <1>5, <2>1, <2>2 DEF Affirmed, Done, Misread
<1>6. CASE op.kind = "list" BY <1>6 DEF Done
<1> QED BY <1>1, <1>3, <1>4, <1>5, <1>6

\* While an operation is in progress only its answer matters.
LEMMA SameDone ==
  ASSUME UNCHANGED <<op, ans, enabled, present>>
  PROVE  (Affirmed => Done \/ Misread)' <=> (Affirmed => Done \/ Misread)
BY DEF Affirmed, Done, Misread

LEMMA NextDone == TypeOK /\ DoneInv /\ [Next]_vars => DoneInv'
<1> SUFFICES ASSUME TypeOK, DoneInv, [Next]_vars PROVE DoneInv' OBVIOUS
<1> USE ConstFacts DEF Unanswered
<1>1. CASE OpenStandard \/ Clean \/ Reopen \/ OpenAlternative
  <2>1. UNCHANGED ret /\ pc \in {"open", "clean", "reopen", "alt"}
    BY <1>1 DEF OpenStandard, Clean, Reopen, OpenAlternative, OpenFrame
  <2>2. pc' \in {"clean", "reopen", "alt", "apdu", "parse"}
    BY <1>1 DEF OpenStandard, Clean, Reopen, OpenAlternative, OpenOk, OpenUnread, GoTo
  <2>3. ret' = "none" BY <2>1 DEF DoneInv
  <2> QED BY <2>2, <2>3 DEF DoneInv, SuccessUnlessMisread
<1>2. CASE CloseChannel
  <2>1. UNCHANGED <<op, ans, enabled, present, ret>> /\ pc = "close" /\ pc' = "parse"
    BY <1>2 DEF CloseChannel, opVars, ansVars, cardVars, GoTo
  <2>2. (Affirmed => Done \/ Misread)' <=> (Affirmed => Done \/ Misread) BY <2>1, SameDone
  <2>3. ret' = "ok" => (Affirmed => Done \/ Misread)' BY <2>1, <2>2 DEF DoneInv
  <2> QED BY <2>1, <2>3 DEF DoneInv, SuccessUnlessMisread
<1>3. CASE Transmit
  <2>1. op' = op /\ pc' \in {"chain", "close"}
    BY <1>3 DEF Transmit, LinkFrame, opVars, Received, GoTo
  <2>2. CASE \E code \in Codes : Execute(code)
    <3>1. (Affirmed => Done \/ Misread)' BY <2>1, <2>2, ExecuteDone
    <3> QED BY <2>1, <3>1 DEF DoneInv, SuccessUnlessMisread
  <2>3. CASE ret' = "fail" /\ pc' = "close"
    BY <2>3 DEF DoneInv, SuccessUnlessMisread
  <2> QED BY <1>3, <2>2, <2>3 DEF Transmit, GoTo
<1>4. CASE GetResponse
  <2>1. UNCHANGED <<op, ans, enabled, present>> /\ pc = "chain" /\ pc' \in {"chain", "close"}
    BY <1>4 DEF GetResponse, LinkFrame, opVars, cardVars, Received, GoTo
  <2>2. (Affirmed => Done \/ Misread)' <=> (Affirmed => Done \/ Misread) BY <2>1, SameDone
  <2>3. (Affirmed => Done \/ Misread)' BY <2>1, <2>2 DEF DoneInv
  <2> QED BY <2>1, <2>3 DEF DoneInv, SuccessUnlessMisread
<1>5. CASE RetryBusy BY <1>5 DEF RetryBusy, GoTo, DoneInv, SuccessUnlessMisread
<1>6. CASE Return
  <2>1. /\ pc = "parse" /\ pc' = "idle" /\ ret' = "none" /\ ok' = Succeeded
        /\ UNCHANGED <<op, enabled, present>> /\ misread' = Misread
        /\ (op.kind = "list" /\ Succeeded => cache' = present)
    BY <1>6 DEF Return, GoTo, cardVars, Misread
  <2>2. Succeeded => Affirmed /\ ret = "ok" BY DEF Succeeded, Complete, Affirmed
  <2>3. Succeeded => Done \/ Misread BY <2>1, <2>2 DEF DoneInv
  <2>4. op.kind \in {"switch", "disable", "delete", "list"} BY DEF TypeOK, Op, Kinds
  <2>5. SuccessUnlessMisread'
    <3>1. CASE op.kind = "switch" BY <3>1, <2>1, <2>3 DEF SuccessUnlessMisread, Promised, Done
    <3>2. CASE op.kind = "disable" BY <3>2, <2>1, <2>3 DEF SuccessUnlessMisread, Promised, Done
    <3>3. CASE op.kind = "delete"
      <4>1. Succeeded => ~Misread BY <3>3 DEF Succeeded, Misread
      <4>2. Succeeded => op.target \notin present BY <3>3, <4>1, <2>3 DEF Done
      <4> QED BY <3>3, <4>2, <2>1 DEF SuccessUnlessMisread, Promised
    <3>4. CASE op.kind = "list" BY <3>4, <2>1 DEF SuccessUnlessMisread, Promised
    <3> QED BY <2>4, <3>1, <3>2, <3>3, <3>4
  <2> QED BY <2>1, <2>5 DEF DoneInv
<1>7. CASE WebStep
  <2>1. CASE Detect
    <3>1. UNCHANGED <<op, ok, misread, cache, enabled, present, ret, pc>> /\ pc = "idle"
      BY <2>1 DEF Detect, cardVars, ansVars
    <3> QED BY <3>1 DEF DoneInv, SuccessUnlessMisread, Promised
  <2>2. CASE \E kind, p, aid : Request(kind, p, aid)
    BY <2>2 DEF Request, GoTo, ansVars, DoneInv, SuccessUnlessMisread
  <2> QED BY <1>7, <2>1, <2>2 DEF WebStep
<1>8. CASE UNCHANGED vars
  <2>1. UNCHANGED <<op, ans, enabled, present, ok, misread, cache, ret, pc>>
    BY <1>8 DEF vars, cardVars, opVars, ansVars
  <2>2. (Affirmed => Done \/ Misread)' <=> (Affirmed => Done \/ Misread) BY <2>1, SameDone
  <2>3. SuccessUnlessMisread' <=> SuccessUnlessMisread BY <2>1 DEF SuccessUnlessMisread, Promised
  <2> QED BY <2>1, <2>2, <2>3 DEF DoneInv
<1> QED BY <1>1, <1>2, <1>3, <1>4, <1>5, <1>6, <1>7, <1>8
        DEF Next, ChannelStep, CommandStep

\* ESP_OK of an operation means the card has done it, whatever answers were lost,
\* unless the last answer was a refusal in tag 80 (send_profile_apdu_flavor).
THEOREM Truthful == Spec => []SuccessUnlessMisread
<1>1. Init => DoneInv BY DEF Init, Unanswered, DoneInv, SuccessUnlessMisread
<1>2. DoneInv => SuccessUnlessMisread BY DEF DoneInv
<1> QED BY <1>1, <1>2, NextDone, TypeCorrect, PTL DEF Spec

\* Until the card has answered that the command is done, and while every answer
\* has arrived, it is as it was; all of the answer is there then.
UnchangedInv ==
  heard =>
    /\ pc \in {"open", "clean", "reopen", "alt", "apdu"} => before = Card
    /\ pc = "chain" => before = Card \/ Affirmed
    /\ pc \in {"close", "parse"} =>
         IF ret = "ok" THEN got = Units(op.kind) /\ (before = Card \/ Affirmed)
                       ELSE before = Card
    /\ pc = "idle" /\ ~ok => before = Card

\* A refused command changes nothing on the card.
LEMMA ExecuteUnchanged ==
  ASSUME TypeOK, NEW code \in Codes, Execute(code), op' = op
  PROVE  UNCHANGED Card \/ Affirmed'
<1>1. CASE code = 0
  <2>1. op.kind \in {"switch", "disable", "delete", "list"} BY DEF TypeOK, Op, Kinds
  <2>2. ReplyTags(code) \subseteq {"80", "A0"} BY <1>1, <2>1 DEF ReplyTags
  <2>3. ans' \in Replies(code) BY DEF Execute
  <2>4. ans'.code = 0 /\ ans'.tag \in {"80", "A0"} BY <1>1, <2>2, <2>3 DEF Replies
  <2> QED BY <2>4 DEF Affirmed
<1>2. CASE code # 0 BY <1>2 DEF Execute, Card
<1> QED BY <1>1, <1>2

LEMMA NextUnchanged ==
  TypeOK /\ Unanswered /\ UnchangedInv /\ [Next]_vars => UnchangedInv'
<1> SUFFICES ASSUME TypeOK, Unanswered, UnchangedInv, [Next]_vars, heard' = TRUE
             PROVE UnchangedInv'
  BY DEF UnchangedInv
<1> USE ConstFacts
<1>0. Heard => heard = TRUE BY DEF Heard
<1>1. CASE OpenStandard \/ Clean \/ Reopen \/ OpenAlternative
  <2>1. /\ UNCHANGED <<enabled, present, before, ret>>
        /\ pc \in {"open", "clean", "reopen", "alt"}
    BY <1>1 DEF OpenStandard, Clean, Reopen, OpenAlternative, OpenFrame, cardVars, opVars
  <2>2. heard = TRUE
    BY <1>1, <1>0 DEF OpenStandard, Clean, Reopen, OpenAlternative,
                      OpenOk, OpenUnread, OpenRefused, OpenLost, Lost
  <2>3. UNCHANGED Card BY <2>1 DEF Card
  <2>4. pc' \in {"clean", "reopen", "alt", "apdu", "parse"}
    BY <1>1 DEF OpenStandard, Clean, Reopen, OpenAlternative, OpenOk, OpenUnread, GoTo
  <2>5. before' = Card' BY <2>1, <2>2, <2>3 DEF UnchangedInv
  <2>6. ret' = "none" BY <2>1 DEF Unanswered
  <2> QED BY <2>4, <2>5, <2>6 DEF UnchangedInv
<1>2. CASE CloseChannel
  <2>1. heard = TRUE BY <1>2, <1>0 DEF CloseChannel, Lost
  <2>2. /\ UNCHANGED <<op, ans, enabled, present, before, ret, got>>
        /\ pc = "close" /\ pc' = "parse"
    BY <1>2 DEF CloseChannel, opVars, ansVars, cardVars, GoTo
  <2>3. UNCHANGED <<Card, Affirmed>> BY <2>2 DEF Card, Affirmed
  <2> QED BY <2>1, <2>2, <2>3 DEF UnchangedInv
<1>3. CASE Transmit
  <2>1. /\ heard = TRUE /\ pc = "apdu" /\ op' = op /\ before' = before
    BY <1>3, <1>0 DEF Transmit, LinkFrame, opVars, Lost
  <2>2. before = Card BY <2>1 DEF UnchangedInv
  <2>3. CASE \E code \in Codes : Execute(code) /\ got' \in {0, 1} /\ Received(got')
    <3>1. before' = Card' \/ Affirmed' BY <2>1, <2>2, <2>3, ExecuteUnchanged
    <3>2. Units(op.kind) \in Nat \ {0} BY DEF Units
    <3>3. pc' = "chain" \/ (pc' = "close" /\ ret' = "ok" /\ got' = Units(op.kind))
      BY <2>3, <3>2 DEF Received, GoTo
    <3> QED BY <2>1, <3>1, <3>3 DEF UnchangedInv
  <2>4. CASE ret' = "fail" /\ pc' = "close" /\ UNCHANGED cardVars
    BY <2>1, <2>2, <2>4 DEF cardVars, Card, UnchangedInv
  <2> QED BY <1>3, <2>3, <2>4 DEF Transmit, GoTo, Lost
<1>4. CASE GetResponse
  <2>1. /\ heard = TRUE /\ pc = "chain" /\ UNCHANGED <<op, ans, enabled, present, before>>
        /\ got' = got + 1 /\ Received(got')
    BY <1>4, <1>0 DEF GetResponse, LinkFrame, opVars, cardVars, Lost
  <2>2. UNCHANGED <<Card, Affirmed>> BY <2>1 DEF Card, Affirmed
  <2>3. got < Units(op.kind) /\ Units(op.kind) \in Nat /\ got \in Nat
    BY <2>1 DEF TypeOK, Units
  <2>4. pc' = "chain" \/ (pc' = "close" /\ ret' = "ok" /\ got' = Units(op.kind))
    BY <2>1, <2>3 DEF Received, GoTo
  <2> QED BY <2>1, <2>2, <2>4 DEF UnchangedInv
<1>5. CASE RetryBusy
  <2>1. /\ pc = "parse" /\ pc' = "open" /\ UNCHANGED <<enabled, present, before, heard>>
        /\ ~Succeeded /\ Complete
    BY <1>5 DEF RetryBusy, cardVars, linkVars, GoTo, Status
  <2>2. ~Affirmed BY <2>1 DEF Succeeded, Affirmed
  <2>3. before = Card BY <2>1, <2>2 DEF UnchangedInv
  <2> QED BY <2>1, <2>3 DEF Card, UnchangedInv
<1>6. CASE Return
  <2>1. /\ pc = "parse" /\ pc' = "idle" /\ UNCHANGED <<enabled, present, before, heard>>
        /\ ok' = Succeeded
    BY <1>6 DEF Return, cardVars, linkVars, GoTo
  <2>2. ~Succeeded => before = Card BY <2>1 DEF Succeeded, Complete, Affirmed, UnchangedInv
  <2> QED BY <2>1, <2>2 DEF Card, UnchangedInv
<1>7. CASE WebStep
  <2>1. CASE Detect
    <3>1. UNCHANGED <<enabled, present, before, heard, ok, pc>> /\ pc = "idle"
      BY <2>1 DEF Detect, cardVars, linkVars
    <3> QED BY <3>1 DEF Card, UnchangedInv
  <2>2. CASE \E kind, p, aid : Request(kind, p, aid)
    <3>1. pc' = "open" /\ before' = Card /\ UNCHANGED <<enabled, present>>
      BY <2>2 DEF Request, cardVars, GoTo
    <3> QED BY <3>1 DEF Card, UnchangedInv
  <2> QED BY <1>7, <2>1, <2>2 DEF WebStep
<1>8. CASE UNCHANGED vars
  <2>1. UNCHANGED <<op, ans, enabled, present, before, heard, ok, ret, got, pc>>
    BY <1>8 DEF vars, cardVars, linkVars, opVars, ansVars
  <2>2. UNCHANGED <<Card, Affirmed>> BY <2>1 DEF Card, Affirmed
  <2> QED BY <2>1, <2>2 DEF UnchangedInv
<1> QED BY <1>1, <1>2, <1>3, <1>4, <1>5, <1>6, <1>7, <1>8
        DEF Next, ChannelStep, CommandStep

\* An operation that reports a failure, and lost no answer, has changed nothing
\* on the card, in none of the forms it tried and wherever the card puts the
\* code of a refusal.
THEOREM FailedInVain == Spec => []FailureChangesNothing
<1>1. Init => UnchangedInv /\ Unanswered BY DEF Init, UnchangedInv, Unanswered
<1>2. UnchangedInv => FailureChangesNothing BY DEF UnchangedInv, FailureChangesNothing
<1> QED BY <1>1, <1>2, NextUnchanged, NextUnanswered, TypeCorrect, PTL DEF Spec
=============================================================================

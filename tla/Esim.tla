-------------------------------- MODULE Esim --------------------------------
(***************************************************************************)
(* The eSIM manager: every operation of the web page opens a logical       *)
(* channel to the ISD-R of the card (AT+CCHO), sends one command and       *)
(* fetches its answer (AT+CGLA, GET RESPONSE), closes the channel          *)
(* (AT+CCHC) and reads the answer.  Switching to a profile tries up to     *)
(* three forms of the command.  Sources: esim_manager.c and the handlers   *)
(* of web_server.c, which the HTTP server runs one at a time.              *)
(*                                                                         *)
(* The card and the modem are modelled from how this code uses them.  An   *)
(* answer that is lost (a timeout, a garbled line) may leave the command   *)
(* executed or not.                                                        *)
(***************************************************************************)
EXTENDS Integers

CONSTANTS
  Profiles,    \* profiles of the card
  NoProfile,   \* no profile is enabled
  AidOnly,     \* profiles the card finds by their AID and not by ICCID
  MaxChannel,  \* logical channels of the card
  CleanTo,     \* channels closed to make room (8)
  Isdr,        \* the AIDs of open_channel that select the ISD-R: 0 is the
               \* standard one, 1..3 the alternatives
  ListUnits,   \* GET RESPONSEs the profile list takes
  RefusalTags, \* where a card may put the code of a refusal: "81", "80" or either
  Losses       \* bound on the answers lost

ASSUME ConstantsAssumption ==
  /\ NoProfile \notin Profiles /\ AidOnly \subseteq Profiles
  /\ {MaxChannel, CleanTo, ListUnits} \subseteq Nat \ {0}
  /\ 3 <= CleanTo /\ MaxChannel <= CleanTo
  /\ Isdr \subseteq 0..3 /\ Isdr # {} /\ RefusalTags \subseteq {"80", "81"}
  /\ RefusalTags # {} /\ Losses \in Nat

VARIABLES
  open,      \* channels open on the card
  enabled,   \* the profile the card has enabled
  present,   \* profiles on the card
  supported, \* s_esim_supported
  cache,     \* profiles in s_cached_profiles
  op,        \* the operation in progress, or the last one
  pc, k,     \* where it is, with the counter of the loop it is in
  mode,      \* the form of the command: 1 standard, 2 without refresh, 3 nested
  ch,        \* its channel
  ret,       \* what es10x_command returns: "none" without a channel
  ans, got,  \* the card's answer, and how many units of it have arrived
  ok,        \* the operation returned ESP_OK
  misread,   \* history: the answer it returned on is a refusal that stands in tag 80
  heard,     \* history: every answer of the operation arrived
  before,    \* history: the card's profiles when it began
  leaked,    \* history: channels left open because an answer was lost
  losses     \* answers lost so far

cardVars == <<enabled, present>>
linkVars == <<open, leaked, heard, losses>>
opVars   == <<op, mode, ok, misread, before, cache, supported>>
ansVars  == <<ch, ret, ans, got>>
vars == <<cardVars, linkVars, opVars, ansVars, pc, k>>

Kinds   == {"switch", "disable", "delete", "list"}
Op      == [kind : Kinds, target : Profiles \cup {NoProfile}, aid : BOOLEAN]
Tags    == {"80", "A0", "81"}
Answer  == [tag : Tags, code : 0..5]
NoAnswer == [tag |-> "80", code |-> 0]
Channel == 1..MaxChannel
Card    == [enabled |-> enabled, present |-> present]

GoTo(p, i) == pc' = p /\ k' = i

Heard == UNCHANGED <<heard, losses>>
Lost  == losses < Losses /\ losses' = losses + 1 /\ heard' = FALSE

-----------------------------------------------------------------------------
(* The handlers of the web page. *)

\* esim_manager_init, at boot and on request: three test commands.
Detect ==
  /\ pc = "idle"
  /\ supported' \in BOOLEAN
  /\ UNCHANGED <<cardVars, linkVars, op, mode, ok, misread, before, cache, ansVars, pc, k>>

\* A profile is named by ICCID or AID.  Switching turns the ICCID of a listed
\* profile into its AID.
Request(kind, target, aid) ==
  /\ pc = "idle" /\ supported
  /\ op' = [kind |-> kind, target |-> target,
            aid |-> aid \/ (kind = "switch" /\ target \in cache)]
  /\ ok' = FALSE /\ misread' = FALSE /\ heard' = TRUE /\ before' = Card
  /\ GoTo("open", 0)
  /\ UNCHANGED <<cardVars, open, leaked, losses, mode, cache, supported, ansVars>>

-----------------------------------------------------------------------------
(* open_channel and close_channel. *)

Free == Channel \ open
Grants(aid) == aid \in Isdr /\ Free # {}

OpenOk(aid) ==
  /\ Grants(aid)
  /\ \E c \in Free : open' = open \cup {c} /\ ch' = c
  /\ Heard /\ GoTo("apdu", 0)
  /\ UNCHANGED leaked

\* The card has no such application or no channel left (+CME ERROR).
OpenRefused(aid) ==
  /\ ~Grants(aid)
  /\ Heard /\ UNCHANGED <<open, leaked, ch>>

\* No answer in ten seconds, whether or not a channel has been opened.
OpenLost(aid) ==
  /\ Lost /\ UNCHANGED ch
  /\ \/ UNCHANGED <<open, leaked>>
     \/ /\ Grants(aid)
        /\ \E c \in Free : open' = open \cup {c} /\ leaked' = leaked \cup {c}

\* The answer holds no channel number from 1 to 20: es10x_command returns.
OpenUnread(aid) ==
  /\ Grants(aid)
  /\ Lost /\ UNCHANGED ch
  /\ \E c \in Free : open' = open \cup {c} /\ leaked' = leaked \cup {c}
  /\ GoTo("parse", 0)

OpenFrame == UNCHANGED <<cardVars, opVars, ret, ans, got>>

\* Mutant: no room is made when the channels are full.
OpenStandardFull ==
  /\ pc = "open"
  /\ \/ OpenOk(0) \/ OpenUnread(0)
     \/ (OpenRefused(0) \/ OpenLost(0)) /\ GoTo("alt", 1)
  /\ OpenFrame

OpenStandard ==
  /\ pc = "open"
  /\ \/ OpenOk(0) \/ OpenUnread(0)
     \/ OpenRefused(0) /\ GoTo("clean", 1)
     \/ OpenLost(0) /\ GoTo("alt", 1)
  /\ OpenFrame

\* Room is made by closing every channel there may be.
Clean ==
  /\ pc = "clean"
  /\ \/ Heard /\ open' = open \ {k} /\ leaked' = leaked \ {k}
     \/ Lost /\ open' \in {open, open \ {k}} /\ UNCHANGED leaked
  /\ IF k < CleanTo THEN GoTo("clean", k + 1) ELSE GoTo("reopen", 0)
  /\ UNCHANGED ch /\ OpenFrame

Reopen ==
  /\ pc = "reopen"
  /\ \/ OpenOk(0) \/ OpenUnread(0)
     \/ (OpenRefused(0) \/ OpenLost(0)) /\ GoTo("alt", 1)
  /\ OpenFrame

OpenAlternative ==
  /\ pc = "alt"
  /\ \/ OpenOk(k) \/ OpenUnread(k)
     \/ /\ OpenRefused(k) \/ OpenLost(k)
        /\ IF k < 3 THEN GoTo("alt", k + 1) ELSE GoTo("parse", 0)
  /\ OpenFrame

CloseChannel ==
  /\ pc = "close"
  /\ \/ Heard /\ open' = open \ {ch} /\ leaked' = leaked \ {ch}
     \/ Lost /\ open' \in {open, open \ {ch}} /\ leaked' = leaked \cup {ch}
  /\ GoTo("parse", 0)
  /\ UNCHANGED <<cardVars, opVars, ansVars>>

-----------------------------------------------------------------------------
(* The card. *)

Units(kind) == IF kind = "list" THEN ListUnits ELSE 1

Found == op.target \in present /\ (op.aid \/ op.target \notin AidOnly)

\* Only the enabled profile can be disabled, and only another one enabled or
\* deleted.
Allowed == enabled = op.target <=> op.kind = "disable"

\* 0, or the code of the refusal: 1 not found, 2 not in the right state, 5 a
\* proactive session is going on (CAT busy).
Codes == {code \in 0..5 :
  \/ code = 0 /\ (op.kind = "list" \/ (Found /\ Allowed))
  \/ code = 1 /\ op.kind # "list" /\ ~Found
  \/ code = 2 /\ op.kind # "list" /\ Found /\ ~Allowed
  \/ code = 5 /\ op.kind \in {"switch", "disable"} /\ Found /\ Allowed}

\* Deleting is answered with its code in 80 (profile_operation reads it
\* there); the other commands with 80 or A0 when they are done, and when they are
\* refused with the code in 81 or, as for deleting, in 80.
ReplyTags(code) ==
  CASE op.kind \in {"delete", "list"} -> {"80"}
    [] op.kind \in {"switch", "disable"} /\ code = 0 -> {"80", "A0"}
    [] op.kind \in {"switch", "disable"} /\ code # 0 -> RefusalTags
Replies(code) == [tag : ReplyTags(code), code : {code}]

Execute(code) ==
  /\ enabled' = CASE code = 0 /\ op.kind = "switch"  -> op.target
                  [] code = 0 /\ op.kind = "disable" -> NoProfile
                  [] OTHER -> enabled
  /\ present' = IF code = 0 /\ op.kind = "delete" THEN present \ {op.target}
                                                  ELSE present
  /\ ans' \in Replies(code)

-----------------------------------------------------------------------------
(* es10x_command, between opening and closing the channel. *)

LinkFrame == UNCHANGED <<open, leaked, opVars, ch>>

\* 9xxx ends the answer, 61xx has more to fetch.
Received(n) ==
  IF n < Units(op.kind) THEN GoTo("chain", 0) /\ UNCHANGED ret
                        ELSE GoTo("close", 0) /\ ret' = "ok"

\* Mutant: a failed transmission returns without closing the channel.
TransmitLeaves ==
  /\ pc = "apdu"
  /\ \/ /\ \E code \in Codes : Execute(code)
        /\ \/ Heard /\ got' \in {0, 1} /\ Received(got')
           \/ Lost /\ got' = 0 /\ ret' = "fail" /\ GoTo("close", 0)
     \/ /\ Heard \/ Lost
        /\ got' = 0 /\ ret' = "fail" /\ GoTo("parse", 0)
        /\ UNCHANGED <<cardVars, ans>>
  /\ LinkFrame

\* The command is executed and its answer arrives or not; or the card rejects
\* it, or it never gets there.
Transmit ==
  /\ pc = "apdu"
  /\ \/ /\ \E code \in Codes : Execute(code)
        /\ \/ Heard /\ got' \in {0, 1} /\ Received(got')
           \/ Lost /\ got' = 0 /\ ret' = "fail" /\ GoTo("close", 0)
     \/ /\ Heard \/ Lost
        /\ got' = 0 /\ ret' = "fail" /\ GoTo("close", 0)
        /\ UNCHANGED <<cardVars, ans>>
  /\ LinkFrame

\* Mutant: the status of the fetched unit is not looked at.
GetResponseAgain ==
  /\ pc = "chain"
  /\ \/ Heard /\ got' = got /\ GoTo("chain", 0) /\ UNCHANGED ret
     \/ Lost /\ got' = got /\ ret' \in {"ok", "fail"} /\ GoTo("close", 0)
  /\ LinkFrame /\ UNCHANGED <<cardVars, ans>>

\* GET RESPONSE: any status but 61xx ends the loop, an error too, and what has
\* arrived until then is returned as the answer.
GetResponse ==
  /\ pc = "chain"
  /\ \/ Heard /\ got' = got + 1 /\ Received(got')
     \/ Lost /\ got' = got /\ ret' \in {"ok", "fail"} /\ GoTo("close", 0)
  /\ LinkFrame /\ UNCHANGED <<cardVars, ans>>

-----------------------------------------------------------------------------
(* Reading the answer. *)

\* read_tlv: the length in the header does not exceed what has arrived.
Complete == ret = "ok" /\ got = Units(op.kind)

\* Mutant: any answer of the right length counts.
SucceededAnyTag == Complete

\* Mutant: the constructed form of success is not known.
SucceededOnly80 ==
  /\ Complete
  /\ op.kind = "delete" => ans.code = 0
  /\ op.kind \in {"switch", "disable"} => ans.tag = "80"

Succeeded ==
  /\ Complete
  /\ op.kind = "delete" => ans.code = 0
  /\ op.kind \in {"switch", "disable"} => ans.tag \in {"80", "A0"}

\* sw_res: -1 unless the answer could be read.
Status == IF ~Complete THEN -1 ELSE IF Succeeded THEN 0 ELSE ans.code

\* CAT busy is tried again without refresh, and then in the nested format.
RetryBusy ==
  /\ pc = "parse"
  /\ op.kind = "switch" /\ ~Succeeded /\ Status = 5 /\ mode < 3
  /\ mode' = mode + 1
  /\ ret' = "none" /\ got' = 0
  /\ GoTo("open", 0)
  /\ UNCHANGED <<cardVars, linkVars, op, ok, misread, before, cache, supported, ch, ans>>

\* The call's variables end with it; what the page sees is ok.
Return ==
  /\ pc = "parse"
  /\ ~(op.kind = "switch" /\ ~Succeeded /\ Status = 5 /\ mode < 3)
  /\ ok' = Succeeded
  /\ misread' = (ans.tag = "80" /\ ans.code # 0)
  /\ cache' = IF op.kind = "list" /\ Succeeded THEN present ELSE cache
  /\ ch' = 1 /\ ret' = "none" /\ ans' = NoAnswer /\ got' = 0 /\ mode' = 1
  /\ GoTo("idle", 0)
  /\ UNCHANGED <<cardVars, linkVars, op, before, supported>>

-----------------------------------------------------------------------------
Init ==
  /\ open = {} /\ leaked = {} /\ heard = TRUE /\ losses = 0
  /\ enabled \in Profiles \cup {NoProfile} /\ present = Profiles
  /\ supported = FALSE /\ cache = {}
  /\ op = [kind |-> "list", target |-> NoProfile, aid |-> FALSE]
  /\ mode = 1 /\ ok = FALSE /\ misread = FALSE /\ before = Card
  /\ ch = 1 /\ ret = "none" /\ ans = NoAnswer /\ got = 0
  /\ pc = "idle" /\ k = 0

ChannelStep == OpenStandard \/ Clean \/ Reopen \/ OpenAlternative \/ CloseChannel
CommandStep == Transmit \/ GetResponse \/ RetryBusy \/ Return
WebStep ==
  \/ Detect
  \/ Request("list", NoProfile, FALSE)
  \/ \E kind \in Kinds \ {"list"}, p \in Profiles, aid \in BOOLEAN : Request(kind, p, aid)

Next == ChannelStep \/ CommandStep \/ WebStep

Spec == Init /\ [][Next]_vars

\* Every command ends, by its timeout if not by its answer.
FairSpec == Spec /\ WF_vars(ChannelStep \/ CommandStep)

-----------------------------------------------------------------------------
(* Properties. *)

\* Every variable keeps its type; the loops over channels and AIDs keep their
\* bounds.
TypeOK ==
  /\ open \subseteq Channel /\ leaked \subseteq Channel /\ ch \in Channel
  /\ enabled \in Profiles \cup {NoProfile} /\ present \subseteq Profiles
  /\ cache \subseteq Profiles
  /\ {supported, ok, misread, heard} \subseteq BOOLEAN
  /\ op \in Op /\ mode \in 1..3
  /\ pc \in {"idle", "open", "clean", "reopen", "alt", "apdu", "chain", "close", "parse"}
  /\ k \in 0..CleanTo /\ (pc = "alt" => k \in 1..3)
  /\ ret \in {"none", "fail", "ok"} /\ ans \in Answer
  /\ got \in 0..ListUnits /\ (pc = "chain" => got < Units(op.kind))
  /\ before \in [enabled : Profiles \cup {NoProfile}, present : SUBSET Profiles]
  /\ losses \in 0..Losses

\* Every path through es10x_command closes the channel it opened: between
\* operations no channel is open but those an answer was lost of.
NoChannelLeft == pc \in {"idle", "parse"} => open \subseteq leaked

\* Channels that were left open do not lock the eSIM up: an operation whose
\* answers all arrive always gets a channel (esim_manager.c:230, the channels
\* are full and are cleaned up).
AlwaysReopens == pc = "parse" /\ ret = "none" => ~heard

\* What ESP_OK of an operation promises of the card, and of the list that is
\* shown.
Promised ==
  CASE op.kind = "switch"  -> enabled = op.target
    [] op.kind = "disable" -> enabled # op.target
    [] op.kind = "delete"  -> op.target \notin present
    [] op.kind = "list"    -> cache = present

\* ESP_OK of an operation means the card has done it (esim_manager.h:107), but
\* for one case: a refusal to enable or disable that the card puts in tag 80,
\* which send_profile_apdu_flavor takes for success whatever it holds.
SuccessUnlessMisread ==
  pc = "idle" /\ ok => Promised \/ (op.kind \in {"switch", "disable"} /\ misread)

\* Without that exception, which fails for a card that answers so.
SuccessMeansDone == pc = "idle" /\ ok => Promised

\* An operation that reports a failure, and lost no answer, has changed
\* nothing on the card, in none of the forms it tried.
FailureChangesNothing == pc = "idle" /\ ~ok /\ heard => before = Card

\* Every request of the page is answered.
RequestsEnd == pc # "idle" ~> pc = "idle"
=============================================================================

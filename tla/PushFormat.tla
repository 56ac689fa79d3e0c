----------------------------- MODULE PushFormat -----------------------------
(***************************************************************************)
(* How much of a text a request of push_service.c carries.  A text is n    *)
(* bytes, each of which json_escape writes as `json` bytes and url_encode  *)
(* as `url` bytes (letters 1 and 1, line ends 2 and 3, the bytes of a      *)
(* Chinese character 1 and 3); buffers and precisions are the code's.      *)
(***************************************************************************)
EXTENDS Integers, Sequences, FiniteSets

Least(a, b) == IF a <= b THEN a ELSE b

MessageCap == 512    \* push_msg_t.message
EscapeCap  == 1024   \* push_work_t.esc_message
EncodeCap  == 1536   \* URL_BUF_SIZE and PAYLOAD_BUF_SIZE
BodyMax    == 1000   \* "%.1000s" of the message in a JSON payload
RawMax     == 800    \* "%.800s" of the message in a ServerChan text
DespMax    == 1200   \* "%.1200s" of that text when it is encoded
Escaped    == 2
Encoded    == 3

\* Mutant: the array is taken for one of two-byte characters.
CopiedShort(t) == [t EXCEPT !.n = Least(@, MessageCap \div 2)]

\* strncpy into push_msg_t.
Copied(t) == [t EXCEPT !.n = Least(@, MessageCap - 1)]

\* json_escape and url_encode take a byte while there is room for the widest
\* form of one, whatever its own width.
Taken(n, width, room) == Least(n, (room + width - 1) \div width)

\* The whole bytes a precision of "%.*s" leaves.
Within(n, width, max) == Least(n, max \div width)

InJson(t) == Within(Taken(t.n, t.json, EscapeCap - Escaped), t.json, BodyMax)

\* Around the message in the URL of a GET: the names of its fields, a sender
\* of 19 characters with a plus sign, and a timestamp.
GetFrame == 1 + 7 + 21 + 9 + 11 + 23

\* The encoded URL is used when it fits; otherwise the request goes to the
\* channel's own URL, without the message.
InUrl(t, url) ==
  LET n == Taken(t.n, t.url, EncodeCap - Encoded)
  IN  IF url + GetFrame + n * t.url < EncodeCap THEN n ELSE 0

\* The headings and the timestamp before the message, encoded.
DespHead == 102

InDesp(t) ==
  Within(Taken(Least(t.n, RawMax), t.url, EncodeCap - Encoded - DespHead),
         t.url, DespMax - DespHead)

-----------------------------------------------------------------------------
(* The body of a custom channel is a sequence of pieces: [kind, n], with   *)
(* n bytes of literal text or a placeholder's name and braces.             *)

\* The placeholders in the order of their replacement, with the bytes of
\* their values (n for the message, typical ones for the others).
Values(n) ==
  <<[kind |-> "sender", n |-> 19], [kind |-> "message", n |-> n],
    [kind |-> "timestamp", n |-> 19], [kind |-> "isp", n |-> 20],
    [kind |-> "apn", n |-> 20], [kind |-> "device", n |-> 17],
    [kind |-> "ip", n |-> 15], [kind |-> "phone", n |-> 15]>>

BytesOf(body) ==
  LET sum[i \in 0..Len(body)] == IF i = 0 THEN 0 ELSE sum[i - 1] + body[i].n
  IN  sum[Len(body)]

Filled(body, kind, n) ==
  [i \in DOMAIN body |->
     IF body[i].kind = kind THEN [kind |-> "filled " \o kind, n |-> n] ELSE body[i]]

\* str_replace_inplace works behind the string it replaces in: it copies up to
\* the last placeholder whose replacement fits there, the rest is dropped.
ReplaceInPlace(body, kind, n) ==
  LET room == EncodeCap - BytesOf(body) - 1
      at   == {i \in DOMAIN body : body[i].kind = kind}
      fit  == {i \in at \cup {Len(body)} :
                 BytesOf(Filled(SubSeq(body, 1, i), kind, n)) < room}
      last == IF fit = {} THEN 0 ELSE CHOOSE i \in fit : \A j \in fit : j <= i
  IN  IF body = <<>> \/ BytesOf(body) + 16 >= EncodeCap \/ at = {} THEN body
      ELSE Filled(SubSeq(body, 1, last), kind, n)

InCustom(t, body) ==
  LET n == Taken(t.n, t.json, EscapeCap - Escaped)
      v == Values(n * t.json)
      filled[i \in 0..Len(v)] ==
        IF i = 0 THEN body
        ELSE ReplaceInPlace(filled[i - 1], v[i].kind, v[i].n)
      b == filled[Len(v)]
  IN  IF \E i \in DOMAIN b : b[i].kind = "filled message" THEN n ELSE 0

-----------------------------------------------------------------------------
(* A channel is [enabled, type, url, body]: url is the length of its URL,  *)
(* "JSON" stands for the four types with the text in a JSON payload.       *)

\* send_to_single_channel makes a request of these; ServerChan has a default
\* URL, http_util_request refuses an empty one.
MakesRequest(c) == c.type # "NONE" /\ (c.url > 0 \/ c.type = "SERVERCHAN")

Carried(c, t) ==
  CASE c.type = "JSON"       -> InJson(t)
    [] c.type = "GET"        -> InUrl(t, c.url)
    [] c.type = "SERVERCHAN" -> InDesp(t)
    [] c.type = "CUSTOM"     -> InCustom(t, c.body)
    [] OTHER                 -> 0
=============================================================================

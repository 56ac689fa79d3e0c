----------------------------- MODULE SmsDeliver -----------------------------
(***************************************************************************)
(* What the network sends: an SMS-DELIVER as 3GPP TS 23.040 lays it out,   *)
(* as the modem shows it in PDU mode, and the text its sender wrote.  It   *)
(* is the reference the decoder is compared with.                          *)
(*                                                                         *)
(* An SMS is a record: smsc, the bytes of the service centre's address;    *)
(* intl and number, the sender, who has a telephone number and not a name  *)
(* (a type of address of 208, whose seven-bit text pdu_decoder.c reads as  *)
(* digits); dcs; time, six pairs of digits; elements, the information      *)
(* elements of its header; text, a sequence of Unicode code points;        *)
(* blanks, characters before the PDU; lost, hex digits that did not make   *)
(* it to the gateway.                                                      *)
(***************************************************************************)
EXTENDS Bytes

\* The default alphabet of GSM for a few characters: letters, digits and most
\* signs have their ASCII code, others do not, and some take two septets.
Septets(c) ==
  CASE c = 64   -> <<0>>        \* @
    [] c = 36   -> <<2>>        \* $
    [] c = 233  -> <<5>>        \* e with an acute
    [] c = 8364 -> <<27, 101>>  \* the sign of the euro
    [] OTHER    -> <<c>>

Units(c) ==
  IF c < 65536 THEN <<c>>
  ELSE <<55296 + (c - 65536) \div 1024, 56320 + ((c - 65536) % 1024)>>

Utf8(c) ==
  IF c < 128 THEN <<c>>
  ELSE IF c < 2048 THEN <<192 + (c \div 64), 128 + (c % 64)>>
  ELSE IF c < 65536 THEN <<224 + (c \div 4096), 128 + ((c \div 64) % 64), 128 + (c % 64)>>
  ELSE <<240 + (c \div 262144), 128 + ((c \div 4096) % 64),
         128 + ((c \div 64) % 64), 128 + (c % 64)>>

\* What the sender wrote, in UTF-8.
Written(sms) == Joined([i \in DOMAIN sms.text |-> Utf8(sms.text[i])])

-----------------------------------------------------------------------------
Swapped(digits) ==
  LET padded == IF Len(digits) % 2 = 1 THEN Append(digits, 15) ELSE digits
  IN  [k \in 1..(Len(padded) \div 2) |-> padded[2 * k - 1] + 16 * padded[2 * k]]

\* Bytes behind their number.
Counted(bytes) == <<Len(bytes)>> \o bytes

Element(e) == <<e.iei, Len(e.data)>> \o e.data

HeaderBytes(sms) ==
  IF sms.elements = <<>> THEN <<>>
  ELSE Counted(Joined([i \in DOMAIN sms.elements |-> Element(sms.elements[i])]))

\* The bits of a header and, from the next septet boundary on, of the septets.
FirstSeptet(head) == (8 * Len(head) + 6) \div 7

PackedBit(head, text, b) ==
  LET first == FirstSeptet(head)
  IN  IF b < 8 * Len(head) THEN (head[(b \div 8) + 1] \div 2^(b % 8)) % 2
      ELSE IF b < 7 * first \/ b >= 7 * (first + Len(text)) THEN 0
      ELSE (text[(b \div 7) - first + 1] \div 2^(b % 7)) % 2

PackedByte(head, text, m) ==
  LET bit(i) == PackedBit(head, text, 8 * m + i)
  IN  bit(0) + 2 * bit(1) + 4 * bit(2) + 8 * bit(3)
        + 16 * bit(4) + 32 * bit(5) + 64 * bit(6) + 128 * bit(7)

PackedText(sms) ==
  LET head == HeaderBytes(sms)
      text == Joined([i \in DOMAIN sms.text |-> Septets(sms.text[i])])
      udl  == FirstSeptet(head) + Len(text)
  IN  <<udl>> \o [m \in 1..((7 * udl + 7) \div 8) |-> PackedByte(head, text, m - 1)]

WideText(sms) ==
  LET units == Joined([i \in DOMAIN sms.text |-> Units(sms.text[i])])
      bytes == Joined([i \in DOMAIN units |-> <<units[i] \div 256, units[i] % 256>>])
  IN  Counted(HeaderBytes(sms) \o bytes)

DataText(sms) == Counted(HeaderBytes(sms) \o sms.text)

\* Bits 2 and 3 of the data coding scheme name the alphabet.
Alphabet(dcs) == (dcs \div 4) % 4

UserData(sms) ==
  CASE Alphabet(sms.dcs) = 2 -> WideText(sms)
    [] Alphabet(sms.dcs) = 1 -> DataText(sms)
    [] OTHER -> PackedText(sms)

\* The address of the service centre, the type, the sender, the protocol, the
\* alphabet, the time with its zone, and the user data.
Pdu(sms) ==
  Counted(sms.smsc)
    \o <<IF sms.elements = <<>> THEN 4 ELSE 68>>
    \o <<Len(sms.number), IF sms.intl THEN 145 ELSE 129>> \o Swapped(sms.number)
    \o <<0, sms.dcs>> \o [k \in 1..6 |-> sms.time[k][1] + 16 * sms.time[k][2]] \o <<50>>
    \o UserData(sms)

\* The characters with the same code in ASCII and in the default alphabet, and
\* of the others those Septets knows.
SameCode == {c \in Nat : \/ c = 10 \/ c = 13
                         \/ 32 <= c /\ c <= 122 /\ c # 36 /\ c # 64
                            /\ ~(91 <= c /\ c <= 96)}
GsmCharacters == SameCode \cup {36, 64, 233, 8364}
Unicode == {c \in Nat : 0 < c /\ c < 1114112}
Characters(alphabet) ==
  CASE alphabet = 2 -> Unicode
    [] alphabet = 1 -> Byte \ {0}
    [] OTHER -> GsmCharacters

\* What the network delivers: no address is longer than it may be, no coding
\* but the three alphabets, an element is as long as its kind, a character is
\* one of the alphabet's, and the user data are 140 bytes and their length.
Deliverable(sms) ==
  /\ sms.smsc \in Seq(Byte) /\ Len(sms.smsc) <= 11
  /\ sms.intl \in BOOLEAN /\ sms.number \in Seq(0..9) /\ Len(sms.number) <= 20
  /\ sms.dcs \in Byte /\ Alphabet(sms.dcs) \in 0..2
  /\ sms.time \in [1..6 -> [1..2 -> 0..9]]
  /\ sms.elements \in Seq([iei : Byte, data : Seq(Byte)])
  /\ \A i \in DOMAIN sms.elements :
        /\ Len(sms.elements[i].data) <= 255
        /\ sms.elements[i].iei = 0 => Len(sms.elements[i].data) = 3
        /\ sms.elements[i].iei = 8 => Len(sms.elements[i].data) = 4
  /\ sms.text \in Seq(Characters(Alphabet(sms.dcs)))
  /\ Len(UserData(sms)) <= 141
  /\ sms.blanks \in Nat /\ sms.lost \in Nat

\* Two hex digits a byte.
Hex(bytes) ==
  [i \in 1..(2 * Len(bytes)) |->
     IF i % 2 = 1 THEN bytes[(i + 1) \div 2] \div 16 ELSE bytes[i \div 2] % 16]

\* Blanks and line ends are 16, any other character that is no hex digit 17.
Line(sms) ==
  LET hex == Hex(Pdu(sms))
  IN  [i \in 1..sms.blanks |-> 16] \o SubSeq(hex, 1, Len(hex) - sms.lost) \o <<16>>
=============================================================================

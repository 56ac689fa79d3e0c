------------------------------ MODULE PduPath ------------------------------
(***************************************************************************)
(* The decoder against the network: an SMS is encoded as SmsDeliver says,  *)
(* shown by the modem and decoded by pdu_decode.  One step, so that TLC    *)
(* reports a wrong answer with its input.                                  *)
(***************************************************************************)
EXTENDS PduDecoder, SmsDeliver

CONSTANT Sms   \* the SMS that are decoded

\* The buffers: a PDU fits the first, "Unknown" a number, and the text of as
\* many bytes as there are, or of as many septets as a byte counts, the last.
ASSUME BufAssumption ==
  /\ BufCap \in Nat /\ NumberCap \in Nat /\ TextCap \in Nat
  /\ BufCap >= 175 /\ NumberCap >= 7
  /\ TextCap > 255 /\ 3 * ((BufCap + 1) \div 2) < TextCap

ASSUME SmsAssumption == \A s \in Sms : Deliverable(s)

VARIABLES sms, out

Init == sms \in Sms /\ out = Failed
Decode == out = Failed /\ out' = PduDecode(Line(sms)) /\ UNCHANGED sms
Next == Decode
Spec == Init /\ [][Next]_<<sms, out>>

Whole == out.ok /\ sms.lost = 0

-----------------------------------------------------------------------------
\* Every output fits its array: the longest text the PDU buffer holds, and a
\* number of more digits than the 19 there is room for.
OutputFits ==
  out.ok => /\ Len(out.sender) <= NumberCap
            /\ Len(out.text) < TextCap
            /\ out.header.ref < 2^16
            /\ out.header.total < 2^8 /\ out.header.part < 2^8

SenderOf(s) ==
  LET digits == [i \in DOMAIN s.number |-> Digit(s.number[i])]
      number == IF s.number = <<>> THEN Unknown
                ELSE (IF s.intl THEN <<Plus>> ELSE <<>>) \o digits
  IN  SubSeq(number, 1, Min({NumberCap, Len(number)}))

TimeOf(s) == [i \in 1..6 |-> [j \in 1..2 |-> Digit(s.time[i][j])]]

\* What the first long-SMS element of the header says, wherever it stands.
HeaderOf(s) ==
  LET longs == {i \in DOMAIN s.elements : s.elements[i].iei \in {0, 8}}
  IN  IF longs = {} THEN NoHeader
      ELSE LET d == s.elements[Min(longs)].data
               n == Len(d)
           IN  [concat |-> TRUE, part |-> d[n], total |-> d[n - 1],
                ref |-> IF n = 3 THEN d[1] ELSE 256 * d[1] + d[2]]

\* parse_phone_number and parse_timestamp undo the swapped halves, the filler
\* and the plus sign, and the walk over the header finds the long-SMS element
\* and takes nothing else for one, whatever stands before them: a service
\* centre or none, blanks, other elements.
FieldsDecoded ==
  Whole => out.sender = SenderOf(sms) /\ out.time = TimeOf(sms) /\ out.header = HeaderOf(sms)

\* The texts the decoder can do: every character is one unit of UCS2, a byte
\* of ASCII, or has its ASCII code in GSM and no bits are filled in before it.
Plain(s) ==
  CASE Alphabet(s.dcs) = 2 -> \A i \in DOMAIN s.text : s.text[i] < 65536
    [] Alphabet(s.dcs) = 1 -> \A i \in DOMAIN s.text : s.text[i] < 128
    [] Alphabet(s.dcs) = 0 ->
         /\ \A i \in DOMAIN s.text : Septets(s.text[i]) = <<s.text[i]>>
         /\ (8 * Len(HeaderBytes(s))) % 7 = 0

\* A plain text is decoded to what its sender wrote.
PlainTextDecoded == Whole /\ Plain(sms) => out.text = Written(sms)

\* pdu_decoder.h:10: text is the complete text of the SMS in UTF-8.
TextDecoded == Whole => out.text = Written(sms)

\* A PDU that lost its end on the way is not taken for an SMS (its slot would
\* be deleted with the rest of the text in it).
CutPduRefused == sms.lost > 0 => ~out.ok
=============================================================================

----------------------------- MODULE PduDecoder -----------------------------
(***************************************************************************)
(* pdu_decoder.c: from the line of hex digits the modem hands over to the  *)
(* sender, the time, the text and the long-SMS header of an SMS-DELIVER.   *)
(* A byte, and a character of an output string, is a number 0..255; a      *)
(* character of the input line is a hex digit 0..15, Blank or Other.  The  *)
(* arrays of C start at 0: At(d, i) is d[i].                               *)
(***************************************************************************)
EXTENDS Bytes, FiniteSetsExt

CONSTANTS
  BufCap,     \* sizeof(buf)
  NumberCap,  \* characters of a number that fit decoded_sms_t.sender
  TextCap     \* sizeof(decoded_sms_t.text)

Blank == 16
Other == 17

\* No PDU the network delivers makes the decoder read behind its bytes.
At(d, i) == IF i + 1 \in DOMAIN d THEN d[i + 1] ELSE 0

-----------------------------------------------------------------------------
(* Characters. *)

\* Leading blanks are skipped; the first pair that is not two hex digits, the
\* end of the line and a full buffer end the conversion.
HexToBytes(line) ==
  LET text  == IF \A i \in DOMAIN line : line[i] = Blank THEN <<>>
               ELSE SubSeq(line, CHOOSE i \in DOMAIN line :
                                   /\ line[i] # Blank
                                   /\ \A j \in 1..(i - 1) : line[j] = Blank,
                           Len(line))
      whole == {k \in 0..(Len(text) \div 2) :
                  k <= BufCap /\ \A i \in 1..(2 * k) : text[i] < 16}
  IN  [k \in 1..Max(whole) |-> (16 * text[2 * k - 1]) + text[2 * k]]

Digit(n) == 48 + n
Plus == 43
Unknown == <<85, 110, 107, 110, 111, 119, 110>>

\* The low half of a byte comes first; a high half of 15 is the filler.
SemiOctet(b) ==
  IF b \div 16 = 15 THEN <<Digit(b % 16)>> ELSE <<Digit(b % 16), Digit(b \div 16)>>

\* Mutant: the output buffer has no end.
PhoneUncapped(d, i) ==
  LET bytes == (At(d, i) + 1) \div 2
  IN  IF At(d, i) = 0 THEN [number |-> Unknown, next |-> i + 2]
      ELSE [number |-> (IF At(d, i + 1) = 145 THEN <<Plus>> ELSE <<>>)
                         \o Joined([k \in 1..bytes |-> SemiOctet(At(d, i + 1 + k))]),
            next |-> i + 2 + bytes]

\* parse_phone_number: the number and the index behind it.
Phone(d, i) ==
  LET bytes  == (At(d, i) + 1) \div 2
      digits == Joined([k \in 1..bytes |-> SemiOctet(At(d, i + 1 + k))])
      number == IF At(d, i + 1) = 145 THEN <<Plus>> \o digits ELSE digits
  IN  IF At(d, i) = 0 THEN [number |-> Unknown, next |-> i + 2]
      ELSE [number |-> IF Len(number) <= NumberCap THEN number
                       ELSE SubSeq(number, 1, NumberCap),
            next |-> i + 2 + bytes]

\* parse_timestamp: two digits each of year, month, day, hour, minute, second.
Timestamp(d, i) ==
  [k \in 1..6 |-> <<Digit(At(d, i + k - 1) % 16), Digit(At(d, i + k - 1) \div 16)>>]

\* ucs2_to_utf8 of one 16-bit unit; half a surrogate pair is a unit too.
Utf8OfUnit(w) ==
  IF w < 128 THEN <<w>>
  ELSE IF w < 2048 THEN <<192 + (w \div 64), 128 + (w % 64)>>
  ELSE <<224 + (w \div 4096), 128 + ((w \div 64) % 64), 128 + (w % 64)>>

Ucs2(d, i, bytes) ==
  Joined([k \in 1..((bytes + 1) \div 2) |->
            Utf8OfUnit((256 * At(d, i + 2 * k - 2)) + At(d, i + 2 * k - 1))])

\* Mutant: the next byte is joined in although the septet ends with this one.
SeptetAtShort(d, byte, bit) ==
  ((At(d, byte) \div 2^bit) % 128)
    + (IF bit > 2 THEN (At(d, byte + 1) * 2^(8 - bit)) % 128 ELSE 0)

\* One septet at a bit of a byte: the two parts share no bit, | is +.
SeptetAt(d, byte, bit) ==
  ((At(d, byte) \div 2^bit) % 128)
    + (IF bit > 1 THEN (At(d, byte + 1) * 2^(8 - bit)) % 128 ELSE 0)

\* bit_offset and byte_offset advance by seven bits a septet.  The septets are
\* the characters of the text: no alphabet is applied.
Gsm7(d, i, count) ==
  [k \in 1..count |-> SeptetAt(d, i + ((7 * (k - 1)) \div 8), (7 * (k - 1)) % 8)]

\* What every later use of the array sees: it ends at the first zero.
CString(s) ==
  IF \E i \in DOMAIN s : s[i] = 0
  THEN SubSeq(s, 1, (CHOOSE i \in DOMAIN s : s[i] = 0 /\ \A j \in 1..(i - 1) : s[j] # 0) - 1)
  ELSE s

-----------------------------------------------------------------------------
(* pdu_decode. *)

NoHeader == [concat |-> FALSE, ref |-> 0, total |-> 0, part |-> 0]

\* Mutant: only the first information element is looked at.
UserHeaderFirst(ud) ==
  IF At(ud, 1) = 0 /\ At(ud, 2) = 3
  THEN [concat |-> TRUE, ref |-> At(ud, 3), total |-> At(ud, 4), part |-> At(ud, 5)]
  ELSE NoHeader

\* The first element of the user data header with a reference of 8 or 16 bits.
UserHeader(ud) ==
  LET walk[i \in Nat] ==
        IF ~(i <= At(ud, 0) /\ i < Len(ud)) THEN NoHeader
        ELSE IF At(ud, i) = 0 /\ At(ud, i + 1) = 3
        THEN [concat |-> TRUE, ref |-> At(ud, i + 2),
              total |-> At(ud, i + 3), part |-> At(ud, i + 4)]
        ELSE IF At(ud, i) = 8 /\ At(ud, i + 1) = 4
        THEN [concat |-> TRUE, ref |-> (256 * At(ud, i + 2)) + At(ud, i + 3),
              total |-> At(ud, i + 4), part |-> At(ud, i + 5)]
        ELSE walk[i + 2 + At(ud, i + 1)]
  IN  walk[1]

Encoding(dcs) ==
  CASE (dcs \div 4) % 4 = 2 -> "ucs2"
    [] (dcs \div 4) % 4 = 1 -> "8bit"
    [] OTHER -> "7bit"

\* Behind a header the septets are read from the next whole byte on.
UserText(code, udh, udl, ud) ==
  LET start == IF udh THEN At(ud, 0) + 1 ELSE 0
      left  == Len(ud) - start
  IN  CASE code = "ucs2" -> IF left > 0 THEN Ucs2(ud, start, left) ELSE <<>>
        [] code = "7bit" -> Gsm7(ud, start, udl - ((start * 8) + 6) \div 7)
        [] code = "8bit" ->
             [k \in 1..Min({left, TextCap - 1}) |-> At(ud, start + k - 1)]

Failed == [ok |-> FALSE]

PduDecode(line) ==
  LET buf  == HexToBytes(line)
      type == 1 + At(buf, 0)
      from == Phone(buf, type + 1)
      code == Encoding(At(buf, from.next + 1))
      udl  == from.next + 9
      ud   == SubSeq(buf, udl + 2, Len(buf))
      udh  == (At(buf, type) \div 64) % 2 = 1
  IN  IF buf = <<>> \/ type >= Len(buf) \/ from.next >= Len(buf) \/ udl >= Len(buf)
      THEN Failed
      ELSE [ok |-> TRUE, sender |-> from.number,
            time |-> Timestamp(buf, from.next + 2),
            header |-> IF udh /\ ud # <<>> THEN UserHeader(ud) ELSE NoHeader,
            text |-> IF ud = <<>> THEN <<>>
                     ELSE CString(UserText(code, udh, At(buf, udl), ud))]

=============================================================================

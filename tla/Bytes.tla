------------------------------- MODULE Bytes -------------------------------
(* Sequences of bytes, for the decoder and for what it is compared with.   *)
EXTENDS Integers, Sequences

Byte == 0..255

\* The pieces one after the other.
Joined(pieces) ==
  LET upto[n \in 0..Len(pieces)] ==
        IF n = 0 THEN <<>> ELSE upto[n - 1] \o pieces[n]
  IN  upto[Len(pieces)]
=============================================================================

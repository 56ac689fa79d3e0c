----------------------------- MODULE PduPathMC -----------------------------
(* Instances of PduPath for TLC. *)
EXTENDS PduPath

Basic == [smsc |-> <<145, 104, 49>>, intl |-> TRUE, number |-> <<8, 6, 1, 3, 8>>,
          dcs |-> 0, time |-> <<<<2, 4>>, <<0, 1>>, <<3, 1>>, <<2, 3>>, <<5, 9>>, <<0, 7>>>>,
          elements |-> <<>>, text |-> <<72, 105>>, blanks |-> 0, lost |-> 0]

Numbers(n)  == {[i \in 1..k |-> (i * 7) % 10] : k \in 0..n}
Concat8     == [iei |-> 0, data |-> <<201, 3, 2>>]
Concat16    == [iei |-> 8, data |-> <<1, 44, 3, 1>>]
Ports       == [iei |-> 5, data |-> <<0, 8, 0, 3>>]
Empty       == [iei |-> 36, data |-> <<>>]
Headers     == {<<>>, <<Concat8>>, <<Concat16>>, <<Ports>>, <<Ports, Concat8>>,
                <<Concat16, Ports>>, <<Empty, Concat16>>, <<Empty, Ports, Concat8>>}
Texts(cs, n) == UNION {[1..k -> cs] : k \in 0..n}
Runs(cs, ns) == {[i \in 1..n |-> c] : c \in cs, n \in ns}

Wide == {65, 233, 20013}
Narrow == {65, 122, 49}

\* Senders, service centres, blanks; headers; texts of both alphabets with and
\* without a header; the longest texts.
MCSms ==
  {[Basic EXCEPT !.number = n, !.intl = i, !.smsc = c, !.blanks = b] :
     n \in Numbers(20), i \in BOOLEAN, c \in {<<>>, <<145, 104, 49>>}, b \in {0, 2}}
  \cup {[Basic EXCEPT !.elements = h, !.dcs = d, !.text = t] :
          h \in Headers, d \in {0, 4, 8, 16, 24}, t \in Texts({65}, 2)}
  \cup {[Basic EXCEPT !.text = t] : t \in Texts(Narrow, 4) \cup Runs(Narrow, 7..10)}
  \cup {[Basic EXCEPT !.text = t, !.elements = <<Concat16>>] :
          t \in Texts(Narrow, 3) \cup Runs(Narrow, 6..9)}
  \cup {[Basic EXCEPT !.dcs = 8, !.text = t, !.elements = h] :
          t \in Texts(Wide, 3), h \in {<<>>, <<Concat8>>}}
  \cup {[Basic EXCEPT !.text = t] : t \in Runs({122}, {160})}
  \cup {[Basic EXCEPT !.dcs = 8, !.text = t] : t \in Runs({20013}, {70})}

\* The texts the decoder does not decode to what was written.
MCFull ==
  {[Basic EXCEPT !.text = t] : t \in Texts({65, 64, 36, 8364}, 2)}
  \cup {[Basic EXCEPT !.text = <<65, 66>>, !.elements = <<Concat8>>],
        [Basic EXCEPT !.dcs = 8, !.text = <<128512>>]}

\* A PDU that arrives without its last digits.
MCCut == {[Basic EXCEPT !.dcs = 8, !.text = <<20013, 25991>>, !.lost = l] : l \in 0..4}
=============================================================================

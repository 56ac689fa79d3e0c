--------------------------- MODULE PushDeliveryMC ---------------------------
(* Instances of PushDelivery for TLC. *)
EXTENDS PushDelivery

Template == <<[kind |-> "literal", n |-> 9], [kind |-> "sender", n |-> 8],
              [kind |-> "message", n |-> 9], [kind |-> "timestamp", n |-> 11],
              [kind |-> "literal", n |-> 60]>>

Setting(e, t, u) == [enabled |-> e, type |-> t, url |-> u, body |-> Template]

\* A JSON channel and a GET with the longest URL.
MCSettings == <<Setting(TRUE, "JSON", 40), Setting(TRUE, "GET", 127)>>

\* The first may be made a custom one; the second a ServerChan with the
\* default URL, in use or switched off.
MCOffered == <<{Setting(TRUE, "CUSTOM", 40)},
               {Setting(FALSE, "SERVERCHAN", 0), Setting(TRUE, "SERVERCHAN", 0)}>>

\* An SMS in two parts with the longest text of Chinese characters that is
\* sure to be carried.
MCPushes == {[text |-> [n |-> 366, json |-> 1, url |-> 3], slots |-> 2]}

MCServerChan == <<Setting(TRUE, "SERVERCHAN", 0)>>
MCGet        == <<Setting(TRUE, "GET", 127)>>
MCJson       == <<Setting(TRUE, "JSON", 30)>>
MCNoOffer    == <<{}>>
MCTorn       == <<{Setting(TRUE, "GET", 127)}>>

\* A Chinese SMS of 150 characters, one of 171, and one of 366 quotes.
MCLong   == {[text |-> [n |-> 450, json |-> 1, url |-> 3], slots |-> 1]}
MCLonger == {[text |-> [n |-> 513, json |-> 1, url |-> 3], slots |-> 1]}
MCQuotes == {[text |-> [n |-> 366, json |-> 2, url |-> 3], slots |-> 1]}
MCCustom == <<Setting(TRUE, "CUSTOM", 40)>>
=============================================================================

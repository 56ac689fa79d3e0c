--------------------------- MODULE PduPath_proofs ---------------------------
(***************************************************************************)
(* The decoder gives back what the network delivers, for every SMS: first  *)
(* that no output overruns its array, whatever is on the line; then that   *)
(* the bytes of the line are those of the PDU, that each field is read     *)
(* where the standard puts it, and that header and text are undone.  What  *)
(* a recursive definition computes is proved over sets of numbers: a set   *)
(* that holds 0 and n with n - 1 holds every number (UpTo).                *)
(***************************************************************************)
EXTENDS PduPath, WellFoundedInduction, TLAPS

-----------------------------------------------------------------------------
(* Induction over data: a set of numbers that is not empty has a least one. *)

Smaller == {ss \in Nat \X Nat : ss[1] < ss[2]}

\* A set of numbers that is not empty has a least one.
LEMMA LeastOf ==
  ASSUME NEW S \in SUBSET Nat, S # {}
  PROVE  \E n \in S : \A m \in S : n <= m
<1>1. IsWellFoundedOn(Smaller, Nat)
  BY NatLessThanWellFounded DEF OpToRel, Smaller
<1>2. \E n \in S : \A m \in S : ~(<<m, n>> \in Smaller)
  BY <1>1, WFMin
<1>3. PICK n \in S : \A m \in S : ~(<<m, n>> \in Smaller)
  BY <1>2
<1>4. \A m \in S : ~(m < n)
  <2> SUFFICES ASSUME NEW m \in S, m < n PROVE FALSE OBVIOUS
  <2>1. m \in Nat /\ n \in Nat OBVIOUS
  <2>2. <<m, n>> \in Smaller BY <2>1 DEF Smaller
  <2> QED BY <2>2, <1>3
<1> QED BY <1>4

\* Good is the set of the numbers up to N for which a fact holds: if 0 has it
\* and every number inherits it from the one before, all have it.
LEMMA UpTo ==
  ASSUME NEW N \in Nat, NEW Good, 0 \in Good,
         \A n \in 1..N : n - 1 \in Good => n \in Good
  PROVE  0..N \subseteq Good
<1> SUFFICES ASSUME (0..N) \ Good # {} PROVE FALSE OBVIOUS
<1>1. PICK n \in (0..N) \ Good : \A m \in (0..N) \ Good : n <= m
  <2>1. (0..N) \ Good \in SUBSET Nat OBVIOUS
  <2> QED BY <2>1, LeastOf
<1>2. n \in 1..N /\ n - 1 \in 0..N /\ ~(n <= n - 1) OBVIOUS
<1> QED BY <1>1, <1>2

-----------------------------------------------------------------------------
(* Pieces one after the other. *)

\* What is joined of the pieces, after each of them.
Prefixes(p, u) ==
  /\ u[0] = <<>> /\ \A n \in 1..Len(p) : u[n] = u[n - 1] \o p[n]
  /\ Joined(p) = u[Len(p)]

\* Joined adds one piece after the other.
LEMMA JoinedPrefixes ==
  ASSUME NEW S, NEW p \in Seq(Seq(S))
  PROVE  \E u \in [0..Len(p) -> Seq(S)] : Prefixes(p, u)
<1> DEFINE Upto(u, k) == \A n \in 0..k : u[n] = IF n = 0 THEN <<>> ELSE u[n - 1] \o p[n]
           Good == {k \in 0..Len(p) : \E u \in [0..k -> Seq(S)] : Upto(u, k)}
<1>1. Len(p) \in Nat /\ \A n \in 1..Len(p) : p[n] \in Seq(S)
  OBVIOUS
<1>2. 0..Len(p) \subseteq Good
  <2>1. 0 \in Good
    <3>1. [n \in 0..0 |-> <<>>] \in [0..0 -> Seq(S)] /\ Upto([n \in 0..0 |-> <<>>], 0) OBVIOUS
    <3>2. \E u \in [0..0 -> Seq(S)] : Upto(u, 0) BY <3>1
    <3> HIDE DEF Upto
    <3> QED BY <1>1, <3>2
  <2>2. ASSUME NEW k \in 1..Len(p), k - 1 \in Good PROVE k \in Good
    <3>1. PICK u \in [0..(k - 1) -> Seq(S)] : Upto(u, k - 1) BY <2>2
    <3> DEFINE v == [n \in 0..k |-> IF n = k THEN u[k - 1] \o p[k] ELSE u[n]]
    <3>2. k \in Nat /\ k # 0 /\ k - 1 # k /\ k - 1 \in 0..k /\ k \in 0..Len(p) OBVIOUS
    <3>3. v \in [0..k -> Seq(S)]
      <4>1. u[k - 1] \in Seq(S) /\ p[k] \in Seq(S) BY <1>1, <3>2
      <4>2. u[k - 1] \o p[k] \in Seq(S) BY <4>1
      <4> QED BY <4>2
    <3>4. Upto(v, k)
      <4> SUFFICES ASSUME NEW n \in 0..k
                   PROVE  v[n] = IF n = 0 THEN <<>> ELSE v[n - 1] \o p[n] OBVIOUS
      <4>1. CASE n = k
        <5>1. \A m \in 0..k : v[m] = IF m = k THEN u[k - 1] \o p[k] ELSE u[m] OBVIOUS
        <5>2. k \in 0..k /\ k - 1 \in 0..k BY <3>2
        <5> HIDE DEF v
        <5>3. v[k] = u[k - 1] \o p[k] /\ v[k - 1] = u[k - 1] BY <3>2, <5>1, <5>2
        <5> QED BY <5>3, <3>2, <4>1
      <4>2. CASE n # k
        <5>1. n \in 0..(k - 1) /\ (n # 0 => n - 1 \in 0..k /\ n - 1 # k) BY <4>2
        <5>2. u[n] = IF n = 0 THEN <<>> ELSE u[n - 1] \o p[n] BY <5>1, <3>1
        <5> QED BY <5>1, <5>2, <4>2
      <4> QED BY <4>1, <4>2
    <3> HIDE DEF v, Upto
    <3> QED BY <3>2, <3>3, <3>4
  <2> HIDE DEF Good
  <2> QED BY <1>1, <2>1, <2>2, UpTo
<1>3. PICK u \in [0..Len(p) -> Seq(S)] : Upto(u, Len(p))
  <2>1. Len(p) \in 0..Len(p) BY <1>1
  <2> QED BY <2>1, <1>2
<1> DEFINE F == CHOOSE f : f = [n \in 0..Len(p) |-> IF n = 0 THEN <<>> ELSE f[n - 1] \o p[n]]
<1>4. u = [n \in 0..Len(p) |-> IF n = 0 THEN <<>> ELSE u[n - 1] \o p[n]]
  BY <1>3
<1>5. F = [n \in 0..Len(p) |-> IF n = 0 THEN <<>> ELSE F[n - 1] \o p[n]]
  BY <1>4
<1>6. Joined(p) = F[Len(p)]
  BY DEF Joined
<1>7. \A n \in 0..Len(p) : F[n] = IF n = 0 THEN <<>> ELSE F[n - 1] \o p[n]
  <2> HIDE DEF F
  <2> QED BY <1>5
<1>8. F \in [0..Len(p) -> Seq(S)]
  <2> DEFINE Typed == {n \in 0..Len(p) : F[n] \in Seq(S)}
  <2> HIDE DEF F
  <2>1. 0 \in Typed
    <3>1. 0 \in 0..Len(p) BY <1>1
    <3>2. F[0] = <<>> BY <1>7, <3>1
    <3>3. <<>> \in Seq(S) OBVIOUS
    <3> QED BY <3>1, <3>2, <3>3
  <2>2. ASSUME NEW n \in 1..Len(p), n - 1 \in Typed PROVE n \in Typed
    <3>1. n \in 0..Len(p) /\ n # 0 /\ F[n - 1] \in Seq(S) /\ p[n] \in Seq(S) BY <1>1, <2>2
    <3>2. F[n] = F[n - 1] \o p[n] BY <1>7, <3>1
    <3>3. F[n - 1] \o p[n] \in Seq(S) BY <3>1
    <3> QED BY <3>1, <3>2, <3>3
  <2>3. 0..Len(p) \subseteq Typed
    <3> HIDE DEF Typed
    <3> QED BY <1>1, <2>1, <2>2, UpTo
  <2> QED BY <1>5, <2>3
<1>9. Prefixes(p, F)
  <2> HIDE DEF F
  <2>1. F[0] = <<>> BY <1>1, <1>7
  <2>2. ASSUME NEW n \in 1..Len(p) PROVE F[n] = F[n - 1] \o p[n]
    <3>1. n \in 0..Len(p) /\ n # 0 OBVIOUS
    <3> QED BY <1>7, <3>1
  <2> QED BY <1>6, <2>1, <2>2 DEF Prefixes
<1> QED BY <1>8, <1>9

-----------------------------------------------------------------------------
(* Joined sequences. *)

\* Pieces of S are joined to a sequence of S.
LEMMA JoinedSeq ==
  ASSUME NEW S, NEW p \in Seq(Seq(S))
  PROVE  Joined(p) \in Seq(S)
<1>1. PICK u \in [0..Len(p) -> Seq(S)] : Prefixes(p, u) BY JoinedPrefixes
<1>2. Len(p) \in 0..Len(p) OBVIOUS
<1> QED BY <1>1, <1>2 DEF Prefixes

\* Sequences: elements, equality, concatenation.
LEMMA ElementIn ==
  ASSUME NEW S, NEW s \in Seq(S), NEW i \in 1..Len(s)
  PROVE  s[i] \in S
OBVIOUS

LEMMA SameSeq ==
  ASSUME NEW S, NEW s \in Seq(S), NEW t \in Seq(S), Len(s) = Len(t),
         \A i \in 1..Len(s) : s[i] = t[i]
  PROVE  s = t
OBVIOUS

LEMMA Concat ==
  ASSUME NEW S, NEW s \in Seq(S), NEW t \in Seq(S)
  PROVE  /\ s \o t \in Seq(S) /\ Len(s \o t) = Len(s) + Len(t)
         /\ Len(s) \in Nat /\ Len(t) \in Nat
         /\ \A i \in 1..Len(s) : (s \o t)[i] = s[i]
         /\ \A i \in 1..Len(t) : (s \o t)[Len(s) + i] = t[i]
OBVIOUS

LEMMA Behind ==
  ASSUME NEW S, NEW s \in Seq(S), NEW t \in Seq(S), NEW i \in 1..Len(t)
  PROVE  (s \o t)[Len(s) + i] = t[i]
OBVIOUS

\* What stands in a sequence that is appended to n elements.
LEMMA After ==
  ASSUME NEW S, NEW s \in Seq(S), NEW t \in Seq(S), NEW n \in Nat, n = Len(s)
  PROVE  /\ s \o t \in Seq(S) /\ Len(s \o t) = Len(t) + n /\ Len(t) \in Nat
         /\ \A i \in 1..n : (s \o t)[i] = s[i]
         /\ \A i \in 1..Len(t) : (s \o t)[i + n] = t[i]
<1>1. PICK r : r = s \o t OBVIOUS
<1>2. PICK m \in Nat : m = Len(t) OBVIOUS
<1>3. r \in Seq(S) /\ Len(r) = n + m
   BY <1>1, <1>2
<1>4. \A i \in 1..n : r[i] = s[i]
   BY <1>1, Concat
<1>5. ASSUME NEW i \in 1..m PROVE r[i + n] = t[i]
  <2>1. i + n = n + i OBVIOUS
  <2>2. r[n + i] = t[i] BY <1>1, <1>2, Concat
  <2> QED BY <2>1, <2>2
<1> QED BY <1>1, <1>2, <1>3, <1>4, <1>5

\* One element, or two, before a sequence.
LEMMA Cons ==
  ASSUME NEW S, NEW x \in S, NEW t \in Seq(S)
  PROVE  /\ <<x>> \o t \in Seq(S) /\ Len(<<x>> \o t) = Len(t) + 1 /\ Len(t) \in Nat
         /\ (<<x>> \o t)[1] = x
         /\ \A i \in 1..Len(t) : (<<x>> \o t)[i + 1] = t[i]
<1>8. <<x>> \in Seq(S) /\ Len(<<x>>) = 1 /\ <<x>>[1] = x OBVIOUS
<1>9. PICK n \in Nat : n = 1 OBVIOUS
<1>1. PICK h \in Seq(S) : h = <<x>> /\ n = 1 /\ Len(h) = n /\ h[1] = x BY <1>8, <1>9
<1>2. PICK r : r = h \o t OBVIOUS
<1>3. r \in Seq(S) /\ Len(r) = Len(t) + n /\ Len(t) \in Nat BY <1>1, <1>2, After
<1>4. \A i \in 1..n : r[i] = h[i] BY <1>1, <1>2, After
<1>5. \A i \in 1..Len(t) : r[i + n] = t[i] BY <1>1, <1>2, After
<1>6. r[1] = x BY <1>1, <1>4
<1>7. \A i \in 1..Len(t) : r[i + 1] = t[i] BY <1>1, <1>5
<1> QED BY <1>1, <1>2, <1>3, <1>6, <1>7

LEMMA Cons2 ==
  ASSUME NEW S, NEW x \in S, NEW y \in S, NEW t \in Seq(S)
  PROVE  /\ <<x, y>> \o t \in Seq(S) /\ Len(<<x, y>> \o t) = Len(t) + 2 /\ Len(t) \in Nat
         /\ (<<x, y>> \o t)[1] = x /\ (<<x, y>> \o t)[2] = y
         /\ \A i \in 1..Len(t) : (<<x, y>> \o t)[i + 2] = t[i]
<1>8. <<x, y>> \in Seq(S) /\ Len(<<x, y>>) = 2 /\ <<x, y>>[1] = x /\ <<x, y>>[2] = y OBVIOUS
<1>9. PICK n \in Nat : n = 2 OBVIOUS
<1>1. PICK h \in Seq(S) :
        h = <<x, y>> /\ n = 2 /\ Len(h) = n /\ h[1] = x /\ h[2] = y BY <1>8, <1>9
<1>2. PICK r : r = h \o t OBVIOUS
<1>3. r \in Seq(S) /\ Len(r) = Len(t) + n /\ Len(t) \in Nat BY <1>1, <1>2, After
<1>4. \A i \in 1..n : r[i] = h[i] BY <1>1, <1>2, After
<1>5. \A i \in 1..Len(t) : r[i + n] = t[i] BY <1>1, <1>2, After
<1>6. r[1] = x /\ r[2] = y BY <1>1, <1>4
<1>7. \A i \in 1..Len(t) : r[i + 2] = t[i] BY <1>1, <1>5
<1> QED BY <1>1, <1>2, <1>3, <1>6, <1>7

\* r begins with v; w stands in r behind the first n elements.
Extends(r, v) == \A i \in 1..Len(v) : r[i] = v[i]
StandsAt(r, n, w) == \A i \in 1..Len(w) : r[n + i] = w[i]

\* A prefix grows by one piece, keeps what it held, and has the piece behind that.
LEMMA PrefixStep ==
  ASSUME NEW S, NEW p \in Seq(Seq(S)), NEW u \in [0..Len(p) -> Seq(S)], Prefixes(p, u),
         NEW n \in 1..Len(p)
  PROVE  /\ u[n - 1] \in Seq(S) /\ u[n] \in Seq(S) /\ p[n] \in Seq(S)
         /\ u[n] = u[n - 1] \o p[n] /\ Len(u[n]) = Len(u[n - 1]) + Len(p[n])
         /\ Len(u[n - 1]) \in Nat /\ Len(u[n]) \in Nat /\ Len(p[n]) \in Nat
<1>1. n - 1 \in 0..Len(p) /\ n \in 0..Len(p) OBVIOUS
<1>2. u[n - 1] \in Seq(S) /\ u[n] \in Seq(S) BY <1>1
<1>3. p[n] \in Seq(S) BY ElementIn
<1>4. u[n] = u[n - 1] \o p[n] BY DEF Prefixes
<1>5. Len(u[n]) = Len(u[n - 1]) + Len(p[n]) BY <1>2, <1>3, <1>4, Concat
<1>6. \A q \in Seq(S) : Len(q) \in Nat OBVIOUS
<1> QED BY <1>2, <1>3, <1>4, <1>5, <1>6

LEMMA PrefixOld ==
  ASSUME NEW S, NEW p \in Seq(Seq(S)), NEW u \in [0..Len(p) -> Seq(S)], Prefixes(p, u),
         NEW n \in 1..Len(p)
  PROVE  Extends(u[n], u[n - 1])
<1>0. n - 1 \in 0..Len(p) /\ n \in 0..Len(p) OBVIOUS
<1>1. u[n - 1] \in Seq(S) /\ p[n] \in Seq(S) /\ u[n] = u[n - 1] \o p[n]
  BY <1>0, ElementIn DEF Prefixes
<1>2. PICK v \in Seq(S), w \in Seq(S) : v = u[n - 1] /\ w = p[n] BY <1>1
<1>3. Extends(v \o w, v) BY Concat DEF Extends
<1> QED BY <1>1, <1>2, <1>3

LEMMA PrefixNew ==
  ASSUME NEW S, NEW p \in Seq(Seq(S)), NEW u \in [0..Len(p) -> Seq(S)], Prefixes(p, u),
         NEW n \in 1..Len(p)
  PROVE  StandsAt(u[n], Len(u[n - 1]), p[n])
<1>0. n - 1 \in 0..Len(p) /\ n \in 0..Len(p) OBVIOUS
<1>1. u[n - 1] \in Seq(S) /\ p[n] \in Seq(S) /\ u[n] = u[n - 1] \o p[n]
  BY <1>0, ElementIn DEF Prefixes
<1>2. PICK v \in Seq(S), w \in Seq(S) : v = u[n - 1] /\ w = p[n] BY <1>1
<1>4. StandsAt(v \o w, Len(v), w) BY Concat DEF StandsAt
<1> QED BY <1>1, <1>2, <1>4

\* The pieces of c elements or less.
LEMMA JoinedLength ==
  ASSUME NEW S, NEW p \in Seq(Seq(S)), \A n \in 1..Len(p) : Len(p[n]) <= 3
  PROVE  Len(Joined(p)) <= 3 * Len(p)
<1>1. PICK u \in [0..Len(p) -> Seq(S)] : Prefixes(p, u) BY JoinedPrefixes
<1> DEFINE Good == {n \in 0..Len(p) : Len(u[n]) <= 3 * n}
<1>2. 0 \in Good BY <1>1 DEF Prefixes
<1>3. ASSUME NEW n \in 1..Len(p), n - 1 \in Good PROVE n \in Good
  <2>1. n - 1 \in 0..Len(p) /\ n \in 0..Len(p) OBVIOUS
  <2>2. u[n - 1] \in Seq(S) /\ p[n] \in Seq(S)
    <3>1. u[n - 1] \in Seq(S) BY <2>1
    <3>2. p[n] \in Seq(S) BY ElementIn
    <3> QED BY <3>1, <3>2
  <2>3. u[n] = u[n - 1] \o p[n] BY <1>1 DEF Prefixes
  <2>4. Len(u[n]) = Len(u[n - 1]) + Len(p[n]) BY <2>2, <2>3
  <2>5. Len(u[n - 1]) <= 3 * (n - 1) /\ Len(p[n]) <= 3 BY <1>3
  <2>6. Len(u[n - 1]) \in Nat /\ Len(p[n]) \in Nat BY <2>2
  <2>8. n \in Nat /\ Len(u[n]) \in Nat
    <3>1. Len(p) \in Nat /\ u[n] \in Seq(S) BY <2>1
    <3> QED BY <3>1
  <2>7. Len(u[n]) <= 3 * n
    <3>1. \A a, b, c \in Nat : a = b + c /\ b <= 3 * (n - 1) /\ c <= 3 => a <= 3 * n
      BY <2>8
    <3> HIDE DEF Good
    <3> QED BY <3>1, <2>4, <2>5, <2>6, <2>8
  <2> QED BY <2>1, <2>7, <2>8
<1>4. Len(p) \in Nat /\ Len(p) \in 0..Len(p) OBVIOUS
<1>5. 0..Len(p) \subseteq Good
  <2> HIDE DEF Good
  <2> QED BY <1>2, <1>3, <1>4, UpTo
<1> QED BY <1>1, <1>4, <1>5 DEF Prefixes

\* Pieces of two elements, the last one of one or two.
Pairs(p) == \A n \in 1..Len(p) : Len(p[n]) = 2 \/ (n = Len(p) /\ Len(p[n]) = 1)

PairsIn(r, p) == \A n \in 1..Len(p) : \A j \in 1..Len(p[n]) : r[2 * (n - 1) + j] = p[n][j]

\* Pieces of two elements, of which the last may have one, stand in their order.
LEMMA JoinedPairs ==
  ASSUME NEW S, NEW p \in Seq(Seq(S)),
         Pairs(p)
  PROVE  /\ Len(Joined(p)) = IF p = <<>> THEN 0 ELSE 2 * (Len(p) - 1) + Len(p[Len(p)])
         /\ PairsIn(Joined(p), p)
<1>1. PICK u \in [0..Len(p) -> Seq(S)] : Prefixes(p, u) BY JoinedPrefixes
<1> DEFINE Good == {n \in 0..Len(p) :
                      /\ n < Len(p) => Len(u[n]) = 2 * n
                      /\ n = Len(p) /\ n # 0 => Len(u[n]) = 2 * (n - 1) + Len(p[n])
                      /\ \A m \in 1..n : \A j \in 1..Len(p[m]) : u[n][2 * (m - 1) + j] = p[m][j]}
<1>0. Len(p) \in Nat /\ Len(p) \in 0..Len(p) /\ 0 \in 0..Len(p) OBVIOUS
<1>2. 0 \in Good BY <1>0, <1>1 DEF Prefixes
<1>3. ASSUME NEW n \in 1..Len(p), n - 1 \in Good PROVE n \in Good
  <2>1. n - 1 \in 0..Len(p) /\ n \in 0..Len(p) /\ n - 1 < Len(p) /\ n \in Nat OBVIOUS
  <2>2. u[n - 1] \in Seq(S) /\ p[n] \in Seq(S)
    <3>1. u[n - 1] \in Seq(S) BY <2>1
    <3>2. p[n] \in Seq(S) BY ElementIn
    <3> QED BY <3>1, <3>2
  <2>3. u[n] = u[n - 1] \o p[n] BY <1>1 DEF Prefixes
  <2>4. Len(u[n - 1]) = 2 * (n - 1) BY <1>3, <2>1
  <2>5. Len(u[n]) = 2 * (n - 1) + Len(p[n])
    <3>1. Len(u[n]) = Len(u[n - 1]) + Len(p[n]) BY <2>2, <2>3, Concat
    <3> QED BY <2>4, <3>1
  <2>6. n < Len(p) => Len(u[n]) = 2 * n
    <3>1. ASSUME n < Len(p) PROVE Len(u[n]) = 2 * n
      <4>1. n # Len(p) BY <3>1, <2>1
      <4>2. Len(p[n]) = 2 BY <4>1 DEF Pairs
      <4> QED BY <2>1, <2>5, <4>2
    <3> QED BY <3>1
  <2>7. ASSUME NEW m \in 1..n, NEW j \in 1..Len(p[m])
        PROVE  u[n][2 * (m - 1) + j] = p[m][j]
    <3>1. CASE m = n
      <4>1. j \in 1..Len(p[n]) BY <3>1, <2>7
      <4>3. StandsAt(u[n], Len(u[n - 1]), p[n]) BY <1>1, PrefixNew
      <4>2. u[n][Len(u[n - 1]) + j] = p[n][j] BY <4>1, <4>3 DEF StandsAt
      <4> QED BY <4>2, <2>4, <3>1
    <3>2. CASE m < n
      <4>1. m \in 1..(n - 1) /\ m # Len(p) /\ m \in 1..Len(p) BY <3>2
      <4>2. u[n - 1][2 * (m - 1) + j] = p[m][j] BY <4>1, <1>3, <2>7
      <4>3. Len(p[m]) = 2 BY <4>1 DEF Pairs
      <4>4. 2 * (m - 1) + j \in 1..Len(u[n - 1]) BY <4>1, <4>3, <2>4, <2>7
      <4>6. Extends(u[n], u[n - 1]) BY <1>1, PrefixOld
      <4>5. u[n][2 * (m - 1) + j] = u[n - 1][2 * (m - 1) + j] BY <4>4, <4>6 DEF Extends
      <4> QED BY <4>2, <4>5
    <3> QED BY <3>1, <3>2
  <2> QED BY <2>1, <2>5, <2>6, <2>7
<1>5. 0..Len(p) \subseteq Good
  <2> HIDE DEF Good
  <2> QED BY <1>0, <1>2, <1>3, UpTo
<1>6. Joined(p) = u[Len(p)] /\ u[0] = <<>> BY <1>1 DEF Prefixes
<1>7. Len(p) \in Good BY <1>0, <1>5
<1>8. CASE p = <<>>
  <2>1. Len(p) = 0 BY <1>8
  <2> QED BY <1>6, <1>8, <2>1 DEF PairsIn
<1>9. CASE p # <<>>
  <2>1. Len(p) # 0 BY <1>9
  <2> QED BY <1>0, <1>6, <1>7, <1>9, <2>1 DEF PairsIn
<1> QED BY <1>8, <1>9

\* Pieces of one element.
LEMMA JoinedSingles ==
  ASSUME NEW S, NEW t \in Seq(S), NEW p, p = [i \in 1..Len(t) |-> <<t[i]>>]
  PROVE  Joined(p) = t
<1>1. p \in Seq(Seq(S)) /\ Len(p) = Len(t) /\ Len(t) \in Nat
  <2>1. \A i \in 1..Len(t) : t[i] \in S OBVIOUS
  <2> QED BY <2>1
<1>2. PICK u \in [0..Len(p) -> Seq(S)] : Prefixes(p, u) BY <1>1, JoinedPrefixes
<1> DEFINE Good == {n \in 0..Len(p) : Len(u[n]) = n /\ \A i \in 1..n : u[n][i] = t[i]}
<1>3. 0 \in Good BY <1>1, <1>2 DEF Prefixes
<1>4. ASSUME NEW n \in 1..Len(p), n - 1 \in Good PROVE n \in Good
  <2>1. n - 1 \in 0..Len(p) /\ n \in 0..Len(p) /\ n \in Nat BY <1>1
  <2>2. u[n - 1] \in Seq(S) /\ p[n] = <<t[n]>> /\ t[n] \in S BY <1>1, <2>1
  <2>3. u[n] = u[n - 1] \o p[n] BY <1>2 DEF Prefixes
  <2>4. Len(u[n - 1]) = n - 1 BY <1>4
  <2>5. Len(u[n]) = n BY <2>1, <2>2, <2>3, <2>4
  <2>6. ASSUME NEW i \in 1..n PROVE u[n][i] = t[i]
    <3>1. CASE i = n BY <2>2, <2>3, <2>4, <3>1
    <3>2. CASE i # n
      <4>1. i \in 1..(n - 1) BY <3>2
      <4> QED BY <4>1, <1>4, <2>2, <2>3, <2>4
    <3> QED BY <3>1, <3>2
  <2> QED BY <2>1, <2>5, <2>6
<1>5. 0..Len(p) \subseteq Good
  <2> HIDE DEF Good
  <2> QED BY <1>1, <1>3, <1>4, UpTo
<1>6. Joined(p) = u[Len(p)] BY <1>2 DEF Prefixes
<1>7. Len(p) \in Good BY <1>1, <1>5
<1>8. Joined(p) \in Seq(S) /\ Len(Joined(p)) = Len(t) BY <1>1, <1>6, <1>7
<1>9. \A i \in 1..Len(t) : Joined(p)[i] = t[i] BY <1>1, <1>6, <1>7
<1> QED BY <1>8, <1>9, SameSeq

-----------------------------------------------------------------------------
(* Bytes, and what is converted to them. *)

Word == {n \in Nat : n <= 65535}

\* Members of a range, without its elements.
LEMMA IsByte == \A x : x \in Byte <=> x \in Nat /\ x <= 255
BY DEF Byte

LEMMA IsWord == \A x : x \in Word <=> x \in Nat /\ x <= 65535
BY DEF Word

\* Two bytes make a word.
LEMMA TwoBytes == \A a, b \in Byte : (256 * a) + b \in Word /\ a \in Word
<1> SUFFICES ASSUME NEW a \in Nat, NEW b \in Nat, a <= 255, b <= 255
             PROVE  (256 * a) + b \in Word /\ a \in Word
  BY IsByte, ZenonT(40)
<1>1. (256 * a) + b \in Nat /\ (256 * a) + b <= 65535 /\ a <= 65535 OBVIOUS
<1> QED BY <1>1, IsWord

\* The greatest of a set of numbers.
LEMMA MaxOf ==
  ASSUME NEW N \in Nat, NEW S \in SUBSET (0..N), S # {}
  PROVE  Max(S) \in S /\ \A k \in S : k <= Max(S)
<1> DEFINE Bounds == {n \in 0..N : \A k \in S : k <= n}
<1>1. N \in Bounds OBVIOUS
<1>2. PICK n \in Bounds : \A m \in Bounds : n <= m
  <2>1. Bounds \in SUBSET Nat OBVIOUS
  <2> HIDE DEF Bounds
  <2> QED BY <1>1, <2>1, LeastOf
<1>3. n \in S
  <2> SUFFICES ASSUME n \notin S PROVE FALSE OBVIOUS
  <2>1. PICK k \in S : TRUE OBVIOUS
  <2>2. n # 0 BY <2>1
  <2>3. n - 1 \in 0..N /\ ~(n <= n - 1) BY <2>2
  <2>4. \A m \in S : m <= n - 1 OBVIOUS
  <2>5. n - 1 \in Bounds BY <2>3, <2>4
  <2> HIDE DEF Bounds
  <2> QED BY <1>2, <2>3, <2>5
<1>4. \E m \in S : \A k \in S : m >= k BY <1>3
<1>5. Max(S) \in S /\ \A k \in S : Max(S) >= k BY <1>4 DEF Max
<1>6. PICK m : m = Max(S) OBVIOUS
<1>7. m \in S /\ \A k \in S : m >= k BY <1>5, <1>6
<1>8. \A k \in S : k <= m
  <2> SUFFICES ASSUME NEW k \in S PROVE k <= m OBVIOUS
  <2>1. k \in Nat /\ m \in Nat /\ m >= k BY <1>7
  <2> QED BY <2>1
<1> QED BY <1>6, <1>7, <1>8

\* A function on 1..m is a sequence, of no element if m is not positive.
LEMMA FunctionSeq ==
  ASSUME NEW S, NEW m \in Int, NEW f \in [1..m -> S]
  PROVE  f \in Seq(S) /\ Len(f) = IF m > 0 THEN m ELSE 0
<1>1. CASE m > 0
  <2>1. m \in Nat BY <1>1
  <2> QED BY <1>1, <2>1
<1>2. CASE ~(m > 0)
  <2>1. 1..m = {} /\ 1..0 = {} BY <1>2
  <2>2. f \in [1..0 -> S] BY <2>1
  <2> QED BY <1>2, <2>2
<1> QED BY <1>1, <1>2

\* Whatever the index, the decoder reads a byte.
LEMMA AtByte ==
  ASSUME NEW d \in Seq(Byte), NEW i \in Int
  PROVE  At(d, i) \in Byte /\ At(d, i) \in Nat /\ At(d, i) <= 255
<1> SUFFICES At(d, i) \in Byte BY IsByte
<1>1. CASE i + 1 \in DOMAIN d
  <2>1. i + 1 \in 1..Len(d) BY <1>1
  <2>2. d[i + 1] \in Byte BY <2>1, ElementIn
  <2> QED BY <1>1, <2>2 DEF At
<1>2. CASE i + 1 \notin DOMAIN d
  <2>1. 0 \in Byte BY IsByte
  <2> QED BY <1>2, <2>1 DEF At
<1> QED BY <1>1, <1>2

-----------------------------------------------------------------------------
(* From the line to the bytes. *)

\* A line of any characters is converted to bytes that fit the buffer.
LEMMA HexBytes ==
  ASSUME NEW line \in Seq(0..17), BufCap \in Nat
  PROVE  HexToBytes(line) \in Seq(Byte) /\ Len(HexToBytes(line)) <= BufCap
<1> DEFINE first(i) == line[i] # Blank /\ \A j \in 1..(i - 1) : line[j] = Blank
           text == IF \A i \in DOMAIN line : line[i] = Blank THEN <<>>
                   ELSE SubSeq(line, CHOOSE i \in DOMAIN line : first(i), Len(line))
<1>1. text \in Seq(0..17)
  <2>1. CASE \A i \in DOMAIN line : line[i] = Blank BY <2>1
  <2>2. CASE ~(\A i \in DOMAIN line : line[i] = Blank)
    <3> DEFINE Marks == {i \in 1..Len(line) : line[i] # Blank}
    <3>1. Marks # {} /\ Marks \in SUBSET Nat BY <2>2
    <3>2. PICK n \in Marks : \A m \in Marks : n <= m
      <4> HIDE DEF Marks
      <4> QED BY <3>1, LeastOf
    <3>3. \A j \in 1..(n - 1) : line[j] = Blank
      <4> SUFFICES ASSUME NEW j \in 1..(n - 1), line[j] # Blank PROVE FALSE OBVIOUS
      <4>1. j \in Marks /\ ~(n <= j) OBVIOUS
      <4> QED BY <4>1, <3>2
    <3>4. \E i \in DOMAIN line : first(i) BY <3>2, <3>3
    <3> DEFINE c == CHOOSE i \in DOMAIN line : first(i)
    <3>5. c \in DOMAIN line BY <3>4
    <3>6. c \in 1..Len(line) BY <3>5
    <3>7. text = SubSeq(line, c, Len(line)) BY <2>2
    <3> HIDE DEF c
    <3>8. SubSeq(line, c, Len(line)) \in Seq(0..17) BY <3>6, SMTT(30)
    <3> QED BY <3>7, <3>8
  <2> QED BY <2>1, <2>2
<1> DEFINE fits(k) == k <= BufCap /\ \A i \in 1..(2 * k) : text[i] < 16
           whole == {k \in 0..(Len(text) \div 2) : fits(k)}
<1>2. HexToBytes(line) = [k \in 1..Max(whole) |-> (16 * text[2 * k - 1]) + text[2 * k]]
  BY DEF HexToBytes
<1> HIDE DEF text
<1>3. Len(text) \in Nat /\ Len(text) \div 2 \in Nat BY <1>1
<1>4. 0 \in whole BY <1>3
<1>5. Max(whole) \in whole
  <2>1. whole \in SUBSET (0..(Len(text) \div 2)) /\ whole # {} BY <1>4
  <2> HIDE DEF whole
  <2> QED BY <2>1, <1>3, MaxOf
<1>6. PICK m : m = Max(whole) OBVIOUS
<1>7. m \in Nat /\ 2 * m <= Len(text) /\ m <= BufCap /\ \A i \in 1..(2 * m) : text[i] < 16
  BY <1>3, <1>5, <1>6
<1>8. \A k \in 1..m : (16 * text[2 * k - 1]) + text[2 * k] \in Byte
  <2> SUFFICES ASSUME NEW k \in 1..m PROVE (16 * text[2 * k - 1]) + text[2 * k] \in Byte OBVIOUS
  <2>1. PICK a, b : a = 2 * k - 1 /\ b = 2 * k OBVIOUS
  <2>4. /\ a \in 1..Len(text) /\ b \in 1..Len(text)
        /\ a \in 1..(2 * m) /\ b \in 1..(2 * m) BY <1>3, <1>7, <2>1
  <2>2. text[b] \in 0..17 /\ text[a] \in 0..17 BY <1>1, <2>4, ElementIn
  <2>3. text[b] < 16 /\ text[a] < 16 BY <1>7, <2>4
  <2>6. \A x, y \in 0..17 : x < 16 /\ y < 16 => 16 * x + y \in Nat /\ 16 * x + y <= 255 OBVIOUS
  <2>5. 16 * text[a] + text[b] \in Byte BY <2>2, <2>3, <2>6, IsByte
  <2> QED BY <2>1, <2>5
<1>9. HexToBytes(line) \in [1..m -> Byte] BY <1>2, <1>6, <1>8
<1> QED BY <1>7, <1>9, FunctionSeq

-----------------------------------------------------------------------------
(* Every field fits. *)

\* A number fits its array, and the decoder goes on behind it.
LEMMA SenderFits ==
  ASSUME NEW d \in Seq(Byte), NEW i \in Nat, NumberCap \in Nat, NumberCap >= 7
  PROVE  /\ Len(Phone(d, i).number) <= NumberCap
         /\ Phone(d, i).next \in Nat /\ Phone(d, i).next > i
<1> DEFINE bytes == (At(d, i) + 1) \div 2
           pieces == [k \in 1..bytes |-> SemiOctet(At(d, i + 1 + k))]
           digits == Joined(pieces)
           number == IF At(d, i + 1) = 145 THEN <<Plus>> \o digits ELSE digits
<1>1. bytes \in Nat
  <2>1. At(d, i) \in Nat BY AtByte, SMTT(30)
  <2>2. \A x \in Nat : (x + 1) \div 2 \in Nat OBVIOUS
  <2> QED BY <2>1, <2>2
<1>2. pieces \in Seq(Seq(Nat))
  <2>1. ASSUME NEW k \in 1..bytes PROVE SemiOctet(At(d, i + 1 + k)) \in Seq(Nat)
    <3>1. PICK b : b = At(d, i + 1 + k) OBVIOUS
    <3>2. i + 1 + k \in Int BY <1>1
    <3>3. At(d, i + 1 + k) \in Byte
      <4> HIDE DEF bytes
      <4> QED BY <3>2, AtByte
    <3>4. b \in Nat BY <3>1, <3>3, IsByte
    <3>5. SemiOctet(b) \in Seq(Nat)
      BY <3>4 DEF SemiOctet, Digit
    <3> QED BY <3>1, <3>5
  <2>2. pieces \in [1..bytes -> Seq(Nat)] BY <2>1
  <2> HIDE DEF pieces, bytes
  <2> QED BY <1>1, <2>2
<1>3. number \in Seq(Nat)
  <2>1. digits \in Seq(Nat)
    <3> HIDE DEF pieces
    <3> QED BY <1>2, JoinedSeq
  <2> HIDE DEF digits
  <2>2. <<Plus>> \o digits \in Seq(Nat) BY <2>1 DEF Plus
  <2> QED BY <2>1, <2>2
<1>4. CASE At(d, i) = 0
  <2>1. Phone(d, i) = [number |-> Unknown, next |-> i + 2] BY <1>4 DEF Phone
  <2>2. Len(Unknown) = 7 BY DEF Unknown
  <2>3. Phone(d, i).number = Unknown /\ Phone(d, i).next = i + 2 BY <2>1
  <2>4. Len(Phone(d, i).number) <= NumberCap BY <2>2, <2>3
  <2>5. i + 2 \in Nat /\ i + 2 > i OBVIOUS
  <2> QED BY <2>3, <2>4, <2>5
<1>5. CASE At(d, i) # 0
  <2>1. Phone(d, i) = [number |-> IF Len(number) <= NumberCap THEN number
                                  ELSE SubSeq(number, 1, NumberCap),
                       next |-> i + 2 + bytes] BY <1>5 DEF Phone
  <2> HIDE DEF number, bytes
  <2>2. i + 2 + bytes \in Nat /\ i + 2 + bytes > i BY <1>1
  <2>3. Len(number) \in Nat BY <1>3
  <2>4. ~(Len(number) <= NumberCap) => Len(SubSeq(number, 1, NumberCap)) = NumberCap
    BY <1>3, <2>3
  <2> QED BY <2>1, <2>2, <2>3, <2>4
<1> QED BY <1>4, <1>5

\* The string ends at the first zero, so it is not longer than the array.
LEMMA StringLength ==
  ASSUME NEW s \in Seq(Nat)
  PROVE  Len(CString(s)) <= Len(s)
<1>1. CASE \E i \in DOMAIN s : s[i] = 0
  <2> DEFINE Zeros == {i \in 1..Len(s) : s[i] = 0}
             first(i) == s[i] = 0 /\ \A j \in 1..(i - 1) : s[j] # 0
  <2>1. Zeros # {} /\ Zeros \in SUBSET Nat BY <1>1
  <2>2. PICK n \in Zeros : \A m \in Zeros : n <= m
    <3> HIDE DEF Zeros
    <3> QED BY <2>1, LeastOf
  <2>3. \A j \in 1..(n - 1) : s[j] # 0
    <3> SUFFICES ASSUME NEW j \in 1..(n - 1), s[j] = 0 PROVE FALSE OBVIOUS
    <3>1. j \in Zeros /\ ~(n <= j) OBVIOUS
    <3> QED BY <3>1, <2>2
  <2>4. \E i \in DOMAIN s : first(i) BY <2>2, <2>3
  <2> DEFINE c == CHOOSE i \in DOMAIN s : first(i)
  <2>5. c \in 1..Len(s) BY <2>4, SMTT(30)
  <2>6. CString(s) = SubSeq(s, 1, c - 1) BY <1>1 DEF CString
  <2> HIDE DEF c
  <2>7. Len(SubSeq(s, 1, c - 1)) = c - 1 BY <2>5
  <2> QED BY <2>5, <2>6, <2>7
<1>2. CASE ~(\E i \in DOMAIN s : s[i] = 0)
  BY <1>2 DEF CString
<1> QED BY <1>1, <1>2

-----------------------------------------------------------------------------
(* The walk over the user data header ends, and what it finds fits. *)

Headers == [concat : BOOLEAN, ref : Word, total : Byte, part : Byte]

Inside(ud, i) == i <= At(ud, 0) /\ i < Len(ud)
Short8(ud, i)  == At(ud, i) = 0 /\ At(ud, i + 1) = 3
Short16(ud, i) == At(ud, i) = 8 /\ At(ud, i + 1) = 4
Found8(ud, i) ==
  [concat |-> TRUE, ref |-> At(ud, i + 2), total |-> At(ud, i + 3), part |-> At(ud, i + 4)]
Found16(ud, i) ==
  [concat |-> TRUE, ref |-> (256 * At(ud, i + 2)) + At(ud, i + 3),
   total |-> At(ud, i + 4), part |-> At(ud, i + 5)]

\* The walk at one element, w being the walk from the later ones.
WalkAt(ud, w, i) ==
  IF ~Inside(ud, i) THEN NoHeader
  ELSE IF Short8(ud, i) THEN Found8(ud, i)
  ELSE IF Short16(ud, i) THEN Found16(ud, i)
  ELSE w[i + 2 + At(ud, i + 1)]

\* Every header the decoder can find has its types.
LEMMA FoundTypes ==
  ASSUME NEW ud \in Seq(Byte), NEW i \in Nat
  PROVE  NoHeader \in Headers /\ Found8(ud, i) \in Headers /\ Found16(ud, i) \in Headers
<1>0. i + 2 \in Int /\ i + 3 \in Int /\ i + 4 \in Int /\ i + 5 \in Int OBVIOUS
<1>1. /\ At(ud, i + 2) \in Byte /\ At(ud, i + 3) \in Byte
      /\ At(ud, i + 4) \in Byte /\ At(ud, i + 5) \in Byte
  BY <1>0, AtByte
<1>2. 0 \in Word /\ 0 \in Byte BY IsWord, IsByte
<1>3. NoHeader \in Headers BY <1>2 DEF NoHeader, Headers
<1>4. Found8(ud, i) \in Headers
  <2>1. At(ud, i + 2) \in Word BY <1>1, TwoBytes
  <2> QED BY <1>1, <2>1 DEF Found8, Headers
<1>5. Found16(ud, i) \in Headers
  <2>1. (256 * At(ud, i + 2)) + At(ud, i + 3) \in Word BY <1>1, TwoBytes
  <2> QED BY <1>1, <2>1 DEF Found16, Headers
<1> QED BY <1>3, <1>4, <1>5

\* The walk over the header ends: each element is behind the one before it.
LEMMA Walk ==
  ASSUME NEW ud \in Seq(Byte)
  PROVE  \E w \in [Nat -> Headers] :
           UserHeader(ud) = w[1] /\ \A i \in Nat : w[i] = WalkAt(ud, w, i)
<1> DEFINE From(n) == {i \in Nat : i >= n}
           Solves(w, n) == \A i \in From(n) : w[i] = WalkAt(ud, w, i)
           N == Len(ud)
           Good == {k \in 0..N : \E w \in [From(N - k) -> Headers] : Solves(w, N - k)}
<1>1. N \in Nat OBVIOUS
<1>2. 0 \in Good
  <2> DEFINE w == [i \in From(N) |-> NoHeader]
  <2>1. w \in [From(N) -> Headers] /\ 0 \in Nat BY FoundTypes
  <2>2. Solves(w, N)
    <3> SUFFICES ASSUME NEW i \in From(N) PROVE w[i] = WalkAt(ud, w, i) OBVIOUS
    <3>1. ~Inside(ud, i) BY <1>1 DEF Inside
    <3> QED BY <3>1 DEF WalkAt
  <2>3. N - 0 = N /\ 0 \in 0..N BY <1>1
  <2>4. \E v \in [From(N) -> Headers] : Solves(v, N)
    <3> HIDE DEF w, Solves, From
    <3> QED BY <2>1, <2>2
  <2> HIDE DEF Solves, From, N
  <2> QED BY <2>3, <2>4
<1>3. ASSUME NEW k \in 1..N, k - 1 \in Good PROVE k \in Good
  <2>1. PICK n : n = N - k OBVIOUS
  <2>2. n \in Nat /\ N - (k - 1) = n + 1 /\ k \in 0..N BY <1>1, <2>1
  <2>3. PICK w \in [From(n + 1) -> Headers] : Solves(w, n + 1)
    <3> HIDE DEF Solves, From, N
    <3> QED BY <1>3, <2>2
  <2>4. PICK h : h = WalkAt(ud, w, n) OBVIOUS
  <2>5. h \in Headers
    <3>1. Inside(ud, n) => At(ud, n + 1) \in Nat
      <4>1. n + 1 \in Int BY <2>2
      <4> QED BY <4>1, AtByte
    <3>2. Inside(ud, n) => n + 2 + At(ud, n + 1) \in From(n + 1) BY <2>2, <3>1
    <3>3. Inside(ud, n) => w[n + 2 + At(ud, n + 1)] \in Headers
      <4> HIDE DEF From
      <4> QED BY <3>2
    <3> QED BY <2>2, <2>4, <3>3, FoundTypes DEF WalkAt
  <2> DEFINE v == [i \in From(n) |-> IF i = n THEN h ELSE w[i]]
  <2>6. v \in [From(n) -> Headers]
    <3>1. \A i \in From(n) : i # n => i \in From(n + 1) BY <2>2
    <3> HIDE DEF From
    <3> QED BY <2>5, <3>1
  <2>7. \A i \in From(n + 1) : v[i] = w[i] /\ i \in From(n) BY <2>2
  <2>8. Solves(v, n)
    <3> SUFFICES ASSUME NEW i \in From(n) PROVE v[i] = WalkAt(ud, v, i) OBVIOUS
    <3>1. i \in Nat /\ i >= n OBVIOUS
    <3>2. v[i + 2 + At(ud, i + 1)] = w[i + 2 + At(ud, i + 1)]
      <4>1. i + 1 \in Int BY <3>1
      <4>2. At(ud, i + 1) \in Nat BY <4>1, AtByte
      <4>3. i + 2 + At(ud, i + 1) \in From(n + 1) BY <2>2, <3>1, <4>2
      <4> QED BY <2>7, <4>3
    <3>3. WalkAt(ud, v, i) = WalkAt(ud, w, i) BY <3>2 DEF WalkAt
    <3>4. CASE i = n
      <4>1. v[n] = h BY <3>4
      <4> QED BY <2>4, <3>3, <3>4, <4>1
    <3>5. CASE i # n
      <4>1. i \in From(n + 1) BY <2>2, <3>1, <3>5
      <4> QED BY <2>3, <2>7, <3>3, <4>1
    <3> QED BY <3>4, <3>5
  <2>9. \E x \in [From(n) -> Headers] : Solves(x, n)
    <3> HIDE DEF v, Solves, From
    <3> QED BY <2>6, <2>8
  <2> HIDE DEF Solves, From, N
  <2> QED BY <2>1, <2>2, <2>9
<1>4. 0..N \subseteq Good
  <2> HIDE DEF Good, N
  <2> QED BY <1>1, <1>2, <1>3, UpTo
<1>5. From(0) = Nat OBVIOUS
<1>6. PICK w \in [Nat -> Headers] : Solves(w, 0)
  <2>1. N \in 0..N /\ N - N = 0 BY <1>1
  <2> HIDE DEF Solves, From, N
  <2> QED BY <1>4, <1>5, <2>1
<1>7. \A i \in Nat : w[i] = WalkAt(ud, w, i) BY <1>5, <1>6
<1> DEFINE F == CHOOSE f : f = [i \in Nat |-> WalkAt(ud, f, i)]
<1>8. w = [i \in Nat |-> WalkAt(ud, w, i)] BY <1>7
<1>9. F = [i \in Nat |-> WalkAt(ud, F, i)] BY <1>8
<1>10. UserHeader(ud) = F[1]
  BY DEF UserHeader, WalkAt, Inside, Short8, Short16, Found8, Found16
<1> HIDE DEF F
<1>11. \A i \in Nat : F[i] = WalkAt(ud, F, i) BY <1>9
<1>12. ASSUME NEW i \in Nat PROVE F[i] \in Headers
  <2> DEFINE Typed == {k \in 0..N : \A j \in Nat : j >= N - k => F[j] \in Headers}
  <2>1. ASSUME NEW j \in Nat, j >= N PROVE F[j] \in Headers
    <3>1. ~Inside(ud, j) BY <1>1, <2>1 DEF Inside
    <3> QED BY <1>11, <3>1, FoundTypes DEF WalkAt
  <2>2. 0 \in Typed BY <1>1, <2>1
  <2>3. ASSUME NEW k \in 1..N, k - 1 \in Typed PROVE k \in Typed
    <3> SUFFICES ASSUME NEW j \in Nat, j >= N - k PROVE F[j] \in Headers BY <1>1
    <3>1. \A m \in Nat : m > j => m >= N - (k - 1) BY <1>1
    <3>2. \A m \in Nat : m > j => F[m] \in Headers BY <2>3, <3>1
    <3>3. At(ud, j + 1) \in Nat
      <4>1. j + 1 \in Int OBVIOUS
      <4> QED BY <4>1, AtByte
    <3>4. j + 2 + At(ud, j + 1) \in Nat /\ j + 2 + At(ud, j + 1) > j BY <3>3
    <3>5. F[j + 2 + At(ud, j + 1)] \in Headers BY <3>2, <3>4
    <3> QED BY <1>11, <3>5, FoundTypes DEF WalkAt
  <2>4. 0..N \subseteq Typed
    <3> HIDE DEF Typed, N
    <3> QED BY <1>1, <2>2, <2>3, UpTo
  <2>5. N \in Typed BY <1>1, <2>4
  <2> QED BY <1>1, <2>5
<1>13. F \in [Nat -> Headers] BY <1>9, <1>12
<1> QED BY <1>10, <1>11, <1>13

-----------------------------------------------------------------------------
(* Texts and their arrays. *)

Roomy ==
  /\ BufCap \in Nat /\ NumberCap \in Nat /\ TextCap \in Nat
  /\ BufCap >= 175 /\ NumberCap >= 7
  /\ TextCap > 255 /\ 3 * ((BufCap + 1) \div 2) < TextCap

\* A unit takes at most three bytes of UTF-8.
LEMMA UnitSeq ==
  ASSUME NEW w \in Nat
  PROVE  Utf8OfUnit(w) \in Seq(Nat) /\ Len(Utf8OfUnit(w)) <= 3 /\ Len(Utf8OfUnit(w)) \in Nat
<1>1. /\ w \div 64 \in Nat /\ w % 64 \in Nat /\ w \div 4096 \in Nat /\ (w \div 64) % 64 \in Nat
  OBVIOUS
<1>2. CASE w < 128 BY <1>2 DEF Utf8OfUnit
<1>3. CASE ~(w < 128) /\ w < 2048
  <2>1. Utf8OfUnit(w) = <<192 + (w \div 64), 128 + (w % 64)>> BY <1>3 DEF Utf8OfUnit
  <2>2. 192 + (w \div 64) \in Nat /\ 128 + (w % 64) \in Nat BY <1>1
  <2> QED BY <2>1, <2>2
<1>4. CASE ~(w < 128) /\ ~(w < 2048)
  <2>1. Utf8OfUnit(w) = <<224 + (w \div 4096), 128 + ((w \div 64) % 64), 128 + (w % 64)>>
    BY <1>4 DEF Utf8OfUnit
  <2>2. /\ 224 + (w \div 4096) \in Nat /\ 128 + ((w \div 64) % 64) \in Nat
        /\ 128 + (w % 64) \in Nat BY <1>1
  <2> QED BY <2>1, <2>2
<1> QED BY <1>2, <1>3, <1>4

\* So does each two bytes of a text.
LEMMA Ucs2Fits ==
  ASSUME NEW d \in Seq(Byte), NEW i \in Nat, NEW bytes \in Nat
  PROVE  Ucs2(d, i, bytes) \in Seq(Nat) /\ Len(Ucs2(d, i, bytes)) <= 3 * ((bytes + 1) \div 2)
<1> DEFINE unit(k) == (256 * At(d, i + 2 * k - 2)) + At(d, i + 2 * k - 1)
           pieces == [k \in 1..((bytes + 1) \div 2) |-> Utf8OfUnit(unit(k))]
<1>1. PICK n \in Nat : n = (bytes + 1) \div 2 OBVIOUS
<1>2. ASSUME NEW k \in 1..n PROVE unit(k) \in Nat
  <2>1. i + 2 * k - 2 \in Int /\ i + 2 * k - 1 \in Int OBVIOUS
  <2>2. At(d, i + 2 * k - 2) \in Nat /\ At(d, i + 2 * k - 1) \in Nat BY <2>1, AtByte
  <2>3. \A a, b \in Nat : (256 * a) + b \in Nat OBVIOUS
  <2> QED BY <2>2, <2>3
<1> HIDE DEF unit
<1>3. pieces \in [1..n -> Seq(Nat)] BY <1>1, <1>2, UnitSeq
<1>4. pieces \in Seq(Seq(Nat)) /\ Len(pieces) = n
  <2> HIDE DEF pieces
  <2> QED BY <1>3, FunctionSeq
<1>5. ASSUME NEW k \in 1..Len(pieces) PROVE Len(pieces[k]) <= 3
  <2>1. k \in 1..n BY <1>4
  <2>2. pieces[k] = Utf8OfUnit(unit(k)) BY <1>1, <2>1
  <2> QED BY <1>2, <2>1, <2>2, UnitSeq
<1>6. Ucs2(d, i, bytes) = Joined(pieces) BY DEF Ucs2, unit
<1>7. Joined(pieces) \in Seq(Nat) /\ Len(Joined(pieces)) <= 3 * n
  <2> HIDE DEF pieces
  <2>1. Joined(pieces) \in Seq(Nat) BY <1>4, JoinedSeq
  <2>2. Len(Joined(pieces)) <= 3 * Len(pieces) BY <1>4, <1>5, JoinedLength
  <2> QED BY <1>4, <2>1, <2>2
<1> QED BY <1>1, <1>6, <1>7

\* Septets are numbers, and there are as many as are asked for.
LEMMA SeptetNat ==
  ASSUME NEW d \in Seq(Byte), NEW byte \in Nat, NEW bit \in 0..7
  PROVE  SeptetAt(d, byte, bit) \in Nat
<1>1. At(d, byte) \in Nat /\ At(d, byte + 1) \in Nat BY AtByte
<1>2. \A a \in Nat : /\ (a \div 2^0) % 128 \in Nat /\ (a \div 2^1) % 128 \in Nat
                     /\ (a \div 2^2) % 128 \in Nat /\ (a \div 2^3) % 128 \in Nat
                     /\ (a \div 2^4) % 128 \in Nat /\ (a \div 2^5) % 128 \in Nat
                     /\ (a \div 2^6) % 128 \in Nat /\ (a \div 2^7) % 128 \in Nat
  OBVIOUS
<1>3. \A a \in Nat : /\ (a * 2^(8 - 2)) % 128 \in Nat /\ (a * 2^(8 - 3)) % 128 \in Nat
                     /\ (a * 2^(8 - 4)) % 128 \in Nat /\ (a * 2^(8 - 5)) % 128 \in Nat
                     /\ (a * 2^(8 - 6)) % 128 \in Nat /\ (a * 2^(8 - 7)) % 128 \in Nat
  OBVIOUS
<1>4. (At(d, byte) \div 2^bit) % 128 \in Nat

  <2> PICK a \in Nat : a = At(d, byte) BY <1>1
  <2>1. CASE bit = 0 BY <1>2, <2>1
  <2>2. CASE bit = 1 BY <1>2, <2>2
  <2>3. CASE bit = 2 BY <1>2, <2>3
  <2>4. CASE bit = 3 BY <1>2, <2>4
  <2>5. CASE bit = 4 BY <1>2, <2>5
  <2>6. CASE bit = 5 BY <1>2, <2>6
  <2>7. CASE bit = 6 BY <1>2, <2>7
  <2>8. CASE bit = 7 BY <1>2, <2>8
  <2> QED BY <2>1, <2>2, <2>3, <2>4, <2>5, <2>6, <2>7, <2>8
<1>5. bit > 1 => (At(d, byte + 1) * 2^(8 - bit)) % 128 \in Nat
  BY <1>1, <1>3
<1>6. \A a, b \in Nat : a + b \in Nat OBVIOUS
<1>7. (IF bit > 1 THEN (At(d, byte + 1) * 2^(8 - bit)) % 128 ELSE 0) \in Nat BY <1>5
<1> QED BY <1>4, <1>6, <1>7 DEF SeptetAt

LEMMA SeptetsFit ==
  ASSUME NEW d \in Seq(Byte), NEW i \in Nat, NEW count \in Int
  PROVE  /\ Gsm7(d, i, count) \in Seq(Nat)
         /\ Len(Gsm7(d, i, count)) = IF count > 0 THEN count ELSE 0
<1>1. ASSUME NEW k \in 1..count
      PROVE  SeptetAt(d, i + ((7 * (k - 1)) \div 8), (7 * (k - 1)) % 8) \in Nat
  <2>1. i + ((7 * (k - 1)) \div 8) \in Nat /\ (7 * (k - 1)) % 8 \in 0..7 OBVIOUS
  <2> QED BY <2>1, SeptetNat
<1>2. Gsm7(d, i, count) \in [1..count -> Nat] BY <1>1 DEF Gsm7
<1> QED BY <1>2, FunctionSeq

\* A text of any coding fits its array.
LEMMA TextFits ==
  ASSUME Roomy, NEW ud \in Seq(Byte), Len(ud) <= BufCap, NEW udl \in Byte, NEW udh,
         NEW code \in {"ucs2", "7bit", "8bit"}
  PROVE  /\ UserText(code, udh, udl, ud) \in Seq(Nat)
         /\ Len(UserText(code, udh, udl, ud)) < TextCap
<1> DEFINE start == IF udh THEN At(ud, 0) + 1 ELSE 0
           left  == Len(ud) - start
           count == udl - ((start * 8) + 6) \div 7
<1>1. start \in Nat /\ left \in Int /\ left <= Len(ud) /\ Len(ud) \in Nat
  <2>1. At(ud, 0) \in Nat BY AtByte
  <2> QED BY <2>1
<1>2. BufCap \in Nat /\ TextCap \in Nat /\ TextCap > 255 /\ 3 * ((BufCap + 1) \div 2) < TextCap
  BY DEF Roomy
<1>3. CASE code = "ucs2" /\ left > 0
  <2>1. UserText(code, udh, udl, ud) = Ucs2(ud, start, left) BY <1>3 DEF UserText
  <2>2. left \in Nat BY <1>1, <1>3
  <2> HIDE DEF start, left
  <2>3. Ucs2(ud, start, left) \in Seq(Nat) /\ Len(Ucs2(ud, start, left)) <= 3 * ((left + 1) \div 2)
    BY <1>1, <2>2, Ucs2Fits
  <2>4. 3 * ((left + 1) \div 2) <= 3 * ((BufCap + 1) \div 2) BY <1>1, <1>2, <2>2
  <2>5. Len(Ucs2(ud, start, left)) \in Nat BY <2>3
  <2>6. 3 * ((left + 1) \div 2) \in Nat /\ 3 * ((BufCap + 1) \div 2) \in Nat BY <1>2, <2>2
  <2> QED BY <1>2, <2>1, <2>3, <2>4, <2>5, <2>6
<1>4. CASE code = "ucs2" /\ ~(left > 0)
  <2>1. UserText(code, udh, udl, ud) = <<>> BY <1>4 DEF UserText
  <2> QED BY <1>2, <2>1
<1>5. CASE code = "7bit"
  <2>1. UserText(code, udh, udl, ud) = Gsm7(ud, start, count) BY <1>5 DEF UserText
  <2>2. udl \in Nat /\ udl <= 255 BY IsByte
  <2>3. count \in Int /\ count <= 255 BY <1>1, <2>2, SMTT(30)
  <2> HIDE DEF start, count
  <2>4. /\ Gsm7(ud, start, count) \in Seq(Nat)
        /\ Len(Gsm7(ud, start, count)) = IF count > 0 THEN count ELSE 0
    BY <1>1, <2>3, SeptetsFit
  <2> QED BY <1>2, <2>1, <2>3, <2>4
<1>6. CASE code = "8bit"
  <2> DEFINE n == Min({left, TextCap - 1})
             text == [k \in 1..n |-> At(ud, start + k - 1)]
  <2>1. UserText(code, udh, udl, ud) = text BY <1>6 DEF UserText
  <2>2. n \in Int /\ n <= TextCap - 1
    <3> HIDE DEF left
    <3>1. \E x \in {left, TextCap - 1} : \A y \in {left, TextCap - 1} : x <= y BY <1>1, <1>2
    <3>2. n \in {left, TextCap - 1} /\ \A y \in {left, TextCap - 1} : n <= y BY <3>1 DEF Min
    <3> QED BY <1>1, <1>2, <3>2
  <2> HIDE DEF n, start
  <2>3. ASSUME NEW k \in 1..n PROVE At(ud, start + k - 1) \in Nat
    <3>1. start + k - 1 \in Int BY <1>1
    <3> QED BY <3>1, AtByte
  <2>4. text \in [1..n -> Nat] BY <2>3
  <2>5. text \in Seq(Nat) /\ Len(text) = IF n > 0 THEN n ELSE 0
    <3> HIDE DEF text
    <3> QED BY <2>2, <2>4, FunctionSeq
  <2> HIDE DEF text
  <2> QED BY <1>2, <2>1, <2>2, <2>5
<1> QED BY <1>3, <1>4, <1>5, <1>6

Fits(o) ==
  o.ok => /\ Len(o.sender) <= NumberCap
          /\ Len(o.text) < TextCap
          /\ o.header.ref < 2^16
          /\ o.header.total < 2^8 /\ o.header.part < 2^8

\* Whatever the modem says in place of a PDU, every output fits its array.
LEMMA DecodeFits ==
  ASSUME Roomy, NEW line \in Seq(0..17)
  PROVE  Fits(PduDecode(line))
<1> DEFINE buf  == HexToBytes(line)
           type == 1 + At(buf, 0)
           from == Phone(buf, type + 1)
           code == Encoding(At(buf, from.next + 1))
           udl  == from.next + 9
           ud   == SubSeq(buf, udl + 2, Len(buf))
           udh  == (At(buf, type) \div 64) % 2 = 1
           text == IF ud = <<>> THEN <<>> ELSE CString(UserText(code, udh, At(buf, udl), ud))
           head == IF udh /\ ud # <<>> THEN UserHeader(ud) ELSE NoHeader
           fails == buf = <<>> \/ type >= Len(buf) \/ from.next >= Len(buf) \/ udl >= Len(buf)
<1>1. PduDecode(line) = IF fails THEN Failed
                        ELSE [ok |-> TRUE, sender |-> from.number,
                              time |-> Timestamp(buf, from.next + 2),
                              header |-> head, text |-> text]
  BY DEF PduDecode
<1>2. /\ BufCap \in Nat /\ NumberCap \in Nat /\ NumberCap >= 7
      /\ TextCap \in Nat /\ TextCap > 255
  BY DEF Roomy
<1>3. buf \in Seq(Byte) /\ Len(buf) <= BufCap
  BY <1>2, HexBytes
<1> HIDE DEF buf
<1>4. type + 1 \in Nat
  <2>1. At(buf, 0) \in Nat BY <1>3, AtByte
  <2> QED BY <2>1
<1> HIDE DEF type
<1>5. Len(from.number) <= NumberCap /\ from.next \in Nat
  BY <1>2, <1>3, <1>4, SenderFits
<1> HIDE DEF from
<1>6. ud \in Seq(Byte) /\ Len(ud) <= BufCap
  <2>1. udl + 2 \in Nat /\ udl + 2 >= 1 /\ Len(buf) \in Nat BY <1>3, <1>5
  <2>2. PICK n \in Nat : n = udl + 2 /\ n >= 1 BY <2>1
  <2>3. SubSeq(buf, n, Len(buf)) \in Seq(Byte) /\ Len(SubSeq(buf, n, Len(buf))) <= Len(buf)
    BY <1>3, <2>1, <2>2
  <2>4. Len(SubSeq(buf, n, Len(buf))) \in Nat BY <2>3
  <2>5. \A a, b, c \in Nat : a <= b /\ b <= c => a <= c OBVIOUS
  <2>6. Len(SubSeq(buf, n, Len(buf))) <= BufCap BY <1>2, <1>3, <2>1, <2>3, <2>4, <2>5
  <2>7. ud = SubSeq(buf, n, Len(buf)) BY <2>2
  <2> HIDE DEF ud
  <2> QED BY <2>3, <2>6, <2>7
<1>7. At(buf, udl) \in Byte
  <2>1. udl \in Int BY <1>5
  <2> HIDE DEF udl
  <2> QED BY <1>3, <2>1, AtByte
<1> HIDE DEF ud, udl
<1>8. code \in {"ucs2", "7bit", "8bit"} BY DEF Encoding
<1> HIDE DEF code, udh
<1>9. Len(text) < TextCap
  <2>1. CASE ud = <<>> BY <1>2, <2>1
  <2>2. CASE ud # <<>>
    <3> DEFINE raw == UserText(code, udh, At(buf, udl), ud)
    <3>1. raw \in Seq(Nat) /\ Len(raw) < TextCap BY <1>6, <1>7, <1>8, TextFits
    <3> HIDE DEF raw
    <3>2. Len(CString(raw)) <= Len(raw) /\ Len(CString(raw)) \in Nat BY <3>1, StringLength
    <3>3. Len(CString(raw)) < TextCap
      <4>1. \A a, b, c \in Nat : a <= b /\ b < c => a < c OBVIOUS
      <4>2. Len(raw) \in Nat BY <3>1
      <4> QED BY <1>2, <3>1, <3>2, <4>1, <4>2
    <3> QED BY <2>2, <3>3 DEF raw
  <2> QED BY <2>1, <2>2
<1>10. head.ref < 2^16 /\ head.total < 2^8 /\ head.part < 2^8
  <2>1. head \in Headers
    <3>1. UserHeader(ud) \in Headers
      <4>1. PICK w \in [Nat -> Headers] : UserHeader(ud) = w[1] BY <1>6, Walk
      <4> QED BY <4>1
    <3>2. NoHeader \in Headers BY <1>6, FoundTypes
    <3> QED BY <3>1, <3>2
  <2> HIDE DEF head
  <2>2. head.ref \in Word /\ head.total \in Byte /\ head.part \in Byte BY <2>1 DEF Headers
  <2>3. /\ head.ref \in Nat /\ head.ref <= 65535
        /\ head.total \in Nat /\ head.total <= 255 /\ head.part \in Nat /\ head.part <= 255
    BY <2>2, IsByte, IsWord
  <2>4. \A a \in Nat : (a <= 65535 => a < 2^16) /\ (a <= 255 => a < 2^8) OBVIOUS
  <2> QED BY <2>3, <2>4
<1> HIDE DEF head, text
<1>11. CASE fails
  <2>1. ~PduDecode(line).ok BY <1>1, <1>11 DEF Failed
  <2> QED BY <2>1 DEF Fits
<1>12. CASE ~fails
  <2>1. /\ PduDecode(line).sender = from.number /\ PduDecode(line).text = text
        /\ PduDecode(line).header = head
    BY <1>1, <1>12
  <2> QED BY <1>5, <1>9, <1>10, <2>1 DEF Fits
<1> QED BY <1>11, <1>12

-----------------------------------------------------------------------------
(* Pieces of what is joined. *)

\* A piece stands in the whole where what is before it ends.
LEMMA PieceAt ==
  ASSUME NEW S, NEW p \in Seq(Seq(S)), NEW u \in [0..Len(p) -> Seq(S)], Prefixes(p, u),
         NEW n \in 1..Len(p)
  PROVE  /\ Len(u[n]) <= Len(Joined(p))
         /\ StandsAt(Joined(p), Len(u[n - 1]), p[n])
<1>0. \A m \in 1..Len(p) :
         /\ u[m - 1] \in Seq(S) /\ u[m] \in Seq(S) /\ p[m] \in Seq(S)
         /\ u[m] = u[m - 1] \o p[m] /\ Len(u[m]) = Len(u[m - 1]) + Len(p[m])
         /\ Len(u[m - 1]) \in Nat /\ Len(u[m]) \in Nat /\ Len(p[m]) \in Nat
  BY PrefixStep
<1>1. PICK N \in Nat : N = Len(p) OBVIOUS
<1>2. n \in Nat /\ N - n \in Nat BY <1>1
<1> DEFINE Good == {k \in 0..(N - n) :
                      /\ Len(u[n + k]) >= Len(u[n])
                      /\ \A i \in 1..Len(u[n]) : u[n + k][i] = u[n][i]}
<1>3. 0 \in Good
  <2>1. n + 0 = n /\ Len(u[n]) >= Len(u[n]) BY <1>2, PrefixStep
  <2> QED BY <1>2, <2>1
<1>4. ASSUME NEW k \in 1..(N - n), k - 1 \in Good PROVE k \in Good
  <2>1. PICK m : m = n + k OBVIOUS
  <2>2. m \in 1..Len(p) /\ n + (k - 1) = m - 1 /\ k \in 0..(N - n) BY <1>1, <1>2, <2>1
  <2>3. /\ u[m - 1] \in Seq(S) /\ p[m] \in Seq(S) /\ u[m] = u[m - 1] \o p[m]
        /\ Len(u[m]) = Len(u[m - 1]) + Len(p[m])
        /\ Len(u[m - 1]) \in Nat /\ Len(u[m]) \in Nat /\ Len(p[m]) \in Nat
    BY <2>2, <1>0
  <2>4. Len(u[n]) \in Nat BY PrefixStep
  <2>5. Len(u[m - 1]) >= Len(u[n]) /\ \A i \in 1..Len(u[n]) : u[m - 1][i] = u[n][i]
    BY <1>4, <2>2
  <2>6. Len(u[m]) >= Len(u[n])
    <3>1. \A a, b, c, d \in Nat : a = b + c /\ b >= d => a >= d OBVIOUS
    <3> QED BY <3>1, <2>3, <2>4, <2>5
  <2>7. ASSUME NEW i \in 1..Len(u[n]) PROVE u[m][i] = u[n][i]
    <3>1. i \in 1..Len(u[m - 1]) BY <2>3, <2>4, <2>5
    <3>2. (u[m - 1] \o p[m])[i] = u[m - 1][i] BY <2>3, <3>1, Concat
    <3> QED BY <2>3, <2>5, <3>2
  <2> QED BY <2>1, <2>2, <2>6, <2>7
<1>5. N - n \in Good
  <2>1. 0..(N - n) \subseteq Good
    <3> HIDE DEF Good
    <3> QED BY <1>2, <1>3, <1>4, UpTo
  <2>2. N - n \in 0..(N - n) BY <1>2
  <2> HIDE DEF Good
  <2> QED BY <2>1, <2>2
<1>6. n + (N - n) = Len(p) BY <1>1, <1>2
<1>7. Joined(p) = u[Len(p)] BY DEF Prefixes
<1>8. Len(Joined(p)) >= Len(u[n]) /\ \A i \in 1..Len(u[n]) : Joined(p)[i] = u[n][i]
  BY <1>5, <1>6, <1>7
<1>9. Joined(p) \in Seq(S) BY JoinedSeq
<1>10. Len(Joined(p)) \in Nat /\ Len(u[n]) \in Nat BY <1>9, PrefixStep
<1>11. ASSUME NEW j \in 1..Len(p[n]) PROVE Joined(p)[Len(u[n - 1]) + j] = p[n][j]
  <2>1. /\ u[n - 1] \in Seq(S) /\ p[n] \in Seq(S) /\ u[n] = u[n - 1] \o p[n]
        /\ Len(u[n]) = Len(u[n - 1]) + Len(p[n]) /\ Len(u[n - 1]) \in Nat /\ Len(p[n]) \in Nat
    BY <1>0
  <2>2. Len(u[n - 1]) + j \in 1..Len(u[n])
    <3>1. PICK a, b, c : a = Len(u[n]) /\ b = Len(u[n - 1]) /\ c = Len(p[n]) OBVIOUS
    <3>2. a \in Nat /\ b \in Nat /\ c \in Nat /\ a = b + c /\ j \in 1..c BY <1>10, <2>1, <3>1
    <3>3. b + j \in 1..a BY <3>2
    <3> QED BY <3>1, <3>3, Zenon
  <2>3. u[n][Len(u[n - 1]) + j] = p[n][j] BY PrefixNew, ZenonT(40) DEF StandsAt
  <2> QED BY <1>8, <2>1, <2>2, <2>3
<1> QED BY <1>8, <1>10, <1>11 DEF StandsAt

\* The bytes of an address: two digits a byte, the first in the low half, and
\* 15 in place of a digit that is missing.
LEMMA SwappedBytes ==
  ASSUME NEW digits \in Seq(0..9)
  PROVE  /\ Swapped(digits) \in Seq(Byte)
         /\ Len(Swapped(digits)) = (Len(digits) + 1) \div 2
         /\ \A k \in 1..((Len(digits) + 1) \div 2) :
              /\ 2 * k - 1 \in 1..Len(digits)
              /\ Swapped(digits)[k] = digits[2 * k - 1]
                   + 16 * (IF 2 * k <= Len(digits) THEN digits[2 * k] ELSE 15)
              /\ 2 * k <= Len(digits) => 2 * k \in 1..Len(digits)
<1> DEFINE padded == IF Len(digits) % 2 = 1 THEN Append(digits, 15) ELSE digits
<1>1. PICK n \in Nat : n = Len(digits) OBVIOUS
<1>2. Swapped(digits) = [k \in 1..(Len(padded) \div 2) |-> padded[2 * k - 1] + 16 * padded[2 * k]]
  BY DEF Swapped
<1>3. /\ padded \in Seq(Nat) /\ Len(padded) = (IF n % 2 = 1 THEN n + 1 ELSE n)
      /\ \A i \in 1..n : padded[i] = digits[i]
      /\ n % 2 = 1 => padded[n + 1] = 15
  <2>1. CASE n % 2 = 1
    <3>1. padded = Append(digits, 15) BY <1>1, <2>1
    <3>2. /\ Append(digits, 15) \in Seq(Nat) /\ Len(Append(digits, 15)) = Len(digits) + 1
          /\ \A i \in 1..Len(digits) : Append(digits, 15)[i] = digits[i]
          /\ Append(digits, 15)[Len(digits) + 1] = 15
      OBVIOUS
    <3> QED BY <1>1, <2>1, <3>1, <3>2
  <2>2. CASE n % 2 # 1
    <3>1. padded = digits BY <1>1, <2>2
    <3>2. digits \in Seq(Nat) OBVIOUS
    <3> QED BY <1>1, <2>2, <3>1, <3>2
  <2> QED BY <2>1, <2>2
<1> HIDE DEF padded
<1>4. PICK h \in Nat : h = (n + 1) \div 2 BY <1>1
<1>5. Len(padded) \div 2 = h
  <2>1. CASE n % 2 = 1 BY <1>3, <1>4, <2>1
  <2>2. CASE n % 2 # 1 BY <1>3, <1>4, <2>2
  <2> QED BY <2>1, <2>2
<1>6. ASSUME NEW k \in 1..h
      PROVE  /\ 2 * k - 1 \in 1..n
             /\ 2 * k <= n => 2 * k \in 1..n
             /\ padded[2 * k - 1] = digits[2 * k - 1]
             /\ padded[2 * k] = IF 2 * k <= n THEN digits[2 * k] ELSE 15
             /\ digits[2 * k - 1] \in 0..9
             /\ 2 * k <= n => digits[2 * k] \in 0..9
  <2>1. 2 * k - 1 \in 1..n /\ (2 * k <= n => 2 * k \in 1..n) BY <1>1, <1>4
  <2>2. PICK a, b : a = 2 * k - 1 /\ b = 2 * k OBVIOUS
  <2>3. ~(b <= n) => b = n + 1 /\ n % 2 = 1 BY <1>1, <1>4, <2>2
  <2>4. a \in 1..Len(digits) /\ (b <= n => b \in 1..Len(digits)) BY <1>1, <2>1, <2>2
  <2>5. padded[a] = digits[a] /\ padded[b] = IF b <= n THEN digits[b] ELSE 15
    BY <1>1, <1>3, <2>3, <2>4
  <2>6. digits[a] \in 0..9 /\ (b <= n => digits[b] \in 0..9) BY <2>4, ElementIn
  <2> QED BY <2>1, <2>2, <2>5, <2>6
<1>7. ASSUME NEW k \in 1..h
      PROVE  /\ Swapped(digits)[k] = digits[2 * k - 1]
                   + 16 * (IF 2 * k <= n THEN digits[2 * k] ELSE 15)
             /\ Swapped(digits)[k] \in Byte
  <2>1. Swapped(digits)[k] = padded[2 * k - 1] + 16 * padded[2 * k] BY <1>2, <1>5
  <2>2. PICK x, y : x = padded[2 * k - 1] /\ y = padded[2 * k] OBVIOUS
  <2>3. x \in 0..9 /\ y \in 0..15 BY <1>6, <2>2, SMTT(30)
  <2>4. x + 16 * y \in Nat /\ x + 16 * y <= 255 BY <2>3
  <2>5. x + 16 * y \in Byte BY <2>4, IsByte
  <2> QED BY <1>6, <2>1, <2>2, <2>5
<1>8. Swapped(digits) \in [1..h -> Byte] BY <1>2, <1>5, <1>7
<1>9. Swapped(digits) \in Seq(Byte) /\ Len(Swapped(digits)) = h
  BY <1>8, FunctionSeq
<1> QED BY <1>1, <1>4, <1>6, <1>7, <1>9

\* One information element.
LEMMA ElementBytes ==
  ASSUME NEW e \in [iei : Byte, data : Seq(Byte)], Len(e.data) <= 255
  PROVE  /\ Element(e) \in Seq(Byte) /\ Len(Element(e)) = Len(e.data) + 2
         /\ Element(e)[1] = e.iei /\ Element(e)[2] = Len(e.data)
         /\ \A j \in 1..Len(e.data) : Element(e)[j + 2] = e.data[j]
         /\ Len(e.data) \in Nat
<1>1. PICK d \in Seq(Byte), i \in Byte : d = e.data /\ i = e.iei OBVIOUS
<1>2. Len(d) \in Byte /\ Len(d) \in Nat BY <1>1, IsByte
<1>3. PICK n \in Byte : n = Len(d) BY <1>2
<1>4. PICK q : q = <<i, n>> \o d OBVIOUS
<1>5. Element(e) = <<e.iei, Len(e.data)>> \o e.data BY DEF Element
<1>6. Element(e) = q BY <1>1, <1>3, <1>4, <1>5, Zenon
<1>7. /\ q \in Seq(Byte) /\ Len(q) = Len(d) + 2 /\ q[1] = i /\ q[2] = n
  BY <1>4, Cons2
<1>8. \A j \in 1..Len(d) : q[j + 2] = d[j] BY <1>4, Cons2
<1> QED BY <1>1, <1>2, <1>3, <1>6, <1>7, <1>8

Elements(s) == [i \in DOMAIN s.elements |-> Element(s.elements[i])]

\* The elements of a header are bytes.
LEMMA ElementSeqs ==
  ASSUME NEW s, s.elements \in Seq([iei : Byte, data : Seq(Byte)]),
         \A i \in DOMAIN s.elements : Len(s.elements[i].data) <= 255
  PROVE  /\ Elements(s) \in Seq(Seq(Byte)) /\ Len(Elements(s)) = Len(s.elements)
         /\ \A i \in 1..Len(s.elements) : Elements(s)[i] = Element(s.elements[i])
         /\ Joined(Elements(s)) \in Seq(Byte)
<1>1. PICK es \in Seq([iei : Byte, data : Seq(Byte)]) : es = s.elements OBVIOUS
<1>2. DOMAIN es = 1..Len(es) /\ Len(es) \in Nat OBVIOUS
<1>3. ASSUME NEW i \in 1..Len(es) PROVE Element(es[i]) \in Seq(Byte)
  <2>1. es[i] \in [iei : Byte, data : Seq(Byte)] BY ElementIn
  <2>2. Len(es[i].data) <= 255 BY <1>1, <1>2
  <2> QED BY <2>1, <2>2, ElementBytes
<1>4. Elements(s) = [i \in 1..Len(es) |-> Element(es[i])] BY <1>1, <1>2 DEF Elements
<1>5. Elements(s) \in [1..Len(es) -> Seq(Byte)] BY <1>3, <1>4
<1>6. Elements(s) \in Seq(Seq(Byte)) /\ Len(Elements(s)) = Len(es)
  <2>1. PICK n \in Nat : n = Len(es) BY <1>2
  <2>4. PICK f : f = Elements(s) OBVIOUS
  <2>2. f \in [1..n -> Seq(Byte)] BY <1>5, <2>1, <2>4
  <2>3. f \in Seq(Seq(Byte)) /\ Len(f) = n BY <2>2, FunctionSeq
  <2> QED BY <2>1, <2>3, <2>4
<1>7. Joined(Elements(s)) \in Seq(Byte) BY <1>6, JoinedSeq
<1> QED BY <1>1, <1>4, <1>6, <1>7

\* The header is its length and the elements, or nothing.
LEMMA HeaderSeq ==
  ASSUME NEW s, s.elements \in Seq([iei : Byte, data : Seq(Byte)]),
         \A i \in DOMAIN s.elements : Len(s.elements[i].data) <= 255
  PROVE  /\ HeaderBytes(s) \in Seq(Nat) /\ Len(HeaderBytes(s)) \in Nat
         /\ Len(HeaderBytes(s)) <= 256 => HeaderBytes(s) \in Seq(Byte)
         /\ s.elements = <<>> => HeaderBytes(s) = <<>>
         /\ s.elements # <<>> =>
              /\ Len(HeaderBytes(s)) = Len(Joined(Elements(s))) + 1
              /\ HeaderBytes(s)[1] = Len(Joined(Elements(s)))
              /\ \A j \in 1..Len(Joined(Elements(s))) :
                   HeaderBytes(s)[j + 1] = Joined(Elements(s))[j]
<1>1. PICK b \in Seq(Byte) : b = Joined(Elements(s)) BY ElementSeqs
<1>2. Len(b) \in Nat /\ b \in Seq(Nat)
  <2>1. \A i \in 1..Len(b) : b[i] \in Nat BY ElementIn, IsByte
  <2> QED BY <2>1
<1>3. HeaderBytes(s) = IF s.elements = <<>> THEN <<>> ELSE <<Len(b)>> \o b
  BY <1>1 DEF HeaderBytes, Elements, Counted
<1>4. PICK n, q : n \in Nat /\ n = Len(b) /\ q = <<n>> \o b BY <1>2
<1>5. q = <<Len(b)>> \o b BY <1>4
<1>6. q \in Seq(Nat) /\ Len(q) = Len(b) + 1 /\ q[1] = n BY <1>2, <1>4, Cons
<1>7. \A j \in 1..Len(b) : q[j + 1] = b[j] BY <1>2, <1>4, Cons
<1>8. ASSUME Len(q) <= 256 PROVE q \in Seq(Byte)
  <2>1. n \in Byte BY <1>2, <1>4, <1>6, <1>8, IsByte
  <2> QED BY <1>4, <2>1, Cons
<1>9. <<>> \in Seq(Nat) /\ <<>> \in Seq(Byte) /\ Len(<<>>) = 0 OBVIOUS
<1> QED BY <1>1, <1>2, <1>3, <1>4, <1>5, <1>6, <1>7, <1>8, <1>9

-----------------------------------------------------------------------------
(* The three kinds of user data. *)

Septet == 0..127

\* Members of a range, without its elements.
LEMMA IsSeptet == \A x : x \in Septet <=> x \in Nat /\ x <= 127
BY DEF Septet

\* A character has units of 16 bits, or septets.
LEMMA UnitsWords ==
  ASSUME NEW c \in Unicode
  PROVE  Units(c) \in Seq(Word) /\ c \in Nat
<1>0. c \in Nat /\ c >= 1 /\ c < 1114112 BY SMT DEF Unicode
<1>1. CASE c < 65536
  <2>1. c \in Word BY <1>0, <1>1, IsWord, SMT
  <2>2. Units(c) = <<c>> BY <1>1 DEF Units
  <2> QED BY <1>0, <2>1, <2>2
<1>2. CASE ~(c < 65536)
  <2>1. PICK a, b : a = 55296 + (c - 65536) \div 1024 /\ b = 56320 + ((c - 65536) % 1024) OBVIOUS
  <2>2. a \in Nat /\ a <= 65535 BY <1>0, <1>2, <2>1, SMT
  <2>3. b \in Nat /\ b <= 65535 BY <1>0, <1>2, <2>1, SMT
  <2>4. a \in Word /\ b \in Word BY <2>2, <2>3, IsWord
  <2>5. Units(c) = <<a, b>> BY <1>2, <2>1 DEF Units
  <2> QED BY <1>0, <2>4, <2>5
<1> QED BY <1>0, <1>1, <1>2

LEMMA SeptetsAre ==
  ASSUME NEW c \in GsmCharacters
  PROVE  Septets(c) \in Seq(Septet)
<1>1. /\ 0 \in Septet /\ 2 \in Septet /\ 5 \in Septet /\ 27 \in Septet /\ 101 \in Septet
  BY IsSeptet
<1>2. CASE c = 64 BY <1>1, <1>2 DEF Septets, GsmCharacters
<1>3. CASE c = 36 BY <1>1, <1>3 DEF Septets, GsmCharacters
<1>4. CASE c = 233 BY <1>1, <1>4 DEF Septets, GsmCharacters
<1>5. CASE c = 8364 BY <1>1, <1>5 DEF Septets, GsmCharacters
<1>6. CASE c \notin {64, 36, 233, 8364}
  <2>1. c \in Septet BY <1>6, IsSeptet DEF GsmCharacters, SameCode
  <2>2. Septets(c) = <<c>> BY <1>6 DEF Septets, GsmCharacters
  <2> QED BY <2>1, <2>2
<1> QED BY <1>2, <1>3, <1>4, <1>5, <1>6

\* The characters as units and as septets.
UnitsOf(s)   == Joined([i \in DOMAIN s.text |-> Units(s.text[i])])
SeptetsOf(s) == Joined([i \in DOMAIN s.text |-> Septets(s.text[i])])

\* So has a text.
LEMMA UnitsSeq ==
  ASSUME NEW s, s.text \in Seq(Unicode)
  PROVE  /\ UnitsOf(s) \in Seq(Word)
         /\ [i \in DOMAIN s.text |-> Units(s.text[i])] \in Seq(Seq(Word))
<1>1. PICK t \in Seq(Unicode) : t = s.text OBVIOUS
<1>2. PICK n \in Nat : n = Len(t) /\ DOMAIN t = 1..n OBVIOUS
<1>3. PICK p : p = [i \in DOMAIN s.text |-> Units(s.text[i])] OBVIOUS
<1>4. ASSUME NEW i \in 1..n PROVE Units(t[i]) \in Seq(Word)
  <2>1. t[i] \in Unicode BY <1>2, ElementIn
  <2> QED BY <2>1, UnitsWords
<1>5. p \in [1..n -> Seq(Word)] BY <1>1, <1>2, <1>3, <1>4
<1>6. p \in Seq(Seq(Word)) BY <1>5, FunctionSeq
<1>7. Joined(p) \in Seq(Word) BY <1>6, JoinedSeq
<1> QED BY <1>3, <1>6, <1>7 DEF UnitsOf

LEMMA SeptetsSeq ==
  ASSUME NEW s, s.text \in Seq(GsmCharacters)
  PROVE  SeptetsOf(s) \in Seq(Septet)
<1>1. PICK t \in Seq(GsmCharacters) : t = s.text OBVIOUS
<1>2. PICK n \in Nat : n = Len(t) /\ DOMAIN t = 1..n OBVIOUS
<1>3. PICK p : p = [i \in DOMAIN s.text |-> Septets(s.text[i])] OBVIOUS
<1>4. ASSUME NEW i \in 1..n PROVE Septets(t[i]) \in Seq(Septet)
  <2>1. t[i] \in GsmCharacters BY <1>2, ElementIn
  <2> QED BY <2>1, SeptetsAre
<1>5. p \in [1..n -> Seq(Septet)] BY <1>1, <1>2, <1>3, <1>4
<1>6. p \in Seq(Seq(Septet)) BY <1>5, FunctionSeq
<1>7. Joined(p) \in Seq(Septet) BY <1>6, JoinedSeq
<1> QED BY <1>3, <1>7 DEF SeptetsOf

TwoIn(r, p, n) == \A i \in 1..n : r[2 * i - 1] = p[i][1] /\ r[2 * i] = p[i][2]

\* Pieces of two elements stand at the even and odd places.
LEMMA TwoEach ==
  ASSUME NEW S, NEW p, NEW n \in Nat, p \in [1..n -> Seq(S)], \A i \in 1..n : Len(p[i]) = 2
  PROVE  /\ Joined(p) \in Seq(S) /\ Len(Joined(p)) = 2 * n
         /\ TwoIn(Joined(p), p, n)
<1>1. PICK q \in Seq(Seq(S)) : q = p /\ Len(q) = n
  <2>1. p \in Seq(Seq(S)) /\ Len(p) = n BY FunctionSeq
  <2> QED BY <2>1
<1>2. \A i \in 1..Len(q) : Len(q[i]) = 2
  <2> SUFFICES ASSUME NEW i \in 1..Len(q) PROVE Len(q[i]) = 2 OBVIOUS
  <2>1. i \in 1..n BY <1>1
  <2>2. Len(p[i]) = 2 BY <2>1
  <2> QED BY <1>1, <2>2
<1>3. Pairs(q)
  BY <1>2 DEF Pairs
<1>4. Len(Joined(q)) = IF q = <<>> THEN 0 ELSE 2 * (Len(q) - 1) + Len(q[Len(q)])
  BY <1>3, JoinedPairs
<1>5. PairsIn(Joined(q), q)
  BY <1>3, JoinedPairs
<1>6. Joined(q) \in Seq(S) BY JoinedSeq
<1>7. Len(Joined(q)) = 2 * n
  <2>1. CASE n = 0
    <3>1. q = <<>> BY <1>1, <2>1
    <3> QED BY <1>4, <2>1, <3>1
  <2>2. CASE n # 0
    <3>1. q # <<>> /\ n \in 1..Len(q) BY <1>1, <2>2
    <3>2. Len(q[n]) = 2 BY <1>2, <3>1
    <3>3. Len(Joined(q)) = 2 * (n - 1) + Len(q[n]) BY <1>1, <1>4, <3>1
    <3> QED BY <3>2, <3>3
  <2> QED BY <2>1, <2>2
<1>8. ASSUME NEW i \in 1..n
      PROVE  Joined(q)[2 * i - 1] = q[i][1] /\ Joined(q)[2 * i] = q[i][2]
  <2>4. i \in 1..Len(q) BY <1>1
  <2>5. Len(q[i]) = 2 BY <1>2, <2>4
  <2>1. i \in 1..Len(q) /\ 1 \in 1..Len(q[i]) /\ 2 \in 1..Len(q[i]) BY <2>4, <2>5
  <2>2. Joined(q)[2 * (i - 1) + 1] = q[i][1] /\ Joined(q)[2 * (i - 1) + 2] = q[i][2]
    BY <1>5, <2>1 DEF PairsIn
  <2>3. 2 * (i - 1) + 1 = 2 * i - 1 /\ 2 * (i - 1) + 2 = 2 * i OBVIOUS
  <2> QED BY <2>2, <2>3
<1> QED BY <1>1, <1>6, <1>7, <1>8 DEF TwoIn

\* The two bytes of every unit.
UnitBytes(units) == [i \in DOMAIN units |-> <<units[i] \div 256, units[i] % 256>>]

\* Every unit has two bytes.
LEMMA UnitBytesSeq ==
  ASSUME NEW units \in Seq(Word)
  PROVE  /\ Joined(UnitBytes(units)) \in Seq(Byte)
         /\ Len(Joined(UnitBytes(units))) = 2 * Len(units) /\ Len(units) \in Nat
         /\ \A i \in 1..Len(units) :
              /\ Joined(UnitBytes(units))[2 * i - 1] = units[i] \div 256
              /\ Joined(UnitBytes(units))[2 * i] = units[i] % 256
<1>1. PICK n \in Nat : n = Len(units) /\ DOMAIN units = 1..n OBVIOUS
<1>2. PICK p : p = UnitBytes(units) OBVIOUS
<1>3. ASSUME NEW i \in 1..n PROVE /\ p[i] \in Seq(Byte) /\ Len(p[i]) = 2
                                  /\ p[i][1] = units[i] \div 256 /\ p[i][2] = units[i] % 256
  <2>1. PICK w \in Word : w = units[i] BY <1>1, ElementIn
  <2>2. w \in Nat /\ w <= 65535 BY IsWord
  <2>3. PICK a, b : a = w \div 256 /\ b = w % 256 OBVIOUS
  <2>4. a \in Nat /\ b \in Nat /\ a <= 255 /\ b <= 255 BY <2>2, <2>3
  <2>5. a \in Byte /\ b \in Byte BY <2>4, IsByte
  <2>6. p[i] = <<a, b>> BY <1>1, <1>2, <2>1, <2>3 DEF UnitBytes
  <2>7. <<a, b>> \in Seq(Byte) /\ Len(<<a, b>>) = 2 /\ <<a, b>>[1] = a /\ <<a, b>>[2] = b BY <2>5
  <2> QED BY <2>1, <2>3, <2>6, <2>7
<1>4. p \in [1..n -> Seq(Byte)] BY <1>1, <1>2, <1>3 DEF UnitBytes
<1>5. \A i \in 1..n : Len(p[i]) = 2 BY <1>3
<1>6. /\ Joined(p) \in Seq(Byte) /\ Len(Joined(p)) = 2 * n
      /\ TwoIn(Joined(p), p, n)
  BY <1>4, <1>5, TwoEach
<1> QED BY <1>1, <1>2, <1>3, <1>6 DEF TwoIn

-----------------------------------------------------------------------------
(* Where the parts of a sequence stand in the whole. *)

\* What a concatenation begins with and what stands behind that.
LEMMA Appended ==
  ASSUME NEW S, NEW v \in Seq(S), NEW w \in Seq(S)
  PROVE  /\ v \o w \in Seq(S) /\ Len(v \o w) = Len(v) + Len(w)
         /\ Len(v) \in Nat /\ Len(w) \in Nat
         /\ Extends(v \o w, v) /\ StandsAt(v \o w, Len(v), w)
<1>1. Extends(v \o w, v) BY Concat DEF Extends
<1>2. StandsAt(v \o w, Len(v), w) BY Concat DEF StandsAt
<1> QED BY <1>1, <1>2

\* A part stays where it is when something is appended.
LEMMA StillStands ==
  ASSUME NEW S, NEW v \in Seq(S), NEW w \in Seq(S), NEW r, NEW n \in Nat,
         n + Len(w) <= Len(v), StandsAt(v, n, w), Extends(r, v)
  PROVE  StandsAt(r, n, w)
<1> SUFFICES ASSUME NEW i \in 1..Len(w) PROVE r[n + i] = w[i] BY DEF StandsAt
<1>1. v[n + i] = w[i] BY DEF StandsAt
<1>2. PICK k : k = n + i OBVIOUS
<1>3. k \in 1..Len(v) BY <1>2
<1>4. r[k] = v[k] BY <1>3 DEF Extends
<1> QED BY <1>1, <1>2, <1>4

-----------------------------------------------------------------------------
(* The user data. *)

\* Bytes are numbers, and stay bytes behind their count.
LEMMA ByteSeq ==
  ASSUME NEW b \in Seq(Byte)
  PROVE  b \in Seq(Nat)
<1>1. \A i \in 1..Len(b) : b[i] \in Nat BY ElementIn, IsByte
<1> QED BY <1>1

LEMMA CountedSeq ==
  ASSUME NEW c \in Seq(Nat)
  PROVE  /\ Counted(c) \in Seq(Nat) /\ Len(Counted(c)) = Len(c) + 1 /\ Len(c) \in Nat
         /\ Counted(c)[1] = Len(c) /\ StandsAt(Counted(c), 1, c)
         /\ c \in Seq(Byte) /\ Len(c) <= 255 => Counted(c) \in Seq(Byte)
<1>1. PICK n \in Nat : n = Len(c) OBVIOUS
<1>2. PICK q : q = <<n>> \o c OBVIOUS
<1>3. q = Counted(c) BY <1>1, <1>2 DEF Counted
<1>4. q \in Seq(Nat) /\ Len(q) = Len(c) + 1 /\ q[1] = n BY <1>2, Cons
<1>5. \A i \in 1..Len(c) : q[i + 1] = c[i] BY <1>2, Cons
<1>6. StandsAt(q, 1, c)
  <2> SUFFICES ASSUME NEW i \in 1..Len(c) PROVE q[1 + i] = c[i] BY DEF StandsAt
  <2>1. 1 + i = i + 1 OBVIOUS
  <2> QED BY <1>5, <2>1
<1>7. ASSUME c \in Seq(Byte), n <= 255 PROVE q \in Seq(Byte)
  <2>1. n \in Byte BY <1>7, IsByte
  <2> QED BY <1>2, <1>7, <2>1, Cons
<1> QED BY <1>1, <1>3, <1>4, <1>6, <1>7

\* A length and what it counts, a header and a text.
LEMMA CountedParts ==
  ASSUME NEW h \in Seq(Nat), NEW b \in Seq(Byte), Len(h) <= 256 => h \in Seq(Byte),
         Len(Counted(h \o b)) <= 141
  PROVE  /\ Counted(h \o b) \in Seq(Byte) /\ Len(Counted(h \o b)) = Len(h) + Len(b) + 1
         /\ h \in Seq(Byte) /\ Len(h) \in Nat /\ Len(b) \in Nat
         /\ StandsAt(Counted(h \o b), 1, h) /\ StandsAt(Counted(h \o b), Len(h) + 1, b)
<1>1. b \in Seq(Nat) BY ByteSeq
<1>2. PICK c : c = h \o b OBVIOUS
<1>3. c \in Seq(Nat) /\ Len(c) = Len(h) + Len(b) /\ Len(h) \in Nat /\ Len(b) \in Nat
  BY <1>1, <1>2, Appended
<1>4. PICK q : q = Counted(c) OBVIOUS
<1>5. Len(q) = Len(c) + 1 /\ StandsAt(q, 1, c) BY <1>3, <1>4, CountedSeq
<1>6. Len(q) <= 141 BY <1>2, <1>4
<1>7. h \in Seq(Byte) BY <1>3, <1>5, <1>6
<1>8. c \in Seq(Byte) /\ Extends(c, h) /\ StandsAt(c, Len(h), b) BY <1>2, <1>7, Appended
<1>9. q \in Seq(Byte) BY <1>3, <1>4, <1>5, <1>6, <1>8, CountedSeq
<1>10. StandsAt(q, 1, h)
  <2> SUFFICES ASSUME NEW i \in 1..Len(h) PROVE q[1 + i] = h[i] BY DEF StandsAt
  <2>1. i \in 1..Len(c) BY <1>3
  <2>2. c[i] = h[i] BY <1>8 DEF Extends
  <2> QED BY <1>5, <2>1, <2>2 DEF StandsAt
<1>11. StandsAt(q, Len(h) + 1, b)
  <2> SUFFICES ASSUME NEW i \in 1..Len(b) PROVE q[Len(h) + 1 + i] = b[i] BY DEF StandsAt
  <2>1. PICK k \in Nat : k = Len(h) + i BY <1>3
  <2>2. k \in 1..Len(c) /\ Len(h) + 1 + i = 1 + k BY <1>3, <2>1
  <2>3. c[k] = b[i] BY <1>8, <2>1 DEF StandsAt
  <2>4. q[1 + k] = c[k] BY <1>5, <2>2 DEF StandsAt
  <2> QED BY <2>2, <2>3, <2>4
<1> QED BY <1>2, <1>3, <1>4, <1>5, <1>7, <1>9, <1>10, <1>11

-----------------------------------------------------------------------------
(* Bits and septets. *)

\* One bit of a number.
BitOf(x, e) == (x \div 2^e) % 2

\* A bit is 0 or 1.
LEMMA BitRange ==
  ASSUME NEW x \in Nat, NEW e \in 0..7
  PROVE  BitOf(x, e) \in 0..1
<1>1. CASE e = 0 BY <1>1 DEF BitOf
<1>2. CASE e = 1 BY <1>2 DEF BitOf
<1>3. CASE e = 2 BY <1>3 DEF BitOf
<1>4. CASE e = 3 BY <1>4 DEF BitOf
<1>5. CASE e = 4 BY <1>5 DEF BitOf
<1>6. CASE e = 5 BY <1>6 DEF BitOf
<1>7. CASE e = 6 BY <1>7 DEF BitOf
<1>8. CASE e = 7 BY <1>8 DEF BitOf
<1> QED BY <1>1, <1>2, <1>3, <1>4, <1>5, <1>6, <1>7, <1>8

\* A bit number is split into byte and bit.
LEMMA ByEight ==
  ASSUME NEW m \in Nat, NEW j \in Int, j >= 0, j <= 7, NEW b, b = 8 * m + j
  PROVE  b \div 8 = m /\ b % 8 = j
<1>1. b \div 8 = m OBVIOUS
<1>2. b % 8 = j OBVIOUS
<1> QED BY <1>1, <1>2

\* A bit of the header, a bit of the text.
LEMMA HeadBit ==
  ASSUME NEW head \in Seq(Nat), NEW text \in Seq(Septet), NEW m \in Nat, NEW e \in 0..7,
         m < Len(head)
  PROVE  PackedBit(head, text, 8 * m + e) = BitOf(head[m + 1], e)
<1>1. PICK b : b = 8 * m + e OBVIOUS
<1>4. PICK n \in Nat : n = Len(head) OBVIOUS
<1>5. m + 1 <= n BY <1>4
<1>6. b < 8 * n BY <1>1, <1>5
<1>7. PICK j \in Int : j = e /\ j >= 0 /\ j <= 7 OBVIOUS
<1>8. b = 8 * m + j BY <1>1, <1>7
<1>9. b \div 8 = m /\ b % 8 = j BY <1>7, <1>8, ByEight
<1>2. b < 8 * Len(head) /\ b \div 8 = m /\ b % 8 = e BY <1>4, <1>6, <1>7, <1>9
<1>3. PackedBit(head, text, b) = (head[(b \div 8) + 1] \div 2^(b % 8)) % 2
  BY <1>2 DEF PackedBit
<1> QED BY <1>1, <1>2, <1>3 DEF BitOf

\* The bits of a septet, where it is packed.
LEMMA TextBit ==
  ASSUME NEW head \in Seq(Nat), NEW text \in Seq(Septet), NEW k \in 1..Len(text), NEW e \in 0..6
  PROVE  PackedBit(head, text, 7 * (FirstSeptet(head) + k - 1) + e) = BitOf(text[k], e)
<1>0. PICK n \in Nat, t \in Nat : n = Len(head) /\ t = Len(text) OBVIOUS
<1>1. PICK f : n = Len(head) /\ f = FirstSeptet(head) /\ t = Len(text) BY <1>0
<1>2. f = (8 * n + 6) \div 7 BY <1>1 DEF FirstSeptet
<1>3. f \in Nat /\ 7 * f >= 8 * n BY <1>2
<1>4. PICK b : b = 7 * (f + k - 1) + e OBVIOUS
<1>5. k \in Nat /\ k >= 1 /\ k <= t BY <1>1
<1>6. ~(b < 8 * n) /\ ~(b < 7 * f) /\ ~(b >= 7 * (f + t)) BY <1>3, <1>4, <1>5
<1>7. b \div 7 = f + k - 1 /\ b % 7 = e BY <1>3, <1>4, <1>5
<1>8. PackedBit(head, text, b) = (text[(b \div 7) - f + 1] \div 2^(b % 7)) % 2
  BY <1>1, <1>6 DEF PackedBit
<1>9. (b \div 7) - f + 1 = k BY <1>3, <1>5, <1>7
<1> QED BY <1>1, <1>4, <1>7, <1>8, <1>9 DEF BitOf

\* Every bit that is packed is 0 or 1.
LEMMA PackedBitRange ==
  ASSUME NEW head \in Seq(Nat), NEW text \in Seq(Septet), NEW b \in Nat
  PROVE  PackedBit(head, text, b) \in 0..1
<1>1. CASE b < 8 * Len(head)
  <2>1. PICK m \in Nat, e \in 0..7 : m = b \div 8 /\ e = b % 8 OBVIOUS
  <2>2. b = 8 * m + e /\ m < Len(head) BY <1>1, <2>1
  <2>3. m + 1 \in 1..Len(head) BY <2>2
  <2>4. head[m + 1] \in Nat BY <2>3, ElementIn
  <2>5. PackedBit(head, text, 8 * m + e) = BitOf(head[m + 1], e) BY <2>2, HeadBit
  <2> QED BY <2>2, <2>4, <2>5, BitRange
<1>2. CASE ~(b < 8 * Len(head)) /\ (b < 7 * FirstSeptet(head) \/ b >= 7 * (FirstSeptet(head) + Len(text)))
  <2>1. PackedBit(head, text, b) = 0 BY <1>2 DEF PackedBit
  <2> QED BY <2>1
<1>3. CASE ~(b < 7 * FirstSeptet(head)) /\ ~(b >= 7 * (FirstSeptet(head) + Len(text)))
           /\ ~(b < 8 * Len(head))
  <2>1. PICK f : f = FirstSeptet(head) OBVIOUS
  <2>2. f \in Nat
    <3>1. Len(head) \in Nat /\ f = (8 * Len(head) + 6) \div 7 BY <2>1 DEF FirstSeptet
    <3> QED BY <3>1
  <2>3. PICK q \in Nat, e \in 0..6 : q = b \div 7 /\ e = b % 7 OBVIOUS
  <2>4. PICK t \in Nat : t = Len(text) OBVIOUS
  <2>5. b >= 7 * f /\ b < 7 * (f + t) BY <1>3, <2>1, <2>2, <2>4
  <2>6. PICK k : k = q - f + 1 OBVIOUS
  <2>7. b = 7 * q + e BY <2>3
  <2>8. k \in 1..t /\ q = f + k - 1 BY <2>2, <2>5, <2>6, <2>7
  <2>9. k \in 1..Len(text) BY <2>4, <2>8
  <2>10. text[k] \in Nat BY <2>9, ElementIn, IsSeptet
  <2>11. PackedBit(head, text, 7 * (f + k - 1) + e) = BitOf(text[k], e) BY <2>1, <2>9, TextBit
  <2>12. e \in 0..7 OBVIOUS
  <2> QED BY <2>7, <2>8, <2>10, <2>11, <2>12, BitRange
<1> QED BY <1>1, <1>2, <1>3

\* A byte of eight bits.
Octet(x0, x1, x2, x3, x4, x5, x6, x7) ==
  x0 + 2 * x1 + 4 * x2 + 8 * x3 + 16 * x4 + 32 * x5 + 64 * x6 + 128 * x7

IsBit(x) == x \in Nat /\ x <= 1

\* Eight bits make a byte; a packed byte is made of its eight bits.
LEMMA OctetByte ==
  ASSUME NEW x0, NEW x1, NEW x2, NEW x3, NEW x4, NEW x5, NEW x6, NEW x7,
         IsBit(x0), IsBit(x1), IsBit(x2), IsBit(x3), IsBit(x4), IsBit(x5), IsBit(x6), IsBit(x7)
  PROVE  Octet(x0, x1, x2, x3, x4, x5, x6, x7) \in Byte
<1>1. /\ Octet(x0, x1, x2, x3, x4, x5, x6, x7) \in Nat
      /\ Octet(x0, x1, x2, x3, x4, x5, x6, x7) <= 255
  BY DEF Octet, IsBit
<1> QED BY <1>1, IsByte

LEMMA PackedByteOctet ==
  ASSUME NEW head \in Seq(Nat), NEW text \in Seq(Septet), NEW m \in Nat
  PROVE  /\ PackedByte(head, text, m) =
              Octet(PackedBit(head, text, 8 * m), PackedBit(head, text, 8 * m + 1),
                    PackedBit(head, text, 8 * m + 2), PackedBit(head, text, 8 * m + 3),
                    PackedBit(head, text, 8 * m + 4), PackedBit(head, text, 8 * m + 5),
                    PackedBit(head, text, 8 * m + 6), PackedBit(head, text, 8 * m + 7))
         /\ \A b \in Nat : IsBit(PackedBit(head, text, b))
         /\ PackedByte(head, text, m) \in Byte
<1>1. \A b \in Nat : IsBit(PackedBit(head, text, b))
  <2> SUFFICES ASSUME NEW b \in Nat PROVE IsBit(PackedBit(head, text, b)) OBVIOUS
  <2>1. PackedBit(head, text, b) \in 0..1 BY PackedBitRange
  <2> QED BY <2>1 DEF IsBit
<1>2. /\ 8 * m + 0 = 8 * m /\ 8 * m \in Nat /\ 8 * m + 1 \in Nat /\ 8 * m + 2 \in Nat
      /\ 8 * m + 3 \in Nat /\ 8 * m + 4 \in Nat /\ 8 * m + 5 \in Nat /\ 8 * m + 6 \in Nat
      /\ 8 * m + 7 \in Nat
  OBVIOUS
<1>3. PackedByte(head, text, m) =
              Octet(PackedBit(head, text, 8 * m), PackedBit(head, text, 8 * m + 1),
                    PackedBit(head, text, 8 * m + 2), PackedBit(head, text, 8 * m + 3),
                    PackedBit(head, text, 8 * m + 4), PackedBit(head, text, 8 * m + 5),
                    PackedBit(head, text, 8 * m + 6), PackedBit(head, text, 8 * m + 7))
  BY <1>2 DEF PackedByte, Octet
<1>4. PackedByte(head, text, m) \in Byte BY <1>1, <1>2, <1>3, OctetByte
<1> QED BY <1>1, <1>3, <1>4

\* A byte is the sum of its eight bits.
LEMMA OctetOfBits ==
  ASSUME NEW x \in Nat, x <= 255
  PROVE  Octet(BitOf(x, 0), BitOf(x, 1), BitOf(x, 2), BitOf(x, 3),
               BitOf(x, 4), BitOf(x, 5), BitOf(x, 6), BitOf(x, 7)) = x
<1>1. /\ BitOf(x, 0) = x % 2 /\ BitOf(x, 1) = (x \div 2) % 2
      /\ BitOf(x, 2) = (x \div 4) % 2 /\ BitOf(x, 3) = (x \div 8) % 2
      /\ BitOf(x, 4) = (x \div 16) % 2 /\ BitOf(x, 5) = (x \div 32) % 2
      /\ BitOf(x, 6) = (x \div 64) % 2 /\ BitOf(x, 7) = (x \div 128) % 2
  BY DEF BitOf
<1>2. (x \div 128) % 2 = x \div 128 OBVIOUS
<1>3. x \div 64 = 2 * (x \div 128) + ((x \div 64) % 2) OBVIOUS
<1>4. x \div 32 = 2 * (x \div 64) + ((x \div 32) % 2) OBVIOUS
<1>5. x \div 16 = 2 * (x \div 32) + ((x \div 16) % 2) OBVIOUS
<1>6. x \div 8 = 2 * (x \div 16) + ((x \div 8) % 2) OBVIOUS
<1>7. x \div 4 = 2 * (x \div 8) + ((x \div 4) % 2) OBVIOUS
<1>8. x \div 2 = 2 * (x \div 4) + ((x \div 2) % 2) OBVIOUS
<1>9. x = 2 * (x \div 2) + (x % 2) OBVIOUS
<1>10. PICK a \in Int, b \in Int, c \in Int, d \in Int, e \in Int, f \in Int, g \in Int :
         /\ a = x \div 2 /\ b = x \div 4 /\ c = x \div 8 /\ d = x \div 16
         /\ e = x \div 32 /\ f = x \div 64 /\ g = x \div 128
  OBVIOUS
<1>11. Octet(x % 2, a % 2, b % 2, c % 2, d % 2, e % 2, f % 2, g % 2) = x
  BY <1>2, <1>3, <1>4, <1>5, <1>6, <1>7, <1>8, <1>9, <1>10 DEF Octet
<1> QED BY <1>1, <1>10, <1>11

\* A septet is the sum of its seven bits.
LEMMA SeptetOfBits ==
  ASSUME NEW x \in Nat, x <= 127
  PROVE  Octet(BitOf(x, 0), BitOf(x, 1), BitOf(x, 2), BitOf(x, 3),
               BitOf(x, 4), BitOf(x, 5), BitOf(x, 6), 0) = x
<1>1. BitOf(x, 7) = 0 BY DEF BitOf
<1> QED BY <1>1, OctetOfBits

-----------------------------------------------------------------------------
(* The layout of a PDU. *)

\* A header is made of bytes if it fits.
LEMMA HeadOf ==
  ASSUME NEW s, Deliverable(s)
  PROVE  /\ HeaderBytes(s) \in Seq(Nat) /\ Len(HeaderBytes(s)) \in Nat
         /\ Len(HeaderBytes(s)) <= 256 => HeaderBytes(s) \in Seq(Byte)
<1>1. /\ s.elements \in Seq([iei : Byte, data : Seq(Byte)])
      /\ \A i \in DOMAIN s.elements : Len(s.elements[i].data) <= 255
  BY DEF Deliverable
<1> QED BY <1>1, HeaderSeq

Text2(s) == Joined(UnitBytes(UnitsOf(s)))

\* User data of 16-bit units, of bytes, and of septets: the header and the text behind it.
LEMMA WideLayout ==
  ASSUME NEW s, Deliverable(s), Alphabet(s.dcs) = 2
  PROVE  /\ UserData(s) \in Seq(Byte) /\ HeaderBytes(s) \in Seq(Byte)
         /\ StandsAt(UserData(s), 1, HeaderBytes(s))
         /\ UnitsOf(s) \in Seq(Word) /\ Len(UnitsOf(s)) \in Nat
         /\ Len(UserData(s)) = Len(HeaderBytes(s)) + 2 * Len(UnitsOf(s)) + 1
         /\ StandsAt(UserData(s), Len(HeaderBytes(s)) + 1, Text2(s))
<1>1. s.text \in Seq(Unicode) /\ Len(UserData(s)) <= 141 BY DEF Deliverable, Characters
<1>2. UnitsOf(s) \in Seq(Word) BY <1>1, UnitsSeq
<1>3. /\ Text2(s) \in Seq(Byte) /\ Len(Text2(s)) = 2 * Len(UnitsOf(s))
      /\ Len(UnitsOf(s)) \in Nat
  BY <1>2, UnitBytesSeq DEF Text2
<1>4. PICK h \in Seq(Nat) : h = HeaderBytes(s) BY HeadOf
<1>5. PICK b \in Seq(Byte) : b = Text2(s) BY <1>3
<1>6. PICK q : q = UserData(s) OBVIOUS
<1>7. q = Counted(h \o b)
  BY <1>4, <1>5, <1>6 DEF UserData, WideText, Text2, UnitBytes, UnitsOf
<1>8. Len(q) <= 141 /\ (Len(h) <= 256 => h \in Seq(Byte)) BY <1>1, <1>4, <1>6, HeadOf
<1>9. /\ q \in Seq(Byte) /\ Len(q) = Len(h) + Len(b) + 1
      /\ h \in Seq(Byte) /\ StandsAt(q, 1, h) /\ StandsAt(q, Len(h) + 1, b)
  BY <1>7, <1>8, CountedParts
<1> QED BY <1>2, <1>3, <1>4, <1>5, <1>6, <1>9

LEMMA DataLayout ==
  ASSUME NEW s, Deliverable(s), Alphabet(s.dcs) = 1
  PROVE  /\ UserData(s) \in Seq(Byte) /\ HeaderBytes(s) \in Seq(Byte)
         /\ StandsAt(UserData(s), 1, HeaderBytes(s))
         /\ s.text \in Seq(Byte)
         /\ Len(UserData(s)) = Len(HeaderBytes(s)) + Len(s.text) + 1
         /\ StandsAt(UserData(s), Len(HeaderBytes(s)) + 1, s.text)
<1>1. s.text \in Seq(Byte \ {0}) /\ Len(UserData(s)) <= 141 BY DEF Deliverable, Characters
<1>2. s.text \in Seq(Byte)
  <2>1. PICK t \in Seq(Byte \ {0}) : t = s.text BY <1>1
  <2>2. \A i \in 1..Len(t) : t[i] \in Byte BY ElementIn
  <2> QED BY <2>1, <2>2
<1>3. PICK h \in Seq(Nat) : h = HeaderBytes(s) BY HeadOf
<1>4. PICK b \in Seq(Byte) : b = s.text BY <1>2
<1>5. PICK q : q = UserData(s) OBVIOUS
<1>6. q = Counted(h \o b) BY <1>3, <1>4, <1>5 DEF UserData, DataText
<1>7. Len(q) <= 141 /\ (Len(h) <= 256 => h \in Seq(Byte)) BY <1>1, <1>3, <1>5, HeadOf
<1>8. /\ q \in Seq(Byte) /\ Len(q) = Len(h) + Len(b) + 1
      /\ h \in Seq(Byte) /\ StandsAt(q, 1, h) /\ StandsAt(q, Len(h) + 1, b)
  BY <1>6, <1>7, CountedParts
<1> QED BY <1>2, <1>3, <1>4, <1>5, <1>8

Septets7(s) == [m \in 1..((7 * (FirstSeptet(HeaderBytes(s)) + Len(SeptetsOf(s))) + 7) \div 8) |->
                  PackedByte(HeaderBytes(s), SeptetsOf(s), m - 1)]

LEMMA PackedLayout ==
  ASSUME NEW s, Deliverable(s), Alphabet(s.dcs) # 2, Alphabet(s.dcs) # 1
  PROVE  /\ UserData(s) \in Seq(Byte) /\ HeaderBytes(s) \in Seq(Byte)
         /\ StandsAt(UserData(s), 1, HeaderBytes(s))
         /\ SeptetsOf(s) \in Seq(Septet)
         /\ Len(UserData(s)) > Len(HeaderBytes(s))
         /\ UserData(s)[1] = FirstSeptet(HeaderBytes(s)) + Len(SeptetsOf(s))
         /\ StandsAt(UserData(s), 1, Septets7(s))
         /\ Len(UserData(s)) = Len(Septets7(s)) + 1
<1>1. s.text \in Seq(GsmCharacters) /\ Len(UserData(s)) <= 141 BY DEF Deliverable, Characters
<1>2. PICK t \in Seq(Septet) : t = SeptetsOf(s) BY <1>1, SeptetsSeq
<1>3. PICK h \in Seq(Nat) : h = HeaderBytes(s) BY HeadOf
<1>4. PICK n \in Nat, k \in Nat : n = Len(h) /\ k = Len(t) OBVIOUS
<1>5. PICK f \in Nat : f = FirstSeptet(h) /\ f = (8 * n + 6) \div 7 BY <1>4 DEF FirstSeptet
<1>6. PICK u \in Nat : u = f + k OBVIOUS
<1>7. PICK l \in Nat : l = (7 * u + 7) \div 8 OBVIOUS
<1>8. PICK b : b = Septets7(s) OBVIOUS
<1>9. b = [m \in 1..l |-> PackedByte(h, t, m - 1)]
  BY <1>2, <1>3, <1>4, <1>5, <1>6, <1>7, <1>8 DEF Septets7
<1>10. b \in [1..l -> Byte]
  <2>1. ASSUME NEW m \in 1..l PROVE PackedByte(h, t, m - 1) \in Byte
    <3>1. m - 1 \in Nat OBVIOUS
    <3> QED BY <3>1, PackedByteOctet
  <2> QED BY <1>9, <2>1
<1>11. b \in Seq(Byte) /\ Len(b) = l BY <1>10, FunctionSeq
<1>12. PICK q : q = <<u>> \o b OBVIOUS
<1>13. q = UserData(s)
  BY <1>2, <1>3, <1>4, <1>5, <1>6, <1>8, <1>12 DEF UserData, PackedText, Septets7, SeptetsOf
<1>14. b \in Seq(Nat) BY <1>11, ByteSeq
<1>15. Len(q) = Len(b) + 1 BY <1>12, <1>14, Cons
<1>16. u <= 160 /\ n <= l /\ n <= 140 BY <1>1, <1>5, <1>6, <1>7, <1>11, <1>13, <1>15
<1>17. u \in Byte BY <1>16, IsByte
<1>18. q \in Seq(Byte) /\ q[1] = u BY <1>11, <1>12, <1>17, Cons
<1>19. \A i \in 1..Len(b) : q[i + 1] = b[i] BY <1>11, <1>12, <1>17, Cons
<1>20. h \in Seq(Byte) BY <1>3, <1>4, <1>16, HeadOf
<1>21. StandsAt(q, 1, b)
  <2> SUFFICES ASSUME NEW i \in 1..Len(b) PROVE q[1 + i] = b[i] BY DEF StandsAt
  <2>1. 1 + i = i + 1 OBVIOUS
  <2> QED BY <1>19, <2>1
<1>22. StandsAt(q, 1, h)
  <2> SUFFICES ASSUME NEW i \in 1..Len(h) PROVE q[1 + i] = h[i] BY DEF StandsAt
  <2>1. PICK m \in Nat : m = i - 1 OBVIOUS
  <2>2. i \in 1..l /\ i \in 1..Len(b) /\ m < Len(h) /\ m + 1 = i BY <1>4, <1>11, <1>16, <2>1
  <2>3. q[1 + i] = PackedByte(h, t, m)
    <3>1. q[1 + i] = b[i] BY <1>21, <2>2 DEF StandsAt
    <3>2. b[i] = PackedByte(h, t, i - 1) BY <1>9, <2>2
    <3> QED BY <2>1, <3>1, <3>2
  <2>4. PICK x \in Nat : x = h[i] /\ x <= 255
    <3>1. h[i] \in Byte BY <1>20, ElementIn
    <3> QED BY <3>1, IsByte
  <2>5. \A e \in 0..7 : PackedBit(h, t, 8 * m + e) = BitOf(x, e)
    BY <2>2, <2>4, HeadBit
  <2>6. /\ PackedBit(h, t, 8 * m) = BitOf(x, 0) /\ PackedBit(h, t, 8 * m + 1) = BitOf(x, 1)
        /\ PackedBit(h, t, 8 * m + 2) = BitOf(x, 2) /\ PackedBit(h, t, 8 * m + 3) = BitOf(x, 3)
        /\ PackedBit(h, t, 8 * m + 4) = BitOf(x, 4) /\ PackedBit(h, t, 8 * m + 5) = BitOf(x, 5)
        /\ PackedBit(h, t, 8 * m + 6) = BitOf(x, 6) /\ PackedBit(h, t, 8 * m + 7) = BitOf(x, 7)
    <3>1. 8 * m + 0 = 8 * m OBVIOUS
    <3>2. /\ 0 \in 0..7 /\ 1 \in 0..7 /\ 2 \in 0..7 /\ 3 \in 0..7
          /\ 4 \in 0..7 /\ 5 \in 0..7 /\ 6 \in 0..7 /\ 7 \in 0..7 OBVIOUS
    <3> QED BY <2>5, <3>1, <3>2
  <2>7. PackedByte(h, t, m) =
          Octet(BitOf(x, 0), BitOf(x, 1), BitOf(x, 2), BitOf(x, 3),
                BitOf(x, 4), BitOf(x, 5), BitOf(x, 6), BitOf(x, 7))
    BY <2>6, PackedByteOctet, SMTT(30)
  <2> QED BY <2>3, <2>4, <2>7, OctetOfBits
<1> QED BY <1>2, <1>3, <1>4, <1>5, <1>6, <1>8, <1>11, <1>13, <1>15, <1>16, <1>18, <1>20, <1>21, <1>22

\* What begins with a concatenation begins with its first part and has the second behind it.
LEMMA ExtendsAll ==
  ASSUME NEW S, NEW v \in Seq(S), NEW w \in Seq(S), NEW r, Extends(r, v \o w)
  PROVE  Extends(r, v) /\ StandsAt(r, Len(v), w)
<1>1. PICK x \in Seq(S) : x = v \o w BY Appended
<1>2. Len(x) = Len(v) + Len(w) /\ Extends(x, v) /\ StandsAt(x, Len(v), w) /\ Len(v) \in Nat /\ Len(w) \in Nat
  BY <1>1, Appended
<1>3. Extends(r, x) BY <1>1
<1>4. StandsAt(r, Len(v), w) BY <1>2, <1>3, StillStands
<1>5. Extends(r, v)
  <2> SUFFICES ASSUME NEW i \in 1..Len(v) PROVE r[i] = v[i] BY DEF Extends
  <2>1. i \in 1..Len(x) BY <1>2
  <2> QED BY <1>2, <1>3, <2>1 DEF Extends
<1> QED BY <1>4, <1>5

LEMMA Glued ==
  ASSUME NEW S, NEW v \in Seq(S), NEW w \in Seq(S)
  PROVE  \E r \in Seq(S) : r = v \o w /\ Len(r) = Len(v) + Len(w)
BY Appended

Times(s) == [k \in 1..6 |-> s.time[k][1] + 16 * s.time[k][2]]

\* The time takes six bytes.
LEMMA TimeBytes ==
  ASSUME NEW s, Deliverable(s)
  PROVE  /\ Times(s) \in Seq(Byte) /\ Len(Times(s)) = 6
         /\ \A k \in 1..6 : /\ Times(s)[k] = s.time[k][1] + 16 * s.time[k][2]
                            /\ s.time[k][1] \in 0..9 /\ s.time[k][2] \in 0..9
<1>1. s.time \in [1..6 -> [1..2 -> 0..9]] BY DEF Deliverable
<1>2. ASSUME NEW k \in 1..6
      PROVE  /\ Times(s)[k] = s.time[k][1] + 16 * s.time[k][2]
             /\ s.time[k][1] \in 0..9 /\ s.time[k][2] \in 0..9
             /\ Times(s)[k] \in Byte
  <2>1. s.time[k] \in [1..2 -> 0..9] /\ 1 \in 1..2 /\ 2 \in 1..2 BY <1>1
  <2>2. PICK x \in 0..9, y \in 0..9 : x = s.time[k][1] /\ y = s.time[k][2] BY <2>1
  <2>3. x + 16 * y \in Nat /\ x + 16 * y <= 255 OBVIOUS
  <2>4. Times(s)[k] = s.time[k][1] + 16 * s.time[k][2] BY DEF Times
  <2> QED BY <2>2, <2>3, <2>4, IsByte
<1>3. PICK n \in Nat : n = 6 OBVIOUS
<1>4. Times(s) \in [1..n -> Byte] BY <1>2, <1>3 DEF Times
<1>5. PICK f : f = Times(s) OBVIOUS
<1>6. f \in [1..n -> Byte] BY <1>4, <1>5
<1>7. f \in Seq(Byte) /\ Len(f) = IF n > 0 THEN n ELSE 0 BY <1>6, FunctionSeq
<1> QED BY <1>2, <1>3, <1>5, <1>7

\* User data of any alphabet begin, behind their count, with the header.
LEMMA UserDataLayout ==
  ASSUME NEW s, Deliverable(s)
  PROVE  /\ UserData(s) \in Seq(Byte) /\ Len(UserData(s)) > Len(HeaderBytes(s))
         /\ HeaderBytes(s) \in Seq(Byte) /\ StandsAt(UserData(s), 1, HeaderBytes(s))
         /\ Len(UserData(s)) <= 141 /\ Len(UserData(s)) \in Nat /\ Len(HeaderBytes(s)) \in Nat
<1>1. Len(UserData(s)) <= 141 BY DEF Deliverable
<1>2. CASE Alphabet(s.dcs) = 2
  <2>1. /\ UserData(s) \in Seq(Byte) /\ HeaderBytes(s) \in Seq(Byte)
        /\ StandsAt(UserData(s), 1, HeaderBytes(s))
        /\ Len(UnitsOf(s)) \in Nat
        /\ Len(UserData(s)) = Len(HeaderBytes(s)) + 2 * Len(UnitsOf(s)) + 1
    BY <1>2, WideLayout
  <2> QED BY <1>1, <2>1
<1>3. CASE Alphabet(s.dcs) = 1
  <2>1. /\ UserData(s) \in Seq(Byte) /\ HeaderBytes(s) \in Seq(Byte)
        /\ StandsAt(UserData(s), 1, HeaderBytes(s))
        /\ s.text \in Seq(Byte)
        /\ Len(UserData(s)) = Len(HeaderBytes(s)) + Len(s.text) + 1
    BY <1>3, DataLayout
  <2>2. Len(s.text) \in Nat BY <2>1
  <2> QED BY <1>1, <2>1, <2>2
<1>4. CASE Alphabet(s.dcs) # 2 /\ Alphabet(s.dcs) # 1
  <2>1. /\ UserData(s) \in Seq(Byte) /\ HeaderBytes(s) \in Seq(Byte)
        /\ StandsAt(UserData(s), 1, HeaderBytes(s)) /\ Len(UserData(s)) > Len(HeaderBytes(s))
    BY <1>4, PackedLayout
  <2> QED BY <1>1, <2>1
<1> QED BY <1>2, <1>3, <1>4

\* Where every field of a PDU stands.
TypeOf(s) == IF s.elements = <<>> THEN 4 ELSE 68
TonOf(s) == IF s.intl THEN 145 ELSE 129
Parts(p, s, a, w) ==
  /\ p \in Seq(Byte) /\ Len(p) = a + w + 13 + Len(UserData(s))
  /\ a \in Nat /\ a = Len(s.smsc) /\ a <= 11
  /\ w \in Nat /\ w = Len(Swapped(s.number)) /\ w <= 10
  /\ p[1] = a /\ p[a + 2] = TypeOf(s) /\ p[a + 3] = Len(s.number) /\ p[a + 4] = TonOf(s)
  /\ StandsAt(p, a + 4, Swapped(s.number))
  /\ p[a + w + 5] = 0 /\ p[a + w + 6] = s.dcs
  /\ StandsAt(p, a + w + 6, Times(s)) /\ StandsAt(p, a + w + 13, UserData(s))

\* A PDU that the network delivers has its fields where the standard puts them.
LEMMA PduParts ==
  ASSUME NEW s, Deliverable(s)
  PROVE  \E a, w \in Nat : Parts(Pdu(s), s, a, w)
<1>1. PICK c \in Seq(Byte) : c = s.smsc /\ Len(c) <= 11 BY DEF Deliverable
<1>2. PICK a \in Nat : a = Len(c) OBVIOUS
<1>3. PICK num \in Seq(0..9) : num = s.number /\ Len(num) <= 20 BY SMTT(30) DEF Deliverable
<1>4. PICK sw \in Seq(Byte) : sw = Swapped(num) /\ Len(sw) = (Len(num) + 1) \div 2 BY SwappedBytes
<1>5. PICK w \in Nat : w = Len(sw) OBVIOUS
<1>6. Len(num) \in Nat /\ w <= 10
  <2>1. PICK l \in Nat : l = Len(num) /\ l <= 20 BY <1>3
  <2>2. w = (l + 1) \div 2 BY <1>4, <1>5, <2>1
  <2>3. w <= 10 BY <2>1, <2>2
  <2> QED BY <2>1, <2>3
<1>7. PICK d \in Seq(Byte) : d = UserData(s) BY UserDataLayout
<1>8. PICK tt \in Seq(Byte) : tt = Times(s) /\ Len(tt) = 6 BY TimeBytes
<1>32. /\ TypeOf(s) \in Byte /\ TonOf(s) \in Byte /\ 0 \in Byte /\ 50 \in Byte
       /\ Len(num) \in Byte /\ s.dcs \in Byte
  <2>1. 4 \in Byte /\ 68 \in Byte /\ 145 \in Byte /\ 129 \in Byte /\ 0 \in Byte /\ 50 \in Byte
    BY DEF Byte
  <2>2. TypeOf(s) \in Byte /\ TonOf(s) \in Byte BY <2>1 DEF TypeOf, TonOf
  <2>5. PICK l \in Nat : l = Len(num) /\ l <= 20 BY <1>3
  <2>6. l <= 255 BY <2>5
  <2>3. Len(num) \in Byte BY <2>5, <2>6, IsByte
  <2>4. s.dcs \in Byte BY DEF Deliverable
  <2> QED BY <2>1, <2>2, <2>3, <2>4
<1>33. PICK ty \in Byte, ton \in Byte, dcs \in Byte :
         ty = TypeOf(s) /\ ton = TonOf(s) /\ dcs = s.dcs BY <1>32
<1>34. PICK n \in Byte, z \in Byte, zone \in Byte : n = Len(num) /\ z = 0 /\ zone = 50 BY <1>32
<1>10. PICK p1 \in Seq(Byte) : p1 = Counted(c) /\ Len(p1) = a + 1 /\ p1[1] = a
  <2>1. c \in Seq(Nat) /\ Len(c) <= 255 BY <1>1, ByteSeq
  <2> QED BY <1>2, <2>1, CountedSeq
<1>11. PICK u1 \in Seq(Byte) : u1 = <<ty>> /\ Len(u1) = 1 /\ u1[1] = ty
  <2>1. <<ty>> \in Seq(Byte) /\ Len(<<ty>>) = 1 /\ <<ty>>[1] = ty OBVIOUS
  <2> QED BY <2>1
<1>12. PICK u2 \in Seq(Byte) : u2 = <<n, ton>> /\ Len(u2) = 2 /\ u2[1] = n /\ u2[2] = ton
  <2>1. /\ <<n, ton>> \in Seq(Byte) /\ Len(<<n, ton>>) = 2
        /\ <<n, ton>>[1] = n /\ <<n, ton>>[2] = ton OBVIOUS
  <2> QED BY <2>1
<1>35. PICK u3 \in Seq(Byte) : u3 = <<z, dcs>> /\ Len(u3) = 2 /\ u3[1] = z /\ u3[2] = dcs
  <2>1. /\ <<z, dcs>> \in Seq(Byte) /\ Len(<<z, dcs>>) = 2
        /\ <<z, dcs>>[1] = z /\ <<z, dcs>>[2] = dcs OBVIOUS
  <2> QED BY <2>1
<1>36. PICK u4 \in Seq(Byte) : u4 = <<zone>> /\ Len(u4) = 1
  <2>1. <<zone>> \in Seq(Byte) /\ Len(<<zone>>) = 1 OBVIOUS
  <2> QED BY <2>1
<1>13. PICK p2 \in Seq(Byte) : p2 = p1 \o u1 /\ Len(p2) = Len(p1) + Len(u1) BY Glued
<1>14. PICK p3 \in Seq(Byte) : p3 = p2 \o u2 /\ Len(p3) = Len(p2) + Len(u2) BY Glued
<1>15. PICK p4 \in Seq(Byte) : p4 = p3 \o sw /\ Len(p4) = Len(p3) + Len(sw) BY Glued
<1>16. PICK p5 \in Seq(Byte) : p5 = p4 \o u3 /\ Len(p5) = Len(p4) + Len(u3) BY Glued
<1>17. PICK p6 \in Seq(Byte) : p6 = p5 \o tt /\ Len(p6) = Len(p5) + Len(tt) BY Glued
<1>18. PICK p7 \in Seq(Byte) : p7 = p6 \o u4 /\ Len(p7) = Len(p6) + Len(u4) BY Glued
<1>37. PICK p \in Seq(Byte) : p = p7 \o d /\ Len(p) = Len(p7) + Len(d) BY Glued
<1>38. Len(d) \in Nat OBVIOUS
<1>39. Len(p2) = a + 2 BY <1>10, <1>11, <1>13
<1>40. Len(p3) = a + 4 BY <1>12, <1>14, <1>39
<1>41. Len(p4) = a + w + 4 BY <1>5, <1>15, <1>40
<1>42. Len(p5) = a + w + 6 BY <1>16, <1>35, <1>41
<1>43. Len(p6) = a + w + 12 BY <1>8, <1>17, <1>42
<1>44. Len(p7) = a + w + 13 BY <1>18, <1>36, <1>43
<1>19. Len(p) = a + w + 13 + Len(d) /\ Extends(p, p7) /\ StandsAt(p, a + w + 13, d)
  BY <1>37, <1>44, Appended
<1>20. p = Pdu(s)
  <2>1. p = Counted(c) \o <<ty>> \o <<n, ton>> \o sw \o <<z, dcs>> \o tt \o <<zone>> \o d
    BY <1>10, <1>11, <1>12, <1>13, <1>14, <1>15, <1>16, <1>17, <1>18, <1>35, <1>36, <1>37, Zenon
  <2>2. Pdu(s) = Counted(s.smsc) \o <<TypeOf(s)>> \o <<Len(s.number), TonOf(s)>>
                   \o Swapped(s.number) \o <<0, s.dcs>> \o Times(s) \o <<50>> \o UserData(s)
    BY DEF Pdu, Times, TypeOf, TonOf
  <2> QED BY <1>1, <1>3, <1>4, <1>7, <1>8, <1>33, <1>34, <2>1, <2>2
<1>21. Extends(p, p6) BY <1>18, <1>19, ExtendsAll
<1>22. Extends(p, p5) /\ StandsAt(p, a + w + 6, tt) BY <1>17, <1>21, <1>42, ExtendsAll
<1>23. Extends(p, p4) /\ StandsAt(p, a + w + 4, u3) BY <1>16, <1>22, <1>41, ExtendsAll
<1>24. Extends(p, p3) /\ StandsAt(p, a + 4, sw) BY <1>15, <1>23, <1>40, ExtendsAll
<1>25. Extends(p, p2) /\ StandsAt(p, a + 2, u2) BY <1>14, <1>24, <1>39, ExtendsAll
<1>26. Extends(p, p1) /\ StandsAt(p, a + 1, u1) BY <1>10, <1>13, <1>25, ExtendsAll
<1>27. p[1] = a
  <2>1. 1 \in 1..Len(p1) BY <1>10
  <2> QED BY <1>10, <1>26, <2>1 DEF Extends
<1>28. p[a + 2] = ty
  <2>1. 1 \in 1..Len(u1) /\ a + 1 + 1 = a + 2 BY <1>11
  <2>2. p[a + 1 + 1] = u1[1] BY <1>26, <2>1 DEF StandsAt
  <2> QED BY <1>11, <2>1, <2>2
<1>29. p[a + 3] = n /\ p[a + 4] = ton
  <2>1. 1 \in 1..Len(u2) /\ 2 \in 1..Len(u2) /\ a + 2 + 1 = a + 3 /\ a + 2 + 2 = a + 4 BY <1>12
  <2>2. p[a + 2 + 1] = u2[1] /\ p[a + 2 + 2] = u2[2] BY <1>25, <2>1 DEF StandsAt
  <2> QED BY <1>12, <2>1, <2>2
<1>30. p[a + w + 5] = z /\ p[a + w + 6] = dcs
  <2>1. /\ 1 \in 1..Len(u3) /\ 2 \in 1..Len(u3)
        /\ a + w + 4 + 1 = a + w + 5 /\ a + w + 4 + 2 = a + w + 6 BY <1>35
  <2>2. p[a + w + 4 + 1] = u3[1] /\ p[a + w + 4 + 2] = u3[2] BY <1>23, <2>1 DEF StandsAt
  <2> QED BY <1>35, <2>1, <2>2
<1>31. Parts(p, s, a, w)
  BY <1>1, <1>2, <1>3, <1>4, <1>5, <1>6, <1>7, <1>8, <1>33, <1>34, <1>19, <1>22, <1>24,
     <1>27, <1>28, <1>29, <1>30 DEF Parts
<1> QED BY <1>20, <1>31

-----------------------------------------------------------------------------
(* The line of a PDU. *)

\* Two digits a byte.
LEMMA HexSeq ==
  ASSUME NEW p \in Seq(Byte)
  PROVE  /\ Hex(p) \in Seq(0..17) /\ Len(Hex(p)) = 2 * Len(p) /\ Len(p) \in Nat
         /\ \A i \in 1..(2 * Len(p)) : Hex(p)[i] < 16
         /\ \A k \in 1..Len(p) : /\ Hex(p)[2 * k - 1] = p[k] \div 16
                                 /\ Hex(p)[2 * k] = p[k] % 16
<1>1. PICK n \in Nat : n = Len(p) OBVIOUS
<1>2. PICK h : h = Hex(p) OBVIOUS
<1>3. h = [i \in 1..(2 * n) |-> IF i % 2 = 1 THEN p[(i + 1) \div 2] \div 16 ELSE p[i \div 2] % 16]
  BY <1>1, <1>2 DEF Hex
<1>4. ASSUME NEW k \in 1..n PROVE p[k] \in Nat /\ p[k] <= 255
  <2>1. p[k] \in Byte BY <1>1, ElementIn
  <2> QED BY <2>1, IsByte
<1>5. ASSUME NEW i \in 1..(2 * n) PROVE h[i] \in 0..17 /\ h[i] < 16
  <2>1. CASE i % 2 = 1
    <3>1. PICK k : k = (i + 1) \div 2 OBVIOUS
    <3>2. k \in 1..n BY <2>1, <3>1
    <3>3. PICK x \in Nat : x = p[k] /\ x <= 255 BY <1>4, <3>2
    <3>4. PICK y : y = x \div 16 OBVIOUS
    <3>6. y \in Nat /\ y <= 15 BY <3>3, <3>4
    <3>7. y \in 0..17 /\ y < 16 BY <3>6
    <3>5. h[i] = y BY <1>3, <2>1, <3>1, <3>3, <3>4
    <3> QED BY <3>5, <3>7
  <2>2. CASE i % 2 # 1
    <3>1. PICK k : k = i \div 2 OBVIOUS
    <3>2. k \in 1..n BY <2>2, <3>1
    <3>3. PICK x \in Nat : x = p[k] /\ x <= 255 BY <1>4, <3>2
    <3>4. PICK y : y = x % 16 OBVIOUS
    <3>6. y \in Nat /\ y <= 15 BY <3>3, <3>4
    <3>7. y \in 0..17 /\ y < 16 BY <3>6
    <3>5. h[i] = y BY <1>3, <2>2, <3>1, <3>3, <3>4
    <3> QED BY <3>5, <3>7
  <2> QED BY <2>1, <2>2
<1>6. PICK m \in Nat : m = 2 * n OBVIOUS
<1>7. h \in [1..m -> 0..17] BY <1>3, <1>5, <1>6
<1>8. h \in Seq(0..17) /\ Len(h) = m BY <1>7, FunctionSeq
<1>9. ASSUME NEW k \in 1..n PROVE h[2 * k - 1] = p[k] \div 16 /\ h[2 * k] = p[k] % 16
  <2>1. PICK i, j : i = 2 * k - 1 /\ j = 2 * k OBVIOUS
  <2>2. /\ i \in 1..(2 * n) /\ j \in 1..(2 * n) /\ i % 2 = 1 /\ j % 2 # 1
        /\ (i + 1) \div 2 = k /\ j \div 2 = k
    BY <2>1
  <2> QED BY <1>3, <2>1, <2>2
<1> QED BY <1>1, <1>2, <1>5, <1>6, <1>8, <1>9

\* The line the modem shows consists of digits, blanks and its end.
LEMMA LineChars ==
  ASSUME NEW s, Deliverable(s)
  PROVE  Line(s) \in Seq(0..17)
<1>1. PICK p \in Seq(Byte) : p = Pdu(s) BY PduParts DEF Parts
<1>2. PICK h \in Seq(0..17) : h = Hex(p) BY HexSeq
<1>3. PICK b \in Nat, l \in Nat : b = s.blanks /\ l = s.lost BY DEF Deliverable
<1>4. PICK f : f = [i \in 1..b |-> 16] OBVIOUS
<1>5. f \in Seq(0..17)
  <2>1. f \in [1..b -> 0..17] BY <1>4
  <2> QED BY <2>1, FunctionSeq
<1>6. PICK g : g = SubSeq(h, 1, Len(h) - l) OBVIOUS
<1>7. g \in Seq(0..17)
  <2>1. PICK n \in Nat : n = Len(h) OBVIOUS
  <2>2. n - l \in Int /\ n - l <= n OBVIOUS
  <2>3. CASE n - l >= 1
    <3>1. PICK e : e = n - l OBVIOUS
    <3>2. e \in 1..n BY <2>1, <2>3, <3>1
    <3>3. \A i \in 1..n : h[i] \in 0..17 BY <2>1, ElementIn
    <3>4. PICK c : c = [i \in 1..e |-> h[i]] OBVIOUS
    <3>5. c \in [1..e -> 0..17] BY <3>2, <3>3, <3>4
    <3>6. c \in Seq(0..17) BY <3>2, <3>5, FunctionSeq
    <3>7. g = c BY <1>6, <2>1, <3>1, <3>2, <3>4
    <3> QED BY <3>6, <3>7
  <2>4. CASE ~(n - l >= 1)
    <3>1. g = <<>> BY <1>6, <2>1, <2>4
    <3> QED BY <3>1
  <2> QED BY <2>2, <2>3, <2>4
<1>8. <<16>> \in Seq(0..17) OBVIOUS
<1>9. f \o g \in Seq(0..17) BY <1>5, <1>7, Appended
<1>10. (f \o g) \o <<16>> \in Seq(0..17) BY <1>8, <1>9, Appended
<1> QED BY <1>1, <1>2, <1>3, <1>4, <1>6, <1>10 DEF Line

\* A line: blanks, the digits of h, and its end.
Shown(line, b, h) ==
  /\ line \in Seq(0..17) /\ Len(line) = b + Len(h) + 1
  /\ \A i \in 1..b : line[i] = 16
  /\ \A i \in 1..Len(h) : line[i + b] = h[i]

\* Nothing is lost: the line shows every digit.
LEMMA LineShown ==
  ASSUME NEW s, Deliverable(s), s.lost = 0
  PROVE  Shown(Line(s), s.blanks, Hex(Pdu(s)))
<1>1. PICK p \in Seq(Byte) : p = Pdu(s) BY PduParts DEF Parts
<1>2. PICK h \in Seq(0..17) : h = Hex(p) BY HexSeq
<1>3. PICK b \in Nat : b = s.blanks BY DEF Deliverable
<1>4. PICK n \in Nat : n = Len(h) OBVIOUS
<1>5. PICK f : f = [i \in 1..b |-> 16] OBVIOUS
<1>6. f \in Seq(0..17) /\ Len(f) = b
  <2>1. f \in [1..b -> 0..17] BY <1>5
  <2> QED BY <2>1, FunctionSeq
<1>7. SubSeq(h, 1, n - 0) = h BY <1>4
<1>8. <<16>> \in Seq(0..17) /\ Len(<<16>>) = 1 OBVIOUS
<1>9. PICK g \in Seq(0..17) : g = f \o h /\ Len(g) = Len(f) + Len(h) BY <1>6, Glued, ZenonT(40)
<1>10. /\ \A i \in 1..b : g[i] = f[i]
       /\ \A i \in 1..Len(h) : g[i + b] = h[i]
  <2>1. /\ \A i \in 1..Len(f) : (f \o h)[i] = f[i]
        /\ \A i \in 1..Len(h) : (f \o h)[Len(f) + i] = h[i]
    BY <1>6, Concat, SMTT(30)
  <2>2. /\ \A i \in 1..b : g[i] = f[i]
        /\ \A i \in 1..Len(h) : g[b + i] = h[i]
    BY <1>6, <1>9, <2>1
  <2>3. ASSUME NEW i \in 1..Len(h) PROVE g[i + b] = h[i]
    <3>1. b + i = i + b OBVIOUS
    <3>2. g[b + i] = h[i] BY <2>2
    <3> QED BY <3>1, <3>2
  <2>4. \A i \in 1..b : g[i] = f[i] BY <2>2
  <2> QED BY <2>3, <2>4
<1>11. PICK e \in Seq(0..17) : e = <<16>> /\ Len(e) = 1 BY <1>8
<1>12. PICK line \in Seq(0..17) : line = g \o e /\ Len(line) = Len(g) + Len(e)
  <2>1. g \o e \in Seq(0..17) /\ Len(g \o e) = Len(g) + Len(e) BY Concat
  <2> QED BY <2>1
<1>13. \A i \in 1..Len(g) : line[i] = g[i] BY <1>12, Concat
<1>14. line = Line(s)
  <2>1. Line(s) = (f \o SubSeq(h, 1, n - s.lost)) \o <<16>> BY <1>1, <1>2, <1>3, <1>4, <1>5 DEF Line
  <2> QED BY <1>7, <1>9, <1>11, <1>12, <2>1
<1>15. Len(line) = b + n + 1 BY <1>4, <1>6, <1>9, <1>11, <1>12
<1>16. ASSUME NEW i \in 1..b PROVE line[i] = 16
  <2>1. i \in 1..Len(g) BY <1>4, <1>6, <1>9
  <2>2. line[i] = g[i] /\ g[i] = f[i] BY <1>10, <1>13, <2>1
  <2> QED BY <1>5, <2>2
<1>17. ASSUME NEW i \in 1..n PROVE line[i + b] = h[i]
  <2>1. i + b \in 1..Len(g) BY <1>4, <1>6, <1>9
  <2> QED BY <1>4, <1>10, <1>13, <2>1
<1> QED BY <1>1, <1>2, <1>3, <1>4, <1>14, <1>15, <1>16, <1>17 DEF Shown

\* The digits of such a line are converted to the bytes they came from.
LEMMA ShownBytes ==
  ASSUME NEW p \in Seq(Byte), NEW b \in Nat, NEW line, Shown(line, b, Hex(p)),
         BufCap \in Nat, Len(p) <= BufCap, Len(p) >= 1
  PROVE  HexToBytes(line) = p
<1>1. PICK h \in Seq(0..17) : h = Hex(p) /\ Len(h) = 2 * Len(p) BY HexSeq
<1>2. PICK n \in Nat : n = Len(p) /\ n >= 1 /\ n <= BufCap OBVIOUS
<1>3. /\ line \in Seq(0..17) /\ Len(line) = b + 2 * n + 1
      /\ \A i \in 1..b : line[i] = 16
      /\ \A i \in 1..(2 * n) : line[i + b] = h[i]
  BY <1>1, <1>2 DEF Shown
<1>4. /\ \A i \in 1..(2 * n) : h[i] < 16
      /\ \A k \in 1..n : h[2 * k - 1] = p[k] \div 16 /\ h[2 * k] = p[k] % 16
  BY <1>1, <1>2, HexSeq
<1> DEFINE first(i) == line[i] # Blank /\ \A j \in 1..(i - 1) : line[j] = Blank
           text == IF \A i \in DOMAIN line : line[i] = Blank THEN <<>>
                   ELSE SubSeq(line, CHOOSE i \in DOMAIN line : first(i), Len(line))
<1>5. PICK o : o = b + 1 OBVIOUS
<1>6. o \in 1..Len(line) /\ line[o] # Blank
  <2>1. 1 \in 1..(2 * n) /\ 1 + b = o BY <1>2, <1>5
  <2>2. line[1 + b] = h[1] /\ h[1] < 16 BY <1>3, <1>4, <2>1
  <2>3. h[1] \in 0..17
    <3>1. 1 \in 1..Len(h) BY <1>1, <1>2
    <3> QED BY <3>1, ElementIn
  <2>4. line[o] # 16 BY <2>1, <2>2, <2>3
  <2>5. PICK l : l = Len(line) OBVIOUS
  <2>6. l = b + 2 * n + 1 BY <1>3, <2>5
  <2>7. o \in 1..l BY <1>2, <1>5, <2>6
  <2> QED BY <2>4, <2>5, <2>7 DEF Blank
<1>18. DOMAIN line = 1..Len(line) BY <1>3
<1>7. \A i \in DOMAIN line : first(i) <=> i = o
  <2>1. SUFFICES ASSUME NEW i \in 1..Len(line) PROVE first(i) <=> i = o
    <3> HIDE DEF first
    <3> QED BY <1>18
  <2>2. CASE i < o
    <3>1. i \in 1..b BY <1>5, <2>2
    <3>2. line[i] = Blank BY <1>3, <3>1 DEF Blank
    <3> QED BY <2>2, <3>2
  <2>3. CASE i = o
    <3>1. \A j \in 1..(i - 1) : line[j] = Blank BY <1>3, <1>5, <2>3 DEF Blank
    <3> QED BY <1>6, <2>3, <3>1
  <2>4. CASE i > o
    <3>1. o \in 1..(i - 1) BY <1>5, <2>4
    <3> QED BY <1>6, <2>4, <3>1
  <2>5. o \in Int /\ i \in Int BY <1>5
  <2> QED BY <2>2, <2>3, <2>4, <2>5
<1>8. text = SubSeq(line, o, Len(line))
  <2>1. o \in DOMAIN line BY <1>3, <1>6
  <2>2. (CHOOSE i \in DOMAIN line : first(i)) = o BY <1>7, <2>1
  <2>3. ~(\A i \in DOMAIN line : line[i] = Blank) BY <1>6, <2>1
  <2> HIDE DEF first
  <2> QED BY <2>2, <2>3
<1> DEFINE fits(k) == k <= BufCap /\ \A i \in 1..(2 * k) : text[i] < 16
           whole == {k \in 0..(Len(text) \div 2) : fits(k)}
<1>9. HexToBytes(line) = [k \in 1..Max(whole) |-> (16 * text[2 * k - 1]) + text[2 * k]]
  BY DEF HexToBytes
<1> HIDE DEF text
<1>10. /\ text \in Seq(0..17) /\ Len(text) = 2 * n + 1
       /\ \A i \in 1..(2 * n) : text[i] = h[i]
  <2>1. PICK e \in Nat : e = Len(line) BY <1>3
  <2>2. o \in 1..e /\ e = o + 2 * n BY <1>2, <1>3, <1>5, <1>6, <2>1
  <2>3. PICK c : c = SubSeq(line, o, e) OBVIOUS
  <2>4. c = [i \in 1..(2 * n + 1) |-> line[o + i - 1]] BY <1>3, <2>1, <2>2, <2>3
  <2>5. ASSUME NEW i \in 1..(2 * n + 1) PROVE line[o + i - 1] \in 0..17
    <3>1. PICK j : j = o + i - 1 OBVIOUS
    <3>2. j \in 1..Len(line) BY <2>1, <2>2, <3>1
    <3>3. line[j] \in 0..17 BY <1>3, <3>2, ElementIn
    <3> QED BY <3>1, <3>3
  <2>6. PICK m : m = 2 * n + 1 OBVIOUS
  <2>7. m \in Int /\ m > 0 BY <2>6
  <2>8. c \in [1..m -> 0..17] BY <2>4, <2>5, <2>6
  <2>9. c \in Seq(0..17) /\ Len(c) = m BY <2>7, <2>8, FunctionSeq
  <2>10. ASSUME NEW i \in 1..(2 * n) PROVE c[i] = h[i]
    <3>1. i \in 1..(2 * n + 1) /\ o + i - 1 = i + b BY <1>2, <1>5
    <3>2. c[i] = line[o + i - 1] BY <2>4, <3>1
    <3> QED BY <1>3, <3>1, <3>2
  <2>11. text = c BY <1>8, <2>1, <2>3
  <2> QED BY <2>6, <2>9, <2>10, <2>11
<1>11. Len(text) \div 2 = n
  <2>1. (2 * n + 1) \div 2 = n BY <1>2
  <2> QED BY <1>10, <2>1
<1>12. n \in whole
  <2>1. \A i \in 1..(2 * n) : text[i] < 16 BY <1>4, <1>10
  <2>2. n \in 0..(Len(text) \div 2) BY <1>2, <1>11
  <2> QED BY <1>2, <2>1, <2>2
<1>13. Max(whole) = n
  <2>1. whole \in SUBSET (0..n) /\ whole # {} BY <1>11, <1>12
  <2> HIDE DEF whole
  <2>2. Max(whole) \in whole /\ \A k \in whole : k <= Max(whole) BY <1>2, <2>1, MaxOf
  <2>3. PICK m \in 0..n : m = Max(whole) BY <2>1, <2>2
  <2>4. n <= m BY <1>12, <2>2, <2>3
  <2> QED BY <1>2, <2>3, <2>4
<1>14. ASSUME NEW k \in 1..n PROVE (16 * text[2 * k - 1]) + text[2 * k] = p[k]
  <2>1. PICK x, y : x = text[2 * k - 1] /\ y = text[2 * k] OBVIOUS
  <2>2. 2 * k - 1 \in 1..(2 * n) /\ 2 * k \in 1..(2 * n) BY <1>2
  <2>3. x = h[2 * k - 1] /\ y = h[2 * k] BY <1>10, <2>1, <2>2
  <2>4. PICK z \in Nat : z = p[k]
    <3>1. p[k] \in Byte BY <1>2, ElementIn
    <3> QED BY <3>1, IsByte
  <2>5. x = z \div 16 /\ y = z % 16 BY <1>4, <2>3, <2>4
  <2>6. 16 * x + y = z BY <2>5
  <2> QED BY <2>1, <2>4, <2>6
<1>15. PICK r : r = HexToBytes(line) OBVIOUS
<1> HIDE DEF whole
<1>16. r = [k \in 1..n |-> p[k]] BY <1>9, <1>13, <1>14, <1>15
<1>17. p = [k \in 1..n |-> p[k]] BY <1>2
<1> QED BY <1>15, <1>16, <1>17

\* A line that lost nothing is converted to the bytes of its PDU.
LEMMA LineDecoded ==
  ASSUME Roomy, NEW s, Deliverable(s), s.lost = 0
  PROVE  HexToBytes(Line(s)) = Pdu(s)
<1>1. PICK a \in Nat, w \in Nat : Parts(Pdu(s), s, a, w) BY PduParts
<1>2. PICK p \in Seq(Byte) : p = Pdu(s) BY <1>1 DEF Parts
<1>3. PICK u \in Nat : u = Len(UserData(s)) /\ u <= 141 BY UserDataLayout
<1>4. Len(p) = a + w + 13 + u /\ a <= 11 /\ w <= 10 BY <1>1, <1>2, <1>3 DEF Parts
<1>5. Len(p) >= 1 /\ Len(p) <= 175 BY <1>3, <1>4
<1>6. BufCap \in Nat /\ BufCap >= 175 BY DEF Roomy
<1>7. Len(p) <= BufCap BY <1>5, <1>6
<1>8. PICK b \in Nat : b = s.blanks BY DEF Deliverable
<1>9. Shown(Line(s), b, Hex(p)) BY <1>2, <1>8, LineShown
<1> QED BY <1>2, <1>5, <1>6, <1>7, <1>9, ShownBytes

-----------------------------------------------------------------------------
(* The fields, as the decoder finds them. *)

\* An index within the bytes.
LEMMA AtIs ==
  ASSUME NEW S, NEW d \in Seq(S), NEW i \in Int, NEW j \in 1..Len(d), j = i + 1
  PROVE  At(d, i) = d[j]
BY DEF At

\* The user data behind their length, as the decoder indexes them.
Rest(s) == SubSeq(UserData(s), 2, Len(UserData(s)))

\* The user data without their length.
LEMMA RestSeq ==
  ASSUME NEW s, Deliverable(s)
  PROVE  /\ Rest(s) \in Seq(Byte) /\ Len(Rest(s)) = Len(UserData(s)) - 1
         /\ Len(UserData(s)) \in Nat /\ Len(UserData(s)) >= 1
         /\ \A j \in 1..(Len(UserData(s)) - 1) : Rest(s)[j] = UserData(s)[j + 1]
<1>1. PICK d \in Seq(Byte) : d = UserData(s) BY UserDataLayout
<1>2. PICK n \in Nat : n = Len(d) /\ n >= 1
  <2>1. PICK h \in Nat : h = Len(HeaderBytes(s)) BY UserDataLayout
  <2>2. PICK n \in Nat : n = Len(d) OBVIOUS
  <2>3. n > h BY <1>1, <2>1, <2>2, UserDataLayout
  <2> QED BY <2>2, <2>3
<1>3. PICK c : c = SubSeq(d, 2, n) OBVIOUS
<1>4. c = [i \in 1..(n - 1) |-> d[i + 1]]
  <2>1. SubSeq(d, 2, n) = [i \in 1..(n - 2 + 1) |-> d[2 + i - 1]] BY <1>2
  <2>2. n - 2 + 1 = n - 1 /\ \A i \in 1..(n - 1) : 2 + i - 1 = i + 1 OBVIOUS
  <2> QED BY <1>3, <2>1, <2>2
<1>5. ASSUME NEW i \in 1..(n - 1) PROVE d[i + 1] \in Byte
  <2>1. PICK j : j = i + 1 OBVIOUS
  <2>2. j \in 1..Len(d) BY <1>2, <2>1
  <2> QED BY <2>1, <2>2, ElementIn
<1>6. PICK m \in Int : m = n - 1 /\ m >= 0 BY <1>2
<1>7. c \in [1..m -> Byte] BY <1>4, <1>5, <1>6
<1>8. c \in Seq(Byte) /\ Len(c) = n - 1
  <2>1. c \in Seq(Byte) /\ Len(c) = IF m > 0 THEN m ELSE 0 BY <1>6, <1>7, FunctionSeq
  <2> QED BY <1>6, <2>1
<1>9. Rest(s) = c BY <1>1, <1>2, <1>3 DEF Rest
<1> QED BY <1>1, <1>2, <1>4, <1>8, <1>9

\* The fields of a PDU, as the decoder indexes them.
Read(p, s, a, w) ==
  /\ At(p, 0) = a /\ At(p, a + 1) = TypeOf(s)
  /\ At(p, a + 2) = Len(s.number) /\ At(p, a + 3) = TonOf(s)
  /\ \A k \in 1..w : At(p, a + 3 + k) = Swapped(s.number)[k]
  /\ At(p, a + w + 5) = s.dcs
  /\ \A k \in 1..6 : At(p, a + w + 5 + k) = Times(s)[k]
  /\ At(p, a + w + 13) = UserData(s)[1]
  /\ SubSeq(p, a + w + 15, Len(p)) = Rest(s)

\* The decoder finds every field at its index.
LEMMA PartsRead ==
  ASSUME NEW s, Deliverable(s), NEW p, NEW a \in Nat, NEW w \in Nat, Parts(p, s, a, w)
  PROVE  Read(p, s, a, w)
<1>1. PICK u \in Nat : u = Len(UserData(s)) /\ u >= 1 BY RestSeq
<1>2. p \in Seq(Byte) /\ Len(p) = a + w + 13 + u BY <1>1 DEF Parts
<1>3. At(p, 0) = a
  <2>1. 1 \in 1..Len(p) BY <1>2
  <2>2. At(p, 0) = p[1] BY <1>2, <2>1, AtIs
  <2> QED BY <2>2 DEF Parts
<1>4. At(p, a + 1) = TypeOf(s)
  <2>1. a + 2 \in 1..Len(p) /\ a + 2 = (a + 1) + 1 BY <1>2
  <2>2. At(p, a + 1) = p[a + 2] BY <1>2, <2>1, AtIs
  <2> QED BY <2>2 DEF Parts
<1>5. At(p, a + 2) = Len(s.number)
  <2>1. a + 3 \in 1..Len(p) /\ a + 3 = (a + 2) + 1 BY <1>2
  <2>2. At(p, a + 2) = p[a + 3] BY <1>2, <2>1, AtIs
  <2> QED BY <2>2 DEF Parts
<1>6. At(p, a + 3) = TonOf(s)
  <2>1. a + 4 \in 1..Len(p) /\ a + 4 = (a + 3) + 1 BY <1>2
  <2>2. At(p, a + 3) = p[a + 4] BY <1>2, <2>1, AtIs
  <2> QED BY <2>2 DEF Parts
<1>7. ASSUME NEW k \in 1..w PROVE At(p, a + 3 + k) = Swapped(s.number)[k]
  <2>1. a + 4 + k \in 1..Len(p) /\ a + 4 + k = (a + 3 + k) + 1 BY <1>2
  <2>2. At(p, a + 3 + k) = p[a + 4 + k] BY <1>2, <2>1, AtIs
  <2>3. StandsAt(p, a + 4, Swapped(s.number)) /\ w = Len(Swapped(s.number)) BY DEF Parts
  <2>4. p[a + 4 + k] = Swapped(s.number)[k] BY <2>3 DEF StandsAt
  <2> QED BY <2>2, <2>4
<1>8. At(p, a + w + 5) = s.dcs
  <2>1. a + w + 6 \in 1..Len(p) /\ a + w + 6 = (a + w + 5) + 1 BY <1>2
  <2>2. At(p, a + w + 5) = p[a + w + 6] BY <1>2, <2>1, AtIs
  <2> QED BY <2>2 DEF Parts
<1>9. ASSUME NEW k \in 1..6 PROVE At(p, a + w + 5 + k) = Times(s)[k]
  <2>1. a + w + 6 + k \in 1..Len(p) /\ a + w + 6 + k = (a + w + 5 + k) + 1 BY <1>2
  <2>2. At(p, a + w + 5 + k) = p[a + w + 6 + k] BY <1>2, <2>1, AtIs
  <2>3. StandsAt(p, a + w + 6, Times(s)) /\ 6 = Len(Times(s)) BY TimeBytes DEF Parts
  <2>4. p[a + w + 6 + k] = Times(s)[k] BY <2>3 DEF StandsAt
  <2> QED BY <2>2, <2>4
<1>10. StandsAt(p, a + w + 13, UserData(s)) BY DEF Parts
<1>11. ASSUME NEW j \in 1..u PROVE p[a + w + 13 + j] = UserData(s)[j]
  BY <1>1, <1>10 DEF StandsAt
<1>12. At(p, a + w + 13) = UserData(s)[1]
  <2>1. a + w + 14 \in 1..Len(p) /\ a + w + 14 = (a + w + 13) + 1 BY <1>1, <1>2
  <2>2. At(p, a + w + 13) = p[a + w + 14] BY <1>2, <2>1, AtIs
  <2>3. 1 \in 1..u BY <1>1
  <2>4. p[a + w + 13 + 1] = UserData(s)[1] BY <1>11, <2>3
  <2> QED BY <2>1, <2>2, <2>4
<1>13. SubSeq(p, a + w + 15, Len(p)) = Rest(s)
  <2>1. PICK n \in Nat : n = a + w + 13 OBVIOUS
  <2>2. PICK c : c = SubSeq(p, n + 2, n + u) OBVIOUS
  <2>3. Len(p) = n + u BY <1>2, <2>1
  <2>4. c = [i \in 1..(u - 1) |-> p[n + (i + 1)]]
    <3>1. SubSeq(p, n + 2, n + u) = [i \in 1..((n + u) - (n + 2) + 1) |-> p[(n + 2) + i - 1]]
      BY <1>2, <2>3
    <3>2. /\ (n + u) - (n + 2) + 1 = u - 1
          /\ \A i \in 1..(u - 1) : (n + 2) + i - 1 = n + (i + 1) OBVIOUS
    <3> QED BY <2>2, <3>1, <3>2
  <2>5. \A i \in 1..(u - 1) : p[n + (i + 1)] = UserData(s)[i + 1]
    <3> SUFFICES ASSUME NEW i \in 1..(u - 1) PROVE p[n + (i + 1)] = UserData(s)[i + 1] OBVIOUS
    <3>1. PICK j : j = i + 1 OBVIOUS
    <3>2. j \in 1..u BY <3>1
    <3> QED BY <1>11, <2>1, <3>1, <3>2
  <2>6. c = [i \in 1..(u - 1) |-> UserData(s)[i + 1]] BY <2>4, <2>5
  <2>7. Rest(s) \in Seq(Byte) /\ Len(Rest(s)) = u - 1 BY <1>1, RestSeq
  <2>8. Rest(s) = [i \in 1..(u - 1) |-> Rest(s)[i]] BY <2>7
  <2>9. \A i \in 1..(u - 1) : Rest(s)[i] = UserData(s)[i + 1] BY <1>1, RestSeq
  <2>10. Rest(s) = c BY <2>6, <2>8, <2>9
  <2>11. n + 2 = a + w + 15 BY <2>1
  <2> QED BY <2>2, <2>3, <2>10, <2>11
<1> QED BY <1>3, <1>4, <1>5, <1>6, <1>7, <1>8, <1>9, <1>12, <1>13 DEF Read

\* The halves of a byte of two digits.
LEMMA HalfDigits ==
  ASSUME NEW x \in 0..9, NEW y \in 0..9
  PROVE  /\ (x + 16 * y) % 16 = x /\ (x + 16 * y) \div 16 = y
         /\ (x + 16 * 15) % 16 = x /\ (x + 16 * 15) \div 16 = 15
OBVIOUS

\* The halves of one byte of a number.
LEMMA SemiOctets ==
  ASSUME NEW num \in Seq(0..9), NEW k \in 1..((Len(num) + 1) \div 2)
  PROVE  /\ 2 * k - 1 \in 1..Len(num)
         /\ SemiOctet(Swapped(num)[k]) =
              IF 2 * k <= Len(num) THEN <<Digit(num[2 * k - 1]), Digit(num[2 * k])>>
              ELSE <<Digit(num[2 * k - 1])>>
<1>1. PICK i, j : i = 2 * k - 1 /\ j = 2 * k OBVIOUS
<1>2. /\ i \in 1..Len(num) /\ Swapped(num)[k] = num[i] + 16 * (IF j <= Len(num) THEN num[j] ELSE 15)
      /\ j <= Len(num) => j \in 1..Len(num)
  BY <1>1, SwappedBytes
<1>3. PICK x \in 0..9 : x = num[i] BY <1>2, ElementIn
<1>4. CASE j <= Len(num)
  <2>1. PICK y \in 0..9 : y = num[j] BY <1>2, <1>4, ElementIn
  <2>2. PICK b : b = Swapped(num)[k] OBVIOUS
  <2>3. b = x + 16 * y BY <1>2, <1>3, <1>4, <2>1, <2>2
  <2>4. b % 16 = x /\ b \div 16 = y BY <2>3, HalfDigits
  <2>5. y # 15 OBVIOUS
  <2>6. SemiOctet(b) = <<Digit(x), Digit(y)>> BY <2>4, <2>5 DEF SemiOctet
  <2> QED BY <1>1, <1>2, <1>3, <1>4, <2>1, <2>2, <2>6
<1>5. CASE ~(j <= Len(num))
  <2>2. PICK b : b = Swapped(num)[k] OBVIOUS
  <2>3. b = x + 16 * 15 BY <1>2, <1>3, <1>5, <2>2
  <2>4. b % 16 = x /\ b \div 16 = 15 BY <2>3, HalfDigits
  <2>6. SemiOctet(b) = <<Digit(x)>> BY <2>4 DEF SemiOctet
  <2> QED BY <1>1, <1>2, <1>3, <1>5, <2>2, <2>6
<1> QED BY <1>4, <1>5

Digits(num) == [i \in 1..Len(num) |-> Digit(num[i])]

\* The digits of a number come out in their order, without the filler.
LEMMA JoinedDigits ==
  ASSUME NEW num \in Seq(0..9), NEW w \in Nat, w = (Len(num) + 1) \div 2
  PROVE  Joined([k \in 1..w |-> SemiOctet(Swapped(num)[k])]) = Digits(num)
<1>0. PICK q : q = [k \in 1..w |-> SemiOctet(Swapped(num)[k])] OBVIOUS
<1>1. PICK n \in Nat : n = Len(num) OBVIOUS
<1>2. \A i \in 1..n : Digit(num[i]) \in Nat
  <2> SUFFICES ASSUME NEW i \in 1..n PROVE Digit(num[i]) \in Nat OBVIOUS
  <2>1. num[i] \in 0..9 BY <1>1, ElementIn
  <2> QED BY <2>1, SMTT(30) DEF Digit
<1>3. ASSUME NEW k \in 1..w
      PROVE  /\ q[k] \in Seq(Nat) /\ 2 * k - 1 \in 1..n
             /\ 2 * k <= n => /\ Len(q[k]) = 2 /\ q[k][1] = Digit(num[2 * k - 1])
                              /\ q[k][2] = Digit(num[2 * k])
             /\ ~(2 * k <= n) => Len(q[k]) = 1 /\ q[k][1] = Digit(num[2 * k - 1])
  <2>1. PICK i, j : i = 2 * k - 1 /\ j = 2 * k OBVIOUS
  <2>2. /\ i \in 1..n
        /\ q[k] = IF j <= n THEN <<Digit(num[i]), Digit(num[j])>> ELSE <<Digit(num[i])>>
    BY <1>0, <1>1, <2>1, SemiOctets
  <2>3. j <= n => j \in 1..n BY <2>1
  <2>4. PICK x \in Nat : x = Digit(num[i]) BY <1>2, <2>2
  <2>5. CASE j <= n
    <3>1. PICK y \in Nat : y = Digit(num[j]) BY <1>2, <2>3, <2>5
    <3>2. q[k] = <<x, y>> BY <2>2, <2>4, <2>5, <3>1
    <3>3. q[k] \in Seq(Nat) /\ Len(q[k]) = 2 /\ q[k][1] = x /\ q[k][2] = y BY <3>2
    <3> QED BY <2>1, <2>2, <2>4, <2>5, <3>1, <3>3
  <2>6. CASE ~(j <= n)
    <3>2. q[k] = <<x>> BY <2>2, <2>4, <2>6
    <3>3. q[k] \in Seq(Nat) /\ Len(q[k]) = 1 /\ q[k][1] = x BY <3>2
    <3> QED BY <2>1, <2>2, <2>4, <2>6, <3>3
  <2> QED BY <2>5, <2>6
<1>4. q \in Seq(Seq(Nat)) /\ Len(q) = w
  <2>1. q \in [1..w -> Seq(Nat)] BY <1>0, <1>3
  <2> QED BY <2>1, FunctionSeq
<1>5. Pairs(q)
  <2> SUFFICES ASSUME NEW k \in 1..w PROVE Len(q[k]) = 2 \/ (k = w /\ Len(q[k]) = 1)
    BY <1>4 DEF Pairs
  <2>1. CASE 2 * k <= n BY <1>3, <2>1
  <2>2. CASE ~(2 * k <= n)
    <3>1. w = (n + 1) \div 2 BY <1>1
    <3>2. k = w BY <2>2, <3>1
    <3> QED BY <1>3, <2>2, <3>2
  <2> QED BY <2>1, <2>2
<1>6. PICK r : r = Joined(q) OBVIOUS
<1>7. /\ Len(r) = IF q = <<>> THEN 0 ELSE 2 * (w - 1) + Len(q[w])
      /\ PairsIn(r, q)
  BY <1>4, <1>5, <1>6, JoinedPairs
<1>8. r \in Seq(Nat) BY <1>4, <1>6, JoinedSeq
<1>9. Len(r) = n
  <2>1. CASE w = 0
    <3>1. q = <<>> BY <1>4, <2>1
    <3>2. (n + 1) \div 2 = 0 BY <1>1, <2>1
    <3>3. n = 0 BY <3>2
    <3> QED BY <1>7, <3>1, <3>3
  <2>2. CASE w # 0
    <3>1. w \in 1..w /\ q # <<>> BY <1>4, <2>2
    <3>2. Len(r) = 2 * (w - 1) + Len(q[w]) BY <1>7, <3>1
    <3>3. w = (n + 1) \div 2 BY <1>1
    <3>4. CASE 2 * w <= n
      <4>1. Len(q[w]) = 2 BY <1>3, <3>1, <3>4
      <4>2. Len(r) = 2 * (w - 1) + 2 BY <3>2, <4>1
      <4> QED BY <3>3, <3>4, <4>2
    <3>5. CASE ~(2 * w <= n)
      <4>1. Len(q[w]) = 1 BY <1>3, <3>1, <3>5
      <4>2. Len(r) = 2 * (w - 1) + 1 BY <3>2, <4>1
      <4> QED BY <3>3, <3>5, <4>2
    <3> QED BY <3>4, <3>5
  <2> QED BY <2>1, <2>2
<1>10. ASSUME NEW i \in 1..n PROVE r[i] = Digit(num[i])
  <2>1. PICK k : k = (i + 1) \div 2 OBVIOUS
  <2>2. w = (n + 1) \div 2 BY <1>1
  <2>3. k \in 1..w BY <2>1, <2>2
  <2>4. i = 2 * k - 1 \/ (i = 2 * k /\ 2 * k <= n) BY <2>1
  <2>5. CASE i = 2 * k - 1
    <3>1. 1 \in 1..Len(q[k])
      <4>1. Len(q[k]) = 2 \/ Len(q[k]) = 1
        <5>1. CASE 2 * k <= n BY <1>3, <2>3, <5>1
        <5>2. CASE ~(2 * k <= n) BY <1>3, <2>3, <5>2
        <5> QED BY <5>1, <5>2
      <4>2. PICK l : l = Len(q[k]) OBVIOUS
      <4>3. l = 2 \/ l = 1 BY <4>1, <4>2
      <4>4. 1 \in 1..l BY <4>3
      <4> QED BY <4>2, <4>4
    <3>2. r[2 * (k - 1) + 1] = q[k][1] BY <1>4, <1>7, <2>3, <3>1 DEF PairsIn
    <3>3. 2 * (k - 1) + 1 = i BY <2>3, <2>5
    <3>4. q[k][1] = Digit(num[2 * k - 1]) BY <1>3, <2>3
    <3> QED BY <2>5, <3>2, <3>3, <3>4
  <2>6. CASE i = 2 * k /\ 2 * k <= n
    <3>1. 2 \in 1..Len(q[k])
      <4>1. Len(q[k]) = 2 BY <1>3, <2>3, <2>6
      <4> QED BY <4>1
    <3>2. r[2 * (k - 1) + 2] = q[k][2] BY <1>4, <1>7, <2>3, <3>1 DEF PairsIn
    <3>3. 2 * (k - 1) + 2 = i BY <2>3, <2>6
    <3>4. q[k][2] = Digit(num[2 * k]) BY <1>3, <2>3, <2>6
    <3> QED BY <2>6, <3>2, <3>3, <3>4
  <2> QED BY <2>4, <2>5, <2>6
<1>11. Digits(num) \in Seq(Nat) /\ Len(Digits(num)) = n
  <2>1. Digits(num) = [i \in 1..n |-> Digit(num[i])] BY <1>1 DEF Digits
  <2>2. Digits(num) \in [1..n -> Nat] BY <1>2, <2>1
  <2> QED BY <2>2, FunctionSeq
<1>12. \A i \in 1..n : Digits(num)[i] = Digit(num[i]) BY <1>1 DEF Digits
<1>13. r = Digits(num) BY <1>8, <1>9, <1>10, <1>11, <1>12, SameSeq
<1> QED BY <1>0, <1>6, <1>13

\* Only the empty sequence has no element.
LEMMA Nothing ==
  ASSUME NEW S, NEW t \in Seq(S)
  PROVE  Len(t) = 0 <=> t = <<>>
OBVIOUS

\* Bytes of a sender: as many as its digits fill.
LEMMA NumberBytes ==
  ASSUME NEW s, Deliverable(s), NEW p, NEW a \in Nat, NEW w \in Nat, Parts(p, s, a, w)
  PROVE  /\ s.number \in Seq(0..9) /\ Len(s.number) \in Nat
         /\ w = (Len(s.number) + 1) \div 2
<1>1. s.number \in Seq(0..9) BY DEF Deliverable
<1>2. Len(Swapped(s.number)) = (Len(s.number) + 1) \div 2 BY <1>1, SwappedBytes
<1>3. w = Len(Swapped(s.number)) BY DEF Parts
<1> QED BY <1>1, <1>2, <1>3

\* The smaller of two numbers.
LEMMA MinTwo ==
  ASSUME NEW a \in Nat, NEW b \in Nat
  PROVE  Min({a, b}) = IF b <= a THEN b ELSE a
<1>1. \E x \in {a, b} : \A y \in {a, b} : x <= y OBVIOUS
<1>2. Min({a, b}) \in {a, b} /\ \A y \in {a, b} : Min({a, b}) <= y BY <1>1 DEF Min
<1> QED BY <1>2

\* parse_phone_number: the sender, cut to its array, and the index behind it.
LEMMA PhoneRead ==
  ASSUME Roomy, NEW s, Deliverable(s), NEW p, NEW a \in Nat, NEW w \in Nat, Parts(p, s, a, w)
  PROVE  Phone(p, a + 2).number = SenderOf(s) /\ Phone(p, a + 2).next = a + w + 4
<1>1. PICK num \in Seq(0..9) : num = s.number BY NumberBytes
<1>2. PICK n \in Nat : n = Len(num) OBVIOUS
<1>3. w = (n + 1) \div 2 BY <1>1, <1>2, NumberBytes
<1>4. /\ At(p, a + 2) = n /\ At(p, a + 3) = TonOf(s)
      /\ \A k \in 1..w : At(p, a + 3 + k) = Swapped(num)[k]
  <2>1. Read(p, s, a, w) BY PartsRead
  <2> QED BY <1>1, <1>2, <2>1 DEF Read
<1>5. NumberCap \in Nat /\ NumberCap >= 7 BY DEF Roomy
<1> DEFINE pieces == [k \in 1..w |-> SemiOctet(At(p, (a + 2) + 1 + k))]
           number == IF At(p, (a + 2) + 1) = 145 THEN <<Plus>> \o Joined(pieces) ELSE Joined(pieces)
<1>6. Phone(p, a + 2) =
        IF n = 0 THEN [number |-> Unknown, next |-> (a + 2) + 2]
        ELSE [number |-> IF Len(number) <= NumberCap THEN number ELSE SubSeq(number, 1, NumberCap),
              next |-> (a + 2) + 2 + w]
  <2>1. (At(p, a + 2) + 1) \div 2 = w BY <1>3, <1>4
  <2> QED BY <1>4, <2>1 DEF Phone
<1>7. Phone(p, a + 2).next = a + w + 4
  <2>1. CASE n = 0
    <3>1. w = 0 BY <1>3, <2>1
    <3>2. (a + 2) + 2 = a + w + 4 BY <3>1
    <3> HIDE DEF number
    <3> QED BY <1>6, <2>1, <3>2
  <2>2. CASE n # 0
    <3>1. (a + 2) + 2 + w = a + w + 4 OBVIOUS
    <3> HIDE DEF number
    <3> QED BY <1>6, <2>2, <3>1
  <2> QED BY <2>1, <2>2
<1>8. CASE n = 0
  <2>1. num = <<>> BY <1>2, <1>8, Nothing
  <2>2. PICK u : u = Unknown OBVIOUS
  <2>3. u \in Seq(Nat) /\ Len(u) = 7 BY <2>2 DEF Unknown
  <2>4. Min({NumberCap, Len(u)}) = 7 BY <1>5, <2>3, MinTwo
  <2>5. SubSeq(u, 1, 7) = u BY <2>3
  <2>6. SenderOf(s) = SubSeq(u, 1, Min({NumberCap, Len(u)})) BY <1>1, <2>1, <2>2 DEF SenderOf
  <2>7. Phone(p, a + 2).number = Unknown
    <3> HIDE DEF number
    <3> QED BY <1>6, <1>8
  <2> QED BY <1>7, <2>2, <2>4, <2>5, <2>6, <2>7
<1>9. CASE n # 0
  <2>1. pieces = [k \in 1..w |-> SemiOctet(Swapped(num)[k])]
    <3>1. \A k \in 1..w : (a + 2) + 1 + k = a + 3 + k OBVIOUS
    <3> QED BY <1>4, <3>1
  <2>2. Joined(pieces) = Digits(num)
    <3> HIDE DEF pieces
    <3> QED BY <1>2, <1>3, <2>1, JoinedDigits
  <2> HIDE DEF pieces
  <2>3. (At(p, (a + 2) + 1) = 145) <=> s.intl
    <3>1. (a + 2) + 1 = a + 3 OBVIOUS
    <3>2. s.intl \in BOOLEAN BY DEF Deliverable
    <3>3. (TonOf(s) = 145) <=> s.intl
      <4>1. CASE s.intl BY <4>1 DEF TonOf
      <4>2. CASE ~s.intl BY <4>2 DEF TonOf
      <4> QED BY <4>1, <4>2
    <3> QED BY <1>4, <3>1, <3>3
  <2>4. PICK d : d = Digits(num) OBVIOUS
  <2>5. d \in Seq(Nat)
    <3>1. ASSUME NEW i \in 1..n PROVE Digit(num[i]) \in Nat
      <4>1. num[i] \in 0..9 BY <1>2, ElementIn
      <4> QED BY <4>1, SMTT(30) DEF Digit
    <3>2. d = [i \in 1..n |-> Digit(num[i])] BY <1>2, <2>4 DEF Digits
    <3>3. d \in [1..n -> Nat] BY <3>1, <3>2
    <3> QED BY <3>3, FunctionSeq
  <2>6. number = (IF s.intl THEN <<Plus>> ELSE <<>>) \o d
    <3>1. CASE s.intl
      <4>1. number = <<Plus>> \o d BY <2>2, <2>3, <2>4, <3>1
      <4> QED BY <3>1, <4>1
    <3>2. CASE ~s.intl
      <4>1. number = d BY <2>2, <2>3, <2>4, <3>2
      <4>2. <<>> \o d = d BY <2>5
      <4> QED BY <3>2, <4>1, <4>2
    <3> QED BY <3>1, <3>2
  <2>7. number \in Seq(Nat)
    <3>1. <<Plus>> \in Seq(Nat) /\ <<>> \in Seq(Nat) BY DEF Plus
    <3>2. (IF s.intl THEN <<Plus>> ELSE <<>>) \in Seq(Nat) BY <3>1
    <3> HIDE DEF number
    <3> QED BY <2>5, <2>6, <3>2, Concat
  <2>8. num # <<>> BY <1>2, <1>9, Nothing
  <2>9. d = [i \in DOMAIN s.number |-> Digit(s.number[i])]
    <3>1. DOMAIN num = 1..Len(num) OBVIOUS
    <3> QED BY <1>1, <2>4, <3>1 DEF Digits
  <2>10. SenderOf(s) = SubSeq(number, 1, Min({NumberCap, Len(number)}))
    <3> HIDE DEF number
    <3> QED BY <1>1, <2>6, <2>8, <2>9 DEF SenderOf
  <2>11. Phone(p, a + 2).number =
           IF Len(number) <= NumberCap THEN number ELSE SubSeq(number, 1, NumberCap)
    <3> HIDE DEF number
    <3>1. PICK c : c = IF Len(number) <= NumberCap THEN number ELSE SubSeq(number, 1, NumberCap)
      OBVIOUS
    <3>2. Phone(p, a + 2) = [number |-> c, next |-> (a + 2) + 2 + w] BY <1>6, <1>9, <3>1
    <3>3. Phone(p, a + 2).number = c BY <3>2
    <3> QED BY <3>1, <3>3
  <2> HIDE DEF number
  <2>12. PICK l \in Nat : l = Len(number) BY <2>7
  <2>13. Min({NumberCap, l}) = IF l <= NumberCap THEN l ELSE NumberCap BY <1>5, MinTwo
  <2>14. SubSeq(number, 1, l) = number BY <2>7, <2>12
  <2>15. Phone(p, a + 2).number = SenderOf(s) BY <2>10, <2>11, <2>12, <2>13, <2>14
  <2> QED BY <1>7, <2>15
<1> QED BY <1>8, <1>9

\* parse_timestamp: the time.
LEMMA TimeRead ==
  ASSUME NEW s, Deliverable(s), NEW p, NEW a \in Nat, NEW w \in Nat, Parts(p, s, a, w)
  PROVE  Timestamp(p, a + w + 6) = TimeOf(s)
<1>1. ASSUME NEW k \in 1..6
      PROVE  <<Digit(At(p, a + w + 6 + k - 1) % 16), Digit(At(p, a + w + 6 + k - 1) \div 16)>>
               = [j \in 1..2 |-> Digit(s.time[k][j])]
  <2>1. PICK x \in 0..9, y \in 0..9 : x = s.time[k][1] /\ y = s.time[k][2] /\ Times(s)[k] = x + 16 * y
    BY TimeBytes
  <2>2. PICK b : b = At(p, a + w + 6 + k - 1) OBVIOUS
  <2>3. a + w + 6 + k - 1 = a + w + 5 + k OBVIOUS
  <2>4. \A i \in 1..6 : At(p, a + w + 5 + i) = Times(s)[i]
    <3>1. Read(p, s, a, w) BY PartsRead
    <3> QED BY <3>1 DEF Read
  <2>5. b = x + 16 * y BY <2>1, <2>2, <2>3, <2>4
  <2>6. b % 16 = x /\ b \div 16 = y BY <2>5, HalfDigits
  <2>7. <<Digit(x), Digit(y)>> = [j \in 1..2 |-> Digit(s.time[k][j])]
    <3>1. PICK f : f = [j \in 1..2 |-> Digit(s.time[k][j])] OBVIOUS
    <3>2. f[1] = Digit(x) /\ f[2] = Digit(y) BY <2>1, <3>1
    <3>3. DOMAIN f = 1..2 /\ f = [j \in 1..2 |-> f[j]] BY <3>1
    <3>4. <<Digit(x), Digit(y)>> = f BY <3>2, <3>3
    <3> QED BY <3>1, <3>4
  <2> QED BY <2>2, <2>6, <2>7
<1> QED BY <1>1 DEF Timestamp, TimeOf

-----------------------------------------------------------------------------
(* The header. *)

\* The elements of a header are read at their own index.
LEMMA HeaderRead ==
  ASSUME NEW s, Deliverable(s)
  PROVE  /\ Extends(Rest(s), HeaderBytes(s))
         /\ Len(HeaderBytes(s)) <= Len(Rest(s))
         /\ Len(HeaderBytes(s)) \in Nat /\ Len(Rest(s)) \in Nat
<1>1. PICK h \in Nat : h = Len(HeaderBytes(s)) BY UserDataLayout
<1>2. PICK u \in Nat : u = Len(UserData(s)) /\ u > h BY <1>1, UserDataLayout
<1>3. Len(Rest(s)) = u - 1 /\ \A j \in 1..(u - 1) : Rest(s)[j] = UserData(s)[j + 1]
  BY <1>2, RestSeq
<1>4. StandsAt(UserData(s), 1, HeaderBytes(s)) BY UserDataLayout
<1>5. ASSUME NEW j \in 1..h PROVE Rest(s)[j] = HeaderBytes(s)[j]
  <2>1. j \in 1..(u - 1) BY <1>2
  <2>2. Rest(s)[j] = UserData(s)[j + 1] BY <1>3, <2>1
  <2>3. UserData(s)[1 + j] = HeaderBytes(s)[j] BY <1>1, <1>4 DEF StandsAt
  <2>4. 1 + j = j + 1 OBVIOUS
  <2> QED BY <2>2, <2>3, <2>4
<1>6. Extends(Rest(s), HeaderBytes(s)) BY <1>1, <1>5 DEF Extends
<1>7. u - 1 \in Nat /\ h <= u - 1 BY <1>2
<1> QED BY <1>1, <1>3, <1>6, <1>7

\* The elements stand behind the length of the header.
LEMMA ElementsRead ==
  ASSUME NEW s, Deliverable(s), s.elements # <<>>
  PROVE  /\ At(Rest(s), 0) = Len(Joined(Elements(s))) /\ Len(Joined(Elements(s))) \in Nat
         /\ Len(Joined(Elements(s))) < Len(Rest(s))
         /\ \A j \in 1..Len(Joined(Elements(s))) : At(Rest(s), j) = Joined(Elements(s))[j]
         /\ Len(HeaderBytes(s)) = Len(Joined(Elements(s))) + 1
<1>1. /\ s.elements \in Seq([iei : Byte, data : Seq(Byte)])
      /\ \A i \in DOMAIN s.elements : Len(s.elements[i].data) <= 255
  BY DEF Deliverable
<1>2. PICK r \in Seq(Byte) : r = Joined(Elements(s)) BY <1>1, ElementSeqs
<1>3. PICK l \in Nat : l = Len(r) OBVIOUS
<1>4. PICK b : b = HeaderBytes(s) OBVIOUS
<1>5. Len(b) = l + 1 /\ b[1] = l /\ \A j \in 1..l : b[j + 1] = r[j]
  BY <1>1, <1>2, <1>3, <1>4, HeaderSeq
<1>6. PICK d \in Seq(Byte) : d = Rest(s) BY RestSeq
<1>7. Extends(d, b) /\ l + 1 <= Len(d) /\ Len(d) \in Nat BY <1>4, <1>5, <1>6, HeaderRead
<1>8. ASSUME NEW j \in 1..(l + 1) PROVE d[j] = b[j] BY <1>5, <1>7 DEF Extends
<1>9. At(d, 0) = l
  <2>1. 1 \in 1..Len(d) /\ 1 \in 1..(l + 1) BY <1>7
  <2>2. At(d, 0) = d[1] BY <2>1, AtIs
  <2> QED BY <1>5, <1>8, <2>1, <2>2
<1>10. ASSUME NEW j \in 1..l PROVE At(d, j) = r[j]
  <2>1. PICK k : k = j + 1 OBVIOUS
  <2>2. k \in 1..Len(d) /\ k \in 1..(l + 1) /\ j \in Int BY <1>7, <2>1
  <2>3. At(d, j) = d[k] BY <2>1, <2>2, AtIs
  <2>4. d[k] = b[k] BY <1>8, <2>2
  <2>5. b[k] = r[j] BY <1>5, <2>1
  <2> QED BY <2>3, <2>4, <2>5
<1>11. l < Len(d) BY <1>7
<1> QED BY <1>2, <1>3, <1>4, <1>5, <1>6, <1>9, <1>10, <1>11

\* Where the elements of a header stand.
Starts(s, u) ==
  u \in [0..Len(Elements(s)) -> Seq(Byte)] /\ Prefixes(Elements(s), u)

\* Each element starts where the one before it ends.
LEMMA StartStep ==
  ASSUME NEW s, Deliverable(s), NEW u, Starts(s, u), NEW n \in 1..Len(s.elements)
  PROVE  /\ Len(u[n - 1]) \in Nat /\ Len(u[n]) \in Nat
         /\ Len(u[n]) = Len(u[n - 1]) + Len(Elements(s)[n])
         /\ Len(u[n]) <= Len(Joined(Elements(s)))
         /\ StandsAt(Joined(Elements(s)), Len(u[n - 1]), Elements(s)[n])
<1>1. /\ s.elements \in Seq([iei : Byte, data : Seq(Byte)])
      /\ \A m \in DOMAIN s.elements : Len(s.elements[m].data) <= 255
  BY DEF Deliverable
<1>2. PICK p \in Seq(Seq(Byte)) : p = Elements(s) /\ Len(p) = Len(s.elements)
  BY <1>1, ElementSeqs
<1>3. u \in [0..Len(p) -> Seq(Byte)] /\ Prefixes(p, u) BY <1>2 DEF Starts
<1>4. n \in 1..Len(p) BY <1>2
<1>5. /\ Len(u[n - 1]) \in Nat /\ Len(u[n]) \in Nat
      /\ Len(u[n]) = Len(u[n - 1]) + Len(p[n])
  <2>1. PICK v \in [0..Len(p) -> Seq(Byte)] : v = u /\ Prefixes(p, v) BY <1>3
  <2>2. PICK m \in 1..Len(p) : m = n BY <1>4
  <2>3. /\ v[m - 1] \in Seq(Byte) /\ v[m] \in Seq(Byte) /\ p[m] \in Seq(Byte)
        /\ v[m] = v[m - 1] \o p[m] /\ Len(v[m]) = Len(v[m - 1]) + Len(p[m])
        /\ Len(v[m - 1]) \in Nat /\ Len(v[m]) \in Nat /\ Len(p[m]) \in Nat
    <3>1. Prefixes(p, v) BY <2>1
    <3> QED BY <3>1, PrefixStep
  <2> QED BY <2>1, <2>2, <2>3
<1>6. Len(u[n]) <= Len(Joined(p)) /\ StandsAt(Joined(p), Len(u[n - 1]), p[n])
  BY <1>3, <1>4, PieceAt
<1> QED BY <1>2, <1>5, <1>6

\* What the walk finds at the element n.
ElementRead(s, u, n, i) ==
  /\ Inside(Rest(s), i)
  /\ Len(s.elements[n].data) \in Nat
  /\ At(Rest(s), i) = s.elements[n].iei
  /\ At(Rest(s), i + 1) = Len(s.elements[n].data)
  /\ \A j \in 1..Len(s.elements[n].data) : At(Rest(s), i + 1 + j) = s.elements[n].data[j]
  /\ Len(u[n]) + 1 = i + 2 + Len(s.elements[n].data)

\* At the start of an element the walk sees its kind, its length and its data.
LEMMA ElementAt ==
  ASSUME NEW s, Deliverable(s), NEW u, Starts(s, u), NEW n \in 1..Len(s.elements),
         NEW i \in Nat, Len(u[n - 1]) + 1 = i
  PROVE  ElementRead(s, u, n, i)
<1>1. /\ s.elements \in Seq([iei : Byte, data : Seq(Byte)])
      /\ \A m \in DOMAIN s.elements : Len(s.elements[m].data) <= 255
  BY DEF Deliverable
<1>2. /\ Elements(s) \in Seq(Seq(Byte)) /\ Len(Elements(s)) = Len(s.elements)
      /\ Elements(s)[n] = Element(s.elements[n])
  BY <1>1, ElementSeqs
<1>3. PICK e \in [iei : Byte, data : Seq(Byte)] : e = s.elements[n] /\ Len(e.data) <= 255
  <2>1. s.elements[n] \in [iei : Byte, data : Seq(Byte)] BY <1>1, ElementIn
  <2>2. n \in DOMAIN s.elements BY <1>1
  <2> QED BY <1>1, <2>1, <2>2
<1>4. PICK g : g = Element(e) OBVIOUS
<1>5. PICK l \in Nat : l = Len(e.data) BY <1>3, ElementBytes
<1>6. /\ Len(g) = l + 2 /\ g[1] = e.iei /\ g[2] = l
      /\ \A j \in 1..l : g[j + 2] = e.data[j]
  BY <1>3, <1>4, <1>5, ElementBytes
<1>7. PICK o \in Nat, v \in Nat : o = Len(u[n - 1]) /\ v = Len(u[n]) /\ v = o + Len(g)
  <2>2. /\ Len(u[n - 1]) \in Nat /\ Len(u[n]) \in Nat
        /\ Len(u[n]) = Len(u[n - 1]) + Len(Elements(s)[n])
    BY StartStep
  <2> QED BY <1>2, <1>3, <1>4, <2>2
<1>8. PICK r : r = Joined(Elements(s)) OBVIOUS
<1>9. v <= Len(r) /\ StandsAt(r, o, g)
  <2>2. Len(u[n]) <= Len(r) /\ StandsAt(r, Len(u[n - 1]), Elements(s)[n])
    BY <1>8, StartStep
  <2> QED BY <1>2, <1>3, <1>4, <1>7, <2>2
<1>10. PICK d : d = Rest(s) OBVIOUS
<1>11. PICK t \in Nat : t = Len(r) /\ At(d, 0) = t /\ t < Len(d) /\ \A j \in 1..t : At(d, j) = r[j]
  <2>1. s.elements # <<>>
    <3>1. Len(s.elements) # 0 OBVIOUS
    <3> QED BY <1>1, <3>1, Nothing
  <2> QED BY <1>8, <1>10, <2>1, ElementsRead
<1>18. i = o + 1 /\ v = o + (l + 2) /\ v <= t
  <2>1. i = o + 1 BY <1>7
  <2>2. v = o + (l + 2) BY <1>6, <1>7
  <2>3. v <= t BY <1>9, <1>11
  <2> QED BY <2>1, <2>2, <2>3
<1>12. ASSUME NEW j \in 1..(l + 2) PROVE At(d, o + j) = g[j]
  <2>1. PICK k : k = o + j OBVIOUS
  <2>2. k \in 1..t BY <1>18, <2>1
  <2>3. At(d, k) = r[k] BY <1>11, <2>2
  <2>4. r[o + j] = g[j] BY <1>6, <1>9 DEF StandsAt
  <2> QED BY <2>1, <2>3, <2>4
<1>13. At(d, i) = e.iei
  <2>1. 1 \in 1..(l + 2) OBVIOUS
  <2>2. At(d, o + 1) = g[1] BY <1>12, <2>1
  <2> QED BY <1>6, <1>7, <2>2
<1>14. At(d, i + 1) = l
  <2>1. 2 \in 1..(l + 2) OBVIOUS
  <2>2. At(d, o + 2) = g[2] BY <1>12, <2>1
  <2>3. o + 2 = i + 1 BY <1>18
  <2> QED BY <1>6, <2>2, <2>3
<1>15. ASSUME NEW j \in 1..l PROVE At(d, i + 1 + j) = e.data[j]
  <2>1. PICK k : k = j + 2 OBVIOUS
  <2>2. k \in 1..(l + 2) BY <2>1
  <2>3. At(d, o + k) = g[k] BY <1>12, <2>2
  <2>4. o + k = i + 1 + j BY <1>18, <2>1
  <2>5. g[k] = e.data[j] BY <1>6, <2>1
  <2> QED BY <2>3, <2>4, <2>5
<1>16. i <= t /\ v + 1 = i + 2 + l BY <1>18
<1>17. Inside(d, i)
  <2>1. Len(d) \in Nat BY <1>10, HeaderRead
  <2>2. i < Len(d) BY <1>11, <1>16, <2>1
  <2> QED BY <1>11, <1>16, <2>2 DEF Inside
<1> QED BY <1>3, <1>5, <1>7, <1>10, <1>13, <1>14, <1>15, <1>16, <1>17 DEF ElementRead

\* What a long-SMS element says.
LongOf(d) ==
  [concat |-> TRUE, part |-> d[Len(d)], total |-> d[Len(d) - 1],
   ref |-> IF Len(d) = 3 THEN d[1] ELSE 256 * d[1] + d[2]]

\* The walk at the element n: it ends at a long-SMS element and passes any other.
LEMMA WalkStep ==
  ASSUME NEW s, Deliverable(s), NEW u, Starts(s, u), NEW n \in 1..Len(s.elements),
         NEW i \in Nat, Len(u[n - 1]) + 1 = i, NEW w
  PROVE  WalkAt(Rest(s), w, i) =
           IF s.elements[n].iei \in {0, 8} THEN LongOf(s.elements[n].data)
           ELSE w[Len(u[n]) + 1]
<1>1. PICK d : d = Rest(s) OBVIOUS
<1>2. PICK e : e = s.elements[n] OBVIOUS
<1>3. PICK l \in Nat : l = Len(e.data) BY <1>2, ElementAt DEF ElementRead
<1>4. /\ Inside(d, i) /\ At(d, i) = e.iei /\ At(d, i + 1) = l
      /\ \A j \in 1..l : At(d, i + 1 + j) = e.data[j]
      /\ Len(u[n]) + 1 = i + 2 + l
  <2>1. ElementRead(s, u, n, i) BY ElementAt
  <2> QED BY <1>1, <1>2, <1>3, <2>1 DEF ElementRead
<1>5. (e.iei = 0 => l = 3) /\ (e.iei = 8 => l = 4)
  <2>1. n \in DOMAIN s.elements
    <3>1. s.elements \in Seq([iei : Byte, data : Seq(Byte)]) BY DEF Deliverable
    <3> QED BY <3>1
  <2> QED BY <1>2, <1>3, <2>1 DEF Deliverable
<1>6. CASE e.iei = 0
  <2>1. l = 3 BY <1>5, <1>6
  <2>2. WalkAt(d, w, i) = Found8(d, i) BY <1>4, <1>6, <2>1 DEF WalkAt, Short8
  <2>3. 1 \in 1..l /\ 2 \in 1..l /\ 3 \in 1..l BY <2>1
  <2>4. At(d, i + 1 + 1) = e.data[1] /\ At(d, i + 1 + 2) = e.data[2] /\ At(d, i + 1 + 3) = e.data[3]
    BY <1>4, <2>3
  <2>5. i + 1 + 1 = i + 2 /\ i + 1 + 2 = i + 3 /\ i + 1 + 3 = i + 4 OBVIOUS
  <2>6. Found8(d, i) = [concat |-> TRUE, ref |-> e.data[1], total |-> e.data[2], part |-> e.data[3]]
    BY <2>4, <2>5 DEF Found8
  <2>7. LongOf(e.data) = [concat |-> TRUE, part |-> e.data[3], total |-> e.data[2], ref |-> e.data[1]]
    <3>1. Len(e.data) = 3 /\ 3 - 1 = 2 BY <1>3, <2>1
    <3> QED BY <3>1 DEF LongOf
  <2>8. Found8(d, i) = LongOf(e.data) BY <2>6, <2>7
  <2> QED BY <1>1, <1>2, <1>6, <2>2, <2>8
<1>7. CASE e.iei = 8
  <2>1. l = 4 BY <1>5, <1>7
  <2>2. WalkAt(d, w, i) = Found16(d, i) BY <1>4, <1>7, <2>1 DEF WalkAt, Short8, Short16
  <2>3. 1 \in 1..l /\ 2 \in 1..l /\ 3 \in 1..l /\ 4 \in 1..l BY <2>1
  <2>4. /\ At(d, i + 1 + 1) = e.data[1] /\ At(d, i + 1 + 2) = e.data[2]
        /\ At(d, i + 1 + 3) = e.data[3] /\ At(d, i + 1 + 4) = e.data[4]
    BY <1>4, <2>3
  <2>5. /\ i + 1 + 1 = i + 2 /\ i + 1 + 2 = i + 3 /\ i + 1 + 3 = i + 4 /\ i + 1 + 4 = i + 5 OBVIOUS
  <2>6. Found16(d, i) = [concat |-> TRUE, ref |-> (256 * e.data[1]) + e.data[2],
                         total |-> e.data[3], part |-> e.data[4]]
    BY <2>4, <2>5, ZenonT(40) DEF Found16
  <2>7. LongOf(e.data) = [concat |-> TRUE, part |-> e.data[4], total |-> e.data[3],
                          ref |-> 256 * e.data[1] + e.data[2]]
    <3>1. Len(e.data) = 4 /\ 4 - 1 = 3 /\ 4 # 3 BY <1>3, <2>1
    <3> QED BY <3>1 DEF LongOf
  <2>8. Found16(d, i) = LongOf(e.data) BY <2>6, <2>7
  <2> QED BY <1>1, <1>2, <1>7, <2>2, <2>8
<1>8. CASE e.iei # 0 /\ e.iei # 8
  <2>1. WalkAt(d, w, i) = w[i + 2 + l] BY <1>4, <1>8 DEF WalkAt, Short8, Short16
  <2> QED BY <1>1, <1>2, <1>4, <1>8, <2>1
<1> QED BY <1>6, <1>7, <1>8

\* The elements before the first long one are passed.
LEMMA Passed ==
  ASSUME NEW s, Deliverable(s), NEW u, Starts(s, u), NEW w,
         NEW N \in Nat, N <= Len(s.elements),
         \A i \in Nat : w[i] = WalkAt(Rest(s), w, i),
         \A n \in 1..N : ~(s.elements[n].iei \in {0, 8})
  PROVE  w[1] = w[Len(u[N]) + 1]
<1> DEFINE Good == {n \in 0..N : w[1] = w[Len(u[n]) + 1]}
<1>1. 0 \in Good
  <2>1. u[0] = <<>> BY DEF Starts, Prefixes
  <2>2. Len(u[0]) + 1 = 1 BY <2>1
  <2> QED BY <2>2
<1>2. PICK M \in Nat : M = Len(s.elements)
  <2>1. s.elements \in Seq([iei : Byte, data : Seq(Byte)]) BY DEF Deliverable
  <2> QED BY <2>1
<1>3. ASSUME NEW n \in 1..N, n - 1 \in Good PROVE n \in Good
  <2>1. n \in 1..Len(s.elements) BY <1>2
  <2>2. PICK i \in Nat : Len(u[n - 1]) + 1 = i
    <3>1. Len(u[n - 1]) \in Nat BY <2>1, StartStep
    <3> QED BY <3>1
  <2>3. WalkAt(Rest(s), w, i) = IF s.elements[n].iei \in {0, 8} THEN LongOf(s.elements[n].data)
                                ELSE w[Len(u[n]) + 1]
    BY <2>1, <2>2, WalkStep
  <2>4. w[i] = w[Len(u[n]) + 1] BY <2>3
  <2>5. w[1] = w[i] BY <1>3, <2>2
  <2> QED BY <2>4, <2>5
<1> HIDE DEF Good
<1>4. 0..N \subseteq Good BY <1>1, <1>3, UpTo
<1>5. N \in Good BY <1>4
<1> QED BY <1>5 DEF Good

\* The walk ends behind the last element.
LEMMA WalkEnd ==
  ASSUME NEW s, Deliverable(s), s.elements # <<>>, NEW u, Starts(s, u), NEW w
  PROVE  WalkAt(Rest(s), w, Len(u[Len(s.elements)]) + 1) = NoHeader
<1>1. /\ s.elements \in Seq([iei : Byte, data : Seq(Byte)])
      /\ \A m \in DOMAIN s.elements : Len(s.elements[m].data) <= 255
  BY DEF Deliverable
<1>2. Len(Elements(s)) = Len(s.elements) BY <1>1, ElementSeqs
<1>3. u[Len(s.elements)] = Joined(Elements(s)) BY <1>2 DEF Starts, Prefixes
<1>4. PICK t \in Nat : t = Len(Joined(Elements(s))) /\ At(Rest(s), 0) = t BY ElementsRead
<1>5. ~(t + 1 <= t) OBVIOUS
<1>6. ~Inside(Rest(s), t + 1) BY <1>4, <1>5 DEF Inside
<1> QED BY <1>3, <1>4, <1>6 DEF WalkAt

\* The least of a set of numbers.
LEMMA LeastIn ==
  ASSUME NEW S \in SUBSET Nat, S # {}
  PROVE  Min(S) \in S /\ \A m \in S : Min(S) <= m
<1>1. \E n \in S : \A m \in S : n <= m BY LeastOf
<1> QED BY <1>1 DEF Min

\* The walk finds the first long-SMS element, wherever it stands.
LEMMA HeaderDecoded ==
  ASSUME NEW s, Deliverable(s), s.elements # <<>>
  PROVE  UserHeader(Rest(s)) = HeaderOf(s)
<1>1. PICK d \in Seq(Byte) : d = Rest(s) BY RestSeq
<1>2. PICK w \in [Nat -> Headers] : UserHeader(d) = w[1] /\ \A i \in Nat : w[i] = WalkAt(d, w, i)
  BY Walk
<1>3. PICK u : Starts(s, u)
  <2>1. /\ s.elements \in Seq([iei : Byte, data : Seq(Byte)])
        /\ \A m \in DOMAIN s.elements : Len(s.elements[m].data) <= 255
    BY DEF Deliverable
  <2>2. PICK p \in Seq(Seq(Byte)) : p = Elements(s) BY <2>1, ElementSeqs
  <2>3. PICK v \in [0..Len(p) -> Seq(Byte)] : Prefixes(p, v) BY JoinedPrefixes
  <2> QED BY <2>2, <2>3 DEF Starts
<1>4. PICK N \in Nat : N = Len(s.elements) /\ DOMAIN s.elements = 1..N /\ N >= 1
  <2>1. PICK q \in Seq([iei : Byte, data : Seq(Byte)]) : q = s.elements BY DEF Deliverable
  <2>2. PICK N \in Nat : N = Len(q) OBVIOUS
  <2>3. N # 0 BY <2>1, <2>2, Nothing
  <2>4. DOMAIN q = 1..N BY <2>2
  <2> QED BY <2>1, <2>2, <2>3, <2>4
<1> DEFINE longs == {i \in DOMAIN s.elements : s.elements[i].iei \in {0, 8}}
<1>5. \A i \in Nat : w[i] = WalkAt(Rest(s), w, i) BY <1>1, <1>2
<1>6. CASE longs = {}
  <2>1. \A n \in 1..N : ~(s.elements[n].iei \in {0, 8}) BY <1>4, <1>6
  <2>2. N <= Len(s.elements) BY <1>4
  <2>3. w[1] = w[Len(u[N]) + 1] BY <1>3, <1>5, <2>1, <2>2, Passed
  <2>4. Len(u[N]) + 1 \in Nat
    <3>1. N \in 1..Len(s.elements) BY <1>4
    <3>2. Len(u[N]) \in Nat BY <1>3, <3>1, StartStep
    <3> QED BY <3>2
  <2>5. WalkAt(Rest(s), w, Len(u[N]) + 1) = NoHeader BY <1>3, <1>4, WalkEnd
  <2>6. w[1] = NoHeader BY <1>5, <2>3, <2>4, <2>5
  <2>7. HeaderOf(s) = NoHeader BY <1>6 DEF HeaderOf
  <2> QED BY <1>1, <1>2, <2>6, <2>7
<1>7. CASE longs # {}
  <2>1. longs \in SUBSET Nat BY <1>4
  <2> HIDE DEF longs
  <2>2. PICK m : m = Min(longs) OBVIOUS
  <2>3. m \in longs /\ \A k \in longs : m <= k BY <1>7, <2>1, <2>2, LeastIn
  <2>4. m \in 1..N /\ s.elements[m].iei \in {0, 8} BY <1>4, <2>3 DEF longs
  <2>5. PICK M \in Nat : M = m - 1 /\ M <= Len(s.elements) BY <1>4, <2>4
  <2>6. ASSUME NEW n \in 1..M PROVE ~(s.elements[n].iei \in {0, 8})
    <3>1. n \in 1..N /\ ~(m <= n) BY <2>4, <2>5
    <3>2. n \notin longs BY <2>3, <3>1
    <3> QED BY <1>4, <3>1, <3>2 DEF longs
  <2>7. w[1] = w[Len(u[M]) + 1] BY <1>3, <1>5, <2>5, <2>6, Passed
  <2>8. m \in 1..Len(s.elements) BY <1>4, <2>4
  <2>9. PICK i \in Nat : Len(u[m - 1]) + 1 = i
    <3>1. Len(u[m - 1]) \in Nat BY <1>3, <2>8, StartStep
    <3> QED BY <3>1
  <2>10. WalkAt(Rest(s), w, i) = IF s.elements[m].iei \in {0, 8} THEN LongOf(s.elements[m].data)
                                 ELSE w[Len(u[m]) + 1]
    BY <1>3, <2>8, <2>9, WalkStep
  <2>11. w[i] = LongOf(s.elements[m].data) BY <1>5, <2>4, <2>10
  <2>12. w[1] = LongOf(s.elements[m].data) BY <2>5, <2>7, <2>9, <2>11
  <2>13. HeaderOf(s) = LongOf(s.elements[m].data) BY <1>7, <2>2 DEF HeaderOf, LongOf, longs
  <2> QED BY <1>1, <1>2, <2>12, <2>13
<1> QED BY <1>6, <1>7

-----------------------------------------------------------------------------
(* The whole SMS. *)

TextOf(s) ==
  IF Rest(s) = <<>> THEN <<>>
  ELSE CString(UserText(Encoding(s.dcs), s.elements # <<>>, UserData(s)[1], Rest(s)))

\* Without a header there is no long-SMS element.
LEMMA NoElements ==
  ASSUME NEW s, s.elements = <<>>
  PROVE  HeaderOf(s) = NoHeader
<1> DEFINE longs == {i \in DOMAIN s.elements : s.elements[i].iei \in {0, 8}}
<1>1. DOMAIN <<>> = {}
  <2>1. DOMAIN <<>> = 1..0 OBVIOUS
  <2>2. \A i \in 1..0 : FALSE OBVIOUS
  <2> QED BY <2>1, <2>2
<1>2. longs = {} BY <1>1
<1> QED BY <1>2 DEF HeaderOf

\* Bit 6 of the type says whether there is a header.
LEMMA HeaderBit ==
  ASSUME NEW s
  PROVE  ((TypeOf(s) \div 64) % 2 = 1) <=> s.elements # <<>>
<1>1. (4 \div 64) % 2 # 1 /\ (68 \div 64) % 2 = 1 OBVIOUS
<1>2. CASE s.elements = <<>>
  <2>1. TypeOf(s) = 4 BY <1>2 DEF TypeOf
  <2> QED BY <1>1, <1>2, <2>1
<1>3. CASE s.elements # <<>>
  <2>1. TypeOf(s) = 68 BY <1>3 DEF TypeOf
  <2> QED BY <1>1, <1>3, <2>1
<1> QED BY <1>2, <1>3

\* A header leaves something to read.
LEMMA HeaderLeft ==
  ASSUME NEW s, Deliverable(s), s.elements # <<>>
  PROVE  Rest(s) # <<>>
<1>1. PICK t \in Nat : t = Len(Joined(Elements(s))) /\ t < Len(Rest(s)) BY ElementsRead
<1>2. Len(Rest(s)) \in Nat BY HeaderRead
<1>3. Len(Rest(s)) # 0 BY <1>1, <1>2
<1>4. Len(<<>>) = 0 OBVIOUS
<1> QED BY <1>3, <1>4

\* A PDU is decoded field by field.
LEMMA PduDecoded ==
  ASSUME Roomy, NEW s, Deliverable(s), s.lost = 0
  PROVE  PduDecode(Line(s)) = [ok |-> TRUE, sender |-> SenderOf(s), time |-> TimeOf(s),
                               header |-> HeaderOf(s), text |-> TextOf(s)]
<1>1. PICK a \in Nat, w \in Nat : Parts(Pdu(s), s, a, w) BY PduParts
<1>2. PICK p \in Seq(Byte) : p = Pdu(s) BY <1>1 DEF Parts
<1>3. PICK u \in Nat : u = Len(UserData(s)) /\ u >= 1 BY RestSeq
<1>4. PICK l \in Nat : l = Len(p) /\ l = a + w + 13 + u
  <2>1. Len(p) = a + w + 13 + Len(UserData(s)) BY <1>1, <1>2 DEF Parts
  <2>2. a + w + 13 + u \in Nat BY <1>3
  <2> QED BY <1>3, <2>1, <2>2
<1>5. Read(p, s, a, w) BY <1>1, <1>2, PartsRead
<1>6. PICK from : from = Phone(p, a + 2) OBVIOUS
<1>7. from.number = SenderOf(s) /\ from.next = a + w + 4 BY <1>1, <1>2, <1>6, PhoneRead
<1>8. Timestamp(p, a + w + 6) = TimeOf(s) BY <1>1, <1>2, TimeRead
<1>9. HexToBytes(Line(s)) = p BY <1>2, LineDecoded
<1>10. PICK ty : ty = 1 + At(p, 0) OBVIOUS
<1>11. ty = a + 1 /\ ty + 1 = a + 2 /\ from.next + 1 = a + w + 5 /\ from.next + 9 = a + w + 13
       /\ from.next + 9 + 2 = a + w + 15 /\ from.next + 2 = a + w + 6
  <2>1. At(p, 0) = a BY <1>5 DEF Read
  <2>2. ty = 1 + a BY <1>10, <2>1
  <2>3. PICK m \in Nat : m = a + w + 4 OBVIOUS
  <2>4. /\ m + 1 = a + w + 5 /\ m + 9 = a + w + 13 /\ m + 9 + 2 = a + w + 15 /\ m + 2 = a + w + 6
    BY <2>3
  <2>5. from.next = m BY <1>7, <2>3
  <2>6. 1 + a = a + 1 /\ 1 + a + 1 = a + 2 OBVIOUS
  <2> QED BY <2>2, <2>4, <2>5, <2>6
<1>12. ~(p = <<>> \/ ty >= Len(p) \/ from.next >= Len(p) \/ from.next + 9 >= Len(p))
  <2>1. ~(a + 1 >= l) /\ ~(a + w + 4 >= l) /\ ~(a + w + 13 >= l) BY <1>3, <1>4
  <2>2. l # 0 BY <1>3, <1>4
  <2>3. p # <<>> BY <1>4, <2>2, Nothing
  <2> QED BY <1>4, <1>7, <1>11, <2>1, <2>3
<1> DEFINE ud == SubSeq(p, from.next + 9 + 2, Len(p))
           udh == (At(p, ty) \div 64) % 2 = 1
           code == Encoding(At(p, from.next + 1))
           head == IF udh /\ ud # <<>> THEN UserHeader(ud) ELSE NoHeader
           text == IF ud = <<>> THEN <<>>
                   ELSE CString(UserText(code, udh, At(p, from.next + 9), ud))
<1>13. PduDecode(Line(s)) =
         IF p = <<>> \/ ty >= Len(p) \/ from.next >= Len(p) \/ from.next + 9 >= Len(p) THEN Failed
         ELSE [ok |-> TRUE, sender |-> from.number, time |-> Timestamp(p, from.next + 2),
               header |-> head, text |-> text]
  <2>1. Phone(p, ty + 1) = from BY <1>6, <1>11
  <2> QED BY <1>9, <1>10, <2>1 DEF PduDecode
<1>14. ud = Rest(s) BY <1>5, <1>11 DEF Read
<1>15. udh <=> s.elements # <<>>
  <2>1. At(p, ty) = TypeOf(s) BY <1>5, <1>11 DEF Read
  <2> QED BY <2>1, HeaderBit
<1>16. code = Encoding(s.dcs) /\ At(p, from.next + 9) = UserData(s)[1]
  <2>1. At(p, from.next + 1) = s.dcs /\ At(p, from.next + 9) = UserData(s)[1]
    BY <1>5, <1>11 DEF Read
  <2> QED BY <2>1
<1>17. text = TextOf(s)
  <2>1. PICK c : c = code OBVIOUS
  <2>2. PICK v : v = At(p, from.next + 9) OBVIOUS
  <2>3. udh = (s.elements # <<>>) BY <1>15
  <2> HIDE DEF ud, udh, code
  <2>4. text = IF Rest(s) = <<>> THEN <<>>
               ELSE CString(UserText(Encoding(s.dcs), s.elements # <<>>, UserData(s)[1], Rest(s)))
    BY <1>14, <1>16, <2>3
  <2> HIDE DEF text
  <2> QED BY <2>4 DEF TextOf
<1> HIDE DEF ud, udh, code
<1>18. head = HeaderOf(s)
  <2>1. CASE s.elements = <<>>
    <3>1. ~udh BY <1>15, <2>1
    <3>2. head = NoHeader BY <3>1
    <3> QED BY <2>1, <3>2, NoElements
  <2>2. CASE s.elements # <<>>
    <3>1. udh /\ ud # <<>> BY <1>14, <1>15, <2>2, HeaderLeft
    <3>2. head = UserHeader(Rest(s)) BY <1>14, <3>1
    <3> QED BY <2>2, <3>2, HeaderDecoded
  <2> QED BY <2>1, <2>2
<1> HIDE DEF head, text
<1>19. Timestamp(p, from.next + 2) = TimeOf(s) BY <1>8, <1>11
<1>20. PduDecode(Line(s)) =
         [ok |-> TRUE, sender |-> from.number, time |-> Timestamp(p, from.next + 2),
          header |-> head, text |-> text]
  BY <1>12, <1>13
<1> QED BY <1>7, <1>17, <1>18, <1>19, <1>20

Decoded == sms \in Sms /\ (out = Failed \/ out = PduDecode(Line(sms)))

\* The one step decodes the line of one of the SMS.
LEMMA DecodedInv == Spec => []Decoded
<1>1. Init => Decoded BY DEF Init, Decoded
<1>2. Decoded /\ [Next]_<<sms, out>> => Decoded'
  BY DEF Decoded, Next, Decode
<1> QED BY <1>1, <1>2, PTL DEF Spec

\* The arrays have the room the lemmas ask for.
LEMMA Room == Roomy
BY BufAssumption DEF Roomy

\* FieldsDecoded, for any deliverable SMS: pdu_decode gives back the sender, the
\* time and the first long-SMS element of the header.
THEOREM FieldsDecodedAlways == Spec => []FieldsDecoded
<1>1. Decoded => FieldsDecoded
  <2> SUFFICES ASSUME Decoded, Whole PROVE out.sender = SenderOf(sms) /\ out.time = TimeOf(sms)
                                           /\ out.header = HeaderOf(sms)
    BY DEF FieldsDecoded
  <2>1. out # Failed
    <3>1. ~Failed.ok BY DEF Failed
    <3> QED BY <3>1 DEF Whole
  <2>2. out = PduDecode(Line(sms)) /\ Deliverable(sms) /\ sms.lost = 0
    BY <2>1, SmsAssumption DEF Decoded, Whole
  <2>3. PduDecode(Line(sms)) = [ok |-> TRUE, sender |-> SenderOf(sms), time |-> TimeOf(sms),
                                header |-> HeaderOf(sms), text |-> TextOf(sms)]
    BY <2>2, Room, PduDecoded
  <2> QED BY <2>2, <2>3
<1> QED BY <1>1, DecodedInv, PTL

\* OutputFits, for any deliverable SMS and any line it is cut to: the sender, the
\* text and the numbers of the header that pdu_decode writes fit their arrays.
THEOREM OutputFitsAlways == Spec => []OutputFits
<1>1. Decoded => OutputFits
  <2> SUFFICES ASSUME Decoded PROVE OutputFits OBVIOUS
  <2>1. CASE out = Failed BY <2>1 DEF OutputFits, Failed
  <2>2. CASE out = PduDecode(Line(sms))
    <3>1. Line(sms) \in Seq(0..17) BY LineChars, SmsAssumption DEF Decoded
    <3>2. Roomy BY BufAssumption DEF Roomy
    <3>3. PICK line \in Seq(0..17) : line = Line(sms) BY <3>1
    <3>4. Fits(PduDecode(line)) BY <3>2, DecodeFits
    <3>5. Fits(out) BY <2>2, <3>3, <3>4
    <3> QED BY <3>5 DEF OutputFits, Fits
  <2> QED BY <2>1, <2>2 DEF Decoded
<1> QED BY <1>1, DecodedInv, PTL

-----------------------------------------------------------------------------
(* Texts. *)

Letter == Nat \ {0}

\* A text without zeros is seen whole.
LEMMA NoZeros ==
  ASSUME NEW t \in Seq(Letter)
  PROVE  CString(t) = t
<1>1. ASSUME NEW i \in DOMAIN t PROVE t[i] # 0
  <2>1. i \in 1..Len(t) OBVIOUS
  <2>2. t[i] \in Letter BY <2>1, ElementIn
  <2> QED BY <2>2 DEF Letter
<1> QED BY <1>1 DEF CString

\* What the text is if it is read at all.
LEMMA TextOfIs ==
  ASSUME NEW s, NEW t \in Seq(Letter),
         Rest(s) = <<>> => t = <<>>,
         Rest(s) # <<>> => UserText(Encoding(s.dcs), s.elements # <<>>, UserData(s)[1], Rest(s)) = t
  PROVE  TextOf(s) = t
<1>1. CASE Rest(s) = <<>> BY <1>1 DEF TextOf
<1>2. CASE Rest(s) # <<>>
  <2>1. CString(t) = t BY NoZeros
  <2> QED BY <1>2, <2>1 DEF TextOf
<1> QED BY <1>1, <1>2

\* An index within the user data.
LEMMA RestAt ==
  ASSUME NEW s, Deliverable(s), NEW i \in Nat, NEW j, j = i + 2, j <= Len(UserData(s))
  PROVE  At(Rest(s), i) = UserData(s)[j]
<1>1. PICK d \in Seq(Byte) : d = Rest(s) BY RestSeq
<1>2. PICK u \in Nat : u = Len(UserData(s)) BY RestSeq
<1>3. Len(d) = u - 1 /\ \A m \in 1..(u - 1) : d[m] = UserData(s)[m + 1] BY <1>1, <1>2, RestSeq
<1>4. PICK k : k = i + 1 OBVIOUS
<1>5. k \in 1..(u - 1) /\ k + 1 = j BY <1>2, <1>4
<1>6. At(d, i) = d[k] BY <1>3, <1>4, <1>5, AtIs
<1>7. d[k] = UserData(s)[k + 1] BY <1>3, <1>5
<1> QED BY <1>1, <1>5, <1>6, <1>7

\* Where the text starts.
LEMMA TextStart ==
  ASSUME NEW s, Deliverable(s)
  PROVE  (IF s.elements # <<>> THEN At(Rest(s), 0) + 1 ELSE 0) = Len(HeaderBytes(s))
<1>1. CASE s.elements = <<>>
  <2>1. HeaderBytes(s) = <<>> BY <1>1 DEF HeaderBytes
  <2> QED BY <1>1, <2>1
<1>2. CASE s.elements # <<>> BY <1>2, ElementsRead
<1> QED BY <1>1, <1>2

\* No pieces, nothing joined.
LEMMA JoinedNothing ==
  ASSUME NEW p, p = <<>>
  PROVE  Joined(p) = <<>>
<1>1. p \in Seq(Seq(Nat)) /\ Len(p) = 0 OBVIOUS
<1>2. PICK u \in [0..Len(p) -> Seq(Nat)] : Prefixes(p, u) BY <1>1, JoinedPrefixes
<1> QED BY <1>1, <1>2 DEF Prefixes

-----------------------------------------------------------------------------
(* UCS2. *)

Shapes(t) == [i \in 1..Len(t) |-> Utf8OfUnit(t[i])]

\* No character but 0 has a zero in UTF-8.
LEMMA UnitLetters ==
  ASSUME NEW c \in Nat, c > 0
  PROVE  Utf8OfUnit(c) \in Seq(Letter)
<1>1. CASE c < 128
  <2>1. Utf8OfUnit(c) = <<c>> BY <1>1 DEF Utf8OfUnit
  <2>2. c \in Letter BY DEF Letter
  <2> QED BY <2>1, <2>2
<1>2. CASE ~(c < 128) /\ c < 2048
  <2>1. Utf8OfUnit(c) = <<192 + (c \div 64), 128 + (c % 64)>> BY <1>2 DEF Utf8OfUnit
  <2>2. 192 + (c \div 64) \in Letter /\ 128 + (c % 64) \in Letter
    <3>1. c \div 64 \in Nat /\ c % 64 \in Nat OBVIOUS
    <3> QED BY <3>1 DEF Letter
  <2> QED BY <2>1, <2>2
<1>3. CASE ~(c < 128) /\ ~(c < 2048)
  <2>1. Utf8OfUnit(c) = <<224 + (c \div 4096), 128 + ((c \div 64) % 64), 128 + (c % 64)>>
    BY <1>3 DEF Utf8OfUnit
  <2>2. /\ 224 + (c \div 4096) \in Letter /\ 128 + ((c \div 64) % 64) \in Letter
        /\ 128 + (c % 64) \in Letter
    <3>1. c \div 4096 \in Nat /\ (c \div 64) % 64 \in Nat /\ c % 64 \in Nat OBVIOUS
    <3> QED BY <3>1 DEF Letter
  <2> QED BY <2>1, <2>2
<1> QED BY <1>1, <1>2, <1>3

\* A plain text of UCS2 has one unit a character.
LEMMA WidePlain ==
  ASSUME NEW s, Deliverable(s), Alphabet(s.dcs) = 2, Plain(s)
  PROVE  /\ UnitsOf(s) = s.text /\ s.text \in Seq(Nat)
         /\ Written(s) = Joined(Shapes(s.text)) /\ Joined(Shapes(s.text)) \in Seq(Letter)
         /\ Shapes(s.text) \in Seq(Seq(Letter))
<1>1. PICK t \in Seq(Unicode) : t = s.text BY DEF Deliverable, Characters
<1>2. PICK n \in Nat : n = Len(t) /\ DOMAIN t = 1..n OBVIOUS
<1>3. \A i \in 1..n : t[i] < 65536 BY <1>1, <1>2 DEF Plain
<1>4. ASSUME NEW i \in 1..n PROVE t[i] \in Nat /\ t[i] > 0
  <2>1. t[i] \in Unicode BY <1>2, ElementIn
  <2> QED BY <2>1 DEF Unicode
<1>5. t \in Seq(Nat)
  <2>1. \A i \in 1..n : t[i] \in Nat BY <1>4
  <2>2. t = [i \in 1..n |-> t[i]] BY <1>2
  <2>3. t \in [1..n -> Nat] BY <2>1, <2>2
  <2> QED BY <2>3, FunctionSeq
<1>6. UnitsOf(s) = t
  <2>1. \A i \in 1..n : Units(t[i]) = <<t[i]>> BY <1>3 DEF Units
  <2>2. PICK p : p = [i \in DOMAIN t |-> Units(t[i])] OBVIOUS
  <2>3. p = [i \in 1..Len(t) |-> <<t[i]>>] BY <1>2, <2>1, <2>2
  <2>4. Joined(p) = t BY <1>5, <2>3, JoinedSingles
  <2> QED BY <1>1, <2>2, <2>4 DEF UnitsOf
<1>7. Written(s) = Joined(Shapes(t))
  <2>1. ASSUME NEW i \in 1..n PROVE Utf8(t[i]) = Utf8OfUnit(t[i])
    <3>1. PICK c \in Nat : c = t[i] BY <1>4
    <3>2. c < 65536 BY <1>3, <3>1
    <3>3. Utf8(c) = Utf8OfUnit(c) BY <3>2 DEF Utf8, Utf8OfUnit
    <3> QED BY <3>1, <3>3
  <2>2. PICK q : q = [i \in DOMAIN t |-> Utf8(t[i])] OBVIOUS
  <2>3. q = [i \in 1..Len(t) |-> Utf8OfUnit(t[i])] BY <1>2, <2>1, <2>2
  <2> QED BY <1>1, <2>2, <2>3 DEF Written, Shapes
<1>8. Shapes(t) \in Seq(Seq(Letter))
  <2>1. \A i \in 1..n : Utf8OfUnit(t[i]) \in Seq(Letter) BY <1>4, UnitLetters
  <2>2. Shapes(t) = [i \in 1..n |-> Utf8OfUnit(t[i])] BY <1>2 DEF Shapes
  <2>3. Shapes(t) \in [1..n -> Seq(Letter)] BY <2>1, <2>2
  <2> QED BY <2>3, FunctionSeq
<1>9. Joined(Shapes(t)) \in Seq(Letter) BY <1>8, JoinedSeq
<1> QED BY <1>1, <1>5, <1>6, <1>7, <1>8, <1>9

\* A plain text of UCS2 is decoded to what was written.
LEMMA WideDecoded ==
  ASSUME NEW s, Deliverable(s), Alphabet(s.dcs) = 2, Plain(s)
  PROVE  TextOf(s) = Written(s)
<1>1. PICK t \in Seq(Nat) : t = s.text /\ t = UnitsOf(s) BY WidePlain
<1>2. PICK x \in Seq(Letter) : x = Joined(Shapes(t)) /\ x = Written(s) BY <1>1, WidePlain
<1>3. PICK h \in Nat, n \in Nat : h = Len(HeaderBytes(s)) /\ n = Len(t)
  <2>1. Len(HeaderBytes(s)) \in Nat /\ Len(t) \in Nat BY HeadOf
  <2> QED BY <2>1
<1>4. Len(UserData(s)) = h + 2 * n + 1 /\ StandsAt(UserData(s), h + 1, Text2(s)) /\ t \in Seq(Word)
  BY <1>1, <1>3, WideLayout
<1>5. /\ Len(Text2(s)) = 2 * n
      /\ \A i \in 1..n : Text2(s)[2 * i - 1] = t[i] \div 256 /\ Text2(s)[2 * i] = t[i] % 256
  <2>1. PICK r : r = Joined(UnitBytes(t)) OBVIOUS
  <2>2. /\ Len(r) = 2 * Len(t)
        /\ \A i \in 1..Len(t) : r[2 * i - 1] = t[i] \div 256 /\ r[2 * i] = t[i] % 256
    BY <1>4, <2>1, UnitBytesSeq, SMTT(30)
  <2>3. r = Text2(s) BY <1>1, <2>1 DEF Text2
  <2> QED BY <1>3, <2>2, <2>3
<1>6. PICK d : d = Rest(s) OBVIOUS
<1>7. Len(d) = h + 2 * n
  <2>1. Len(d) = (h + 2 * n + 1) - 1 BY <1>4, <1>6, RestSeq
  <2> QED BY <2>1
<1>8. ASSUME NEW k \in 1..n
      PROVE  (256 * At(d, h + 2 * k - 2)) + At(d, h + 2 * k - 1) = t[k]
  <2>1. PICK i, j : i = 2 * k - 1 /\ j = 2 * k OBVIOUS
  <2>2. i \in 1..(2 * n) /\ j \in 1..(2 * n) BY <2>1
  <2>3. \A m \in 1..(2 * n) : UserData(s)[h + 1 + m] = Text2(s)[m] BY <1>4, <1>5 DEF StandsAt
  <2>4. UserData(s)[h + 1 + i] = t[k] \div 256 /\ UserData(s)[h + 1 + j] = t[k] % 256
    BY <1>5, <2>1, <2>2, <2>3, SMTT(30)
  <2>5. PICK e, f : e = h + 2 * k - 2 /\ f = h + 2 * k - 1 OBVIOUS
  <2>6. /\ e \in Nat /\ f \in Nat /\ h + 1 + i = e + 2 /\ h + 1 + j = f + 2
        /\ h + 1 + i <= h + 2 * n + 1 /\ h + 1 + j <= h + 2 * n + 1
    BY <2>1, <2>2, <2>5
  <2>7. At(d, e) = UserData(s)[h + 1 + i] BY <1>4, <1>6, <2>6, RestAt
  <2>8. At(d, f) = UserData(s)[h + 1 + j] BY <1>4, <1>6, <2>6, RestAt
  <2>9. PICK c \in Nat : c = t[k] BY <1>3, ElementIn
  <2>10. 256 * (c \div 256) + (c % 256) = c OBVIOUS
  <2> QED BY <2>4, <2>5, <2>7, <2>8, <2>9, <2>10
<1>9. Encoding(s.dcs) = "ucs2" BY DEF Encoding, Alphabet
<1>10. CASE n = 0
  <2>1. Shapes(t) = <<>>
    <3>1. Shapes(t) \in Seq(Seq(Letter)) BY <1>1, WidePlain
    <3>2. Shapes(t) = [i \in 1..n |-> Utf8OfUnit(t[i])] BY <1>3 DEF Shapes
    <3>3. Len(Shapes(t)) = 0 BY <1>10, <3>2
    <3> QED BY <3>1, <3>3, Nothing
  <2>2. x = <<>> BY <1>2, <2>1, JoinedNothing
  <2>3. UserText(Encoding(s.dcs), s.elements # <<>>, UserData(s)[1], d) = <<>>
    <3>1. PICK o : o = (IF s.elements # <<>> THEN At(d, 0) + 1 ELSE 0) OBVIOUS
    <3>2. o = h BY <1>3, <1>6, <3>1, TextStart
    <3>3. ~(Len(d) - o > 0) BY <1>7, <1>10, <3>2
    <3> QED BY <1>9, <3>1, <3>3 DEF UserText
  <2> QED BY <1>2, <1>6, <2>2, <2>3, TextOfIs
<1>11. CASE n # 0
  <2>1. UserText(Encoding(s.dcs), s.elements # <<>>, UserData(s)[1], d) = Ucs2(d, h, 2 * n)
    <3>1. PICK o : o = (IF s.elements # <<>> THEN At(d, 0) + 1 ELSE 0) OBVIOUS
    <3>2. o = h BY <1>3, <1>6, <3>1, TextStart
    <3>3. Len(d) - o = 2 * n /\ 2 * n > 0 BY <1>7, <1>11, <3>2
    <3>4. UserText("ucs2", s.elements # <<>>, UserData(s)[1], d) =
            IF Len(d) - o > 0 THEN Ucs2(d, o, Len(d) - o) ELSE <<>>
      BY <3>1 DEF UserText
    <3> QED BY <1>9, <3>2, <3>3, <3>4
  <2>2. Ucs2(d, h, 2 * n) = Joined(Shapes(t))
    <3>1. (2 * n + 1) \div 2 = n OBVIOUS
    <3>2. PICK q : q = [k \in 1..((2 * n + 1) \div 2) |->
                          Utf8OfUnit((256 * At(d, h + 2 * k - 2)) + At(d, h + 2 * k - 1))] OBVIOUS
    <3>3. q = [k \in 1..n |-> Utf8OfUnit(t[k])] BY <1>8, <3>1, <3>2
    <3>4. q = Shapes(t) BY <1>3, <3>3 DEF Shapes
    <3> QED BY <3>2, <3>4 DEF Ucs2
  <2>3. d # <<>>
    <3>1. Len(d) # 0 BY <1>7, <1>11
    <3>2. Len(<<>>) = 0 OBVIOUS
    <3> QED BY <3>1, <3>2
  <2> QED BY <1>2, <1>6, <2>1, <2>2, <2>3, TextOfIs
<1> QED BY <1>10, <1>11

(* 8-bit data. *)

\* An ASCII character is its own UTF-8.
LEMMA Ascii == \A c \in Nat : c < 128 => Utf8(c) = <<c>>
BY DEF Utf8

\* A plain text of bytes is decoded to what was written.
LEMMA DataDecoded ==
  ASSUME Roomy, NEW s, Deliverable(s), Alphabet(s.dcs) = 1, Plain(s)
  PROVE  TextOf(s) = Written(s)
<1>1. PICK t \in Seq(Byte) : t = s.text BY DataLayout
<1>2. PICK h \in Nat, n \in Nat : h = Len(HeaderBytes(s)) /\ n = Len(t) /\ DOMAIN t = 1..n
  <2>1. Len(HeaderBytes(s)) \in Nat /\ Len(t) \in Nat /\ DOMAIN t = 1..Len(t) BY HeadOf
  <2> QED BY <2>1
<1>3. /\ Len(UserData(s)) = h + n + 1
      /\ \A i \in 1..n : UserData(s)[h + 1 + i] = t[i]
  BY <1>1, <1>2, DataLayout DEF StandsAt
<1>4. h + n + 1 <= 141 BY <1>3, UserDataLayout
<1>5. ASSUME NEW i \in 1..n PROVE t[i] \in Nat /\ t[i] > 0 /\ t[i] < 128
  <2>1. Alphabet(s.dcs) # 2 OBVIOUS
  <2>2. \A j \in DOMAIN s.text : s.text[j] < 128 BY <2>1 DEF Plain
  <2>3. s.text \in Seq(Byte \ {0}) BY <2>1 DEF Deliverable, Characters
  <2>4. i \in DOMAIN s.text BY <1>1, <1>2
  <2>5. PICK c \in Byte \ {0} : c = s.text[i]
    <3>1. i \in 1..Len(s.text) BY <1>1, <1>2
    <3> QED BY <2>3, <3>1, ElementIn
  <2>6. c < 128 BY <2>2, <2>4, <2>5
  <2>7. c \in Nat /\ c # 0 BY IsByte
  <2>8. c > 0 BY <2>7
  <2> QED BY <1>1, <2>5, <2>6, <2>7, <2>8
<1>6. t \in Seq(Letter)
  <2>1. \A i \in 1..n : t[i] \in Letter BY <1>5 DEF Letter
  <2>2. t = [i \in 1..n |-> t[i]] BY <1>2
  <2>3. t \in [1..n -> Letter] BY <2>1, <2>2
  <2> QED BY <2>3, FunctionSeq
<1>7. Written(s) = t
  <2>1. \A i \in 1..n : Utf8(t[i]) = <<t[i]>>
    <3> SUFFICES ASSUME NEW i \in 1..n PROVE Utf8(t[i]) = <<t[i]>> OBVIOUS
    <3>1. t[i] \in Nat /\ t[i] < 128 BY <1>5, Zenon
    <3> QED BY <3>1, Ascii, Zenon
  <2>2. PICK q : q = [i \in DOMAIN t |-> Utf8(t[i])] OBVIOUS
  <2>3. q = [i \in 1..Len(t) |-> <<t[i]>>] BY <1>2, <2>1, <2>2
  <2>4. Joined(q) = t BY <2>3, JoinedSingles
  <2> QED BY <1>1, <2>2, <2>4 DEF Written
<1>8. PICK d : d = Rest(s) OBVIOUS
<1>9. Len(d) = h + n
  <2>1. Len(d) = (h + n + 1) - 1 BY <1>3, <1>8, RestSeq
  <2> QED BY <2>1
<1>10. ASSUME NEW k \in 1..n PROVE At(d, h + k - 1) = t[k]
  <2>1. PICK e : e = h + k - 1 OBVIOUS
  <2>2. e \in Nat /\ h + 1 + k = e + 2 /\ h + 1 + k <= h + n + 1 BY <2>1
  <2>3. At(d, e) = UserData(s)[h + 1 + k] BY <1>3, <1>8, <2>2, RestAt
  <2> QED BY <1>3, <2>1, <2>3
<1>11. Encoding(s.dcs) = "8bit" BY DEF Encoding, Alphabet
<1>12. UserText(Encoding(s.dcs), s.elements # <<>>, UserData(s)[1], d) = t
  <2>1. PICK o : o = (IF s.elements # <<>> THEN At(d, 0) + 1 ELSE 0) OBVIOUS
  <2>2. o = h BY <1>2, <1>8, <2>1, TextStart
  <2>3. Len(d) - o = n BY <1>9, <2>2
  <2>4. UserText("8bit", s.elements # <<>>, UserData(s)[1], d) =
          [k \in 1..Min({Len(d) - o, TextCap - 1}) |-> At(d, o + k - 1)]
    BY <2>1 DEF UserText
  <2>5. Min({n, TextCap - 1}) = n
    <3>1. TextCap \in Nat /\ TextCap > 255 BY DEF Roomy
    <3>2. PICK c \in Nat : c = TextCap - 1 /\ n <= c /\ (c <= n => c = n) BY <1>4, <3>1
    <3>3. Min({n, c}) = IF c <= n THEN c ELSE n BY MinTwo
    <3> QED BY <3>2, <3>3
  <2>6. [k \in 1..n |-> At(d, h + k - 1)] = [k \in 1..n |-> t[k]] BY <1>10
  <2>7. t = [k \in 1..n |-> t[k]] BY <1>2
  <2> QED BY <1>11, <2>2, <2>3, <2>4, <2>5, <2>6, <2>7
<1>13. d = <<>> => t = <<>>
  <2>1. SUFFICES ASSUME d = <<>> PROVE t = <<>> OBVIOUS
  <2>2. Len(d) = 0 BY <2>1
  <2>3. n = 0 BY <1>9, <2>2
  <2> QED BY <1>2, <2>3, Nothing
<1> QED BY <1>6, <1>7, <1>8, <1>12, <1>13, TextOfIs

(* Septets. *)

\* A septet of two bytes, by the bit it starts at.
Septets2(x, y, b) ==
  ((x \div 2^b) % 128) + (IF b > 1 THEN (y * 2^(8 - b)) % 128 ELSE 0)

\* For each bit a septet can start at, seven bits of the two bytes.
LEMMA SeptetFrom0 ==
  ASSUME NEW x0, NEW x1, NEW x2, NEW x3, NEW x4, NEW x5, NEW x6, NEW x7,
         NEW y0, NEW y1, NEW y2, NEW y3, NEW y4, NEW y5, NEW y6, NEW y7,
         IsBit(x0), IsBit(x1), IsBit(x2), IsBit(x3), IsBit(x4), IsBit(x5), IsBit(x6), IsBit(x7),
         IsBit(y0), IsBit(y1), IsBit(y2), IsBit(y3), IsBit(y4), IsBit(y5), IsBit(y6), IsBit(y7)
  PROVE  Septets2(Octet(x0, x1, x2, x3, x4, x5, x6, x7),
                  Octet(y0, y1, y2, y3, y4, y5, y6, y7), 0) =
           Octet(x0, x1, x2, x3, x4, x5, x6, 0)
<1>1. /\ x0 \in 0..1 /\ x1 \in 0..1 /\ x2 \in 0..1 /\ x3 \in 0..1 /\ x4 \in 0..1 /\ x5 \in 0..1 /\ x6 \in 0..1 /\ x7 \in 0..1
       /\ y0 \in 0..1 /\ y1 \in 0..1 /\ y2 \in 0..1 /\ y3 \in 0..1 /\ y4 \in 0..1 /\ y5 \in 0..1 /\ y6 \in 0..1 /\ y7 \in 0..1
  BY DEF IsBit
<1>2. PICK x \in Nat : x = Octet(x0, x1, x2, x3, x4, x5, x6, x7) BY <1>1 DEF Octet
<1>3. PICK m \in Nat : m = x0 + 2 * x1 + 4 * x2 + 8 * x3 + 16 * x4 + 32 * x5 + 64 * x6 BY <1>1
<1>4. m < 128 BY <1>1, <1>3
<1>5. x = m + 128 * x7 BY <1>1, <1>2, <1>3 DEF Octet
<1>6. x % 128 = m BY <1>1, <1>4, <1>5
<1>7. Septets2(x, Octet(y0, y1, y2, y3, y4, y5, y6, y7), 0) = x % 128 BY DEF Septets2
<1>8. Octet(x0, x1, x2, x3, x4, x5, x6, 0) = m BY <1>1, <1>3 DEF Octet
<1> QED BY <1>2, <1>6, <1>7, <1>8

LEMMA SeptetFrom1 ==
  ASSUME NEW x0, NEW x1, NEW x2, NEW x3, NEW x4, NEW x5, NEW x6, NEW x7,
         NEW y0, NEW y1, NEW y2, NEW y3, NEW y4, NEW y5, NEW y6, NEW y7,
         IsBit(x0), IsBit(x1), IsBit(x2), IsBit(x3), IsBit(x4), IsBit(x5), IsBit(x6), IsBit(x7),
         IsBit(y0), IsBit(y1), IsBit(y2), IsBit(y3), IsBit(y4), IsBit(y5), IsBit(y6), IsBit(y7)
  PROVE  Septets2(Octet(x0, x1, x2, x3, x4, x5, x6, x7),
                  Octet(y0, y1, y2, y3, y4, y5, y6, y7), 1) =
           Octet(x1, x2, x3, x4, x5, x6, x7, 0)
<1>1. /\ x0 \in 0..1 /\ x1 \in 0..1 /\ x2 \in 0..1 /\ x3 \in 0..1 /\ x4 \in 0..1 /\ x5 \in 0..1 /\ x6 \in 0..1 /\ x7 \in 0..1
       /\ y0 \in 0..1 /\ y1 \in 0..1 /\ y2 \in 0..1 /\ y3 \in 0..1 /\ y4 \in 0..1 /\ y5 \in 0..1 /\ y6 \in 0..1 /\ y7 \in 0..1
  BY DEF IsBit
<1>2. PICK l \in Nat, m \in Nat : l = x0 /\ m = x1 + 2 * x2 + 4 * x3 + 8 * x4 + 16 * x5 + 32 * x6 + 64 * x7 BY <1>1
<1>3. l < 2 /\ m < 128 BY <1>1, <1>2
<1>4. PICK x \in Nat : x = Octet(x0, x1, x2, x3, x4, x5, x6, x7) BY <1>1 DEF Octet
<1>5. x = l + 2 * m BY <1>1, <1>2, <1>4 DEF Octet
<1>6. x \div 2 = m /\ m % 128 = m BY <1>3, <1>5
<1>7. Septets2(x, Octet(y0, y1, y2, y3, y4, y5, y6, y7), 1) = (x \div 2) % 128 BY DEF Septets2
<1>8. Octet(x1, x2, x3, x4, x5, x6, x7, 0) = m BY <1>1, <1>2 DEF Octet
<1> QED BY <1>4, <1>6, <1>7, <1>8

LEMMA SeptetFrom2 ==
  ASSUME NEW x0, NEW x1, NEW x2, NEW x3, NEW x4, NEW x5, NEW x6, NEW x7,
         NEW y0, NEW y1, NEW y2, NEW y3, NEW y4, NEW y5, NEW y6, NEW y7,
         IsBit(x0), IsBit(x1), IsBit(x2), IsBit(x3), IsBit(x4), IsBit(x5), IsBit(x6), IsBit(x7),
         IsBit(y0), IsBit(y1), IsBit(y2), IsBit(y3), IsBit(y4), IsBit(y5), IsBit(y6), IsBit(y7)
  PROVE  Septets2(Octet(x0, x1, x2, x3, x4, x5, x6, x7),
                  Octet(y0, y1, y2, y3, y4, y5, y6, y7), 2) =
           Octet(x2, x3, x4, x5, x6, x7, y0, 0)
<1>1. /\ x0 \in 0..1 /\ x1 \in 0..1 /\ x2 \in 0..1 /\ x3 \in 0..1 /\ x4 \in 0..1 /\ x5 \in 0..1 /\ x6 \in 0..1 /\ x7 \in 0..1
       /\ y0 \in 0..1 /\ y1 \in 0..1 /\ y2 \in 0..1 /\ y3 \in 0..1 /\ y4 \in 0..1 /\ y5 \in 0..1 /\ y6 \in 0..1 /\ y7 \in 0..1
  BY DEF IsBit
<1>2. PICK l \in Nat, m \in Nat : l = x0 + 2 * x1 /\ m = x2 + 2 * x3 + 4 * x4 + 8 * x5 + 16 * x6 + 32 * x7 BY <1>1
<1>3. l < 4 /\ m < 64 BY <1>1, <1>2
<1>4. PICK x \in Nat : x = Octet(x0, x1, x2, x3, x4, x5, x6, x7) BY <1>1 DEF Octet
<1>5. x = l + 4 * m BY <1>1, <1>2, <1>4 DEF Octet
<1>6. x \div 4 = m /\ m % 128 = m BY <1>3, <1>5
<1>7. PICK v \in Nat, z \in Nat : v = y0 /\ z = y1 + 2 * y2 + 4 * y3 + 8 * y4 + 16 * y5 + 32 * y6 + 64 * y7 BY <1>1
<1>8. v < 2 BY <1>1, <1>7
<1>9. PICK y \in Nat : y = Octet(y0, y1, y2, y3, y4, y5, y6, y7) BY <1>1 DEF Octet
<1>10. y = v + 2 * z BY <1>1, <1>7, <1>9 DEF Octet
<1>11. y * 64 = 64 * v + 128 * z /\ 64 * v < 128 BY <1>8, <1>10
<1>12. (y * 64) % 128 = 64 * v BY <1>11
<1>13. Septets2(x, y, 2) = ((x \div 4) % 128) + ((y * 64) % 128)
  <2>1. 2^2 = 4 /\ 2^(8 - 2) = 64 OBVIOUS
  <2> QED BY <2>1 DEF Septets2
<1>14. Octet(x2, x3, x4, x5, x6, x7, y0, 0) = m + 64 * v BY <1>1, <1>2, <1>7 DEF Octet
<1> QED BY <1>4, <1>6, <1>9, <1>12, <1>13, <1>14

LEMMA SeptetFrom3 ==
  ASSUME NEW x0, NEW x1, NEW x2, NEW x3, NEW x4, NEW x5, NEW x6, NEW x7,
         NEW y0, NEW y1, NEW y2, NEW y3, NEW y4, NEW y5, NEW y6, NEW y7,
         IsBit(x0), IsBit(x1), IsBit(x2), IsBit(x3), IsBit(x4), IsBit(x5), IsBit(x6), IsBit(x7),
         IsBit(y0), IsBit(y1), IsBit(y2), IsBit(y3), IsBit(y4), IsBit(y5), IsBit(y6), IsBit(y7)
  PROVE  Septets2(Octet(x0, x1, x2, x3, x4, x5, x6, x7),
                  Octet(y0, y1, y2, y3, y4, y5, y6, y7), 3) =
           Octet(x3, x4, x5, x6, x7, y0, y1, 0)
<1>1. /\ x0 \in 0..1 /\ x1 \in 0..1 /\ x2 \in 0..1 /\ x3 \in 0..1 /\ x4 \in 0..1 /\ x5 \in 0..1 /\ x6 \in 0..1 /\ x7 \in 0..1
       /\ y0 \in 0..1 /\ y1 \in 0..1 /\ y2 \in 0..1 /\ y3 \in 0..1 /\ y4 \in 0..1 /\ y5 \in 0..1 /\ y6 \in 0..1 /\ y7 \in 0..1
  BY DEF IsBit
<1>2. PICK l \in Nat, m \in Nat : l = x0 + 2 * x1 + 4 * x2 /\ m = x3 + 2 * x4 + 4 * x5 + 8 * x6 + 16 * x7 BY <1>1
<1>3. l < 8 /\ m < 32 BY <1>1, <1>2
<1>4. PICK x \in Nat : x = Octet(x0, x1, x2, x3, x4, x5, x6, x7) BY <1>1 DEF Octet
<1>5. x = l + 8 * m BY <1>1, <1>2, <1>4 DEF Octet
<1>6. x \div 8 = m /\ m % 128 = m BY <1>3, <1>5
<1>7. PICK v \in Nat, z \in Nat : v = y0 + 2 * y1 /\ z = y2 + 2 * y3 + 4 * y4 + 8 * y5 + 16 * y6 + 32 * y7 BY <1>1
<1>8. v < 4 BY <1>1, <1>7
<1>9. PICK y \in Nat : y = Octet(y0, y1, y2, y3, y4, y5, y6, y7) BY <1>1 DEF Octet
<1>10. y = v + 4 * z BY <1>1, <1>7, <1>9 DEF Octet
<1>11. y * 32 = 32 * v + 128 * z /\ 32 * v < 128 BY <1>8, <1>10
<1>12. (y * 32) % 128 = 32 * v BY <1>11
<1>13. Septets2(x, y, 3) = ((x \div 8) % 128) + ((y * 32) % 128)
  <2>1. 2^3 = 8 /\ 2^(8 - 3) = 32 OBVIOUS
  <2> QED BY <2>1 DEF Septets2
<1>14. Octet(x3, x4, x5, x6, x7, y0, y1, 0) = m + 32 * v BY <1>1, <1>2, <1>7 DEF Octet
<1> QED BY <1>4, <1>6, <1>9, <1>12, <1>13, <1>14

LEMMA SeptetFrom4 ==
  ASSUME NEW x0, NEW x1, NEW x2, NEW x3, NEW x4, NEW x5, NEW x6, NEW x7,
         NEW y0, NEW y1, NEW y2, NEW y3, NEW y4, NEW y5, NEW y6, NEW y7,
         IsBit(x0), IsBit(x1), IsBit(x2), IsBit(x3), IsBit(x4), IsBit(x5), IsBit(x6), IsBit(x7),
         IsBit(y0), IsBit(y1), IsBit(y2), IsBit(y3), IsBit(y4), IsBit(y5), IsBit(y6), IsBit(y7)
  PROVE  Septets2(Octet(x0, x1, x2, x3, x4, x5, x6, x7),
                  Octet(y0, y1, y2, y3, y4, y5, y6, y7), 4) =
           Octet(x4, x5, x6, x7, y0, y1, y2, 0)
<1>1. /\ x0 \in 0..1 /\ x1 \in 0..1 /\ x2 \in 0..1 /\ x3 \in 0..1 /\ x4 \in 0..1 /\ x5 \in 0..1 /\ x6 \in 0..1 /\ x7 \in 0..1
       /\ y0 \in 0..1 /\ y1 \in 0..1 /\ y2 \in 0..1 /\ y3 \in 0..1 /\ y4 \in 0..1 /\ y5 \in 0..1 /\ y6 \in 0..1 /\ y7 \in 0..1
  BY DEF IsBit
<1>2. PICK l \in Nat, m \in Nat : l = x0 + 2 * x1 + 4 * x2 + 8 * x3 /\ m = x4 + 2 * x5 + 4 * x6 + 8 * x7 BY <1>1
<1>3. l < 16 /\ m < 16 BY <1>1, <1>2
<1>4. PICK x \in Nat : x = Octet(x0, x1, x2, x3, x4, x5, x6, x7) BY <1>1 DEF Octet
<1>5. x = l + 16 * m BY <1>1, <1>2, <1>4 DEF Octet
<1>6. x \div 16 = m /\ m % 128 = m BY <1>3, <1>5
<1>7. PICK v \in Nat, z \in Nat : v = y0 + 2 * y1 + 4 * y2 /\ z = y3 + 2 * y4 + 4 * y5 + 8 * y6 + 16 * y7 BY <1>1
<1>8. v < 8 BY <1>1, <1>7
<1>9. PICK y \in Nat : y = Octet(y0, y1, y2, y3, y4, y5, y6, y7) BY <1>1 DEF Octet
<1>10. y = v + 8 * z BY <1>1, <1>7, <1>9 DEF Octet
<1>11. y * 16 = 16 * v + 128 * z /\ 16 * v < 128 BY <1>8, <1>10
<1>12. (y * 16) % 128 = 16 * v BY <1>11
<1>13. Septets2(x, y, 4) = ((x \div 16) % 128) + ((y * 16) % 128)
  <2>1. 2^4 = 16 /\ 2^(8 - 4) = 16 OBVIOUS
  <2> QED BY <2>1 DEF Septets2
<1>14. Octet(x4, x5, x6, x7, y0, y1, y2, 0) = m + 16 * v BY <1>1, <1>2, <1>7 DEF Octet
<1> QED BY <1>4, <1>6, <1>9, <1>12, <1>13, <1>14

LEMMA SeptetFrom5 ==
  ASSUME NEW x0, NEW x1, NEW x2, NEW x3, NEW x4, NEW x5, NEW x6, NEW x7,
         NEW y0, NEW y1, NEW y2, NEW y3, NEW y4, NEW y5, NEW y6, NEW y7,
         IsBit(x0), IsBit(x1), IsBit(x2), IsBit(x3), IsBit(x4), IsBit(x5), IsBit(x6), IsBit(x7),
         IsBit(y0), IsBit(y1), IsBit(y2), IsBit(y3), IsBit(y4), IsBit(y5), IsBit(y6), IsBit(y7)
  PROVE  Septets2(Octet(x0, x1, x2, x3, x4, x5, x6, x7),
                  Octet(y0, y1, y2, y3, y4, y5, y6, y7), 5) =
           Octet(x5, x6, x7, y0, y1, y2, y3, 0)
<1>1. /\ x0 \in 0..1 /\ x1 \in 0..1 /\ x2 \in 0..1 /\ x3 \in 0..1 /\ x4 \in 0..1 /\ x5 \in 0..1 /\ x6 \in 0..1 /\ x7 \in 0..1
       /\ y0 \in 0..1 /\ y1 \in 0..1 /\ y2 \in 0..1 /\ y3 \in 0..1 /\ y4 \in 0..1 /\ y5 \in 0..1 /\ y6 \in 0..1 /\ y7 \in 0..1
  BY DEF IsBit
<1>2. PICK l \in Nat, m \in Nat : l = x0 + 2 * x1 + 4 * x2 + 8 * x3 + 16 * x4 /\ m = x5 + 2 * x6 + 4 * x7 BY <1>1
<1>3. l < 32 /\ m < 8 BY <1>1, <1>2
<1>4. PICK x \in Nat : x = Octet(x0, x1, x2, x3, x4, x5, x6, x7) BY <1>1 DEF Octet
<1>5. x = l + 32 * m BY <1>1, <1>2, <1>4 DEF Octet
<1>6. x \div 32 = m /\ m % 128 = m BY <1>3, <1>5
<1>7. PICK v \in Nat, z \in Nat : v = y0 + 2 * y1 + 4 * y2 + 8 * y3 /\ z = y4 + 2 * y5 + 4 * y6 + 8 * y7 BY <1>1
<1>8. v < 16 BY <1>1, <1>7
<1>9. PICK y \in Nat : y = Octet(y0, y1, y2, y3, y4, y5, y6, y7) BY <1>1 DEF Octet
<1>10. y = v + 16 * z BY <1>1, <1>7, <1>9 DEF Octet
<1>11. y * 8 = 8 * v + 128 * z /\ 8 * v < 128 BY <1>8, <1>10
<1>12. (y * 8) % 128 = 8 * v BY <1>11
<1>13. Septets2(x, y, 5) = ((x \div 32) % 128) + ((y * 8) % 128)
  <2>1. 2^5 = 32 /\ 2^(8 - 5) = 8 OBVIOUS
  <2> QED BY <2>1 DEF Septets2
<1>14. Octet(x5, x6, x7, y0, y1, y2, y3, 0) = m + 8 * v BY <1>1, <1>2, <1>7 DEF Octet
<1> QED BY <1>4, <1>6, <1>9, <1>12, <1>13, <1>14

LEMMA SeptetFrom6 ==
  ASSUME NEW x0, NEW x1, NEW x2, NEW x3, NEW x4, NEW x5, NEW x6, NEW x7,
         NEW y0, NEW y1, NEW y2, NEW y3, NEW y4, NEW y5, NEW y6, NEW y7,
         IsBit(x0), IsBit(x1), IsBit(x2), IsBit(x3), IsBit(x4), IsBit(x5), IsBit(x6), IsBit(x7),
         IsBit(y0), IsBit(y1), IsBit(y2), IsBit(y3), IsBit(y4), IsBit(y5), IsBit(y6), IsBit(y7)
  PROVE  Septets2(Octet(x0, x1, x2, x3, x4, x5, x6, x7),
                  Octet(y0, y1, y2, y3, y4, y5, y6, y7), 6) =
           Octet(x6, x7, y0, y1, y2, y3, y4, 0)
<1>1. /\ x0 \in 0..1 /\ x1 \in 0..1 /\ x2 \in 0..1 /\ x3 \in 0..1 /\ x4 \in 0..1 /\ x5 \in 0..1 /\ x6 \in 0..1 /\ x7 \in 0..1
       /\ y0 \in 0..1 /\ y1 \in 0..1 /\ y2 \in 0..1 /\ y3 \in 0..1 /\ y4 \in 0..1 /\ y5 \in 0..1 /\ y6 \in 0..1 /\ y7 \in 0..1
  BY DEF IsBit
<1>2. PICK l \in Nat, m \in Nat : l = x0 + 2 * x1 + 4 * x2 + 8 * x3 + 16 * x4 + 32 * x5 /\ m = x6 + 2 * x7 BY <1>1
<1>3. l < 64 /\ m < 4 BY <1>1, <1>2
<1>4. PICK x \in Nat : x = Octet(x0, x1, x2, x3, x4, x5, x6, x7) BY <1>1 DEF Octet
<1>5. x = l + 64 * m BY <1>1, <1>2, <1>4 DEF Octet
<1>6. x \div 64 = m /\ m % 128 = m BY <1>3, <1>5
<1>7. PICK v \in Nat, z \in Nat : v = y0 + 2 * y1 + 4 * y2 + 8 * y3 + 16 * y4 /\ z = y5 + 2 * y6 + 4 * y7 BY <1>1
<1>8. v < 32 BY <1>1, <1>7
<1>9. PICK y \in Nat : y = Octet(y0, y1, y2, y3, y4, y5, y6, y7) BY <1>1 DEF Octet
<1>10. y = v + 32 * z BY <1>1, <1>7, <1>9 DEF Octet
<1>11. y * 4 = 4 * v + 128 * z /\ 4 * v < 128 BY <1>8, <1>10
<1>12. (y * 4) % 128 = 4 * v BY <1>11
<1>13. Septets2(x, y, 6) = ((x \div 64) % 128) + ((y * 4) % 128)
  <2>1. 2^6 = 64 /\ 2^(8 - 6) = 4 OBVIOUS
  <2> QED BY <2>1 DEF Septets2
<1>14. Octet(x6, x7, y0, y1, y2, y3, y4, 0) = m + 4 * v BY <1>1, <1>2, <1>7 DEF Octet
<1> QED BY <1>4, <1>6, <1>9, <1>12, <1>13, <1>14

LEMMA SeptetFrom7 ==
  ASSUME NEW x0, NEW x1, NEW x2, NEW x3, NEW x4, NEW x5, NEW x6, NEW x7,
         NEW y0, NEW y1, NEW y2, NEW y3, NEW y4, NEW y5, NEW y6, NEW y7,
         IsBit(x0), IsBit(x1), IsBit(x2), IsBit(x3), IsBit(x4), IsBit(x5), IsBit(x6), IsBit(x7),
         IsBit(y0), IsBit(y1), IsBit(y2), IsBit(y3), IsBit(y4), IsBit(y5), IsBit(y6), IsBit(y7)
  PROVE  Septets2(Octet(x0, x1, x2, x3, x4, x5, x6, x7),
                  Octet(y0, y1, y2, y3, y4, y5, y6, y7), 7) =
           Octet(x7, y0, y1, y2, y3, y4, y5, 0)
<1>1. /\ x0 \in 0..1 /\ x1 \in 0..1 /\ x2 \in 0..1 /\ x3 \in 0..1 /\ x4 \in 0..1 /\ x5 \in 0..1 /\ x6 \in 0..1 /\ x7 \in 0..1
       /\ y0 \in 0..1 /\ y1 \in 0..1 /\ y2 \in 0..1 /\ y3 \in 0..1 /\ y4 \in 0..1 /\ y5 \in 0..1 /\ y6 \in 0..1 /\ y7 \in 0..1
  BY DEF IsBit
<1>2. PICK l \in Nat, m \in Nat : l = x0 + 2 * x1 + 4 * x2 + 8 * x3 + 16 * x4 + 32 * x5 + 64 * x6 /\ m = x7 BY <1>1
<1>3. l < 128 /\ m < 2 BY <1>1, <1>2
<1>4. PICK x \in Nat : x = Octet(x0, x1, x2, x3, x4, x5, x6, x7) BY <1>1 DEF Octet
<1>5. x = l + 128 * m BY <1>1, <1>2, <1>4 DEF Octet
<1>6. x \div 128 = m /\ m % 128 = m BY <1>3, <1>5
<1>7. PICK v \in Nat, z \in Nat : v = y0 + 2 * y1 + 4 * y2 + 8 * y3 + 16 * y4 + 32 * y5 /\ z = y6 + 2 * y7 BY <1>1
<1>8. v < 64 BY <1>1, <1>7
<1>9. PICK y \in Nat : y = Octet(y0, y1, y2, y3, y4, y5, y6, y7) BY <1>1 DEF Octet
<1>10. y = v + 64 * z BY <1>1, <1>7, <1>9 DEF Octet
<1>11. y * 2 = 2 * v + 128 * z /\ 2 * v < 128 BY <1>8, <1>10
<1>12. (y * 2) % 128 = 2 * v BY <1>11
<1>13. Septets2(x, y, 7) = ((x \div 128) % 128) + ((y * 2) % 128)
  <2>1. 2^7 = 128 /\ 2^(8 - 7) = 2 OBVIOUS
  <2> QED BY <2>1 DEF Septets2
<1>14. Octet(x7, y0, y1, y2, y3, y4, y5, 0) = m + 2 * v BY <1>1, <1>2, <1>7 DEF Octet
<1> QED BY <1>4, <1>6, <1>9, <1>12, <1>13, <1>14

\* The seven bits from c on of what is packed.
SeptetBits(head, text, c) ==
  Octet(PackedBit(head, text, c), PackedBit(head, text, c + 1), PackedBit(head, text, c + 2),
        PackedBit(head, text, c + 3), PackedBit(head, text, c + 4), PackedBit(head, text, c + 5),
        PackedBit(head, text, c + 6), 0)

\* Read from two packed bytes, a septet is the seven bits from its first one on.
LEMMA TwoPacked ==
  ASSUME NEW head \in Seq(Nat), NEW text \in Seq(Septet), NEW m \in Nat, NEW b \in 0..7
  PROVE  Septets2(PackedByte(head, text, m), PackedByte(head, text, m + 1), b)
           = SeptetBits(head, text, 8 * m + b)
<1>1. PICK x0, x1, x2, x3, x4, x5, x6, x7 :
         /\ x0 = PackedBit(head, text, 8 * m) /\ x1 = PackedBit(head, text, 8 * m + 1)
         /\ x2 = PackedBit(head, text, 8 * m + 2) /\ x3 = PackedBit(head, text, 8 * m + 3)
         /\ x4 = PackedBit(head, text, 8 * m + 4) /\ x5 = PackedBit(head, text, 8 * m + 5)
         /\ x6 = PackedBit(head, text, 8 * m + 6) /\ x7 = PackedBit(head, text, 8 * m + 7)
  OBVIOUS
<1>2. PICK y0, y1, y2, y3, y4, y5, y6, y7 :
         /\ y0 = PackedBit(head, text, 8 * m + 8) /\ y1 = PackedBit(head, text, 8 * m + 9)
         /\ y2 = PackedBit(head, text, 8 * m + 10) /\ y3 = PackedBit(head, text, 8 * m + 11)
         /\ y4 = PackedBit(head, text, 8 * m + 12) /\ y5 = PackedBit(head, text, 8 * m + 13)
         /\ y6 = PackedBit(head, text, 8 * m + 14) /\ y7 = PackedBit(head, text, 8 * m + 15)
  OBVIOUS
<1>3. /\ IsBit(x0) /\ IsBit(x1) /\ IsBit(x2) /\ IsBit(x3) /\ IsBit(x4) /\ IsBit(x5) /\ IsBit(x6) /\ IsBit(x7)
      /\ IsBit(y0) /\ IsBit(y1) /\ IsBit(y2) /\ IsBit(y3) /\ IsBit(y4) /\ IsBit(y5) /\ IsBit(y6) /\ IsBit(y7)
  <2>1. \A c \in Nat : IsBit(PackedBit(head, text, c)) BY PackedByteOctet
  <2>2. \A i \in Nat : 8 * m + i \in Nat /\ 8 * m \in Nat OBVIOUS
  <2> QED BY <1>1, <1>2, <2>1, <2>2
<1>4. PackedByte(head, text, m) = Octet(x0, x1, x2, x3, x4, x5, x6, x7)
  BY <1>1, PackedByteOctet
<1>5. PackedByte(head, text, m + 1) = Octet(y0, y1, y2, y3, y4, y5, y6, y7)
  <2>1. m + 1 \in Nat /\ 8 * (m + 1) = 8 * m + 8 OBVIOUS
  <2>2. /\ 8 * m + 8 + 1 = 8 * m + 9
        /\ 8 * m + 8 + 2 = 8 * m + 10
        /\ 8 * m + 8 + 3 = 8 * m + 11
        /\ 8 * m + 8 + 4 = 8 * m + 12
        /\ 8 * m + 8 + 5 = 8 * m + 13
        /\ 8 * m + 8 + 6 = 8 * m + 14
        /\ 8 * m + 8 + 7 = 8 * m + 15
    OBVIOUS
  <2> QED BY <1>2, <2>1, <2>2, PackedByteOctet
<1>6. CASE b = 0
  <2>1. SeptetBits(head, text, 8 * m + 0) = Octet(x0, x1, x2, x3, x4, x5, x6, 0)
    <3>1. 8 * m + 0 = 8 * m OBVIOUS
    <3> QED BY <1>1, <1>2, <3>1 DEF SeptetBits
  <2>2. Septets2(Octet(x0, x1, x2, x3, x4, x5, x6, x7), Octet(y0, y1, y2, y3, y4, y5, y6, y7), 0) = Octet(x0, x1, x2, x3, x4, x5, x6, 0)
    BY <1>3, SeptetFrom0
  <2> QED BY <1>6, <1>4, <1>5, <2>1, <2>2
<1>7. CASE b = 1
  <2>1. SeptetBits(head, text, 8 * m + 1) = Octet(x1, x2, x3, x4, x5, x6, x7, 0)
    <3>1. /\ 8 * m + 1 + 1 = 8 * m + 2
          /\ 8 * m + 1 + 2 = 8 * m + 3
          /\ 8 * m + 1 + 3 = 8 * m + 4
          /\ 8 * m + 1 + 4 = 8 * m + 5
          /\ 8 * m + 1 + 5 = 8 * m + 6
          /\ 8 * m + 1 + 6 = 8 * m + 7
      OBVIOUS
    <3> QED BY <1>1, <1>2, <3>1 DEF SeptetBits
  <2>2. Septets2(Octet(x0, x1, x2, x3, x4, x5, x6, x7), Octet(y0, y1, y2, y3, y4, y5, y6, y7), 1) = Octet(x1, x2, x3, x4, x5, x6, x7, 0)
    BY <1>3, SeptetFrom1
  <2> QED BY <1>7, <1>4, <1>5, <2>1, <2>2
<1>8. CASE b = 2
  <2>1. SeptetBits(head, text, 8 * m + 2) = Octet(x2, x3, x4, x5, x6, x7, y0, 0)
    <3>1. /\ 8 * m + 2 + 1 = 8 * m + 3
          /\ 8 * m + 2 + 2 = 8 * m + 4
          /\ 8 * m + 2 + 3 = 8 * m + 5
          /\ 8 * m + 2 + 4 = 8 * m + 6
          /\ 8 * m + 2 + 5 = 8 * m + 7
          /\ 8 * m + 2 + 6 = 8 * m + 8
      OBVIOUS
    <3> QED BY <1>1, <1>2, <3>1 DEF SeptetBits
  <2>2. Septets2(Octet(x0, x1, x2, x3, x4, x5, x6, x7), Octet(y0, y1, y2, y3, y4, y5, y6, y7), 2) = Octet(x2, x3, x4, x5, x6, x7, y0, 0)
    BY <1>3, SeptetFrom2
  <2> QED BY <1>8, <1>4, <1>5, <2>1, <2>2
<1>9. CASE b = 3
  <2>1. SeptetBits(head, text, 8 * m + 3) = Octet(x3, x4, x5, x6, x7, y0, y1, 0)
    <3>1. /\ 8 * m + 3 + 1 = 8 * m + 4
          /\ 8 * m + 3 + 2 = 8 * m + 5
          /\ 8 * m + 3 + 3 = 8 * m + 6
          /\ 8 * m + 3 + 4 = 8 * m + 7
          /\ 8 * m + 3 + 5 = 8 * m + 8
          /\ 8 * m + 3 + 6 = 8 * m + 9
      OBVIOUS
    <3> QED BY <1>1, <1>2, <3>1 DEF SeptetBits
  <2>2. Septets2(Octet(x0, x1, x2, x3, x4, x5, x6, x7), Octet(y0, y1, y2, y3, y4, y5, y6, y7), 3) = Octet(x3, x4, x5, x6, x7, y0, y1, 0)
    BY <1>3, SeptetFrom3
  <2> QED BY <1>9, <1>4, <1>5, <2>1, <2>2
<1>10. CASE b = 4
  <2>1. SeptetBits(head, text, 8 * m + 4) = Octet(x4, x5, x6, x7, y0, y1, y2, 0)
    <3>1. /\ 8 * m + 4 + 1 = 8 * m + 5
          /\ 8 * m + 4 + 2 = 8 * m + 6
          /\ 8 * m + 4 + 3 = 8 * m + 7
          /\ 8 * m + 4 + 4 = 8 * m + 8
          /\ 8 * m + 4 + 5 = 8 * m + 9
          /\ 8 * m + 4 + 6 = 8 * m + 10
      OBVIOUS
    <3> QED BY <1>1, <1>2, <3>1 DEF SeptetBits
  <2>2. Septets2(Octet(x0, x1, x2, x3, x4, x5, x6, x7), Octet(y0, y1, y2, y3, y4, y5, y6, y7), 4) = Octet(x4, x5, x6, x7, y0, y1, y2, 0)
    BY <1>3, SeptetFrom4
  <2> QED BY <1>10, <1>4, <1>5, <2>1, <2>2
<1>11. CASE b = 5
  <2>1. SeptetBits(head, text, 8 * m + 5) = Octet(x5, x6, x7, y0, y1, y2, y3, 0)
    <3>1. /\ 8 * m + 5 + 1 = 8 * m + 6
          /\ 8 * m + 5 + 2 = 8 * m + 7
          /\ 8 * m + 5 + 3 = 8 * m + 8
          /\ 8 * m + 5 + 4 = 8 * m + 9
          /\ 8 * m + 5 + 5 = 8 * m + 10
          /\ 8 * m + 5 + 6 = 8 * m + 11
      OBVIOUS
    <3> QED BY <1>1, <1>2, <3>1 DEF SeptetBits
  <2>2. Septets2(Octet(x0, x1, x2, x3, x4, x5, x6, x7), Octet(y0, y1, y2, y3, y4, y5, y6, y7), 5) = Octet(x5, x6, x7, y0, y1, y2, y3, 0)
    BY <1>3, SeptetFrom5
  <2> QED BY <1>11, <1>4, <1>5, <2>1, <2>2
<1>12. CASE b = 6
  <2>1. SeptetBits(head, text, 8 * m + 6) = Octet(x6, x7, y0, y1, y2, y3, y4, 0)
    <3>1. /\ 8 * m + 6 + 1 = 8 * m + 7
          /\ 8 * m + 6 + 2 = 8 * m + 8
          /\ 8 * m + 6 + 3 = 8 * m + 9
          /\ 8 * m + 6 + 4 = 8 * m + 10
          /\ 8 * m + 6 + 5 = 8 * m + 11
          /\ 8 * m + 6 + 6 = 8 * m + 12
      OBVIOUS
    <3> QED BY <1>1, <1>2, <3>1 DEF SeptetBits
  <2>2. Septets2(Octet(x0, x1, x2, x3, x4, x5, x6, x7), Octet(y0, y1, y2, y3, y4, y5, y6, y7), 6) = Octet(x6, x7, y0, y1, y2, y3, y4, 0)
    BY <1>3, SeptetFrom6
  <2> QED BY <1>12, <1>4, <1>5, <2>1, <2>2
<1>13. CASE b = 7
  <2>1. SeptetBits(head, text, 8 * m + 7) = Octet(x7, y0, y1, y2, y3, y4, y5, 0)
    <3>1. /\ 8 * m + 7 + 1 = 8 * m + 8
          /\ 8 * m + 7 + 2 = 8 * m + 9
          /\ 8 * m + 7 + 3 = 8 * m + 10
          /\ 8 * m + 7 + 4 = 8 * m + 11
          /\ 8 * m + 7 + 5 = 8 * m + 12
          /\ 8 * m + 7 + 6 = 8 * m + 13
      OBVIOUS
    <3> QED BY <1>1, <1>2, <3>1 DEF SeptetBits
  <2>2. Septets2(Octet(x0, x1, x2, x3, x4, x5, x6, x7), Octet(y0, y1, y2, y3, y4, y5, y6, y7), 7) = Octet(x7, y0, y1, y2, y3, y4, y5, 0)
    BY <1>3, SeptetFrom7
  <2> QED BY <1>13, <1>4, <1>5, <2>1, <2>2
<1>14. b = 0 \/ b = 1 \/ b = 2 \/ b = 3 \/ b = 4 \/ b = 5 \/ b = 6 \/ b = 7 OBVIOUS
<1> QED BY <1>6, <1>7, <1>8, <1>9, <1>10, <1>11, <1>12, <1>13, <1>14

\* A septet stands where its bits do.
LEMMA SeptetBitsAre ==
  ASSUME NEW head \in Seq(Nat), NEW text \in Seq(Septet), NEW k \in 1..Len(text)
  PROVE  SeptetBits(head, text, 7 * (FirstSeptet(head) + k - 1)) = text[k]
<1>1. PICK c : c = 7 * (FirstSeptet(head) + k - 1) OBVIOUS
<1>2. PICK x \in Nat : x = text[k] /\ x <= 127
  <2>1. text[k] \in Septet BY ElementIn
  <2> QED BY <2>1, IsSeptet
<1>3. \A e \in 0..6 : PackedBit(head, text, c + e) = BitOf(x, e) BY <1>1, <1>2, TextBit
<1>4. 0 \in 0..6 /\ 1 \in 0..6 /\ 2 \in 0..6 /\ 3 \in 0..6 /\ 4 \in 0..6 /\ 5 \in 0..6 /\ 6 \in 0..6
  OBVIOUS
<1>5. c + 0 = c
  <2>1. FirstSeptet(head) \in Nat
    <3>1. PICK l \in Nat : l = Len(head) OBVIOUS
    <3>2. (8 * l + 6) \div 7 \in Nat OBVIOUS
    <3> QED BY <3>1, <3>2 DEF FirstSeptet
  <2> QED BY <1>1, <2>1
<1>6. SeptetBits(head, text, c) =
        Octet(BitOf(x, 0), BitOf(x, 1), BitOf(x, 2), BitOf(x, 3), BitOf(x, 4), BitOf(x, 5),
              BitOf(x, 6), 0)
  BY <1>3, <1>4, <1>5 DEF SeptetBits
<1> QED BY <1>1, <1>2, <1>6, SeptetOfBits

\* The decoder reads at most two bytes a septet, and the second only if it must.
LEMMA SeptetOfTwo ==
  /\ \A d, m, b : SeptetAt(d, m, b) = Septets2(At(d, m), At(d, m + 1), b)
  /\ \A x, y, z, b : ~(b > 1) => Septets2(x, y, b) = Septets2(x, z, b)
<1>1. ASSUME NEW d, NEW m, NEW b
      PROVE  SeptetAt(d, m, b) = Septets2(At(d, m), At(d, m + 1), b)
  BY DEF SeptetAt, Septets2
<1>2. ASSUME NEW x, NEW y, NEW z, NEW b, ~(b > 1) PROVE Septets2(x, y, b) = Septets2(x, z, b)
  BY <1>2 DEF Septets2
<1> QED BY <1>1, <1>2

\* Where the septet k begins: a byte and a bit of it.
LEMMA SeptetPlace ==
  ASSUME NEW l \in Nat, NEW f \in Nat, 7 * f = 8 * l, NEW n \in Nat, NEW k \in 1..n,
         NEW m, m = l + ((7 * (k - 1)) \div 8), NEW b, b = (7 * (k - 1)) % 8,
         NEW t, t = (7 * (f + n) + 7) \div 8
  PROVE  /\ m \in Nat /\ b \in 0..7 /\ 8 * m + b = 7 * (f + k - 1)
         /\ m + 1 <= t /\ (b > 1 => m + 2 <= t)
<1>1. PICK j \in Nat : j = k - 1 /\ j + 1 <= n OBVIOUS
<1>2. PICK q \in Nat : q = (7 * j) \div 8 OBVIOUS
<1>3. b = (7 * j) % 8 /\ m = l + q BY <1>1, <1>2
<1>4. b \in 0..7 /\ 8 * q + b = 7 * j BY <1>2, <1>3
<1>5. m \in Nat /\ 8 * m + b = 8 * l + 7 * j BY <1>3, <1>4
<1>6. 7 * (f + k - 1) = 8 * l + 7 * j BY <1>1
<1>7. PICK e \in Nat : e = 7 * (f + n) /\ 8 * m + b + 7 <= e BY <1>1, <1>5
<1>8. t = (e + 7) \div 8 BY <1>7
<1>9. 8 * (m + 1) <= e + 7 BY <1>4, <1>5, <1>7
<1>10. m + 1 <= t BY <1>5, <1>7, <1>8, <1>9
<1>11. ASSUME b > 1 PROVE m + 2 <= t
  <2>1. 8 * (m + 2) <= e + 7 BY <1>4, <1>5, <1>7, <1>11
  <2> QED BY <1>5, <1>7, <1>8, <2>1
<1> QED BY <1>4, <1>5, <1>6, <1>10, <1>11

\* A plain text of GSM has one septet a character.
LEMMA PackedPlain ==
  ASSUME NEW s, Deliverable(s), Alphabet(s.dcs) = 0, Plain(s)
  PROVE  /\ SeptetsOf(s) = s.text /\ s.text \in Seq(Letter) /\ Written(s) = s.text
         /\ (8 * Len(HeaderBytes(s))) % 7 = 0
<1>1. Alphabet(s.dcs) # 2 /\ Alphabet(s.dcs) # 1 OBVIOUS
<1>2. PICK t \in Seq(GsmCharacters) : t = s.text
  <2>1. Characters(Alphabet(s.dcs)) = GsmCharacters BY <1>1 DEF Characters
  <2> QED BY <2>1 DEF Deliverable
<1>3. PICK n \in Nat : n = Len(t) /\ DOMAIN t = 1..n OBVIOUS
<1>4. /\ \A i \in 1..n : Septets(t[i]) = <<t[i]>>
      /\ (8 * Len(HeaderBytes(s))) % 7 = 0
  BY <1>1, <1>2, <1>3 DEF Plain
<1>5. \A c \in GsmCharacters : c \in Nat /\ c # 0
  <2>1. \A c \in SameCode : c \in Nat /\ c # 0 BY DEF SameCode
  <2> QED BY <2>1 DEF GsmCharacters
<1>6. t \in Seq(Letter)
  <2>1. ASSUME NEW i \in 1..n PROVE t[i] \in Letter
    <3>1. t[i] \in GsmCharacters BY <1>3, ElementIn
    <3> QED BY <1>5, <3>1 DEF Letter
  <2>2. t = [i \in 1..n |-> t[i]] BY <1>3
  <2>3. t \in [1..n -> Letter] BY <2>1, <2>2
  <2> QED BY <2>3, FunctionSeq
<1>7. SeptetsOf(s) = t
  <2>1. PICK q : q = [i \in DOMAIN t |-> Septets(t[i])] OBVIOUS
  <2>2. q = [i \in 1..Len(t) |-> <<t[i]>>] BY <1>3, <1>4, <2>1
  <2>3. Joined(q) = t BY <2>2, JoinedSingles
  <2> QED BY <1>2, <2>1, <2>3 DEF SeptetsOf
<1>8. t \in Seq(Septet) BY <1>1, <1>7, PackedLayout
<1>9. Written(s) = t
  <2>1. \A i \in 1..n : Utf8(t[i]) = <<t[i]>>
    <3> SUFFICES ASSUME NEW i \in 1..n PROVE Utf8(t[i]) = <<t[i]>> OBVIOUS
    <3>1. t[i] \in Septet BY <1>3, <1>8, ElementIn
    <3>2. t[i] \in Nat /\ t[i] <= 127 BY <3>1, IsSeptet
    <3>3. t[i] < 128 BY <3>2
    <3> QED BY <3>2, <3>3, Ascii
  <2>2. PICK q : q = [i \in DOMAIN t |-> Utf8(t[i])] OBVIOUS
  <2>3. q = [i \in 1..Len(t) |-> <<t[i]>>] BY <1>3, <2>1, <2>2
  <2>4. Joined(q) = t BY <2>3, JoinedSingles
  <2> QED BY <1>2, <2>2, <2>4 DEF Written
<1> QED BY <1>2, <1>4, <1>6, <1>7, <1>9

\* A plain text of the default alphabet is decoded to what was written.
LEMMA PackedDecoded ==
  ASSUME NEW s, Deliverable(s), Alphabet(s.dcs) = 0, Plain(s)
  PROVE  TextOf(s) = Written(s)
<1>1. Alphabet(s.dcs) # 2 /\ Alphabet(s.dcs) # 1 OBVIOUS
<1>2. PICK text \in Seq(Septet) : text = SeptetsOf(s) BY <1>1, PackedLayout
<1>3. text \in Seq(Letter) /\ Written(s) = text /\ (8 * Len(HeaderBytes(s))) % 7 = 0
  BY <1>2, PackedPlain
<1>4. PICK head \in Seq(Nat) : head = HeaderBytes(s) BY HeadOf
<1>5. PICK l \in Nat, n \in Nat : l = Len(head) /\ n = Len(text) /\ DOMAIN text = 1..n OBVIOUS
<1>6. PICK f \in Nat : f = FirstSeptet(head) /\ f = (8 * l + 6) \div 7 /\ 7 * f = 8 * l
  <2>1. (8 * l) % 7 = 0 BY <1>3, <1>4, <1>5
  <2>2. PICK f : f = (8 * l + 6) \div 7 OBVIOUS
  <2>3. f \in Nat /\ 7 * f = 8 * l BY <2>1, <2>2
  <2> QED BY <1>5, <2>2, <2>3 DEF FirstSeptet
<1>7. PICK t \in Nat : t = (7 * (f + n) + 7) \div 8
  <2>1. (7 * (f + n) + 7) \div 8 \in Nat OBVIOUS
  <2> QED BY <2>1
<1>8. PICK d : d = Rest(s) OBVIOUS
<1>9. /\ UserData(s)[1] = f + n /\ Len(UserData(s)) = Len(Septets7(s)) + 1
      /\ StandsAt(UserData(s), 1, Septets7(s))
  BY <1>1, <1>2, <1>4, <1>5, <1>6, PackedLayout
<1>10. Septets7(s) = [m \in 1..t |-> PackedByte(head, text, m - 1)]
  BY <1>2, <1>4, <1>5, <1>6, <1>7 DEF Septets7
<1>11. Len(Septets7(s)) = t BY <1>10
<1>12. ASSUME NEW m \in Nat, m + 1 <= t PROVE At(d, m) = PackedByte(head, text, m)
  <2>1. PICK j : j = m + 1 OBVIOUS
  <2>2. j \in 1..t /\ j - 1 = m /\ 1 + j = m + 2 /\ m + 2 <= t + 1 BY <1>12, <2>1
  <2>3. At(d, m) = UserData(s)[1 + j] BY <1>8, <1>9, <1>11, <2>2, RestAt
  <2>4. UserData(s)[1 + j] = Septets7(s)[j] BY <1>9, <1>11, <2>2 DEF StandsAt
  <2>5. Septets7(s)[j] = PackedByte(head, text, m) BY <1>10, <2>2
  <2> QED BY <2>3, <2>4, <2>5
<1>13. ASSUME NEW k \in 1..n
       PROVE  SeptetAt(d, l + ((7 * (k - 1)) \div 8), (7 * (k - 1)) % 8) = text[k]
  <2>1. PICK m, b : m = l + ((7 * (k - 1)) \div 8) /\ b = (7 * (k - 1)) % 8 OBVIOUS
  <2>2. /\ m \in Nat /\ b \in 0..7 /\ 8 * m + b = 7 * (f + k - 1)
        /\ m + 1 <= t /\ (b > 1 => m + 2 <= t)
    BY <1>6, <1>7, <2>1, SeptetPlace
  <2>3. PICK x, y : x = PackedByte(head, text, m) /\ y = PackedByte(head, text, m + 1) OBVIOUS
  <2>4. At(d, m) = x BY <1>12, <2>2, <2>3
  <2>5. ASSUME b > 1 PROVE At(d, m + 1) = y
    <3>1. PICK o : o = m + 1 OBVIOUS
    <3>2. o \in Nat /\ o + 1 <= t BY <1>7, <2>2, <2>5, <3>1
    <3>3. At(d, o) = PackedByte(head, text, o) BY <1>12, <3>2
    <3> QED BY <2>3, <3>1, <3>3
  <2>6. SeptetAt(d, m, b) = Septets2(x, y, b)
    <3>1. SeptetAt(d, m, b) = Septets2(x, At(d, m + 1), b) BY <2>4, SeptetOfTwo
    <3>2. CASE b > 1 BY <2>5, <3>1, <3>2
    <3>3. CASE ~(b > 1)
      <4>1. Septets2(x, At(d, m + 1), b) = Septets2(x, y, b) BY <3>3, SeptetOfTwo
      <4> QED BY <3>1, <4>1
    <3> QED BY <3>2, <3>3
  <2>7. Septets2(x, y, b) = SeptetBits(head, text, 8 * m + b) BY <2>2, <2>3, TwoPacked, ZenonT(40)
  <2>8. SeptetBits(head, text, 7 * (f + k - 1)) = text[k] BY <1>5, <1>6, SeptetBitsAre
  <2> QED BY <2>1, <2>2, <2>6, <2>7, <2>8
<1>14. Encoding(s.dcs) = "7bit" BY <1>1 DEF Encoding, Alphabet
<1>15. UserText(Encoding(s.dcs), s.elements # <<>>, UserData(s)[1], d) = text
  <2>1. PICK o : o = (IF s.elements # <<>> THEN At(d, 0) + 1 ELSE 0) OBVIOUS
  <2>2. o = l BY <1>4, <1>5, <1>8, <2>1, TextStart
  <2>3. UserText("7bit", s.elements # <<>>, UserData(s)[1], d) =
          Gsm7(d, o, UserData(s)[1] - ((o * 8) + 6) \div 7)
    BY <2>1 DEF UserText
  <2>4. (f + n) - ((l * 8) + 6) \div 7 = n
    <3>1. l * 8 = 8 * l OBVIOUS
    <3>2. (f + n) - f = n OBVIOUS
    <3> QED BY <1>6, <3>1, <3>2
  <2>5. Gsm7(d, l, n) = [k \in 1..n |-> text[k]] BY <1>13 DEF Gsm7
  <2>6. text = [k \in 1..n |-> text[k]] BY <1>5
  <2> QED BY <1>9, <1>14, <2>2, <2>3, <2>4, <2>5, <2>6
<1>16. d = <<>> => text = <<>>
  <2>1. SUFFICES ASSUME d = <<>> PROVE text = <<>> OBVIOUS
  <2>2. Len(d) = 0 BY <2>1
  <2>3. Len(d) = t
    <3>1. Len(d) = (t + 1) - 1 BY <1>8, <1>9, <1>11, RestSeq
    <3> QED BY <3>1
  <2>4. n = 0
    <3>1. (7 * (f + n) + 7) \div 8 = 0 BY <1>7, <2>2, <2>3
    <3> QED BY <3>1
  <2> QED BY <1>5, <2>4, Nothing
<1> QED BY <1>3, <1>8, <1>15, <1>16, TextOfIs

\* PlainTextDecoded, for any deliverable SMS: a text of UCS2 without surrogates,
\* of ASCII bytes, or of septets no bits are filled in before, is given back.
THEOREM PlainTextDecodedAlways == Spec => []PlainTextDecoded
<1>1. Decoded => PlainTextDecoded
  <2> SUFFICES ASSUME Decoded, Whole, Plain(sms) PROVE out.text = Written(sms)
    BY DEF PlainTextDecoded
  <2>1. out # Failed
    <3>1. ~Failed.ok BY DEF Failed
    <3> QED BY <3>1 DEF Whole
  <2>2. out = PduDecode(Line(sms)) /\ Deliverable(sms) /\ sms.lost = 0
    BY <2>1, SmsAssumption DEF Decoded, Whole
  <2>3. PduDecode(Line(sms)) = [ok |-> TRUE, sender |-> SenderOf(sms), time |-> TimeOf(sms),
                                header |-> HeaderOf(sms), text |-> TextOf(sms)]
    BY <2>2, Room, PduDecoded
  <2>4. Alphabet(sms.dcs) \in 0..2 BY <2>2 DEF Deliverable
  <2>5. CASE Alphabet(sms.dcs) = 0 BY <2>2, <2>3, <2>5, PackedDecoded
  <2>6. CASE Alphabet(sms.dcs) = 1 BY <2>2, <2>3, <2>6, Room, DataDecoded
  <2>7. CASE Alphabet(sms.dcs) = 2 BY <2>2, <2>3, <2>7, WideDecoded
  <2> QED BY <2>4, <2>5, <2>6, <2>7
<1> QED BY <1>1, DecodedInv, PTL
=============================================================================

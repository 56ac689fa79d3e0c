------------------------- MODULE UrcRegistry_proofs -------------------------
(***************************************************************************)
(* Proofs about the table of URC handlers, for every number of handlers,   *)
(* pings and entries.  The invariant TableInv describes the table alone:   *)
(* compact, without duplicates, every live ping in it and no other.  Its   *)
(* actions leave a table untouched while a dispatch walks it, which is the *)
(* conjunct Walk; DispatchComplete follows from the two.                   *)
(***************************************************************************)
EXTENDS UrcRegistry, TLAPS

States == {"idle", "command", "wait", "leave"}

\* A ping's handler and its context: no entry stands twice.
Distinct == \A i, j \in Index : table[i] = table[j] /\ table[i] # None => i = j

\* Only calls that last have an entry.
LiveOnly == \A i \in Index : table[i] \in Pings => ppc[table[i]] # "idle"

\* Every handler of the boot and every call that lasts has one.
Listed ==
  /\ \A h \in Fixed : \E i \in Index : table[i] = h
  /\ \A p \in Pings : ppc[p] # "idle" => \E i \in Index : table[i] = p

\* The dispatch has called the entries in front of its position.
Walk ==
  pos # 0 => /\ \A i \in Index : i < pos => table[i] # None /\ table[i] \in called
             /\ \A h \in called : \E i \in Index : i < pos /\ table[i] = h

TableInv == Compact /\ Distinct /\ LiveOnly /\ Listed
Inv == TypeOK /\ TableInv /\ Walk

-----------------------------------------------------------------------------

LEMMA Bounds ==
  /\ MaxHandlers \in Nat /\ MaxHandlers >= 1
  /\ Needed \in Nat /\ Needed >= 1 /\ MaxCount \in Nat /\ Needed <= MaxCount
  /\ None \notin Fixed /\ None \notin Pings
  /\ \A h \in Fixed : h \notin Pings
BY ConstantsAssumption

\* A table without duplicates holds a handler at the place Found names.
LEMMA FoundThere ==
  ASSUME Distinct, NEW h, h # None, NEW k \in Index, table[k] = h
  PROVE  Found(h) = k
<1>0. MaxHandlers \in Nat
  BY Bounds
<1>1. IsFirst(k, h)
  BY <1>0 DEF IsFirst, Distinct, Index
<1>2. \A i \in Index : IsFirst(i, h) => i = k
  BY DEF IsFirst, Distinct
<1> QED
  BY <1>1, <1>2 DEF Found

\* What removing entry k does to the others.
LEMMA RemovedEntries ==
  ASSUME NEW k \in Index
  PROVE  /\ \A i \in Index : i < k => Removed(k)[i] = table[i]
         /\ \A i \in Index : i >= k /\ i < MaxHandlers => i + 1 \in Index /\ Removed(k)[i] = table[i + 1]
         /\ Removed(k)[MaxHandlers] = None
         /\ \A j \in Index : j < k => Removed(k)[j] = table[j]
         /\ \A j \in Index : j > k => j - 1 \in Index /\ Removed(k)[j - 1] = table[j]
BY Bounds DEF Index, Removed

LEMMA RemovedType ==
  ASSUME TypeOK, NEW k \in Index
  PROVE  Removed(k) \in [Index -> Fixed \cup Pings \cup {None}]
<1>1. SUFFICES ASSUME NEW i \in Index
               PROVE  (IF i < k THEN table[i] ELSE IF i = MaxHandlers THEN None ELSE table[i + 1])
                        \in Fixed \cup Pings \cup {None}
  BY DEF Removed
<1>2. CASE i = MaxHandlers \/ i < k
  BY <1>2 DEF TypeOK
<1>3. CASE i # MaxHandlers /\ ~(i < k)
  <2>1. i + 1 \in Index
    BY <1>3, Bounds DEF Index
  <2> QED
    BY <1>3, <2>1 DEF TypeOK
<1> QED
  BY <1>2, <1>3

\* Every entry of the shortened table was an entry other than the k-th.
LEMMA RemovedFrom ==
  ASSUME NEW k \in Index, NEW i \in Index, Removed(k)[i] # None
  PROVE  /\ i < k => Removed(k)[i] = table[i]
         /\ i >= k => i + 1 \in Index /\ Removed(k)[i] = table[i + 1]
<1>1. k \in Nat /\ i \in Nat /\ i <= MaxHandlers
  BY Bounds DEF Index
<1> QED
  BY <1>1, RemovedEntries, Bounds DEF Index

\* Every other entry is still there.
LEMMA RemovedKeeps ==
  ASSUME NEW k \in Index, NEW j \in Index, j # k
  PROVE  \E i \in Index : Removed(k)[i] = table[j]
<1>1. k \in Nat /\ j \in Nat
  BY Bounds DEF Index
<1>2. CASE j < k
  BY <1>2, RemovedEntries
<1>3. CASE j > k
  BY <1>3, RemovedEntries
<1> QED
  BY <1>1, <1>2, <1>3

-----------------------------------------------------------------------------

LEMMA InitInv == Init => Inv
<1> SUFFICES ASSUME Init PROVE Inv
  OBVIOUS
<1> USE DEF Init
<1>0. 0 \in 0..MaxCount /\ 0 \in 0..Needed /\ 0 \in 0..(MaxHandlers + 1)
  BY Bounds
<1>1. TypeOK
  <2>1. table \in [Index -> Fixed \cup Pings \cup {None}]
    OBVIOUS
  <2>2. ppc \in [Pings -> States] /\ count \in [Pings -> 0..MaxCount] /\ own \in [Pings -> Nat]
    BY <1>0 DEF States
  <2> QED
    BY <1>0, <2>1, <2>2 DEF TypeOK, States
<1>2. Compact
  BY DEF Compact
<1>3. Distinct
  BY Bounds DEF Distinct, Index
<1>4. LiveOnly
  BY Bounds DEF LiveOnly
<1>5. Listed
  BY DEF Listed, Handlers
<1>6. Walk
  BY DEF Walk
<1> QED
  BY <1>1, <1>2, <1>3, <1>4, <1>5, <1>6 DEF Inv, TableInv

LEMMA TypeStep == TypeOK /\ TableInv /\ [Next]_vars => TypeOK'
<1> SUFFICES ASSUME TypeOK, TableInv, [Next]_vars PROVE TypeOK'
  OBVIOUS
<1> USE DEF TypeOK, vars, dispatchVars, pingVars, modemVars
<1>1. ASSUME NEW p \in Pings, Register(p) PROVE TypeOK'
  <2>1. 0 \in 0..MaxCount
    BY Bounds
  <2> QED
    BY <1>1, <2>1 DEF Register
<1>2. ASSUME NEW p \in Pings, Command(p) PROVE TypeOK'
  <2>1. Needed \in 0..Needed
    BY Bounds
  <2> QED
    BY <1>2, <2>1 DEF Command
<1>3. ASSUME NEW p \in Pings, Leave(p) PROVE TypeOK'
  BY <1>3 DEF Leave
<1>4. ASSUME NEW p \in Pings, Unregister(p) PROVE TypeOK'
  <2>1. table' \in [Index -> Fixed \cup Pings \cup {None}]
    <3>1. CASE p \in Handlers
      <4>1. PICK k \in Index : table[k] = p
        BY <3>1 DEF Handlers
      <4>2. Found(p) = k
        BY <4>1, FoundThere, Bounds DEF TableInv
      <4>3. table' = Removed(k)
        BY <1>4, <3>1, <4>2 DEF Unregister
      <4> QED
        BY <4>3, RemovedType
    <3>2. CASE p \notin Handlers
      BY <1>4, <3>2 DEF Unregister
    <3> QED
      BY <3>1, <3>2
  <2> QED
    BY <1>4, <2>1 DEF Unregister, Gone
<1>5. CASE NetUrc
  <2>1. 1 \in 0..(MaxHandlers + 1)
    BY Bounds
  <2> QED
    BY <1>5, <2>1 DEF NetUrc, Begin, Urcs
<1>6. CASE PingReport
  <2>1. 1 \in 0..(MaxHandlers + 1) /\ left - 1 \in 0..Needed
    BY <1>6, Bounds DEF PingReport
  <2> QED
    BY <1>6, <2>1 DEF PingReport, Begin, Urcs
<1>7. CASE PingLost
  BY <1>7, Bounds DEF PingLost
<1>8. CASE CallHandler
  <2>1. pos + 1 \in 0..(MaxHandlers + 1)
    BY <1>8, Bounds DEF CallHandler, Index
  <2>2. table[pos] \in Fixed \cup Pings
    BY <1>8 DEF CallHandler
  <2>3. /\ count' \in [Pings -> 0..MaxCount] /\ own' \in [Pings -> Nat]
        /\ \A p \in Pings : own'[p] <= count'[p]
    BY <1>8, Bounds DEF CallHandler, CountReply
  <2> QED
    BY <1>8, <2>1, <2>2, <2>3 DEF CallHandler
<1>9. CASE End
  <2>1. 0 \in 0..(MaxHandlers + 1)
    BY Bounds
  <2> QED
    BY <1>9, <2>1 DEF End
<1>10. CASE UNCHANGED vars
  BY <1>10
<1> QED
  BY <1>1, <1>2, <1>3, <1>4, <1>5, <1>6, <1>7, <1>8, <1>9, <1>10
  DEF Next, Ping, WaitDone, WaitTimeout

-----------------------------------------------------------------------------

\* An entry added behind the last keeps the table in order.
LEMMA RegisterTable ==
  ASSUME TypeOK, TableInv, NEW p \in Pings, Register(p)
  PROVE  TableInv'
<1> USE Bounds
<1>1. PICK k \in Index : IsFirst(k, None) /\ table' = [table EXCEPT ![k] = p]
  BY DEF Register
<1>2. /\ \A i \in Index : table'[i] = IF i = k THEN p ELSE table[i]
      /\ \A q \in Pings : ppc'[q] = IF q = p THEN "command" ELSE ppc[q]
      /\ ppc[p] = "idle"
  BY <1>1 DEF Register, TypeOK
<1>3. \A i \in Index : /\ i < k => table[i] # None
                       /\ i > k => table[i] = None
                       /\ table[i] # p
  <2>1. \A i \in Index : i < k => table[i] # None
    BY <1>1 DEF IsFirst, Index
  <2>2. \A i \in Index : i > k => table[i] = None
    BY <1>1 DEF IsFirst, TableInv, Compact
  <2>3. \A i \in Index : table[i] # p
    BY <1>2 DEF TableInv, LiveOnly
  <2> QED
    BY <2>1, <2>2, <2>3
<1>4. Compact'
  BY <1>2, <1>3 DEF Compact, Index
<1>5. Distinct'
  BY <1>2, <1>3 DEF TableInv, Distinct, Index
<1>6. LiveOnly'
  BY <1>2 DEF TableInv, LiveOnly, Index
<1>7. Listed'
  <2>1. ASSUME NEW h, h # None, \E i \in Index : table[i] = h
        PROVE  \E i \in Index : table'[i] = h
    <3>1. PICK i \in Index : table[i] = h
      BY <2>1
    <3>2. i # k
      BY <1>1, <2>1, <3>1 DEF IsFirst
    <3> QED
      BY <1>2, <3>1, <3>2
  <2>2. \E i \in Index : table'[i] = p
    BY <1>2
  <2> QED
    BY <1>2, <2>1, <2>2 DEF TableInv, Listed, Index
<1> QED
  BY <1>4, <1>5, <1>6, <1>7 DEF TableInv

\* Taking one out and moving up those behind it does, too.
LEMMA UnregisterTable ==
  ASSUME TypeOK, TableInv, NEW p \in Pings, Unregister(p)
  PROVE  TableInv'
<1> USE Bounds
<1>1. PICK k \in Index : table[k] = p
  BY DEF TableInv, Listed, Unregister
<1>2. table' = Removed(k)
  BY <1>1, FoundThere DEF TableInv, Unregister, Handlers
<1>3. \A q \in Pings : ppc'[q] = IF q = p THEN "idle" ELSE ppc[q]
  BY DEF Unregister, Gone, TypeOK
<1>4. \A i \in Index : table'[i] # None =>
        IF i < k THEN table'[i] = table[i] ELSE i + 1 \in Index /\ table'[i] = table[i + 1]
  BY <1>2, RemovedFrom DEF Index
<1>5. \A j \in Index : j # k => \E i \in Index : table'[i] = table[j]
  BY <1>2, RemovedKeeps
<1>6. \A i \in Index : i # k => table[i] # p
  BY <1>1 DEF TableInv, Distinct
<1>7. \A i \in Index : table'[i] # p
  <2> SUFFICES ASSUME NEW i \in Index, table'[i] = p PROVE FALSE
    OBVIOUS
  <2> QED
    BY <1>4, <1>6 DEF Index
<1>8. Compact'
  <2> SUFFICES ASSUME NEW i \in Index, NEW j \in Index, i < j, table'[j] # None
               PROVE  table'[i] # None
    BY DEF Compact, Index
  <2>1. \A m, n \in Index : m < n /\ table[n] # None => table[m] # None
    BY DEF TableInv, Compact
  <2>2. i \in Nat /\ j \in Nat /\ k \in Nat /\ i < MaxHandlers
    BY DEF Index
  <2>3. CASE j < k
    BY <1>2, <1>4, <2>1, <2>2, <2>3, RemovedEntries
  <2>4. CASE ~(j < k)
    <3>1. j + 1 \in Index /\ table[j + 1] # None
      BY <1>4, <2>4
    <3>2. CASE i < k
      BY <1>2, <2>1, <2>2, <3>1, <3>2, RemovedEntries
    <3>3. CASE ~(i < k)
      <4>1. i + 1 \in Index /\ table'[i] = table[i + 1]
        BY <1>2, <2>2, <3>3, RemovedEntries
      <4> QED
        BY <2>1, <2>2, <3>1, <4>1
    <3> QED
      BY <3>2, <3>3
  <2> QED
    BY <2>3, <2>4
<1>9. Distinct'
  <2> SUFFICES ASSUME NEW i \in Index, NEW j \in Index,
                      table'[i] = table'[j], table'[i] # None
               PROVE  i = j
    BY DEF Distinct, Index
  <2>1. \A m, n \in Index : table[m] = table[n] /\ table[m] # None => m = n
    BY DEF TableInv, Distinct
  <2>2. i \in Nat /\ j \in Nat /\ k \in Nat
    BY DEF Index
  <2>3. IF i < k THEN table'[i] = table[i] ELSE i + 1 \in Index /\ table'[i] = table[i + 1]
    BY <1>4
  <2>4. IF j < k THEN table'[j] = table[j] ELSE j + 1 \in Index /\ table'[j] = table[j + 1]
    BY <1>4
  <2> QED
    BY <2>1, <2>2, <2>3, <2>4
<1>10. LiveOnly'
  <2> SUFFICES ASSUME NEW i \in Index, table'[i] \in Pings PROVE ppc'[table'[i]] # "idle"
    BY DEF LiveOnly, Index
  <2>1. table'[i] # p /\ \E j \in Index : table'[i] = table[j]
    BY <1>4, <1>7
  <2> QED
    BY <1>3, <2>1 DEF TableInv, LiveOnly
<1>11. Listed'
  BY <1>1, <1>3, <1>5 DEF TableInv, Listed, Index
<1> QED
  BY <1>8, <1>9, <1>10, <1>11 DEF TableInv

\* The others leave the table alone and no call begins or ends.
LEMMA QuietTable ==
  ASSUME TypeOK, TableInv, table' = table,
         \A p \in Pings : (ppc'[p] = "idle") = (ppc[p] = "idle")
  PROVE  TableInv'
<1>1. Compact' /\ Distinct'
  BY DEF TableInv, Compact, Distinct, Index
<1>2. LiveOnly'
  BY DEF TableInv, LiveOnly, Index
<1>3. Listed'
  BY DEF TableInv, Listed, Index
<1> QED
  BY <1>1, <1>2, <1>3 DEF TableInv

LEMMA TableStep == TypeOK /\ TableInv /\ [Next]_vars => TableInv'
<1> SUFFICES ASSUME TypeOK, TableInv, [Next]_vars PROVE TableInv'
  OBVIOUS
<1>1. ASSUME NEW p \in Pings, Command(p) \/ (ppc[p] = "wait" /\ Leave(p)) PROVE TableInv'
  <2>1. table' = table /\ \A q \in Pings : (ppc'[q] = "idle") = (ppc[q] = "idle")
    BY <1>1 DEF Command, Leave, TypeOK
  <2> QED
    BY <2>1, QuietTable
<1>2. CASE NetUrc \/ PingReport \/ PingLost \/ CallHandler \/ End \/ UNCHANGED vars
  <2>1. table' = table /\ ppc' = ppc
    BY <1>2 DEF NetUrc, PingReport, PingLost, CallHandler, End, Begin, vars, pingVars
  <2> QED
    BY <2>1, QuietTable
<1> QED
  BY <1>1, <1>2, RegisterTable, UnregisterTable DEF Next, Ping, WaitDone, WaitTimeout

LEMMA WalkStep == TypeOK /\ Walk /\ [Next]_vars => Walk'
<1> SUFFICES ASSUME TypeOK, Walk, [Next]_vars PROVE Walk'
  OBVIOUS
<1> USE Bounds
<1>1. ASSUME NEW p \in Pings, Register(p) \/ Unregister(p) PROVE Walk'
  BY <1>1 DEF Register, Unregister, Gone, Locked, dispatchVars, Walk
<1>2. ASSUME NEW p \in Pings, Command(p) \/ Leave(p) PROVE Walk'
  BY <1>2 DEF Command, Leave, dispatchVars, Walk, Index
<1>3. CASE NetUrc \/ PingReport
  BY <1>3 DEF NetUrc, PingReport, Begin, Walk, Index
<1>4. CASE PingLost \/ UNCHANGED vars
  BY <1>4 DEF PingLost, vars, dispatchVars, Walk, Index
<1>5. CASE CallHandler
  <2>1. /\ pos \in Index /\ table[pos] # None /\ called' = called \cup {table[pos]}
        /\ pos' = pos + 1 /\ table' = table /\ pos # 0
    BY <1>5 DEF CallHandler, Index
  <2>2. \A i \in Index : i < pos + 1 => i < pos \/ i = pos
    BY <2>1 DEF Index
  <2>3. \A i \in Index : i < pos => i < pos + 1
    BY <2>1 DEF Index
  <2>4. pos < pos + 1
    BY <2>1 DEF Index
  <2> QED
    BY <2>1, <2>2, <2>3, <2>4 DEF Walk, Index
<1>6. CASE End
  BY <1>6 DEF End, Walk
<1> QED
  BY <1>1, <1>2, <1>3, <1>4, <1>5, <1>6 DEF Next, Ping, WaitDone, WaitTimeout

LEMMA Inductive == Spec => []Inv
<1>1. Inv /\ [Next]_vars => Inv'
  BY TypeStep, TableStep, WalkStep DEF Inv
<1> QED
  BY <1>1, InitInv, PTL DEF Spec

-----------------------------------------------------------------------------

\* Every variable keeps its type, for every number of handlers and pings.
THEOREM TypeCorrect == Spec => []TypeOK
<1>1. Inv => TypeOK
  BY DEF Inv
<1> QED
  BY <1>1, Inductive, PTL

\* dispatch_urc_to_handlers may stop at the first empty entry: nothing stands
\* behind it, in whatever order calls of modem_ping begin and end.
THEOREM StaysCompact == Spec => []Compact
<1>1. Inv => Compact
  BY DEF Inv, TableInv
<1> QED
  BY <1>1, Inductive, PTL

\* No entry of the table is the context of a call that has returned.
THEOREM NoDangling == Spec => []NoDeadContext
<1>1. Inv => NoDeadContext
  BY Bounds DEF Inv, TableInv, LiveOnly, Distinct, NoDeadContext
<1> QED
  BY <1>1, Inductive, PTL

\* A call that waits for replies is listed, whichever others have come and
\* gone, and so is every handler of the boot.
THEOREM Listening == Spec => []WaitersListen
<1>1. Inv => WaitersListen
  BY Bounds DEF Inv, TableInv, Listed, WaitersListen, Handlers
<1> QED
  BY <1>1, Inductive, PTL

\* Every handler in the table is called for every URC.
THEOREM Dispatched == Spec => []DispatchComplete
<1>1. Inv => DispatchComplete
  <2> SUFFICES ASSUME Inv, AtEnd PROVE called = Handlers
    BY DEF DispatchComplete
  <2> USE Bounds
  <2>1. pos \in Nat /\ pos # 0
    BY DEF AtEnd, Index
  <2>2. \A i \in Index : i >= pos => table[i] = None
    <3>1. CASE pos = MaxHandlers + 1
      BY <3>1 DEF Index
    <3>2. CASE pos \in Index /\ table[pos] = None
      BY <3>2 DEF Inv, TableInv, Compact, Index
    <3> QED
      BY <3>1, <3>2 DEF AtEnd
  <2>3. Handlers \subseteq called
    BY <2>1, <2>2 DEF Inv, Walk, Handlers, Index
  <2>4. called \subseteq Handlers
    BY <2>1 DEF Inv, Walk, Handlers
  <2> QED
    BY <2>3, <2>4
<1> QED
  BY <1>1, Inductive, PTL
=============================================================================

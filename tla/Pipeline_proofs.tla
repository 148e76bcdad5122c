-------------------------- MODULE Pipeline_proofs --------------------------
(* Theorems about Pipeline, for any finite set of calls, any connections    *)
(* and any of the limits: the counters of a connection are exact, early     *)
(* queries come first, and no open connection is forgotten.                 *)
EXTENDS Pipeline, FiniteSetTheorems, TLAPS

Running == {"run", "runEarly", "earlyGot"}
EarlyOnes == {"early", "earlyGot", "earlyNone", "runEarly", "leave", "leaveOk"}
Waited == {"early", "earlyGot", "earlyNone"}

(* A call inside getReservedExchanger holds t.m; a connection it has just   *)
(* made is its own and not yet in the pool.                                 *)
ScanInv ==
    /\ \A q \in Calls : pc[q] \in {"scan", "new"} => mutex = q
    /\ \A q \in Calls : pc[q] = "new" =>
          /\ conn[q] \in Conns \ conns
          /\ \A p \in Calls \ {q} : conn[p] # conn[q]
    /\ \A c \in Conns : dialer[c] = "none" =>
          c \notin conns /\ \A p \in Calls : conn[p] # c

(* The life of a lazy connection.                                           *)
DialInv ==
    \A c \in Conns :
        /\ dialer[c] \in {"none", "dialing", "failed"} => dc[c] = "none"
        /\ dialer[c] = "dialed" => dc[c] = "open"
        /\ dialer[c] # "end" =>
              lazy[c] = IF lazyClosed[c] THEN "failed" ELSE "dialing"
        /\ dialer[c] = "end" =>
              /\ lazy[c] = "ok" => dc[c] = IF lazyClosed[c] THEN "closed" ELSE dc[c]
              /\ lazy[c] = "ok" => dc[c] # "none"
              /\ lazy[c] = "failed" => dc[c] # "open"
              /\ lazy[c] # "dialing"

(* Who has passed the wait for the early callers finds none later.          *)
FastInv ==
    \A c \in Conns : fastPath[c] = 1 => lazy[c] = "ok" /\ On(c, {"early"}) = {}

(* A connection whose dial has not failed and that has not died is in the   *)
(* pool, or in the hands of the call that made it; Close has still to come  *)
(* to it, or has been there.                                                *)
Alive(c) == dialer[c] # "none" /\ lazy[c] # "failed" /\ dc[c] # "closed"

KeptInv ==
    /\ \A c \in Conns : Alive(c) =>
          c \in conns \/ \E q \in Calls : pc[q] = "new" /\ conn[q] = c
    /\ closed =>
          /\ \A q \in Calls : pc[q] \notin {"scan", "new"}
          /\ \A c \in Conns : Alive(c) => c \in closeLeft
    /\ closeDone => closed /\ closeLeft = {}
    /\ mutex = "Close" => closed
    /\ \A c \in closeLeft : dialer[c] # "none"

-----------------------------------------------------------------------------
(* Counting                                                                 *)

LEMMA OnFinite ==
  ASSUME NEW c, NEW L PROVE IsFiniteSet(On(c, L)) /\ Cardinality(On(c, L)) \in Nat
BY CallsAssumption, FS_Subset, FS_CardinalityType DEF On

LEMMA NobodyMoves ==
  ASSUME NEW c, NEW L, UNCHANGED <<pc, conn>> PROVE On(c, L)' = On(c, L)
BY DEF On

(* One call moves: the count changes by it alone.                           *)
LEMMA OneMoves ==
  ASSUME NEW q \in Calls, NEW c, NEW L,
         \A p \in Calls \ {q} : pc'[p] = pc[p] /\ conn'[p] = conn[p]
  PROVE  /\ (q \in On(c, L) <=> q \in On(c, L)') =>
                Cardinality(On(c, L)') = Cardinality(On(c, L))
         /\ q \notin On(c, L) /\ q \in On(c, L)' =>
                Cardinality(On(c, L)') = Cardinality(On(c, L)) + 1
         /\ q \in On(c, L) /\ q \notin On(c, L)' =>
                Cardinality(On(c, L)') = Cardinality(On(c, L)) - 1
<1>1. CASE q \in On(c, L) <=> q \in On(c, L)'
  <2>1. On(c, L)' = On(c, L) BY <1>1 DEF On
  <2>2. QED BY <1>1, <2>1
<1>2. CASE q \notin On(c, L) /\ q \in On(c, L)'
  <2>1. On(c, L)' = On(c, L) \cup {q} BY <1>2 DEF On
  <2>2. QED BY <1>2, <2>1, OnFinite, FS_AddElement
<1>3. CASE q \in On(c, L) /\ q \notin On(c, L)'
  <2>1. On(c, L)' = On(c, L) \ {q} BY <1>3 DEF On
  <2>2. QED BY <1>3, <2>1, OnFinite, FS_RemoveElement
<1>4. QED BY <1>1, <1>2, <1>3

-----------------------------------------------------------------------------
(* Types                                                                    *)

LEMMA TypeInit == ASSUME Init PROVE TypeOK
<1>1. retry \in [Calls -> 0 .. MaxRetry] BY RetryAssumption DEF Init
<1>2. /\ fastPath \in [Conns -> 0 .. 2] /\ reservedQuery \in [Conns -> Int]
      /\ earlyWg \in [Conns -> Int] /\ slots \in [Conns -> Int]
  BY DEF Init
<1>3. /\ isNew \in [Calls -> BOOLEAN] /\ lazyClosed \in [Conns -> BOOLEAN]
      /\ tried \in [Calls -> SUBSET Conns] /\ conn \in [Calls -> Conns \cup {None}]
  BY DEF Init
<1>4. QED BY <1>1, <1>2, <1>3 DEF Init, TypeOK

LEMMA AddType ==
  ASSUME NEW f \in [Conns -> Int], NEW c, NEW n \in Int PROVE Add(f, c, n) \in [Conns -> Int]
<1>1. CASE c \in Conns BY <1>1 DEF Add
<1>2. CASE c \notin Conns BY <1>2 DEF Add
<1>3. QED BY <1>1, <1>2

LEMMA RetryType ==
  ASSUME TypeOK, NEW q \in Calls, RetryOrFail(q)
  PROVE  /\ retry' \in [Calls -> 0 .. MaxRetry]
         /\ \E l \in {"start", "failed"} : pc' = [pc EXCEPT ![q] = l]
<1>1. CASE MayRetry(q)
  <2>1. retry[q] < MaxRetry BY <1>1 DEF MayRetry
  <2>2. retry[q] + 1 \in 0 .. MaxRetry BY <2>1, RetryAssumption DEF TypeOK
  <2>3. retry' = [retry EXCEPT ![q] = @ + 1] /\ pc' = [pc EXCEPT ![q] = "start"]
    BY <1>1 DEF RetryOrFail, Goto, Add
  <2>4. QED BY <2>2, <2>3 DEF TypeOK
<1>2. CASE ~MayRetry(q)
  BY <1>2 DEF RetryOrFail, Goto, TypeOK
<1>3. QED BY <1>1, <1>2

LEMMA TypeStep == ASSUME TypeOK, ScanInv, [Next]_vars PROVE TypeOK'
<1> USE AddType DEF TypeOK, Goto, Take, AskNext, WgDone, callVars, poolVars, lazyVars, countVars
<1>1. ASSUME NEW q \in Calls, Lock(q) PROVE TypeOK'
  BY <1>1 DEF Lock
<1>2. ASSUME NEW q \in Calls, ReserveNew(q) PROVE TypeOK'
  <2>1. conn[q] \in Conns BY <1>2 DEF ReserveNew, ScanInv
  <2>2. \E l \in {"early", "run", "failed"}, c \in Conns \cup {None}, n \in BOOLEAN :
          /\ pc' = [pc EXCEPT ![q] = l] /\ conn' = [conn EXCEPT ![q] = c]
          /\ isNew' = [isNew EXCEPT ![q] = n]
    BY <1>2, <2>1 DEF ReserveNew
  <2>3. /\ mutex' = None
        /\ fastPath' = fastPath \/ \E n \in 0 .. 2 : fastPath' = [fastPath EXCEPT ![conn[q]] = n]
    BY <1>2 DEF ReserveNew
  <2>4. /\ reservedQuery' \in [Conns -> Int] /\ earlyWg' \in [Conns -> Int]
        /\ slots' \in [Conns -> Int]
    BY <1>2 DEF ReserveNew
  <2>5. conns' \subseteq Conns BY <1>2, <2>1 DEF ReserveNew
  <2>6. QED BY <1>2, <2>2, <2>3, <2>4, <2>5 DEF ReserveNew
<1>3. ASSUME NEW q \in Calls, NEW c \in Conns, ScanEarly(q, c) PROVE TypeOK'
  <2>1. reservedQuery' \in [Conns -> Int] /\ earlyWg' \in [Conns -> Int]
    BY <1>3 DEF ScanEarly
  <2>2. \/ /\ tried' = tried /\ mutex' = None
           /\ conn' = [conn EXCEPT ![q] = c] /\ isNew' = [isNew EXCEPT ![q] = FALSE]
           /\ pc' = [pc EXCEPT ![q] = "early"]
        \/ /\ tried' = [tried EXCEPT ![q] = @ \cup {c}]
           /\ UNCHANGED <<conn, isNew, pc, mutex>>
    BY <1>3 DEF ScanEarly
  <2>3. UNCHANGED <<retry, cancelled, poolVars, lazyVars, fastPath, slots>>
    BY <1>3 DEF ScanEarly
  <2>4. /\ pc' \in [Calls -> {"start", "scan", "new", "early", "earlyGot", "earlyNone",
                            "run", "runEarly", "leave", "leaveOk", "answered", "failed"}]
        /\ conn' \in [Calls -> Conns \cup {None}] /\ mutex' \in Calls \cup {None, "Close"}
    BY <2>2
  <2>5. isNew' \in [Calls -> BOOLEAN] BY <2>2
  <2>6. tried' \in [Calls -> SUBSET Conns]
    <3>1. tried[q] \cup {c} \in SUBSET Conns OBVIOUS
    <3>2. tried' = tried \/ tried' = [tried EXCEPT ![q] = tried[q] \cup {c}] BY <2>2
    <3>3. QED BY <3>1, <3>2
  <2>7. QED BY <2>1, <2>3, <2>4, <2>5, <2>6
<1>4. ASSUME NEW q \in Calls, NEW c \in Conns, ScanDead(q, c) PROVE TypeOK'
  BY <1>4 DEF ScanDead, MayAsk
<1>5. ASSUME NEW q \in Calls, NEW c \in Conns, ScanDialed(q, c) PROVE TypeOK'
  <2>1. slots' \in [Conns -> Int] /\ conns' \subseteq Conns
    BY <1>5 DEF ScanDialed, Kept
  <2>2. \/ /\ tried' = tried /\ mutex' = None
           /\ conn' = [conn EXCEPT ![q] = c] /\ isNew' = [isNew EXCEPT ![q] = FALSE]
           /\ pc' = [pc EXCEPT ![q] = "run"]
        \/ /\ tried' = [tried EXCEPT ![q] = @ \cup {c}]
           /\ UNCHANGED <<conn, isNew, pc, mutex>>
    BY <1>5 DEF ScanDialed
  <2>3. /\ UNCHANGED <<retry, cancelled, closed, closeLeft, closeDone, lazyVars,
                        reservedQuery, earlyWg>>
        /\ fastPath' = [fastPath EXCEPT ![c] = 1]
    BY <1>5 DEF ScanDialed
  <2>4. /\ pc' \in [Calls -> {"start", "scan", "new", "early", "earlyGot", "earlyNone",
                            "run", "runEarly", "leave", "leaveOk", "answered", "failed"}]
        /\ conn' \in [Calls -> Conns \cup {None}] /\ mutex' \in Calls \cup {None, "Close"}
    BY <2>2
  <2>5. isNew' \in [Calls -> BOOLEAN] BY <2>2
  <2>6. tried' \in [Calls -> SUBSET Conns]
    <3>1. tried[q] \cup {c} \in SUBSET Conns OBVIOUS
    <3>2. tried' = tried \/ tried' = [tried EXCEPT ![q] = tried[q] \cup {c}] BY <2>2
    <3>3. QED BY <3>1, <3>2
  <2>7. QED BY <2>1, <2>3, <2>4, <2>5, <2>6
<1>6. ASSUME NEW q \in Calls, NEW c \in Conns, NewConn(q, c) PROVE TypeOK'
  BY <1>6 DEF NewConn
<1>7. ASSUME NEW q \in Calls, ExchangeStep(q), ~RunFails(q), ~Leave(q) PROVE TypeOK'
  BY <1>7 DEF ExchangeStep, EarlyCancelled, EarlyDialFailed, EarlyReserve, EarlySaysDone
<1>8. ASSUME NEW q \in Calls, RunFails(q) PROVE TypeOK'
  BY <1>8, RetryType DEF RunFails
<1>9. ASSUME NEW q \in Calls, Leave(q) PROVE TypeOK'
  BY <1>9, RetryType DEF Leave
<1>10. ASSUME NEW q \in Calls, RunOk(q) \/ Cancel(q) PROVE TypeOK'
  BY <1>10 DEF RunOk, Cancel
<1>11. ASSUME NEW c \in Conns, DialReturns(c) \/ DialEnds(c) \/ ConnDies(c) \/ CloseConn(c)
       PROVE  TypeOK'
  <2>1. CASE DialReturns(c) BY <2>1 DEF DialReturns
  <2>2. CASE DialEnds(c) BY <2>2 DEF DialEnds, Abandoned
  <2>3. CASE ConnDies(c) BY <2>3 DEF ConnDies
  <2>4. CASE CloseConn(c) BY <2>4 DEF CloseConn
  <2>5. QED BY <1>11, <2>1, <2>2, <2>3, <2>4
<1>12. CASE CloseStarts \/ CloseReturns \/ UNCHANGED vars
  BY <1>12 DEF CloseStarts, CloseReturns, vars
<1>13. QED BY <1>1, <1>2, <1>3, <1>4, <1>5, <1>6, <1>7, <1>8, <1>9, <1>10, <1>11, <1>12
      DEF Next, ScanStep

-----------------------------------------------------------------------------
(* Scans and connections                                                    *)

LEMMA ScanStepInv == ASSUME TypeOK, ScanInv, [Next]_vars PROVE ScanInv'
<1> USE DEF TypeOK, Goto, Take, AskNext, callVars, poolVars, lazyVars, ScanInv
<1>1. ASSUME NEW q \in Calls, Lock(q) PROVE ScanInv'
  BY <1>1, NoneAssumption DEF Lock
<1>2. ASSUME NEW q \in Calls, ReserveNew(q) PROVE ScanInv'
  <2>1. mutex = q /\ conn[q] \in Conns BY <1>2 DEF ReserveNew
  <2>2. \A p \in Calls \ {q} : pc[p] \notin {"scan", "new"} BY <2>1
  <2>3. /\ \E l \in {"early", "run", "failed"} : pc' = [pc EXCEPT ![q] = l]
        /\ \E c \in {conn[q], None} : conn' = [conn EXCEPT ![q] = c]
        /\ conns' = conns \cup {conn[q]} /\ dialer' = dialer
    BY <1>2 DEF ReserveNew
  <2>4. \A p \in Calls : pc'[p] \notin {"scan", "new"} BY <2>2, <2>3
  <2>5. \A c \in Conns : dialer[c] = "none" => c # conn[q]
    BY <2>1
  <2>6. QED BY <2>1, <2>3, <2>4, <2>5, NoneAssumption
<1>3. ASSUME NEW q \in Calls, NEW c \in Conns, ScanEarly(q, c) \/ ScanDialed(q, c)
      PROVE  ScanInv'
  <2>1. /\ mutex = q /\ pc[q] = "scan" /\ c \in conns /\ conns' \subseteq conns /\ dialer' = dialer
        /\ \/ UNCHANGED <<pc, conn, mutex>>
           \/ /\ \E l \in {"early", "run"} : pc' = [pc EXCEPT ![q] = l]
              /\ conn' = [conn EXCEPT ![q] = c] /\ mutex' = None
    BY <1>3 DEF ScanEarly, ScanDialed, MayAsk, Kept
  <2>2. \A p \in Calls \ {q} : pc[p] \notin {"scan", "new"} BY <2>1
  <2>3. QED BY <2>1, <2>2
<1>4. ASSUME NEW q \in Calls, NEW c \in Conns, ScanDead(q, c) PROVE ScanInv'
  BY <1>4 DEF ScanDead, MayAsk
<1>5. ASSUME NEW q \in Calls, NEW c \in Conns, NewConn(q, c) PROVE ScanInv'
  <2>1. /\ mutex = q /\ pc[q] = "scan" /\ dialer[c] = "none" /\ UNCHANGED <<mutex, conns>>
        /\ dialer' = [dialer EXCEPT ![c] = "dialing"]
        /\ conn' = [conn EXCEPT ![q] = c] /\ pc' = [pc EXCEPT ![q] = "new"]
    BY <1>5 DEF NewConn
  <2>2. c \notin conns /\ \A p \in Calls : conn[p] # c BY <2>1
  <2>3. QED BY <2>1, <2>2
<1>6. ASSUME NEW q \in Calls, ExchangeStep(q) \/ RunOk(q) \/ Cancel(q) PROVE ScanInv'
  <2>1. UNCHANGED <<conn, mutex, conns, dialer>>
    BY <1>6 DEF ExchangeStep, EarlyCancelled, EarlyDialFailed, EarlyReserve,
       EarlySaysDone, RunFails, Leave, RunOk, Cancel
  <2>2. \E l \in {"start", "failed", "leave", "earlyGot", "earlyNone", "runEarly",
                  "answered", "leaveOk", pc[q]} : pc' = [pc EXCEPT ![q] = l]
    BY <1>6, RetryType DEF ExchangeStep, EarlyCancelled, EarlyDialFailed, EarlyReserve,
       EarlySaysDone, RunFails, Leave, RunOk, Cancel
  <2>3. QED BY <2>1, <2>2
<1>7. ASSUME NEW c \in Conns, DialReturns(c) \/ DialEnds(c) \/ ConnDies(c) \/ CloseConn(c)
      PROVE  ScanInv'
  BY <1>7 DEF DialReturns, DialEnds, ConnDies, CloseConn
<1>8. CASE CloseStarts \/ CloseReturns
  <2>1. mutex \in {None, "Close"} /\ UNCHANGED <<pc, conn, conns, dialer>>
    BY <1>8 DEF CloseStarts, CloseReturns
  <2>2. \A q \in Calls : pc[q] \in {"scan", "new"} => mutex = q OBVIOUS
  <2>3. QED BY <1>8, <2>1, <2>2, NoneAssumption DEF CloseStarts, CloseReturns
<1>9. CASE UNCHANGED vars BY <1>9 DEF vars
<1>10. QED BY <1>1, <1>2, <1>3, <1>4, <1>5, <1>6, <1>7, <1>8, <1>9 DEF Next, ScanStep

LEMMA DialStep == ASSUME TypeOK, DialInv, [Next]_vars PROVE DialInv'
<1> USE DEF TypeOK, DialInv
<1>1. ASSUME NEW c \in Conns, DialReturns(c) PROVE DialInv'
  BY <1>1 DEF DialReturns
<1>2. ASSUME NEW c \in Conns, DialEnds(c) PROVE DialInv'
  BY <1>2 DEF DialEnds, Abandoned
<1>3. ASSUME NEW c \in Conns, ConnDies(c) PROVE DialInv'
  BY <1>3 DEF ConnDies
<1>4. ASSUME NEW c \in Conns, CloseConn(c) PROVE DialInv'
  BY <1>4 DEF CloseConn
<1>5. ASSUME NEW q \in Calls, NEW c \in Conns, NewConn(q, c) PROVE DialInv'
  BY <1>5 DEF NewConn
<1>6. ASSUME UNCHANGED lazyVars PROVE DialInv'
  BY <1>6 DEF lazyVars
<1>7. ASSUME NEW q \in Calls, ScanStep(q), \A c \in Conns : ~NewConn(q, c) PROVE UNCHANGED lazyVars
  BY <1>7 DEF ScanStep, Lock, ReserveNew, ScanEarly, ScanDead, ScanDialed
<1>8. ASSUME NEW q \in Calls, ExchangeStep(q) \/ RunOk(q) \/ Cancel(q) PROVE UNCHANGED lazyVars
  BY <1>8 DEF ExchangeStep, EarlyCancelled, EarlyDialFailed, EarlyReserve,
     EarlySaysDone, RunFails, Leave, RunOk, Cancel
<1>9. ASSUME CloseStarts \/ CloseReturns \/ UNCHANGED vars PROVE UNCHANGED lazyVars
  BY <1>9 DEF CloseStarts, CloseReturns, vars
<1>10. QED BY <1>1, <1>2, <1>3, <1>4, <1>5, <1>6, <1>7, <1>8, <1>9 DEF Next

-----------------------------------------------------------------------------
(* The counters                                                             *)

(* A step that leaves the calls and the counters alone; a dial that has     *)
(* failed has failed.                                                       *)
LEMMA SameCounts ==
  ASSUME CountersExact, UNCHANGED <<pc, conn, slots, reservedQuery, earlyWg>>,
         \A c \in Conns : lazy[c] = "failed" => lazy'[c] = "failed"
  PROVE  CountersExact'
<1>1. \A c \in Conns :
        /\ On(c, Running)' = On(c, Running)
        /\ On(c, EarlyOnes)' = On(c, EarlyOnes)
        /\ On(c, Waited)' = On(c, Waited)
  BY NobodyMoves
<1>2. QED BY <1>1 DEF CountersExact, Running, EarlyOnes, Waited

(* What a step of one call does to the three counts.                        *)
Change(f, c, L, q) ==
    f[c] + (IF q \in On(c, L)' THEN 1 ELSE 0) - (IF q \in On(c, L) THEN 1 ELSE 0)

LEMMA OneCounts ==
  ASSUME TypeOK, CountersExact, NEW q \in Calls, lazy' = lazy,
         \A p \in Calls \ {q} : pc'[p] = pc[p] /\ conn'[p] = conn[p],
         \A c \in Conns : slots'[c] = Change(slots, c, Running, q),
         \A c \in Conns : reservedQuery'[c] = Change(reservedQuery, c, EarlyOnes, q),
         \A c \in Conns : lazy[c] # "failed" => earlyWg'[c] = Change(earlyWg, c, Waited, q)
  PROVE  CountersExact'
<1>1. ASSUME NEW c \in Conns, NEW L
      PROVE  Cardinality(On(c, L)') =
               Cardinality(On(c, L)) + (IF q \in On(c, L)' THEN 1 ELSE 0)
                                     - (IF q \in On(c, L) THEN 1 ELSE 0)
  BY OneMoves, OnFinite
<1>2. ASSUME NEW c \in Conns
      PROVE  slots'[c] = Cardinality(On(c, Running)')
  BY <1>1 DEF CountersExact, Running, Change
<1>3. ASSUME NEW c \in Conns
      PROVE  reservedQuery'[c] = Cardinality(On(c, EarlyOnes)')
  BY <1>1 DEF CountersExact, EarlyOnes, Change
<1>4. ASSUME NEW c \in Conns, lazy[c] # "failed"
      PROVE  earlyWg'[c] = Cardinality(On(c, Waited)')
  BY <1>1, <1>4 DEF CountersExact, Waited, Change
<1>5. QED BY <1>2, <1>3, <1>4 DEF CountersExact, Running, EarlyOnes, Waited

LEMMA CountStep ==
  ASSUME TypeOK, ScanInv, DialInv, CountersExact, [Next]_vars PROVE CountersExact'
<1> USE DEF TypeOK, Goto, Take, Add, On, Change, Running, EarlyOnes, Waited
<1>1. ASSUME NEW q \in Calls, ReserveNew(q) PROVE CountersExact'
  <2>1. conn[q] \in Conns /\ pc[q] = "new" BY <1>1 DEF ReserveNew, ScanInv
  <2>2. lazy' = lazy BY <1>1 DEF ReserveNew, lazyVars
  <2>3. \A p \in Calls \ {q} : pc'[p] = pc[p] /\ conn'[p] = conn[p]
    BY <1>1 DEF ReserveNew
  <2>4. \A c \in Conns : slots'[c] = Change(slots, c, Running, q)
    BY <1>1, <2>1, NoneAssumption DEF ReserveNew
  <2>5. \A c \in Conns : reservedQuery'[c] = Change(reservedQuery, c, EarlyOnes, q)
    BY <1>1, <2>1, NoneAssumption DEF ReserveNew
  <2>6. \A c \in Conns : earlyWg'[c] = Change(earlyWg, c, Waited, q)
    BY <1>1, <2>1, NoneAssumption DEF ReserveNew
  <2>7. QED BY <2>2, <2>3, <2>4, <2>5, <2>6, OneCounts
<1>2. ASSUME NEW q \in Calls, NEW d \in Conns, ScanEarly(q, d) PROVE CountersExact'
  <2>1. pc[q] = "scan" /\ lazy' = lazy BY <1>2 DEF ScanEarly, MayAsk, lazyVars
  <2>2. \A p \in Calls \ {q} : pc'[p] = pc[p] /\ conn'[p] = conn[p]
    BY <1>2 DEF ScanEarly
  <2>3. \A c \in Conns : slots'[c] = Change(slots, c, Running, q)
    BY <1>2, <2>1 DEF ScanEarly
  <2>4. \A c \in Conns : reservedQuery'[c] = Change(reservedQuery, c, EarlyOnes, q)
    BY <1>2, <2>1 DEF ScanEarly
  <2>5. \A c \in Conns : earlyWg'[c] = Change(earlyWg, c, Waited, q)
    BY <1>2, <2>1 DEF ScanEarly
  <2>6. QED BY <2>1, <2>2, <2>3, <2>4, <2>5, OneCounts
<1>3. ASSUME NEW q \in Calls, NEW d \in Conns, ScanDialed(q, d) PROVE CountersExact'
  <2>1. pc[q] = "scan" /\ lazy' = lazy BY <1>3 DEF ScanDialed, MayAsk, lazyVars
  <2>2. \A p \in Calls \ {q} : pc'[p] = pc[p] /\ conn'[p] = conn[p]
    BY <1>3 DEF ScanDialed
  <2>3. \A c \in Conns : slots'[c] = Change(slots, c, Running, q)
    BY <1>3, <2>1 DEF ScanDialed
  <2>4. \A c \in Conns : reservedQuery'[c] = Change(reservedQuery, c, EarlyOnes, q)
    BY <1>3, <2>1 DEF ScanDialed
  <2>5. \A c \in Conns : earlyWg'[c] = Change(earlyWg, c, Waited, q)
    BY <1>3, <2>1 DEF ScanDialed
  <2>6. QED BY <2>1, <2>2, <2>3, <2>4, <2>5, OneCounts
<1>4. ASSUME NEW q \in Calls, Lock(q) \/ (\E c \in Conns : ScanDead(q, c) \/ NewConn(q, c))
      PROVE  CountersExact'
  <2>1. /\ lazy' = lazy /\ UNCHANGED <<slots, reservedQuery, earlyWg>>
        /\ pc[q] \in {"start", "scan"} /\ pc'[q] \in {"scan", "new", "failed"}
        /\ \A p \in Calls \ {q} : pc'[p] = pc[p] /\ conn'[p] = conn[p]
    BY <1>4 DEF Lock, ScanDead, NewConn, MayAsk, lazyVars, countVars
  <2>2. \A c \in Conns :
          /\ slots'[c] = Change(slots, c, Running, q)
          /\ reservedQuery'[c] = Change(reservedQuery, c, EarlyOnes, q)
          /\ earlyWg'[c] = Change(earlyWg, c, Waited, q)
    BY <2>1
  <2>3. QED BY <2>1, <2>2, OneCounts
<1>5. ASSUME NEW q \in Calls, ExchangeStep(q) \/ RunOk(q) \/ Cancel(q) PROVE CountersExact'
  <2>1. lazy' = lazy /\ conn' = conn
    BY <1>5 DEF ExchangeStep, EarlyCancelled, EarlyDialFailed, EarlyReserve,
       EarlySaysDone, RunFails, Leave, RunOk, Cancel, lazyVars
  <2>2. CASE EarlyCancelled(q)
    <3>1. pc[q] = "early" /\ pc' = [pc EXCEPT ![q] = "leave"] BY <2>2 DEF EarlyCancelled
    <3>2. /\ UNCHANGED <<slots, reservedQuery>>
          /\ earlyWg' = [earlyWg EXCEPT ![conn[q]] = @ + (-1)]
      BY <2>2 DEF EarlyCancelled, WgDone
    <3>3. \A c \in Conns :
            /\ slots'[c] = Change(slots, c, Running, q)
            /\ reservedQuery'[c] = Change(reservedQuery, c, EarlyOnes, q)
            /\ earlyWg'[c] = Change(earlyWg, c, Waited, q)
      BY <2>1, <3>1, <3>2
    <3>4. QED BY <2>1, <3>1, <3>3, OneCounts
  <2>3. CASE EarlyDialFailed(q)
    <3>1. /\ pc[q] = "early" /\ pc' = [pc EXCEPT ![q] = "leave"]
          /\ lazy[conn[q]] = "failed" /\ UNCHANGED <<slots, reservedQuery, earlyWg>>
      BY <2>3 DEF EarlyDialFailed, countVars
    <3>2. \A c \in Conns :
            /\ slots'[c] = Change(slots, c, Running, q)
            /\ reservedQuery'[c] = Change(reservedQuery, c, EarlyOnes, q)
            /\ lazy[c] # "failed" => earlyWg'[c] = Change(earlyWg, c, Waited, q)
      BY <2>1, <3>1
    <3>3. QED BY <2>1, <3>1, <3>2, OneCounts
  <2>4. CASE EarlyReserve(q)
    <3>1. /\ pc[q] = "early" /\ UNCHANGED <<reservedQuery, earlyWg>>
          /\ \/ /\ slots' = [slots EXCEPT ![conn[q]] = @ + 1]
                /\ pc' = [pc EXCEPT ![q] = "earlyGot"]
             \/ slots' = slots /\ pc' = [pc EXCEPT ![q] = "earlyNone"]
      BY <2>4 DEF EarlyReserve
    <3>2. \A c \in Conns :
            /\ slots'[c] = Change(slots, c, Running, q)
            /\ reservedQuery'[c] = Change(reservedQuery, c, EarlyOnes, q)
            /\ earlyWg'[c] = Change(earlyWg, c, Waited, q)
      BY <2>1, <3>1
    <3>3. QED BY <2>1, <3>1, <3>2, OneCounts
  <2>5. CASE EarlySaysDone(q)
    <3>1. /\ earlyWg' = [earlyWg EXCEPT ![conn[q]] = @ + (-1)]
          /\ UNCHANGED <<slots, reservedQuery>>
          /\ \/ pc[q] = "earlyGot" /\ pc' = [pc EXCEPT ![q] = "runEarly"]
             \/ pc[q] = "earlyNone" /\ pc' = [pc EXCEPT ![q] = "leave"]
      BY <2>5 DEF EarlySaysDone, WgDone
    <3>2. \A c \in Conns :
            /\ slots'[c] = Change(slots, c, Running, q)
            /\ reservedQuery'[c] = Change(reservedQuery, c, EarlyOnes, q)
            /\ earlyWg'[c] = Change(earlyWg, c, Waited, q)
      BY <2>1, <3>1
    <3>3. QED BY <2>1, <3>1, <3>2, OneCounts
  <2>6. CASE RunOk(q) \/ RunFails(q)
    <3>1. /\ slots' = [slots EXCEPT ![conn[q]] = @ + (-1)]
          /\ UNCHANGED <<reservedQuery, earlyWg>>
          /\ \/ /\ pc[q] = "run"
                /\ \E l \in {"answered", "start", "failed"} : pc' = [pc EXCEPT ![q] = l]
             \/ /\ pc[q] = "runEarly"
                /\ \E l \in {"leaveOk", "leave"} : pc' = [pc EXCEPT ![q] = l]
      BY <2>6, RetryType DEF RunOk, RunFails
    <3>2. \A c \in Conns :
            /\ slots'[c] = Change(slots, c, Running, q)
            /\ reservedQuery'[c] = Change(reservedQuery, c, EarlyOnes, q)
            /\ earlyWg'[c] = Change(earlyWg, c, Waited, q)
      BY <2>1, <3>1
    <3>3. QED BY <2>1, <3>1, <3>2, OneCounts
  <2>7. CASE Leave(q)
    <3>1. /\ reservedQuery' = [reservedQuery EXCEPT ![conn[q]] = @ + (-1)]
          /\ UNCHANGED <<slots, earlyWg>>
          /\ pc[q] \in {"leave", "leaveOk"}
          /\ \E l \in {"answered", "start", "failed"} : pc' = [pc EXCEPT ![q] = l]
      BY <2>7, RetryType DEF Leave
    <3>2. \A c \in Conns :
            /\ slots'[c] = Change(slots, c, Running, q)
            /\ reservedQuery'[c] = Change(reservedQuery, c, EarlyOnes, q)
            /\ earlyWg'[c] = Change(earlyWg, c, Waited, q)
      BY <2>1, <3>1
    <3>3. QED BY <2>1, <3>1, <3>2, OneCounts
  <2>8. CASE Cancel(q)
    <3>1. UNCHANGED <<pc, slots, reservedQuery, earlyWg>> BY <2>8 DEF Cancel, countVars
    <3>2. QED BY <2>1, <3>1, SameCounts
  <2>9. QED BY <1>5, <2>2, <2>3, <2>4, <2>5, <2>6, <2>7, <2>8 DEF ExchangeStep
<1>6. ASSUME NEW c \in Conns, DialReturns(c) \/ DialEnds(c) \/ ConnDies(c) \/ CloseConn(c)
      PROVE  CountersExact'
  <2>1. UNCHANGED <<pc, conn, slots, reservedQuery, earlyWg>>
    BY <1>6 DEF DialReturns, DialEnds, ConnDies, CloseConn, callVars, countVars
  <2>2. \A e \in Conns : lazy[e] = "failed" => lazy'[e] = "failed"
    BY <1>6 DEF DialReturns, DialEnds, ConnDies, CloseConn, DialInv
  <2>3. QED BY <2>1, <2>2, SameCounts
<1>7. CASE CloseStarts \/ CloseReturns \/ UNCHANGED vars
  BY <1>7, SameCounts DEF CloseStarts, CloseReturns, vars, callVars, countVars, lazyVars
<1>8. QED BY <1>1, <1>2, <1>3, <1>4, <1>5, <1>6, <1>7 DEF Next, ScanStep

-----------------------------------------------------------------------------
(* Early callers come first                                                 *)

(* A scan that passes the wait finds no early caller that has not reserved. *)
LEMMA WaitOver ==
  ASSUME TypeOK, CountersExact, FastInv, NEW q \in Calls, NEW c \in Conns, ScanDialed(q, c)
  PROVE  On(c, {"early"}) = {}
<1>1. CASE fastPath[c] = 1 BY <1>1 DEF FastInv
<1>2. CASE fastPath[c] # 1
  <2>1. earlyWg[c] = 0 /\ lazy[c] = "ok" BY <1>2 DEF ScanDialed, EarlyDone
  <2>2. Cardinality(On(c, {"early", "earlyGot", "earlyNone"})) = 0
    BY <2>1 DEF CountersExact
  <2>3. On(c, {"early", "earlyGot", "earlyNone"}) = {}
    BY <2>2, OnFinite, FS_EmptySet
  <2>4. QED BY <2>3 DEF On
<1>3. QED BY <1>1, <1>2

LEMMA FastStep ==
  ASSUME TypeOK, ScanInv, DialInv, CountersExact, FastInv, [Next]_vars PROVE FastInv'
<1> USE DEF TypeOK, Goto, Take, On, FastInv
<1>1. ASSUME NEW q \in Calls, ReserveNew(q) PROVE FastInv'
  <2>1. conn[q] \in Conns /\ pc[q] = "new" /\ \A p \in Calls \ {q} : conn[p] # conn[q]
    BY <1>1 DEF ReserveNew, ScanInv
  <2>2. lazy' = lazy BY <1>1 DEF ReserveNew, lazyVars
  <2>3. \/ /\ lazy[conn[q]] = "dialing" /\ fastPath' = fastPath
           /\ pc' = [pc EXCEPT ![q] = "early"] /\ conn' = conn
        \/ /\ lazy[conn[q]] = "ok" /\ fastPath' = [fastPath EXCEPT ![conn[q]] = 1]
           /\ pc' = [pc EXCEPT ![q] = "run"] /\ conn' = conn
        \/ /\ fastPath' = [fastPath EXCEPT ![conn[q]] = IF lazy[conn[q]] = "ok" THEN 1 ELSE 2]
           /\ pc' = [pc EXCEPT ![q] = "failed"] /\ conn' = [conn EXCEPT ![q] = None]
    BY <1>1, <2>1 DEF ReserveNew
  <2>4. QED BY <2>1, <2>2, <2>3
<1>2. ASSUME NEW q \in Calls, NEW c \in Conns, ScanEarly(q, c) PROVE FastInv'
  <2>1. lazy[c] = "dialing" /\ UNCHANGED <<lazy, fastPath>>
    BY <1>2 DEF ScanEarly, lazyVars
  <2>2. UNCHANGED <<pc, conn>> \/ (/\ pc' = [pc EXCEPT ![q] = "early"]
                                    /\ conn' = [conn EXCEPT ![q] = c])
    BY <1>2 DEF ScanEarly
  <2>3. pc[q] = "scan" BY <1>2 DEF ScanEarly, MayAsk
  <2>4. QED BY <2>1, <2>2, <2>3
<1>3. ASSUME NEW q \in Calls, NEW c \in Conns, ScanDialed(q, c) PROVE FastInv'
  <2>1. On(c, {"early"}) = {} BY <1>3, WaitOver
  <2>2. lazy[c] = "ok" /\ lazy' = lazy /\ fastPath' = [fastPath EXCEPT ![c] = 1]
    BY <1>3 DEF ScanDialed, lazyVars
  <2>3. UNCHANGED <<pc, conn>> \/ (/\ pc' = [pc EXCEPT ![q] = "run"]
                                    /\ conn' = [conn EXCEPT ![q] = c])
    BY <1>3 DEF ScanDialed
  <2>4. \A d \in Conns : On(d, {"early"})' \subseteq On(d, {"early"})
    BY <2>3
  <2>5. QED BY <2>1, <2>2, <2>4
<1>4. ASSUME NEW q \in Calls, NEW c \in Conns, ScanDead(q, c) PROVE FastInv'
  BY <1>4 DEF ScanDead, lazyVars
<1>5. ASSUME NEW q \in Calls, Lock(q) \/ \E c \in Conns : NewConn(q, c) PROVE FastInv'
  <2>1. /\ UNCHANGED <<lazy, fastPath>> /\ pc'[q] # "early"
        /\ \A p \in Calls \ {q} : pc'[p] = pc[p] /\ conn'[p] = conn[p]
    BY <1>5 DEF Lock, NewConn, lazyVars, countVars
  <2>2. QED BY <2>1
<1>6. ASSUME NEW q \in Calls, ExchangeStep(q) \/ RunOk(q) \/ Cancel(q) PROVE FastInv'
  <2>1. UNCHANGED <<conn, lazy, fastPath>>
    BY <1>6 DEF ExchangeStep, EarlyCancelled, EarlyDialFailed, EarlyReserve,
       EarlySaysDone, RunFails, Leave, RunOk, Cancel, lazyVars, countVars
  <2>2. \E l \in {"start", "failed", "leave", "earlyGot", "earlyNone", "runEarly",
                  "answered", "leaveOk", pc[q]} : pc' = [pc EXCEPT ![q] = l]
    BY <1>6, RetryType DEF ExchangeStep, EarlyCancelled, EarlyDialFailed, EarlyReserve,
       EarlySaysDone, RunFails, Leave, RunOk, Cancel
  <2>3. QED BY <2>1, <2>2
<1>7. ASSUME NEW c \in Conns, DialReturns(c) \/ DialEnds(c) \/ ConnDies(c) \/ CloseConn(c)
      PROVE  FastInv'
  <2>1. UNCHANGED <<pc, conn, fastPath>>
    BY <1>7 DEF DialReturns, DialEnds, ConnDies, CloseConn, callVars, countVars
  <2>2. \A d \in Conns : lazy[d] = "ok" => lazy'[d] = "ok"
    BY <1>7 DEF DialReturns, DialEnds, ConnDies, CloseConn, DialInv
  <2>3. QED BY <2>1, <2>2
<1>8. CASE CloseStarts \/ CloseReturns \/ UNCHANGED vars
  BY <1>8 DEF CloseStarts, CloseReturns, vars, callVars, countVars, lazyVars
<1>9. QED BY <1>1, <1>2, <1>3, <1>4, <1>5, <1>6, <1>7, <1>8 DEF Next, ScanStep

-----------------------------------------------------------------------------
(* No connection is forgotten                                               *)

New(c) == \E q \in Calls : pc[q] = "new" /\ conn[q] = c

(* A step of a connection or of Close keeps what is alive where it is.      *)
LEMMA KeptStep ==
  ASSUME TypeOK, ScanInv, DialInv, KeptInv, [Next]_vars PROVE KeptInv'
<1> USE DEF TypeOK, Goto, Take, KeptInv, Alive
<1>1. ASSUME NEW q \in Calls, ReserveNew(q) PROVE KeptInv'
  <2>1. /\ conn[q] \in Conns /\ pc[q] = "new" /\ mutex = q /\ mutex' = None
        /\ \A p \in Calls \ {q} : pc[p] \notin {"scan", "new"}
    BY <1>1 DEF ReserveNew, ScanInv
  <2>2. UNCHANGED <<lazyVars, closed, closeLeft, closeDone>> /\ conns' = conns \cup {conn[q]}
    BY <1>1 DEF ReserveNew
  <2>3. ~closed BY <2>1
  <2>4. \A c \in Conns : Alive(c) => c \in conns \cup {conn[q]} BY <2>1
  <2>5. QED BY <2>1, <2>2, <2>3, <2>4, NoneAssumption DEF lazyVars
<1>2. ASSUME NEW q \in Calls, NEW c \in Conns, ScanEarly(q, c) \/ ScanDead(q, c) \/ ScanDialed(q, c)
      PROVE  KeptInv'
  <2>1. /\ mutex = q /\ pc[q] = "scan" /\ mutex' \in {mutex, None}
        /\ \A p \in Calls : pc[p] # "new"
    BY <1>2 DEF ScanEarly, ScanDead, ScanDialed, MayAsk, ScanInv
  <2>2. UNCHANGED <<lazyVars, closed, closeLeft, closeDone>>
    BY <1>2 DEF ScanEarly, ScanDead, ScanDialed, poolVars
  <2>3. ~closed BY <2>1
  <2>4. \A d \in Conns : Alive(d) /\ d \in conns => d \in conns'
    BY <1>2 DEF ScanEarly, ScanDead, ScanDialed, Kept, DialInv, poolVars
  <2>5. QED BY <2>1, <2>2, <2>3, <2>4, NoneAssumption DEF lazyVars
<1>3. ASSUME NEW q \in Calls, NEW c \in Conns, NewConn(q, c) PROVE KeptInv'
  <2>1. /\ pc[q] = "scan" /\ mutex = q /\ \A p \in Calls : pc[p] # "new"
    BY <1>3 DEF NewConn, ScanInv
  <2>2. ~closed BY <2>1
  <2>3. /\ dialer' = [dialer EXCEPT ![c] = "dialing"] /\ UNCHANGED <<lazy, dc, mutex, poolVars>>
        /\ conn' = [conn EXCEPT ![q] = c] /\ pc' = [pc EXCEPT ![q] = "new"]
    BY <1>3 DEF NewConn
  <2>4. QED BY <2>1, <2>2, <2>3 DEF poolVars
<1>4. ASSUME NEW q \in Calls, Lock(q) PROVE KeptInv'
  <2>1. /\ UNCHANGED <<conn, poolVars, lazyVars>> /\ pc[q] = "start" /\ mutex = None
        /\ \/ closed /\ pc' = [pc EXCEPT ![q] = "failed"] /\ mutex' = mutex
           \/ ~closed /\ pc' = [pc EXCEPT ![q] = "scan"] /\ mutex' = q
    BY <1>4 DEF Lock
  <2>2. QED BY <2>1, NoneAssumption DEF poolVars, lazyVars
<1>5. ASSUME NEW q \in Calls, ExchangeStep(q) \/ RunOk(q) \/ Cancel(q) PROVE KeptInv'
  <2>1. UNCHANGED <<conn, mutex, poolVars, lazyVars>>
    BY <1>5 DEF ExchangeStep, EarlyCancelled, EarlyDialFailed, EarlyReserve,
       EarlySaysDone, RunFails, Leave, RunOk, Cancel
  <2>2. pc[q] \notin {"scan", "new"} /\
        \E l \in {"start", "failed", "leave", "earlyGot", "earlyNone", "runEarly",
                  "answered", "leaveOk", pc[q]} : pc' = [pc EXCEPT ![q] = l]
    BY <1>5, RetryType DEF ExchangeStep, EarlyCancelled, EarlyDialFailed, EarlyReserve,
       EarlySaysDone, RunFails, Leave, RunOk, Cancel
  <2>3. QED BY <2>1, <2>2 DEF poolVars, lazyVars
<1>6. ASSUME NEW c \in Conns, DialReturns(c) \/ DialEnds(c) \/ ConnDies(c) PROVE KeptInv'
  <2>1. UNCHANGED <<callVars, mutex, poolVars>>
    BY <1>6 DEF DialReturns, DialEnds, ConnDies
  <2>2. \A d \in Conns : /\ Alive(d)' => Alive(d)
                         /\ dialer[d] # "none" => dialer'[d] # "none"
    BY <1>6 DEF DialReturns, DialEnds, ConnDies, Abandoned, DialInv
  <2>3. QED BY <2>1, <2>2 DEF callVars, poolVars
<1>7. ASSUME NEW c \in Conns, CloseConn(c) PROVE KeptInv'
  <2>1. /\ mutex = "Close" /\ c \in closeLeft /\ closeLeft' = closeLeft \ {c}
        /\ UNCHANGED <<callVars, mutex, closed, conns, closeDone, dialer>>
    BY <1>7 DEF CloseConn
  <2>2. lazy'[c] = "failed" \/ dc'[c] = "closed"
    BY <1>7 DEF CloseConn
  <2>3. \A d \in Conns \ {c} : lazy'[d] = lazy[d] /\ dc'[d] = dc[d]
    BY <1>7 DEF CloseConn
  <2>4. \A d \in Conns : Alive(d)' => d # c /\ Alive(d) BY <2>1, <2>2, <2>3
  <2>5. QED BY <2>1, <2>4 DEF callVars
<1>8. CASE CloseStarts
  <2>1. /\ mutex = None /\ ~closed /\ closeLeft' = conns /\ closed' = TRUE
        /\ UNCHANGED <<callVars, conns, closeDone, lazyVars>>
    BY <1>8 DEF CloseStarts
  <2>2. \A q \in Calls : pc[q] \notin {"scan", "new"}
    BY <2>1, NoneAssumption DEF ScanInv
  <2>3. \A c \in conns : dialer[c] # "none" BY DEF ScanInv
  <2>4. QED BY <2>1, <2>2, <2>3 DEF callVars, lazyVars
<1>9. CASE CloseReturns
  BY <1>9 DEF CloseReturns, callVars, lazyVars
<1>10. CASE UNCHANGED vars BY <1>10 DEF vars, callVars, poolVars, lazyVars
<1>11. QED BY <1>1, <1>2, <1>3, <1>4, <1>5, <1>6, <1>7, <1>8, <1>9, <1>10 DEF Next, ScanStep

-----------------------------------------------------------------------------
IInv == TypeOK /\ ScanInv /\ DialInv /\ CountersExact /\ FastInv /\ KeptInv

LEMMA InitInv == ASSUME Init PROVE IInv
<1>1. TypeOK BY TypeInit
<1>2. ScanInv BY NoneAssumption DEF Init, ScanInv
<1>3. DialInv BY DEF Init, DialInv
<1>4. \A c, L : "start" \notin L => On(c, L) = {} BY DEF Init, On
<1>5. \A c \in Conns :
        /\ On(c, {"run", "runEarly", "earlyGot"}) = {}
        /\ On(c, {"early", "earlyGot", "earlyNone", "runEarly", "leave", "leaveOk"}) = {}
        /\ On(c, {"early", "earlyGot", "earlyNone"}) = {}
  BY <1>4
<1>6. CountersExact BY <1>5, FS_EmptySet DEF Init, CountersExact
<1>7. FastInv BY DEF Init, FastInv
<1>8. KeptInv BY NoneAssumption DEF Init, KeptInv, Alive
<1>9. QED BY <1>1, <1>2, <1>3, <1>6, <1>7, <1>8 DEF IInv

LEMMA StepInv == ASSUME IInv, [Next]_vars PROVE IInv'
BY TypeStep, ScanStepInv, DialStep, CountStep, FastStep, KeptStep DEF IInv

(* The strengthened invariant holds in every reachable state.               *)
THEOREM Invariance == Spec => []IInv
<1>1. Init => IInv BY InitInv
<1>2. IInv /\ [Next]_vars => IInv' BY StepInv
<1>3. QED BY <1>1, <1>2, PTL DEF Spec

(* Places, early reservations and the callers a wait is for are counted     *)
(* exactly, on every path out of an exchange.                               *)
THEOREM CountersCorrect == Spec => []CountersExact
<1>1. IInv => CountersExact BY DEF IInv
<1>2. QED BY <1>1, Invariance, PTL

(* A query that comes after the dial takes no place while one that reserved *)
(* during the dial has not asked for its own.                               *)
THEOREM EarlyComesFirst == Spec => EarlyFirst
<1>1. IInv => \A q \in Calls : \A c \in Conns : ScanDialed(q, c) => On(c, {"early"}) = {}
  BY WaitOver DEF IInv
<1>2. QED BY <1>1, Invariance, PTL DEF EarlyFirst

(* An open connection is in the pool or with its maker, and none is open    *)
(* after Close has returned, except one that is being dialed.               *)
THEOREM OpenConnsAreKept == Spec => []OpenConnsKept
<1>1. ASSUME IInv PROVE OpenConnsKept
  <2> SUFFICES ASSUME NEW c \in Conns, dc[c] = "open"
               PROVE  /\ dialer[c] = "end" =>
                           c \in conns \/ \E q \in Calls : pc[q] = "new" /\ conn[q] = c
                      /\ closeDone => dialer[c] \notin {"none", "end"}
    BY DEF OpenConnsKept
  <2>1. dialer[c] # "none" BY <1>1 DEF IInv, DialInv
  <2>2. dialer[c] = "end" => Alive(c) BY <1>1, <2>1 DEF IInv, DialInv, Alive
  <2>3. QED BY <1>1, <2>1, <2>2 DEF IInv, KeptInv
<1>2. QED BY <1>1, Invariance, PTL

=============================================================================

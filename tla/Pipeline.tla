------------------------------ MODULE Pipeline ------------------------------
(***************************************************************************)
(* pkg/upstream/transport/pipeline.go and conn_lazy_dial.go: a pool of     *)
(* connections that many queries share.  A connection is lazy: queries     *)
(* reserve a place on it while it is still being dialed ("early" ones) and *)
(* reserve again on the real connection once the dial has finished.        *)
(*                                                                         *)
(* The dialed DnsConn is the one TraditionalConn models; here it is its    *)
(* number of places, DcCap, and whether it is open.  t.m is held from the  *)
(* start of getReservedExchanger to its end, over every lc.mu section in   *)
(* it and over earlyReserveCallWg.Wait.                                    *)
(*                                                                         *)
(* A variant named X_Y is X with a bug, for the mutation tests.            *)
(***************************************************************************)
EXTENDS Integers, FiniteSets

CONSTANTS
    Calls,      \* the calls of ExchangeContext, each made once
    Conns,      \* the lazy connections that can be made
    None,       \* no call, no connection
    DcCap,      \* queries a dialed connection takes
    MaxEarlies, \* the values of maxLazyConnQueue
    MaxRetry,   \* maxRetry of ExchangeContext
    MaxAttempt  \* maxReserveAttempt of getReservedExchanger

ASSUME CapAssumption == DcCap \in Nat /\ MaxEarlies \subseteq Nat \ {0}
ASSUME RetryAssumption == MaxRetry \in Nat /\ MaxAttempt \in Nat
ASSUME CallsAssumption == IsFiniteSet(Calls)
ASSUME NoneAssumption == None \notin Calls \cup Conns \cup {"Close"} /\ "Close" \notin Calls

VARIABLES
    pc, conn, isNew, retry,  \* callers
    cancelled,               \* the callers whose ctx is done
    tried,                   \* per caller: connections this scan has asked
    mutex,                   \* holder of t.m: a call, "Close" or None
    closed, conns,           \* the transport's fields
    closeLeft, closeDone,    \* connections Close still has to close; it returned
    dialer,                  \* per connection: the dial goroutine
    maxEarly,                \* early queries a connection takes while it is dialed
    lazy,                    \* per connection: dialFinished, and how
    lazyClosed,              \* per connection: lazyDnsConn.closed
    dc,                      \* per connection: the dialed DnsConn
    fastPath, reservedQuery, earlyWg,  \* per connection
    slots                    \* per connection: places taken on the DnsConn

callVars == <<pc, conn, isNew, retry, cancelled, tried>>
poolVars == <<closed, conns, closeLeft, closeDone>>
lazyVars == <<dialer, maxEarly, lazy, lazyClosed, dc>>
countVars == <<fastPath, reservedQuery, earlyWg, slots>>
vars == <<callVars, mutex, poolVars, lazyVars, countVars>>

Init ==
    /\ pc = [q \in Calls |-> "start"]
    /\ conn = [q \in Calls |-> None]
    /\ isNew = [q \in Calls |-> FALSE]
    /\ retry = [q \in Calls |-> 0]
    /\ cancelled = {}
    /\ tried = [q \in Calls |-> {}]
    /\ mutex = None
    /\ closed = FALSE /\ conns = {} /\ closeLeft = {} /\ closeDone = FALSE
    /\ dialer = [c \in Conns |-> "none"]
    /\ maxEarly \in MaxEarlies
    /\ lazy = [c \in Conns |-> "dialing"]
    /\ lazyClosed = [c \in Conns |-> FALSE]
    /\ dc = [c \in Conns |-> "none"]
    /\ fastPath = [c \in Conns |-> 0]
    /\ reservedQuery = [c \in Conns |-> 0]
    /\ earlyWg = [c \in Conns |-> 0]
    /\ slots = [c \in Conns |-> 0]

Goto(q, label) == pc' = [pc EXCEPT ![q] = label]
Add(f, c, n) == [f EXCEPT ![c] = @ + n]

(* DnsConn.ReserveNewQuery of the dialed connection. *)
DcFree(c) == dc[c] = "open" /\ slots[c] < DcCap

-----------------------------------------------------------------------------
(* getReservedExchanger *)

Lock(q) ==
    /\ pc[q] = "start" /\ mutex = None
    /\ \/ /\ closed
          /\ Goto(q, "failed")
          /\ UNCHANGED <<mutex, tried>>
       \/ /\ ~closed
          /\ mutex' = q
          /\ tried' = [tried EXCEPT ![q] = {}]
          /\ Goto(q, "scan")
    /\ UNCHANGED <<conn, isNew, retry, cancelled, poolVars, lazyVars, countVars>>

Attempts(q) == Cardinality(tried[q])

(* c.ReserveNewQuery() on the next connection of t.conns. *)
MayAsk(q, c) ==
    /\ pc[q] = "scan" /\ Attempts(q) <= MaxAttempt
    /\ c \in conns \ tried[q]

(* The scan has what it wanted and leaves with t.m unlocked. *)
Take(q, c, new, label) ==
    /\ conn' = [conn EXCEPT ![q] = c]
    /\ isNew' = [isNew EXCEPT ![q] = new]
    /\ Goto(q, label)
    /\ mutex' = None

AskNext(q, c) == tried' = [tried EXCEPT ![q] = @ \cup {c}]

(* Still dialing: an early reservation, if there is room for one. *)
EarlyRoom(c) == reservedQuery[c] < maxEarly

ScanEarly(q, c) ==
    /\ MayAsk(q, c) /\ lazy[c] = "dialing"
    /\ \/ /\ EarlyRoom(c)
          /\ reservedQuery' = Add(reservedQuery, c, 1)
          /\ earlyWg' = Add(earlyWg, c, 1)
          /\ Take(q, c, FALSE, "early")
          /\ UNCHANGED tried
       \/ /\ ~EarlyRoom(c)
          /\ AskNext(q, c)
          /\ UNCHANGED <<reservedQuery, earlyWg, conn, isNew, pc, mutex>>
    /\ UNCHANGED <<retry, cancelled, poolVars, lazyVars, fastPath, slots>>

(* The dial failed or was canceled: the connection is forgotten. *)
ScanDead(q, c) ==
    /\ MayAsk(q, c) /\ lazy[c] = "failed"
    /\ fastPath' = [fastPath EXCEPT ![c] = 2]
    /\ conns' = conns \ {c}
    /\ AskNext(q, c)
    /\ UNCHANGED <<pc, conn, isNew, retry, cancelled, mutex, closed, closeLeft,
                   closeDone, lazyVars, reservedQuery, earlyWg, slots>>

(* Dialed: wait until the early callers have reserved, once, and reserve.   *)
(* Here and below X_Y is X with a bug, for the mutation tests.              *)
EarlyDone_NoWait(c) == TRUE
EarlyDone(c) == fastPath[c] = 1 \/ earlyWg[c] = 0

(* What is left of t.conns when c has no place: a closed one is deleted.     *)
Kept(c) == IF dc[c] = "open" THEN conns ELSE conns \ {c}

ScanDialed(q, c) ==
    /\ MayAsk(q, c) /\ lazy[c] = "ok" /\ EarlyDone(c)
    /\ fastPath' = [fastPath EXCEPT ![c] = 1]
    /\ \/ /\ DcFree(c)
          /\ slots' = Add(slots, c, 1)
          /\ Take(q, c, FALSE, "run")
          /\ UNCHANGED <<tried, conns>>
       \/ /\ ~DcFree(c)
          /\ conns' = Kept(c)
          /\ AskNext(q, c)
          /\ UNCHANGED <<slots, pc, conn, isNew, mutex>>
    /\ UNCHANGED <<retry, cancelled, closed, closeLeft, closeDone, lazyVars,
                   reservedQuery, earlyWg>>

(* Nothing to reuse: newLazyDnsConn starts the dial goroutine.              *)
NewConn(q, c) ==
    /\ pc[q] = "scan"
    /\ Attempts(q) > MaxAttempt \/ conns \subseteq tried[q]
    /\ dialer[c] = "none"
    /\ dialer' = [dialer EXCEPT ![c] = "dialing"]
    /\ conn' = [conn EXCEPT ![q] = c]
    /\ Goto(q, "new")
    /\ UNCHANGED <<isNew, retry, cancelled, tried, mutex, poolVars, maxEarly,
                   lazy, lazyClosed, dc, countVars>>

(* ReserveNewQuery on the new connection, whose dial may be over already.   *)
ReserveNew(q) ==
    LET c == conn[q] IN
    /\ pc[q] = "new"
    /\ conns' = conns \cup {c}
    /\ \/ /\ lazy[c] = "dialing"
          /\ reservedQuery' = Add(reservedQuery, c, 1)
          /\ earlyWg' = Add(earlyWg, c, 1)
          /\ Take(q, c, TRUE, "early")
          /\ UNCHANGED <<fastPath, slots>>
       \/ /\ lazy[c] = "ok" /\ DcFree(c)
          /\ fastPath' = [fastPath EXCEPT ![c] = 1]
          /\ slots' = Add(slots, c, 1)
          /\ Take(q, c, TRUE, "run")
          /\ UNCHANGED <<reservedQuery, earlyWg>>
       \/ /\ lazy[c] = "failed" \/ (lazy[c] = "ok" /\ ~DcFree(c))
          /\ fastPath' = [fastPath EXCEPT ![c] = IF lazy[c] = "ok" THEN 1 ELSE 2]
          /\ Take(q, None, FALSE, "failed")
          /\ UNCHANGED <<reservedQuery, earlyWg, slots>>
    /\ UNCHANGED <<retry, cancelled, tried, closed, closeLeft, closeDone, lazyVars>>

-----------------------------------------------------------------------------
(* ExchangeReserved *)

(* ExchangeContext tries again on an error of a reused connection. *)
MayRetry(q) == ~isNew[q] /\ retry[q] < MaxRetry /\ q \notin cancelled
RetryOrFail(q) ==
    IF MayRetry(q)
      THEN retry' = Add(retry, q, 1) /\ Goto(q, "start")
      ELSE Goto(q, "failed") /\ UNCHANGED retry

(* lc.mu is held by a scan that waits in earlyReserveCallWg.Wait. *)
MuFree(c) ==
    ~ \E p \in Calls : mutex = p /\ MayAsk(p, c) /\ lazy[c] = "ok" /\ ~EarlyDone(c)

(* An early call: its ctx ends first ... *)
WgDone_Forgotten(c) == UNCHANGED earlyWg
WgDone(c) == earlyWg' = Add(earlyWg, c, -1)

EarlyCancelled(q) ==
    /\ pc[q] = "early" /\ q \in cancelled
    /\ WgDone(conn[q])
    /\ Goto(q, "leave")
    /\ UNCHANGED <<conn, isNew, retry, cancelled, tried, mutex, poolVars, lazyVars,
                   fastPath, reservedQuery, slots>>

(* ... or the dial has failed (and nobody waits for this call) ... *)
EarlyDialFailed(q) ==
    /\ pc[q] = "early" /\ lazy[conn[q]] = "failed"
    /\ Goto(q, "leave")
    /\ UNCHANGED <<conn, isNew, retry, cancelled, tried, mutex, poolVars, lazyVars,
                   countVars>>

(* ... or it reserves on the dialed connection, and then says Done.         *)
EarlyReserve(q) ==
    LET c == conn[q] IN
    /\ pc[q] = "early" /\ lazy[c] = "ok"
    /\ IF DcFree(c)
         THEN slots' = Add(slots, c, 1) /\ Goto(q, "earlyGot")
         ELSE UNCHANGED slots /\ Goto(q, "earlyNone")
    /\ UNCHANGED <<conn, isNew, retry, cancelled, tried, mutex, poolVars, lazyVars,
                   fastPath, reservedQuery, earlyWg>>

EarlySaysDone(q) ==
    /\ pc[q] \in {"earlyGot", "earlyNone"}
    /\ WgDone(conn[q])
    /\ Goto(q, IF pc[q] = "earlyGot" THEN "runEarly" ELSE "leave")
    /\ UNCHANGED <<conn, isNew, retry, cancelled, tried, mutex, poolVars, lazyVars,
                   fastPath, reservedQuery, slots>>

(* The exchange on the dialed connection ends; it gives its place back.     *)
RunOk(q) ==
    /\ pc[q] \in {"run", "runEarly"} /\ dc[conn[q]] = "open"
    /\ slots' = Add(slots, conn[q], -1)
    /\ Goto(q, IF pc[q] = "run" THEN "answered" ELSE "leaveOk")
    /\ UNCHANGED <<conn, isNew, retry, cancelled, tried, mutex, poolVars, lazyVars,
                   fastPath, reservedQuery, earlyWg>>

RunFails(q) ==
    /\ pc[q] \in {"run", "runEarly"}
    /\ slots' = Add(slots, conn[q], -1)
    /\ IF pc[q] = "run" THEN RetryOrFail(q)
       ELSE Goto(q, "leave") /\ UNCHANGED retry
    /\ UNCHANGED <<conn, isNew, cancelled, tried, mutex, poolVars, lazyVars,
                   fastPath, reservedQuery, earlyWg>>

(* The deferred reservedQuery-- of an early call. *)
Leave(q) ==
    /\ pc[q] \in {"leave", "leaveOk"} /\ MuFree(conn[q])
    /\ reservedQuery' = Add(reservedQuery, conn[q], -1)
    /\ IF pc[q] = "leave" THEN RetryOrFail(q)
       ELSE Goto(q, "answered") /\ UNCHANGED retry
    /\ UNCHANGED <<conn, isNew, cancelled, tried, mutex, poolVars, lazyVars,
                   fastPath, earlyWg, slots>>

(* The ctx ends; it is looked at only in these places and by MayRetry.       *)
Cancel(q) ==
    /\ pc[q] \in {"early", "run", "runEarly"} /\ q \notin cancelled
    /\ cancelled' = cancelled \cup {q}
    /\ UNCHANGED <<pc, conn, isNew, retry, tried, mutex, poolVars, lazyVars, countVars>>

-----------------------------------------------------------------------------
(* Dial goroutines and the life of the dialed connection *)

DialReturns(c) ==
    /\ dialer[c] = "dialing"
    /\ \/ /\ dialer' = [dialer EXCEPT ![c] = "dialed"]
          /\ dc' = [dc EXCEPT ![c] = "open"]
       \/ /\ dialer' = [dialer EXCEPT ![c] = "failed"]
          /\ UNCHANGED dc
    /\ UNCHANGED <<callVars, mutex, poolVars, maxEarly, lazy, lazyClosed, countVars>>

(* The goroutine publishes its result under lc.mu, unless lc was closed.    *)
Abandoned_Kept(c) == dc[c]
Abandoned(c) == IF dc[c] = "open" THEN "closed" ELSE dc[c]

DialEnds(c) ==
    /\ dialer[c] \in {"dialed", "failed"}
    /\ \/ /\ lazyClosed[c]
          /\ dc' = [dc EXCEPT ![c] = Abandoned(c)]
          /\ UNCHANGED lazy
       \/ /\ ~lazyClosed[c]
          /\ lazy' = [lazy EXCEPT ![c] = IF dialer[c] = "dialed" THEN "ok" ELSE "failed"]
          /\ UNCHANGED dc
    /\ dialer' = [dialer EXCEPT ![c] = "end"]
    /\ UNCHANGED <<callVars, mutex, poolVars, maxEarly, lazyClosed, countVars>>

(* The connection dies: a read error, an idle timeout. *)
ConnDies(c) ==
    /\ dc[c] = "open" /\ lazy[c] = "ok"
    /\ dc' = [dc EXCEPT ![c] = "closed"]
    /\ UNCHANGED <<callVars, mutex, poolVars, dialer, maxEarly, lazy, lazyClosed, countVars>>

-----------------------------------------------------------------------------
(* Close *)

CloseStarts ==
    /\ mutex = None /\ ~closed
    /\ mutex' = "Close"
    /\ closed' = TRUE
    /\ closeLeft' = conns
    /\ UNCHANGED <<callVars, conns, closeDone, lazyVars, countVars>>

(* lazyDnsConn.Close: cancels a dial or closes the connection. *)
CloseConn(c) ==
    /\ mutex = "Close" /\ c \in closeLeft
    /\ closeLeft' = closeLeft \ {c}
    /\ lazyClosed' = [lazyClosed EXCEPT ![c] = TRUE]
    /\ \/ /\ lazy[c] = "dialing"
          /\ lazy' = [lazy EXCEPT ![c] = "failed"]
          /\ UNCHANGED dc
       \/ /\ lazy[c] = "ok"
          /\ dc' = [dc EXCEPT ![c] = "closed"]
          /\ UNCHANGED lazy
       \/ /\ lazy[c] = "failed"
          /\ UNCHANGED <<lazy, dc>>
    /\ UNCHANGED <<callVars, mutex, closed, conns, closeDone, dialer, maxEarly, countVars>>

CloseReturns ==
    /\ mutex = "Close" /\ closeLeft = {}
    /\ mutex' = None
    /\ closeDone' = TRUE
    /\ UNCHANGED <<callVars, closed, conns, closeLeft, lazyVars, countVars>>

-----------------------------------------------------------------------------
ScanStep(q) ==
    \/ Lock(q) \/ ReserveNew(q)
    \/ \E c \in Conns : ScanEarly(q, c) \/ ScanDead(q, c) \/ ScanDialed(q, c) \/ NewConn(q, c)

ExchangeStep(q) ==
    \/ EarlyCancelled(q) \/ EarlyDialFailed(q) \/ EarlyReserve(q) \/ EarlySaysDone(q)
    \/ RunFails(q) \/ Leave(q)

Next ==
    \/ \E q \in Calls : ScanStep(q) \/ ExchangeStep(q) \/ RunOk(q) \/ Cancel(q)
    \/ \E c \in Conns : DialReturns(c) \/ DialEnds(c) \/ ConnDies(c) \/ CloseConn(c)
    \/ CloseStarts \/ CloseReturns

Spec == Init /\ [][Next]_vars

(* Goroutines are scheduled; a dial ends by its timeout and an exchange on  *)
(* the dialed connection ends (TraditionalConn!CallsReturn).                *)
Fairness ==
    /\ \A q \in Calls : SF_vars(Lock(q)) /\ WF_vars(ScanStep(q)) /\ WF_vars(ExchangeStep(q))
    /\ \A c \in Conns : WF_vars(DialReturns(c)) /\ WF_vars(DialEnds(c)) /\ WF_vars(CloseConn(c))
    /\ WF_vars(CloseReturns)

FairSpec == Spec /\ Fairness

-----------------------------------------------------------------------------
TypeOK ==
    /\ pc \in [Calls -> {"start", "scan", "new", "early", "earlyGot", "earlyNone", "run",
                         "runEarly", "leave", "leaveOk", "answered", "failed"}]
    /\ conn \in [Calls -> Conns \cup {None}]
    /\ isNew \in [Calls -> BOOLEAN]
    /\ retry \in [Calls -> 0 .. MaxRetry]
    /\ cancelled \subseteq Calls
    /\ tried \in [Calls -> SUBSET Conns]
    /\ mutex \in Calls \cup {None, "Close"}
    /\ closed \in BOOLEAN /\ closeDone \in BOOLEAN
    /\ conns \subseteq Conns /\ closeLeft \subseteq Conns
    /\ dialer \in [Conns -> {"none", "dialing", "dialed", "failed", "end"}]
    /\ maxEarly \in MaxEarlies
    /\ lazy \in [Conns -> {"dialing", "ok", "failed"}]
    /\ lazyClosed \in [Conns -> BOOLEAN]
    /\ dc \in [Conns -> {"none", "open", "closed"}]
    /\ fastPath \in [Conns -> 0 .. 2]
    /\ reservedQuery \in [Conns -> Int] /\ earlyWg \in [Conns -> Int]
    /\ slots \in [Conns -> Int]

On(c, labels) == {q \in Calls : conn[q] = c /\ pc[q] \in labels}

(* The three counters of a connection are exact on every path: places on    *)
(* the dialed connection, early reservations, and the early callers a wait  *)
(* is for (after a failed dial nobody waits, and the code skips Done).      *)
CountersExact ==
    \A c \in Conns :
        /\ slots[c] = Cardinality(On(c, {"run", "runEarly", "earlyGot"}))
        /\ reservedQuery[c] = Cardinality(On(c,
              {"early", "earlyGot", "earlyNone", "runEarly", "leave", "leaveOk"}))
        /\ lazy[c] # "failed" =>
              earlyWg[c] = Cardinality(On(c, {"early", "earlyGot", "earlyNone"}))

(* "earlyExchangeWg makes sure that early exchange calls ReserveNewQuery    *)
(* first": a query that comes after the dial never takes a place while one  *)
(* that reserved during the dial has not yet asked for its own.             *)
EarlyFirst ==
    [][\A q \in Calls : \A c \in Conns :
         ScanDialed(q, c) => On(c, {"early"}) = {}]_vars

(* A dialed connection that is open is in the pool, or about to be used by  *)
(* the call that dialed it: none is forgotten.  After Close has returned no *)
(* connection stays open, not even one whose dial finishes later.           *)
OpenConnsKept ==
    \A c \in Conns : dc[c] = "open" =>
        /\ dialer[c] = "end" =>
              c \in conns \/ \E q \in Calls : pc[q] = "new" /\ conn[q] = c
        /\ closeDone => dialer[c] \notin {"none", "end"}

(* Every call returns: a scan that waits for early callers under t.m waits  *)
(* only for callers that need no lock to go on.                             *)
CallsReturn == \A q \in Calls : <>(pc[q] \in {"answered", "failed"})
=============================================================================

-------------------------- MODULE TraditionalConn --------------------------
(***************************************************************************)
(* pkg/upstream/transport/conn_traditional.go: one connection (UDP, TCP or *)
(* TLS) on which many queries run at once.  Each query is given a qid that *)
(* no other query in the queue has; the read loop hands a reply to the     *)
(* query its qid finds in the queue.                                       *)
(*                                                                         *)
(* Threads: one caller per query, which reserves, then exchanges or        *)
(* withdraws; the read loop; the caller of Close.  The read deadlines only *)
(* decide when a read fails, so waitingResp is left out: a read may fail   *)
(* at any time, and fails in the end when nothing is read.                 *)
(*                                                                         *)
(* A variant named X_Y is X with a bug, for the mutation tests.            *)
(***************************************************************************)
EXTENDS Integers, FiniteSets

CONSTANTS
    Calls,      \* the callers
    NoCall,     \* no caller: an empty slot of the queue, a nil channel
    NoReply,    \* a call that has no reply
    NumQids,    \* number of qids: 2^16 in the code
    MaxTries,   \* qids addQueueC tries: 100 in the code
    MaxCqs      \* the values of maxCq, the concurrent query limit

ASSUME QidAssumption == NumQids \in Nat \ {0} /\ MaxTries \in 1 .. NumQids
ASSUME CqAssumption == MaxCqs \subseteq Nat \ {0}
ASSUME CallsAssumption == IsFiniteSet(Calls)
ASSUME NoCallAssumption == NoCall \notin Calls /\ NoReply \notin Calls

Qids == 0 .. NumQids - 1

VARIABLES
    isTcp,     \* over TCP: no resending, and no message is duplicated
    maxCq,     \* the limit of this connection
    pc,        \* per call: where it is
    qid,       \* per call: assignedQid, -1 before addQueueC
    reply,     \* per call: the call its reply was sent for, or NoReply
    reserved,  \* reservedQuery
    issued,    \* qids taken from nextQid so far; nextQid is issued % NumQids
    stamp,     \* per call: the value of issued its qid came from (history)
    queue,     \* queue: qid -> the call that owns the respChan
    cancelled, \* the calls whose ctx is done
    closed,    \* closed, the flag ReserveNewQuery looks at
    notified,  \* closeNotify is closed, and so is the socket
    closer,    \* the thread inside closeOnce
    loop,      \* where the read loop is
    msg,       \* the reply in its hands: the call it was sent for
    target,    \* the call whose channel getQueueC returned
    inflight   \* queries sent that the server may still reply to

callVars == <<pc, qid, reply, stamp, cancelled>>
countVars == <<reserved, issued, queue>>
connVars == <<isTcp, maxCq, closed, notified, closer>>
loopVars == <<loop, msg, target>>
vars == <<callVars, countVars, connVars, loopVars, inflight>>

(* Threads that may call CloseWithErr, besides the callers. *)
ReadLoop == "readLoop"
Closer == "Close"

Init ==
    /\ isTcp \in BOOLEAN /\ maxCq \in MaxCqs
    /\ pc = [c \in Calls |-> "new"]
    /\ qid = [c \in Calls |-> -1]
    /\ reply = [c \in Calls |-> NoReply]
    /\ stamp = [c \in Calls |-> -1]
    /\ cancelled = {}
    /\ reserved = 0 /\ issued = 0
    /\ queue = [i \in Qids |-> NoCall]
    /\ closed = FALSE /\ notified = FALSE /\ closer = NoCall
    /\ loop = "read" /\ msg = NoCall /\ target = NoCall
    /\ inflight = {}

QueueLen == Cardinality({i \in Qids : queue[i] # NoCall})

Goto(c, label) == pc' = [pc EXCEPT ![c] = label]

-----------------------------------------------------------------------------
(* Callers *)

(* ReserveNewQuery reads closed before it takes queueMu. *)
CheckClosed(c) ==
    /\ pc[c] = "new"
    /\ Goto(c, IF closed THEN "done" ELSE "reserve")
    /\ UNCHANGED <<qid, reply, stamp, cancelled, countVars, connVars, loopVars, inflight>>

HasRoom_QueueOnly == QueueLen < maxCq
HasRoom == QueueLen + reserved < maxCq

Reserve(c) ==
    /\ pc[c] = "reserve" /\ HasRoom
    /\ reserved' = reserved + 1
    /\ Goto(c, "reserved")
    /\ UNCHANGED <<qid, reply, stamp, cancelled, issued, queue, connVars, loopVars, inflight>>

Refuse(c) ==
    /\ pc[c] = "reserve" /\ ~HasRoom
    /\ Goto(c, "refused")
    /\ UNCHANGED <<qid, reply, stamp, cancelled, countVars, connVars, loopVars, inflight>>

(* The holder of the reservation calls WithdrawReserved ... *)
GiveUp(c) ==
    /\ pc[c] = "reserved"
    /\ Goto(c, "withdraw")
    /\ UNCHANGED <<qid, reply, stamp, cancelled, countVars, connVars, loopVars, inflight>>

(* ... or ExchangeReserved, which looks at closeNotify first. *)
BeginExchange(c) ==
    /\ pc[c] = "reserved"
    /\ Goto(c, IF notified THEN "withdraw" ELSE "add")
    /\ UNCHANGED <<qid, reply, stamp, cancelled, countVars, connVars, loopVars, inflight>>

(* addQueueC: the first of MaxTries qids that is not in the queue. *)
Nth_Smallest(i) == i
Nth(i) == (issued + i) % NumQids
Free(i) == queue[Nth(i)] = NoCall /\ \A j \in 0 .. i - 1 : queue[Nth(j)] # NoCall

AddQueue(c) ==
    /\ pc[c] = "add"
    /\ \E i \in 0 .. MaxTries - 1 :
          /\ Free(i)
          /\ qid' = [qid EXCEPT ![c] = Nth(i)]
          /\ stamp' = [stamp EXCEPT ![c] = issued + i]
          /\ queue' = [queue EXCEPT ![Nth(i)] = c]
          /\ issued' = issued + i + 1
    /\ Goto(c, "write")
    /\ UNCHANGED <<reply, cancelled, reserved, connVars, loopVars, inflight>>

AddQueueFails(c) ==
    /\ pc[c] = "add"
    /\ \A i \in 0 .. MaxTries - 1 : queue[Nth(i)] # NoCall
    /\ issued' = issued + MaxTries
    /\ Goto(c, "tooMany")
    /\ UNCHANGED <<qid, reply, stamp, cancelled, reserved, queue, connVars, loopVars, inflight>>

(* The first write of exchange, or a resend on a tick. *)
WriteOk(c) ==
    /\ pc[c] \in {"write", "resend"}
    /\ ~notified
    /\ inflight' = inflight \cup {c}
    /\ Goto(c, "wait")
    /\ UNCHANGED <<qid, reply, stamp, cancelled, countVars, connVars, loopVars>>

WriteFails(c) ==
    /\ pc[c] \in {"write", "resend"}
    /\ Goto(c, "closing")
    /\ UNCHANGED <<qid, reply, stamp, cancelled, countVars, connVars, loopVars, inflight>>

Tick(c) ==
    /\ pc[c] = "wait" /\ ~isTcp
    /\ Goto(c, "resend")
    /\ UNCHANGED <<qid, reply, stamp, cancelled, countVars, connVars, loopVars, inflight>>

(* ctx.Done or closeNotify wins the select. *)
WaitEnds(c) == c \in cancelled \/ notified
WaitFails(c) ==
    /\ pc[c] = "wait" /\ WaitEnds(c)
    /\ Goto(c, "unqueue")
    /\ UNCHANGED <<qid, reply, stamp, cancelled, countVars, connVars, loopVars, inflight>>

(* The deferred deleteQueueC. *)
Unqueue(c) ==
    /\ pc[c] = "unqueue"
    /\ queue' = [queue EXCEPT ![qid[c]] = NoCall]
    /\ Goto(c, "withdraw")
    /\ UNCHANGED <<qid, reply, stamp, cancelled, reserved, issued, connVars, loopVars, inflight>>

(* WithdrawReserved, called or deferred. *)
Withdrawn_Never == reserved
Withdrawn == reserved - 1
Withdraw(c) ==
    /\ pc[c] \in {"withdraw", "tooMany"}
    /\ reserved' = Withdrawn
    /\ Goto(c, "done")
    /\ UNCHANGED <<qid, reply, stamp, cancelled, issued, queue, connVars, loopVars, inflight>>

-----------------------------------------------------------------------------
(* CloseWithErr: the first caller sets closed, then closeNotify is closed   *)
(* and the socket; the others wait in closeOnce until that is done.         *)

EnterOnce(t) ==
    /\ closer = NoCall /\ ~closed
    /\ closed' = TRUE /\ closer' = t
    /\ UNCHANGED <<isTcp, maxCq, notified>>

CallCloses(c) ==
    /\ pc[c] = "closing"
    /\ EnterOnce(c)
    /\ UNCHANGED <<callVars, countVars, loopVars, inflight>>

CallClosed(c) ==
    /\ pc[c] = "closing" /\ notified
    /\ Goto(c, "unqueue")
    /\ UNCHANGED <<qid, reply, stamp, cancelled, countVars, connVars, loopVars, inflight>>

LoopCloses ==
    /\ loop = "closing"
    /\ EnterOnce(ReadLoop)
    /\ UNCHANGED <<callVars, countVars, loopVars, inflight>>

LoopClosed ==
    /\ loop = "closing" /\ notified
    /\ loop' = "end"
    /\ UNCHANGED <<callVars, countVars, connVars, msg, target, inflight>>

Close ==
    /\ EnterOnce(Closer)
    /\ UNCHANGED <<callVars, countVars, loopVars, inflight>>

Notify ==
    /\ closer # NoCall
    /\ notified' = TRUE
    /\ closer' = NoCall
    /\ UNCHANGED <<isTcp, maxCq, callVars, countVars, closed, loopVars, inflight>>

-----------------------------------------------------------------------------
(* Read loop *)

(* A reply to a query that was sent; UDP may bring it again later.         *)
ReadReply(c) ==
    /\ loop = "read" /\ ~notified
    /\ c \in inflight
    /\ \E again \in BOOLEAN :
          /\ again => ~isTcp
          /\ inflight' = IF again THEN inflight ELSE inflight \ {c}
    /\ msg' = c
    /\ loop' = "lookup"
    /\ UNCHANGED <<callVars, countVars, connVars, target>>

ReadFails ==
    /\ loop = "read"
    /\ loop' = "closing"
    /\ UNCHANGED <<callVars, countVars, connVars, msg, target, inflight>>

(* getQueueC *)
Lookup ==
    /\ loop = "lookup"
    /\ target' = queue[qid[msg]]
    /\ loop' = "send"
    /\ UNCHANGED <<callVars, countVars, connVars, msg, inflight>>

(* The channel has no buffer: the reply passes only to a call that is in    *)
(* its select.                                                              *)
Deliver ==
    /\ loop = "send"
    /\ target # NoCall /\ pc[target] = "wait"
    /\ reply' = [reply EXCEPT ![target] = msg]
    /\ Goto(target, "unqueue")
    /\ loop' = "read" /\ msg' = NoCall /\ target' = NoCall
    /\ UNCHANGED <<qid, stamp, cancelled, countVars, connVars, inflight>>

Drop ==
    /\ loop = "send"
    /\ ~(target # NoCall /\ pc[target] = "wait")
    /\ loop' = "read" /\ msg' = NoCall /\ target' = NoCall
    /\ UNCHANGED <<callVars, countVars, connVars, inflight>>

Cancel(c) ==
    /\ pc[c] = "wait" /\ c \notin cancelled
    /\ cancelled' = cancelled \cup {c}
    /\ UNCHANGED <<pc, qid, reply, stamp, countVars, connVars, loopVars, inflight>>

-----------------------------------------------------------------------------
CallStep(c) ==
    \/ CheckClosed(c) \/ Reserve(c) \/ Refuse(c) \/ GiveUp(c) \/ BeginExchange(c)
    \/ AddQueue(c) \/ AddQueueFails(c) \/ WriteOk(c) \/ WriteFails(c)
    \/ WaitFails(c) \/ Unqueue(c) \/ Withdraw(c) \/ CallCloses(c) \/ CallClosed(c)

LoopStep == LoopCloses \/ LoopClosed \/ Lookup \/ Deliver \/ Drop

Next ==
    \/ \E c \in Calls : CallStep(c) \/ Tick(c) \/ Cancel(c) \/ ReadReply(c)
    \/ LoopStep \/ ReadFails \/ Close \/ Notify

Spec == Init /\ [][Next]_vars

(* Goroutines are scheduled, the read that waits has a deadline, and a      *)
(* select whose ctx.Done is ready each time does not choose the ticker for  *)
(* ever.                                                                    *)
Fairness ==
    /\ \A c \in Calls : WF_vars(CallStep(c)) /\ SF_vars(WaitFails(c))
    /\ WF_vars(LoopStep) /\ WF_vars(ReadFails) /\ WF_vars(Notify)

FairSpec == Spec /\ Fairness

-----------------------------------------------------------------------------
InQueue(c) == pc[c] \in {"write", "wait", "resend", "closing", "unqueue"}
Reserving(c) == InQueue(c) \/ pc[c] \in {"reserved", "add", "tooMany", "withdraw"}

TypeOK ==
    /\ isTcp \in BOOLEAN /\ maxCq \in MaxCqs
    /\ pc \in [Calls -> {"new", "reserve", "refused", "reserved", "add", "tooMany",
                         "write", "wait", "resend", "closing", "unqueue",
                         "withdraw", "done"}]
    /\ qid \in [Calls -> Qids \cup {-1}]
    /\ reply \in [Calls -> Calls \cup {NoReply}]
    /\ stamp \in [Calls -> Int]
    /\ cancelled \subseteq Calls
    /\ reserved \in Nat /\ issued \in Nat
    /\ queue \in [Qids -> Calls \cup {NoCall}]
    /\ closed \in BOOLEAN /\ notified \in BOOLEAN
    /\ closer \in Calls \cup {NoCall, ReadLoop, Closer}
    /\ loop \in {"read", "lookup", "send", "closing", "end"}
    /\ msg \in Calls \cup {NoCall}
    /\ target \in Calls \cup {NoCall}
    /\ inflight \subseteq Calls

(* A running exchange owns its qid until it deletes it: no other call has   *)
(* it, and deleteQueueC never removes somebody else's entry.                *)
QidOwned ==
    /\ \A c \in Calls : InQueue(c) => qid[c] \in Qids /\ queue[qid[c]] = c
    /\ \A i \in Qids : queue[i] # NoCall => InQueue(queue[i]) /\ qid[queue[i]] = i

(* reservedQuery counts the calls that hold a reservation.                  *)
ReservedExact == reserved = Cardinality({c \in Calls : Reserving(c)})

(* What the limit is compared with is exact on every path out of an         *)
(* exchange: the queue has the running exchanges, each with a qid of its    *)
(* own, and reservedQuery the reservations.                                 *)
Accounting == QidOwned /\ ReservedExact

(* A reservation is worth a qid: addQueueC finds one within MaxTries as     *)
(* long as the limit is not above MaxTries.  That is so on TCP and TLS (64  *)
(* and 100 tries); on UDP, with 4096, a reserved call may still fail.       *)
ReservationSuffices ==
    maxCq <= MaxTries => \A c \in Calls : pc[c] # "tooMany"

(* A caller gets somebody else's reply only when the qids have wrapped      *)
(* around completely between the two calls.                                 *)
OwnReplyUnlessWrapped ==
    \A c \in Calls :
        reply[c] \notin {NoReply, c} => stamp[c] - stamp[reply[c]] >= NumQids

(* On TCP every call returns even if its ctx never ends: when nothing is    *)
(* read any more the read deadline closes the connection.                   *)
CallsReturn == isTcp => \A c \in Calls : <>(pc[c] \in {"done", "refused"})

(* On UDP duplicates of other replies may keep the connection alive; a call *)
(* then returns because its ctx ends.                                       *)
CancelledReturn == \A c \in Calls : (c \in cancelled) ~> (pc[c] = "done")
=============================================================================

----------------------------- MODULE ReuseConn -----------------------------
(***************************************************************************)
(* pkg/upstream/transport/reuse.go: the transport for servers that answer  *)
(* one query at a time on a TCP connection.  Connections are dialed on     *)
(* demand, kept in conns, and offered again through idleConns when their   *)
(* query has been answered.                                                *)
(*                                                                         *)
(* Threads: one caller of ExchangeContext per query, the dial goroutine it *)
(* may start, one readLoop per connection, and the caller of Close.  The   *)
(* sections under the transport's mutex t.m that call nothing else are one *)
(* step; Close, which calls into the connections while it holds t.m, is    *)
(* one step per connection.                                                *)
(***************************************************************************)
EXTENDS Naturals

CONSTANTS
    Queries,    \* the calls of ExchangeContext, each made once
    Conns,      \* the connections that can be dialed
    NoConn,     \* a nil *reusableConn
    NoCall,     \* a nil waitingResp
    Junk,       \* a message no query on the connection asked for
    Failed,     \* ExchangeContext returned an error
    Empty,      \* nothing: an empty channel, a call that has not returned
    MaxRetry,   \* const maxRetry of ExchangeContext
    MaxJunk     \* bound: messages a misbehaving server may send

ASSUME RetryAssumption == MaxRetry \in Nat
ASSUME JunkAssumption == MaxJunk \in Nat
ASSUME DistinctAssumption ==
    /\ NoConn \notin Conns
    /\ Junk # Failed /\ Empty # Junk /\ Empty # Failed
    /\ {NoCall, Junk, Failed, Empty} \cap (Queries \X (0 .. MaxRetry + 1)) = {}

(* An exchange is a caller's n-th attempt; it owns one respChan. *)
Attempts == Queries \X (0 .. MaxRetry + 1)
(* The server's answer to an attempt is named after it. *)
Messages == Attempts \cup {Junk}

VARIABLES
    closed, conns, idleConns,   \* the transport's fields under t.m
    closer,       \* the caller of Close: where it is
    closing,      \* the connection Close is calling closeWithErrByTransport on
    ctxDone,      \* t.ctx is canceled
    pc, conn, retry, result,   \* callers
    isNewConn,    \* the callers whose connection is a new one
    cancelled,    \* the callers whose ctx is done
    dpc, dconn,   \* dial goroutines
    rpc, resp, respChan,   \* read loops: the message in hand and where it goes
    waitingResp,  \* per connection: the exchange its next message is for
    once,         \* per connection: closeOnce
    chan,         \* per attempt: the content of its respChan
    asked,        \* per connection: the attempts the server may still answer
    junk          \* messages nobody asked for read so far

poolVars == <<closed, conns, idleConns>>
closeVars == <<closer, closing, ctxDone>>
callVars == <<pc, conn, isNewConn, retry, result>>
dialVars == <<dpc, dconn>>
loopVars == <<rpc, resp, respChan>>
serverVars == <<asked, junk>>
vars == <<poolVars, closeVars, callVars, cancelled, dialVars, loopVars,
          waitingResp, once, chan, serverVars>>

Init ==
    /\ closed = FALSE /\ conns = {} /\ idleConns = {}
    /\ closer = "idle" /\ closing = NoConn /\ ctxDone = FALSE
    /\ pc = [q \in Queries |-> "start"]
    /\ conn = [q \in Queries |-> NoConn]
    /\ isNewConn = {}
    /\ retry = [q \in Queries |-> 0]
    /\ result = [q \in Queries |-> Empty]
    /\ cancelled = {}
    /\ dpc = [q \in Queries |-> "none"]
    /\ dconn = [q \in Queries |-> NoConn]
    /\ rpc = [c \in Conns |-> "none"]
    /\ resp = [c \in Conns |-> Empty]
    /\ respChan = [c \in Conns |-> NoCall]
    /\ waitingResp = [c \in Conns |-> NoCall]
    /\ once = [c \in Conns |-> "new"]
    /\ chan = [a \in Attempts |-> Empty]
    /\ asked = [c \in Conns |-> {}]
    /\ junk = 0

(* Only Close keeps t.m over several steps. *)
MutexFree == closer \in {"idle", "returned"}

Attempt(q) == <<q, retry[q]>>

Return(q, r) ==
    /\ pc' = [pc EXCEPT ![q] = "done"]
    /\ result' = [result EXCEPT ![q] = r]

(* setIdle: only a connection the transport still keeps becomes idle.  The  *)
(* variants named X_Y here and below are X with a bug, for the mutation     *)
(* tests of the properties.                                                 *)
SetIdle_Lost(c) == UNCHANGED idleConns
SetIdle(c) ==
    idleConns' = IF ~closed /\ c \in conns THEN idleConns \cup {c} ELSE idleConns

(* getIdleConn takes the connection out of the pool. *)
TakeIdle_Peek(c) == c \in idleConns /\ UNCHANGED idleConns
TakeIdle(c) == idleConns' = idleConns \ {c}

-----------------------------------------------------------------------------
(* Callers *)

(* The top of the loop.  getIdleConn finds the transport closed... *)
GetClosed(q) ==
    /\ pc[q] = "start" /\ MutexFree
    /\ closed
    /\ Return(q, Failed)
    /\ UNCHANGED <<poolVars, closeVars, conn, isNewConn, retry, cancelled,
                   dialVars, loopVars, waitingResp, once, chan, serverVars>>

(* ... or takes any idle connection ... *)
GetIdle(q, c) ==
    /\ pc[q] = "start" /\ MutexFree
    /\ ~closed /\ c \in idleConns
    /\ TakeIdle(c)
    /\ conn' = [conn EXCEPT ![q] = c]
    /\ isNewConn' = isNewConn \ {q}
    /\ pc' = [pc EXCEPT ![q] = "holds"]
    /\ UNCHANGED <<closed, conns, closeVars, retry, result, cancelled, dialVars,
                   loopVars, waitingResp, once, chan, serverVars>>

(* ... or finds none, and getNewConn starts a dial goroutine. *)
StartDial(q) ==
    /\ pc[q] = "start" /\ MutexFree
    /\ ~closed /\ idleConns = {}
    /\ pc' = [pc EXCEPT ![q] = "dial"]
    /\ dpc' = [dpc EXCEPT ![q] = "dialing"]
    /\ UNCHANGED <<poolVars, closeVars, conn, isNewConn, retry, result, cancelled,
                   dconn, loopVars, waitingResp, once, chan, serverVars>>

(* getNewConn returns early: the caller's ctx or the transport's is done. *)
LeaveDial(q) ==
    /\ pc[q] = "dial"
    /\ q \in cancelled \/ ctxDone
    /\ Return(q, Failed)
    /\ UNCHANGED <<poolVars, closeVars, conn, isNewConn, retry, cancelled,
                   dialVars, loopVars, waitingResp, once, chan, serverVars>>

(* exchange registers its respChan.  The code panics ("concurrent exchange *)
(* calls") where this step is blocked by waitingResp.                      *)
Register(q) ==
    /\ pc[q] = "holds"
    /\ waitingResp[conn[q]] = NoCall
    /\ waitingResp' = [waitingResp EXCEPT ![conn[q]] = Attempt(q)]
    /\ pc' = [pc EXCEPT ![q] = "write"]
    /\ UNCHANGED <<poolVars, closeVars, conn, isNewConn, retry, result,
                   cancelled, dialVars, loopVars, once, chan, serverVars>>

WriteOk(q) ==
    /\ pc[q] = "write"
    /\ once[conn[q]] # "done"
    /\ asked' = [asked EXCEPT ![conn[q]] = @ \cup {Attempt(q)}]
    /\ pc' = [pc EXCEPT ![q] = "wait"]
    /\ UNCHANGED <<poolVars, closeVars, conn, isNewConn, retry, result,
                   cancelled, dialVars, loopVars, waitingResp, once, chan,
                   junk>>

WriteFails(q) ==
    /\ pc[q] = "write"
    /\ pc' = [pc EXCEPT ![q] = "closing"]
    /\ UNCHANGED <<poolVars, closeVars, conn, isNewConn, retry, result,
                   cancelled, dialVars, loopVars, waitingResp, once, chan,
                   serverVars>>

(* exchange returned an error: another attempt if the connection was reused. *)
MayRetry(q) == q \notin isNewConn /\ retry[q] <= MaxRetry
RetryOrFail(q) ==
    \/ /\ MayRetry(q)
       /\ retry' = [retry EXCEPT ![q] = @ + 1]
       /\ pc' = [pc EXCEPT ![q] = "start"]
       /\ UNCHANGED result
    \/ /\ ~MayRetry(q)
       /\ Return(q, Failed)
       /\ UNCHANGED retry

ReceiveResp(q) ==
    /\ pc[q] = "wait"
    /\ chan[Attempt(q)] # Empty
    /\ Return(q, chan[Attempt(q)])
    /\ UNCHANGED <<poolVars, closeVars, conn, isNewConn, retry, cancelled,
                   dialVars, loopVars, waitingResp, once, chan, serverVars>>

(* closeNotify or ctx.Done wins the select of exchange. *)
ExchangeFails_CtxOnly(q) == q \in cancelled
ExchangeFails(q) == once[conn[q]] = "done" \/ q \in cancelled

(* ... releasing the connection although its reply is still to come *)
ReceiveFails_Release(q) ==
    /\ pc[q] = "wait" /\ ExchangeFails(q)
    /\ RetryOrFail(q)
    /\ SetIdle(conn[q])
    /\ waitingResp' = [waitingResp EXCEPT ![conn[q]] = NoCall]
    /\ UNCHANGED <<closed, conns, closeVars, conn, isNewConn, cancelled, dialVars,
                   loopVars, once, chan, serverVars>>
ReceiveFails(q) ==
    /\ pc[q] = "wait" /\ ExchangeFails(q)
    /\ RetryOrFail(q)
    /\ UNCHANGED <<poolVars, closeVars, conn, isNewConn, cancelled, dialVars,
                   loopVars, waitingResp, once, chan, serverVars>>

-----------------------------------------------------------------------------
(* Dial goroutines *)

DialOk(q, c) ==
    /\ dpc[q] = "dialing"
    /\ rpc[c] = "none"
    /\ \A p \in Queries : dconn[p] # c
    /\ dconn' = [dconn EXCEPT ![q] = c]
    /\ dpc' = [dpc EXCEPT ![q] = "dialed"]
    /\ UNCHANGED <<poolVars, closeVars, callVars, cancelled, loopVars,
                   waitingResp, once, chan, serverVars>>

DialFails(q) ==
    /\ dpc[q] = "dialing"
    /\ dpc' = [dpc EXCEPT ![q] = "failed"]
    /\ UNCHANGED <<poolVars, closeVars, callVars, cancelled, dconn, loopVars,
                   waitingResp, once, chan, serverVars>>

(* newReusableConn registers the connection and starts its read loop ... *)
NewReusableConn_AfterClose(q) ==
    /\ dpc[q] = "dialed" /\ MutexFree
    /\ conns' = conns \cup {dconn[q]}
    /\ rpc' = [rpc EXCEPT ![dconn[q]] = "read"]
    /\ dpc' = [dpc EXCEPT ![q] = "ready"]
    /\ UNCHANGED <<closed, idleConns, closeVars, callVars, cancelled, dconn,
                   resp, respChan, waitingResp, once, chan, serverVars>>
NewReusableConn(q) ==
    /\ dpc[q] = "dialed" /\ MutexFree
    /\ ~closed
    /\ conns' = conns \cup {dconn[q]}
    /\ rpc' = [rpc EXCEPT ![dconn[q]] = "read"]
    /\ dpc' = [dpc EXCEPT ![q] = "ready"]
    /\ UNCHANGED <<closed, idleConns, closeVars, callVars, cancelled, dconn,
                   resp, respChan, waitingResp, once, chan, serverVars>>

(* ... but a closed transport keeps no connection. *)
RefuseConn(q) ==
    /\ dpc[q] = "dialed" /\ MutexFree
    /\ closed
    /\ dpc' = [dpc EXCEPT ![q] = "failed"]
    /\ UNCHANGED <<poolVars, closeVars, callVars, cancelled, dconn, loopVars,
                   waitingResp, once, chan, serverVars>>

(* The goroutine hands its result to the caller that waits in getNewConn. *)
HandOverConn(q) ==
    /\ pc[q] = "dial" /\ dpc[q] = "ready"
    /\ conn' = [conn EXCEPT ![q] = dconn[q]]
    /\ isNewConn' = isNewConn \cup {q}
    /\ pc' = [pc EXCEPT ![q] = "holds"]
    /\ dpc' = [dpc EXCEPT ![q] = "done"]
    /\ UNCHANGED <<poolVars, closeVars, retry, result, cancelled, dconn, loopVars,
                   waitingResp, once, chan, serverVars>>

HandOverErr(q) ==
    /\ pc[q] = "dial" /\ dpc[q] = "failed"
    /\ Return(q, Failed)
    /\ dpc' = [dpc EXCEPT ![q] = "done"]
    /\ UNCHANGED <<poolVars, closeVars, conn, isNewConn, retry, cancelled, dconn,
                   loopVars, waitingResp, once, chan, serverVars>>

(* callCtx is done: nobody wants the connection, it goes to the pool. *)
CallerGone(q) == q \in cancelled \/ pc[q] # "dial"

PoolConn(q) ==
    /\ dpc[q] = "ready" /\ CallerGone(q) /\ MutexFree
    /\ SetIdle(dconn[q])
    /\ dpc' = [dpc EXCEPT ![q] = "done"]
    /\ UNCHANGED <<closed, conns, closeVars, callVars, cancelled, dconn,
                   loopVars, waitingResp, once, chan, serverVars>>

DropErr(q) ==
    /\ dpc[q] = "failed" /\ CallerGone(q)
    /\ dpc' = [dpc EXCEPT ![q] = "done"]
    /\ UNCHANGED <<poolVars, closeVars, callVars, cancelled, dconn, loopVars,
                   waitingResp, once, chan, serverVars>>

-----------------------------------------------------------------------------
(* Read loops *)

(* The next message on the connection: the server's answer to an attempt it *)
(* was sent, or one nobody asked for.  What is on the wire is not observable *)
(* before it is read, so answering and reading are one step.                *)
ReadAnswer(c, a) ==
    /\ rpc[c] = "read" /\ once[c] # "done"
    /\ a \in asked[c]
    /\ asked' = [asked EXCEPT ![c] = @ \ {a}]
    /\ resp' = [resp EXCEPT ![c] = a]
    /\ rpc' = [rpc EXCEPT ![c] = "got"]
    /\ UNCHANGED <<poolVars, closeVars, callVars, cancelled, dialVars,
                   respChan, waitingResp, once, chan, junk>>

ReadJunk(c) ==
    /\ rpc[c] = "read" /\ once[c] # "done"
    /\ junk < MaxJunk
    /\ junk' = junk + 1
    /\ resp' = [resp EXCEPT ![c] = Junk]
    /\ rpc' = [rpc EXCEPT ![c] = "got"]
    /\ UNCHANGED <<poolVars, closeVars, callVars, cancelled, dialVars,
                   respChan, waitingResp, once, chan, asked>>

(* EOF, a deadline that passed, or the connection closed locally. *)
ReadFails(c) ==
    /\ rpc[c] = "read"
    /\ rpc' = [rpc EXCEPT ![c] = "closing"]
    /\ UNCHANGED <<poolVars, closeVars, callVars, cancelled, dialVars, resp,
                   respChan, waitingResp, once, chan, serverVars>>

TakeWaiting(c) ==
    /\ rpc[c] = "got"
    /\ respChan' = [respChan EXCEPT ![c] = waitingResp[c]]
    /\ waitingResp' = [waitingResp EXCEPT ![c] = NoCall]
    /\ rpc' = [rpc EXCEPT ![c] =
                  IF waitingResp[c] = NoCall THEN "closing" ELSE "setIdle"]
    /\ UNCHANGED <<poolVars, closeVars, callVars, cancelled, dialVars, resp,
                   once, chan, serverVars>>

LoopSetIdle(c) ==
    /\ rpc[c] = "setIdle" /\ MutexFree
    /\ SetIdle(c)
    /\ rpc' = [rpc EXCEPT ![c] = "deliver"]
    /\ UNCHANGED <<closed, conns, closeVars, callVars, cancelled, dialVars,
                   resp, respChan, waitingResp, once, chan, serverVars>>

(* The code panics ("respChan has buffer") where this step is blocked by chan. *)
Deliver(c) ==
    /\ rpc[c] = "deliver"
    /\ chan[respChan[c]] = Empty
    /\ chan' = [chan EXCEPT ![respChan[c]] = resp[c]]
    /\ resp' = [resp EXCEPT ![c] = Empty]
    /\ respChan' = [respChan EXCEPT ![c] = NoCall]
    /\ rpc' = [rpc EXCEPT ![c] = "read"]
    /\ UNCHANGED <<poolVars, closeVars, callVars, cancelled, dialVars,
                   waitingResp, once, serverVars>>

-----------------------------------------------------------------------------
(* closeWithErr, called by a read loop and by a caller whose write failed: *)
(* closeOnce is entered first and t.m is taken inside it.                  *)

LoopEntersOnce(c) ==
    /\ rpc[c] = "closing" /\ once[c] = "new"
    /\ once' = [once EXCEPT ![c] = "running"]
    /\ rpc' = [rpc EXCEPT ![c] = "locking"]
    /\ UNCHANGED <<poolVars, closeVars, callVars, cancelled, dialVars, resp,
                   respChan, waitingResp, chan, serverVars>>

CallerEntersOnce(q) ==
    /\ pc[q] = "closing" /\ once[conn[q]] = "new"
    /\ once' = [once EXCEPT ![conn[q]] = "running"]
    /\ pc' = [pc EXCEPT ![q] = "locking"]
    /\ UNCHANGED <<poolVars, closeVars, conn, isNewConn, retry, result,
                   cancelled, dialVars, loopVars, waitingResp, chan, serverVars>>

(* Under t.m the connection is forgotten ... *)
Forget(c) == conns' = conns \ {c} /\ idleConns' = idleConns \ {c}

LoopForgets(c) ==
    /\ rpc[c] = "locking" /\ MutexFree
    /\ Forget(c)
    /\ rpc' = [rpc EXCEPT ![c] = "unlocked"]
    /\ UNCHANGED <<closed, closeVars, callVars, cancelled, dialVars, resp,
                   respChan, waitingResp, once, chan, serverVars>>

CallerForgets(q) ==
    /\ pc[q] = "locking" /\ MutexFree
    /\ Forget(conn[q])
    /\ pc' = [pc EXCEPT ![q] = "unlocked"]
    /\ UNCHANGED <<closed, closeVars, conn, isNewConn, retry, result, cancelled,
                   dialVars, loopVars, waitingResp, once, chan, serverVars>>

(* ... and after the unlock its socket and closeNotify are closed.         *)
LoopCloses(c) ==
    /\ rpc[c] = "unlocked"
    /\ once' = [once EXCEPT ![c] = "done"]
    /\ rpc' = [rpc EXCEPT ![c] = "end"]
    /\ UNCHANGED <<poolVars, closeVars, callVars, cancelled, dialVars, resp,
                   respChan, waitingResp, chan, serverVars>>

CallerCloses(q) ==
    /\ pc[q] = "unlocked"
    /\ once' = [once EXCEPT ![conn[q]] = "done"]
    /\ RetryOrFail(q)
    /\ UNCHANGED <<poolVars, closeVars, conn, isNewConn, cancelled, dialVars,
                   loopVars, waitingResp, chan, serverVars>>

(* closeOnce was done by somebody else: Do returns. *)
LoopFindsClosed(c) ==
    /\ rpc[c] = "closing" /\ once[c] = "done"
    /\ rpc' = [rpc EXCEPT ![c] = "end"]
    /\ UNCHANGED <<poolVars, closeVars, callVars, cancelled, dialVars, resp,
                   respChan, waitingResp, once, chan, serverVars>>

CallerFindsClosed(q) ==
    /\ pc[q] = "closing" /\ once[conn[q]] = "done"
    /\ RetryOrFail(q)
    /\ UNCHANGED <<poolVars, closeVars, conn, isNewConn, cancelled, dialVars,
                   loopVars, waitingResp, once, chan, serverVars>>

-----------------------------------------------------------------------------
(* Close holds t.m from CloseStarts to CloseReturns and waits for closeOnce *)
(* of each connection it finds.                                             *)

CloseStarts ==
    /\ closer = "idle"
    /\ closed' = TRUE
    /\ closer' = "ranging"
    /\ UNCHANGED <<conns, idleConns, closing, ctxDone, callVars, cancelled,
                   dialVars, loopVars, waitingResp, once, chan, serverVars>>

CloseTakes(c) ==
    /\ closer = "ranging"
    /\ c \in conns
    /\ conns' = conns \ {c}
    /\ idleConns' = idleConns \ {c}
    /\ closing' = c
    /\ closer' = "once"
    /\ UNCHANGED <<closed, ctxDone, callVars, cancelled, dialVars, loopVars,
                   waitingResp, once, chan, serverVars>>

CloseConn ==
    /\ closer = "once"
    /\ once[closing] # "running"
    /\ once' = [once EXCEPT ![closing] = "done"]
    /\ closing' = NoConn
    /\ closer' = "ranging"
    /\ UNCHANGED <<poolVars, ctxDone, callVars, cancelled, dialVars, loopVars,
                   waitingResp, chan, serverVars>>

CloseReturns ==
    /\ closer = "ranging" /\ conns = {}
    /\ ctxDone' = TRUE
    /\ closer' = "returned"
    /\ UNCHANGED <<poolVars, closing, callVars, cancelled, dialVars, loopVars,
                   waitingResp, once, chan, serverVars>>

-----------------------------------------------------------------------------
(* The outside: a caller's ctx. *)

Cancel(q) ==
    /\ pc[q] # "done" /\ q \notin cancelled
    /\ cancelled' = cancelled \cup {q}
    /\ UNCHANGED <<poolVars, closeVars, callVars, dialVars, loopVars,
                   waitingResp, once, chan, serverVars>>

-----------------------------------------------------------------------------
CallerStep(q) ==
    \/ GetClosed(q) \/ (\E c \in Conns : GetIdle(q, c)) \/ StartDial(q)
    \/ LeaveDial(q) \/ Register(q) \/ WriteOk(q) \/ WriteFails(q)
    \/ ReceiveResp(q) \/ ReceiveFails(q)
    \/ CallerEntersOnce(q) \/ CallerForgets(q) \/ CallerCloses(q) \/ CallerFindsClosed(q)

DialStep(q) ==
    \/ (\E c \in Conns : DialOk(q, c)) \/ DialFails(q)
    \/ NewReusableConn(q) \/ RefuseConn(q)
    \/ HandOverConn(q) \/ HandOverErr(q) \/ PoolConn(q) \/ DropErr(q)

ReadMsg(c) == (\E a \in Attempts : ReadAnswer(c, a)) \/ ReadJunk(c)

LoopStep(c) ==
    \/ TakeWaiting(c) \/ LoopSetIdle(c) \/ Deliver(c)
    \/ LoopEntersOnce(c) \/ LoopForgets(c) \/ LoopCloses(c) \/ LoopFindsClosed(c)

CloseStep == (\E c \in Conns : CloseTakes(c)) \/ CloseConn \/ CloseReturns

Next ==
    \/ \E q \in Queries : CallerStep(q) \/ DialStep(q) \/ Cancel(q)
    \/ \E c \in Conns : LoopStep(c) \/ ReadMsg(c) \/ ReadFails(c)
    \/ CloseStarts \/ CloseStep

Spec == Init /\ [][Next]_vars

(* Goroutines are scheduled, a dial ends by dialTimeout, and a connection   *)
(* with an exchange on it, or one closed locally, has a read that returns   *)
(* by its deadline.  Nothing makes a server answer or a caller call Close.  *)
Fairness ==
    /\ \A q \in Queries : WF_vars(CallerStep(q)) /\ WF_vars(DialStep(q))
    /\ \A c \in Conns :
          /\ WF_vars(LoopStep(c))
          /\ WF_vars(ReadFails(c) /\ (waitingResp[c] # NoCall \/ once[c] = "done"))
    /\ WF_vars(CloseStep)

FairSpec == Spec /\ Fairness

(* The same system when nobody calls Close. *)
OpenNext ==
    \/ \E q \in Queries : CallerStep(q) \/ DialStep(q) \/ Cancel(q)
    \/ \E c \in Conns : LoopStep(c) \/ ReadMsg(c) \/ ReadFails(c)
OpenSpec == Init /\ [][OpenNext]_vars /\ Fairness

-----------------------------------------------------------------------------
PoolType ==
    /\ closed \in BOOLEAN
    /\ conns \subseteq Conns /\ idleConns \subseteq Conns
CloseType ==
    /\ closer \in {"idle", "ranging", "once", "returned"}
    /\ closing \in Conns \cup {NoConn}
    /\ ctxDone \in BOOLEAN
CallType ==
    /\ pc \in [Queries -> {"start", "dial", "holds", "write", "wait",
                           "closing", "locking", "unlocked", "done"}]
    /\ conn \in [Queries -> Conns \cup {NoConn}]
    /\ isNewConn \subseteq Queries
    /\ retry \in [Queries -> 0 .. MaxRetry + 1]
    /\ result \in [Queries -> Messages \cup {Failed, Empty}]
    /\ cancelled \subseteq Queries
DialType ==
    /\ dpc \in [Queries -> {"none", "dialing", "dialed", "failed", "ready", "done"}]
    /\ dconn \in [Queries -> Conns \cup {NoConn}]
    /\ \A q \in Queries : dpc[q] \in {"dialed", "ready"} => dconn[q] \in Conns
LoopType ==
    /\ rpc \in [Conns -> {"none", "read", "got", "setIdle", "deliver",
                          "closing", "locking", "unlocked", "end"}]
    /\ resp \in [Conns -> Messages \cup {Empty}]
    /\ respChan \in [Conns -> Attempts \cup {NoCall}]
ConnType ==
    /\ waitingResp \in [Conns -> Attempts \cup {NoCall}]
    /\ once \in [Conns -> {"new", "running", "done"}]
    /\ chan \in [Attempts -> Messages \cup {Empty}]
    /\ asked \in [Conns -> SUBSET Attempts]
    /\ junk \in 0 .. MaxJunk

TypeOK == PoolType /\ CloseType /\ CallType /\ DialType /\ LoopType /\ ConnType

(* Neither panic of the code is reached: an exchange never starts on a      *)
(* connection that still waits for a reply, whatever order cancellations,   *)
(* late replies and reuse come in, and a respChan always has room.          *)
NoPanic ==
    /\ \A q \in Queries : pc[q] = "holds" => waitingResp[conn[q]] = NoCall
    /\ \A c \in Conns : rpc[c] = "deliver" => chan[respChan[c]] = Empty

(* A connection in the idle pool is registered, nobody is using it and it   *)
(* owes no reply.                                                           *)
IdleIsFree ==
    \A c \in idleConns :
        /\ c \in conns /\ once[c] # "done" /\ waitingResp[c] = NoCall
        /\ \A q \in Queries : ~(pc[q] = "holds" /\ conn[q] = c)

(* No connection is lost: one that is open, waits for nothing and is not in *)
(* the idle pool is in the hands of a caller or of a dial goroutine.        *)
NoConnLost ==
    \A c \in conns :
        (~closed /\ rpc[c] = "read" /\ waitingResp[c] = NoCall)
          => \/ c \in idleConns
             \/ \E q \in Queries : \/ pc[q] = "holds" /\ conn[q] = c
                                   \/ dpc[q] = "ready" /\ dconn[q] = c

(* As long as the server answers each query once, a caller gets the answer  *)
(* to its own query although the code never compares message ids.           *)
OwnAnswer ==
    junk = 0 => \A q \in Queries :
        result[q] \in {Empty, Failed} \/ (result[q] \in Attempts /\ result[q][1] = q)

(* A read loop or a caller has taken the connection out of conns and is     *)
(* about to close its socket.                                               *)
BeingClosed(c) == rpc[c] = "unlocked" \/ \E q \in Queries : pc[q] = "unlocked" /\ conn[q] = c

(* When Close has returned, every connection that was ever registered is    *)
(* closed or about to be: Close does not wait for a connection that closes  *)
(* itself and has left conns, but none is open that nobody closes, and a    *)
(* dial that finishes late adds none.                                       *)
CloseClosesAll ==
    closer = "returned" =>
        \A c \in Conns : rpc[c] # "none" => once[c] = "done" \/ BeingClosed(c)

(* The inductive invariant behind NoPanic.                                 *)
Holds(q, c) == pc[q] = "holds" /\ conn[q] = c
HoldsDialed(q, c) == dpc[q] \in {"dialed", "ready"} /\ dconn[q] = c

(* Attempt a has reached exchange. *)
Used(a) == \/ a[2] < retry[a[1]]
           \/ a[2] = retry[a[1]] /\ pc[a[1]] \notin {"start", "dial", "holds"}

(* Who has a connection: at most one caller or dial goroutine, or the pool. *)
OneHolder ==
    /\ \A q, p \in Queries : \A c \in Conns :
          /\ Holds(q, c) /\ Holds(p, c) => q = p
          /\ ~(HoldsDialed(q, c) /\ Holds(p, c))
          /\ dconn[q] = c /\ dconn[p] = c => q = p
    /\ \A c \in idleConns : \A q \in Queries : ~Holds(q, c) /\ ~HoldsDialed(q, c)

(* A connection somebody has, or may take from the pool, waits for nothing. *)
FreeConn(c) == waitingResp[c] = NoCall /\ rpc[c] # "setIdle"
HeldIsFree ==
    /\ \A c \in idleConns : FreeConn(c) /\ rpc[c] # "none"
    /\ \A q \in Queries : \A c \in Conns :
          /\ Holds(q, c) => FreeConn(c) /\ rpc[c] # "none"
          /\ HoldsDialed(q, c) => FreeConn(c)
          /\ dpc[q] = "ready" /\ dconn[q] = c => rpc[c] # "none"
          /\ dpc[q] = "dialed" /\ dconn[q] = c => rpc[c] = "none"
    /\ \A q \in Queries :
          pc[q] \in {"holds", "write", "wait", "closing", "locking", "unlocked"} => conn[q] \in Conns
    /\ \A c \in Conns : /\ rpc[c] = "none" => FreeConn(c)
                        /\ rpc[c] = "setIdle" => waitingResp[c] = NoCall

(* A respChan is used by one connection, once. *)
OneUse ==
    /\ \A c \in Conns :
          /\ waitingResp[c] # NoCall => Used(waitingResp[c]) /\ chan[waitingResp[c]] = Empty
          /\ respChan[c] # NoCall => Used(respChan[c]) /\ chan[respChan[c]] = Empty
          /\ respChan[c] # NoCall <=> rpc[c] \in {"setIdle", "deliver"}
    /\ \A c, d \in Conns :
          /\ waitingResp[c] = waitingResp[d] /\ waitingResp[c] # NoCall => c = d
          /\ respChan[c] = respChan[d] /\ respChan[c] # NoCall => c = d
          /\ waitingResp[c] = respChan[d] => waitingResp[c] = NoCall
    /\ \A a \in Attempts : chan[a] # Empty => Used(a)

ExchangeInv == OneHolder /\ HeldIsFree /\ OneUse

KeptFor(c) ==
    \E q \in Queries : Holds(q, c) \/ (HoldsDialed(q, c) /\ dpc[q] = "ready")

(* The pool and the life of a connection; what Close still has to close.   *)
PoolInv ==
    /\ idleConns \subseteq conns
    /\ \A c \in Conns :
          /\ c \in conns => once[c] # "done" /\ rpc[c] # "none"
          /\ rpc[c] = "none" => once[c] = "new"
          /\ rpc[c] # "none" /\ once[c] # "done"
                => c \in conns \/ (closer = "once" /\ closing = c) \/ BeingClosed(c)
          /\ BeingClosed(c) => c \notin conns
          /\ c \in conns /\ ~closed /\ rpc[c] \in {"read", "deliver"} /\ waitingResp[c] = NoCall
                => c \in idleConns \/ KeptFor(c)
    /\ \A q \in Queries :
          pc[q] \in {"write", "wait", "closing", "locking", "unlocked"} => rpc[conn[q]] # "none"
    /\ closer = "once" => closing \in Conns \ conns /\ rpc[closing] # "none"
    /\ closer # "idle" => closed
    /\ closer = "returned" => conns = {}

(* While the server behaves, the message on its way belongs to the exchange *)
(* the connection waits for.                                                *)
AnswerInv ==
    junk = 0 =>
    /\ \A c \in Conns :
          /\ asked[c] \subseteq {waitingResp[c]}
          /\ rpc[c] = "got" => asked[c] = {} /\ resp[c] = waitingResp[c] /\ resp[c] \in Attempts
          /\ rpc[c] \in {"setIdle", "deliver"} => respChan[c] = resp[c]
    /\ \A q \in Queries : pc[q] = "write" =>
          /\ waitingResp[conn[q]] = Attempt(q)
          /\ asked[conn[q]] = {} /\ rpc[conn[q]] # "got"
    /\ \A a \in Attempts : chan[a] \in {Empty, a}
    /\ \A q \in Queries :
          result[q] \in {Empty, Failed} \/ (result[q] \in Attempts /\ result[q][1] = q)

(* A call dials once, and has returned something exactly when it is over.  *)
CallInv ==
    \A q \in Queries :
        /\ dpc[q] # "none" => \/ pc[q] \in {"dial", "done"}
                             \/ (pc[q] # "start" /\ q \in isNewConn)
        /\ result[q] # Empty <=> pc[q] = "done"

IInv == ExchangeInv /\ PoolInv /\ AnswerInv /\ CallInv

(* ReuseConn is an Exchanger as long as the server does not misbehave.     *)
outcome ==
    [q \in Queries |-> IF result[q] = Empty THEN "pending"
                       ELSE IF result[q] = Failed THEN "failed"
                       ELSE IF result[q] \in Attempts /\ result[q][1] = q THEN "answered"
                       ELSE "wrong"]
Promise == INSTANCE Exchanger WITH Queries <- Queries, outcome <- outcome
PromiseKept == Promise!Spec

(* Every call of ExchangeContext returns if nobody closes the transport.    *)
CallsReturn == \A q \in Queries : <>(pc[q] = "done")

(* A call of Close returns (reuse.go: "Close closes ReuseConnTransport and  *)
(* all its connections.  It always returns a nil error.")                   *)
CloseCallReturns == (closer = "ranging") ~> (closer = "returned")
=============================================================================

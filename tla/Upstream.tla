------------------------------ MODULE Upstream ------------------------------
(* What NewUpstream makes of an address and its options, and a call of      *)
(* ExchangeContext on it: the address is looked up by Bootstrap, a          *)
(* connection is dialed, the query is exchanged (over UDP and again over    *)
(* TCP, on a QUIC stream, or by an HTTP request) while the caller's ctx may *)
(* end.  The transports themselves are ReuseConn, Pipeline and              *)
(* TraditionalConn; here they are a goroutine that works for a call.        *)
EXTENDS Naturals, FiniteSets

CONSTANTS UpCalls,   \* calls of ExchangeContext
          Schemes    \* schemes of the address the model starts with

ASSUME UpCallsAssumption == IsFiniteSet(UpCalls)

Nobody == "nobody"

VARIABLES
    up,        \* the upstream: [kind, resolve], or Refused
    updating, due, ready, addr,   \* Bootstrap; due: nextUpdate has passed
    updater,   \* its goroutine: "idle" | "resolve" | "failed" | "stored" | "release"
    caller,    \* call -> "exchange" | "write" | "read" | "tcp" | "done"
    worker,    \* call -> the goroutine that works for it; "left": it has ended, but
               \* a goroutine of net/http still dials for it
    ctxOver,   \* call -> its ctx has ended
    sent,      \* call -> what the worker's buffered channel holds
    stream,    \* call -> directions of its QUIC stream that are open
    out        \* call -> what it has returned

boot == <<updating, due, ready, addr, updater>>
upVars == <<up, boot, caller, worker, ctxOver, sent, stream, out>>

Empty == [of |-> Nobody, id |-> Nobody, tc |-> FALSE]
Error == [of |-> Nobody, id |-> "error", tc |-> FALSE]
-----------------------------------------------------------------------------
(* NewUpstream: o has the scheme of the address, whether its host is an IP  *)
(* address, and which of the options bootstrap and socks5 are given.        *)
Refused == [kind |-> "refused", resolve |-> "none"]
Made(k, r) == IF r = "none" THEN Refused ELSE [kind |-> k, resolve |-> r]

(* How a host is resolved: not at all, by the proxy, Bootstrap, the system. *)
NewTcpDialer(o, mustBeIp) ==
    IF o.socks5 THEN "socks5"
    ELSE IF o.ip THEN "direct"
    ELSE IF mustBeIp THEN "none"
    ELSE IF o.bootstrap THEN "bootstrap" ELSE "system"
NewUdpAddrResolveFunc(o) ==
    IF o.ip THEN "direct" ELSE IF o.bootstrap THEN "bootstrap" ELSE "system"

UdpUpstream(o) == Made("udp", IF o.ip THEN "direct" ELSE "none")
TcpUpstream(o, k) == Made(k, NewTcpDialer(o, TRUE))
TlsUpstream(o, k) == Made(k, NewTcpDialer(o, FALSE))
HttpsUpstream(o) == Made("https", NewTcpDialer(o, FALSE))
Http3Upstream(o) == Made("h3", NewUdpAddrResolveFunc(o))
QuicUpstream(o) == Made("doq", NewUdpAddrResolveFunc(o))

NewUpstream(o) ==
    CASE o.scheme \in {"", "udp"} -> UdpUpstream(o)
      [] o.scheme = "tcp" -> TcpUpstream(o, "reuse")
      [] o.scheme = "tcp+pipeline" -> TcpUpstream(o, "pipeline")
      [] o.scheme = "tls" -> TlsUpstream(o, "reuse")
      [] o.scheme = "tls+pipeline" -> TlsUpstream(o, "pipeline")
      [] o.scheme = "https" -> HttpsUpstream(o)
      [] o.scheme = "h3" -> Http3Upstream(o)
      [] o.scheme \in {"quic", "doq"} -> QuicUpstream(o)
      [] OTHER -> Refused

UpInit ==
    /\ \E o \in [scheme : Schemes, ip : BOOLEAN, bootstrap : BOOLEAN, socks5 : BOOLEAN] :
          up = NewUpstream(o)
    /\ updating = FALSE /\ due = TRUE /\ ready = FALSE /\ addr = "" /\ updater = "idle"
    /\ caller = [c \in UpCalls |-> IF up = Refused THEN "done" ELSE "exchange"]
    /\ worker = [c \in UpCalls |->
                    IF up = Refused THEN "end"
                    ELSE IF up.resolve = "bootstrap" THEN "tryUpdate" ELSE "dial"]
    /\ ctxOver = [c \in UpCalls |-> FALSE]
    /\ sent = [c \in UpCalls |-> Empty]
    /\ stream = [c \in UpCalls |-> {}]
    /\ out = [c \in UpCalls |-> IF up = Refused THEN Error ELSE Empty]

Works(c, label) == worker' = [worker EXCEPT ![c] = label]
WorkerSends(c, r) == sent' = [sent EXCEPT ![c] = r] /\ Works(c, "end")
UpReturn(c, r) ==
    /\ out' = [out EXCEPT ![c] = r]
    /\ caller' = [caller EXCEPT ![c] = "done"]
-----------------------------------------------------------------------------
(* Bootstrap.GetAddrPortStr, by a goroutine that dials.                     *)
(* updating.CompareAndSwap(false, true), then a look at nextUpdate.         *)
Swaps_Always == TRUE
Swaps == ~updating

TryUpdate(c) ==
    /\ worker[c] = "tryUpdate"
    /\ updating' = TRUE
    /\ Works(c, IF Swaps THEN "check" ELSE "wait")
    /\ UNCHANGED <<up, due, ready, addr, updater, caller, ctxOver, sent, stream, out>>

CheckDue(c) ==
    /\ worker[c] = "check"
    /\ IF due THEN updater' = "resolve" /\ UNCHANGED updating
       ELSE updating' = FALSE /\ UNCHANGED updater
    /\ Works(c, "wait")
    /\ UNCHANGED <<up, due, ready, addr, caller, ctxOver, sent, stream, out>>

AddrReady(c) ==
    /\ worker[c] = "wait" /\ ready
    /\ Works(c, "dial")
    /\ UNCHANGED <<up, boot, caller, ctxOver, sent, stream, out>>

(* resolve asks the bootstrap server again every second until its timeout. *)
UpdateAddr ==
    /\ updater = "resolve"
    /\ \/ updater' = "failed" /\ UNCHANGED <<addr, ready>>
       \/ updater' = "stored" /\ addr' \in {"ip1", "ip2"} /\ ready' = TRUE
    /\ UNCHANGED <<up, updating, due, caller, worker, ctxOver, sent, stream, out>>

SetNextUpdate ==
    /\ updater \in {"failed", "stored"}
    /\ due' = FALSE /\ updater' = "release"
    /\ UNCHANGED <<up, updating, ready, addr, caller, worker, ctxOver, sent, stream, out>>

EndUpdate ==
    /\ updater = "release"
    /\ updating' = FALSE /\ updater' = "idle"
    /\ UNCHANGED <<up, due, ready, addr, caller, worker, ctxOver, sent, stream, out>>

UpdateIsDue ==
    /\ ~due /\ due' = TRUE
    /\ UNCHANGED <<up, updating, ready, addr, updater, caller, worker, ctxOver, sent, stream, out>>
-----------------------------------------------------------------------------
(* The goroutine dials and exchanges; its own ctx times out by itself.  But *)
(* net/http dials in a goroutine whose ctx has lost that timeout: while no  *)
(* address is ready, it stays in GetAddrPortStr after the request has ended.*)
AfterTimeout(c) == IF up.kind = "https" /\ worker[c] = "wait" THEN "left" ELSE "end"

WorkerFails(c) ==
    /\ worker[c] \in {"wait", "dial", "roundTrip"}
    /\ sent' = [sent EXCEPT ![c] = Error] /\ Works(c, AfterTimeout(c))
    /\ UNCHANGED <<up, boot, caller, ctxOver, stream, out>>

(* It dials in the end, for the pool of net/http or in vain. *)
LeftDialEnds(c) ==
    /\ worker[c] = "left" /\ ready
    /\ Works(c, "end")
    /\ UNCHANGED <<up, boot, caller, ctxOver, sent, stream, out>>

Dialed(c) ==
    /\ worker[c] = "dial"
    /\ Works(c, IF up.kind = "doq" THEN "dialed" ELSE "roundTrip")
    /\ UNCHANGED <<up, boot, caller, ctxOver, sent, stream, out>>

(* What comes back: only UDP truncates.  DoH and DoQ queries carry id 0.    *)
WireId(c) == IF up.kind \in {"https", "h3", "doq"} THEN Nobody ELSE c
RoundTrip(c) ==
    /\ worker[c] = "roundTrip"
    /\ \E tc \in IF up.kind = "udp" /\ caller[c] # "tcp" THEN BOOLEAN ELSE {FALSE} :
          WorkerSends(c, [of |-> c, id |-> WireId(c), tc |-> tc])
    /\ UNCHANGED <<up, boot, caller, ctxOver, stream, out>>

(* The caller's select, and udpWithFallback's second try. *)
msgTruncated(r) == r.tc

RestoreId_Never(c, r) == r
RestoreId(c, r) == IF r.id = Nobody THEN [r EXCEPT !.id = c] ELSE r

UpAnswered(c) ==
    /\ caller[c] \in {"exchange", "tcp", "read"} /\ sent[c] # Empty
    /\ IF msgTruncated(sent[c])
       THEN /\ caller' = [caller EXCEPT ![c] = "tcp"]
            /\ sent' = [sent EXCEPT ![c] = Empty]
            /\ Works(c, "dial")
            /\ UNCHANGED out
       ELSE UpReturn(c, RestoreId(c, sent[c])) /\ UNCHANGED <<sent, worker>>
    /\ stream' = [stream EXCEPT ![c] = @ \ {"read"}]
    /\ UNCHANGED <<up, boot, ctxOver>>

GivesUp(c) ==
    /\ caller[c] \in {"exchange", "tcp", "read"} /\ ctxOver[c]
    /\ UpReturn(c, Error)
    /\ stream' = [stream EXCEPT ![c] = @ \ {"read"}]
    /\ UNCHANGED <<up, boot, worker, ctxOver, sent>>
-----------------------------------------------------------------------------
(* DNS over QUIC: a stream per query. *)
ReserveNewQuery(c) ==
    /\ caller[c] = "exchange" /\ worker[c] = "dialed"
    /\ \/ /\ stream' = [stream EXCEPT ![c] = {"read", "write"}]   \* OpenStream
          /\ caller' = [caller EXCEPT ![c] = "write"]
          /\ UNCHANGED <<worker, out>>
       \/ UpReturn(c, Error) /\ Works(c, "end") /\ UNCHANGED stream \* closed, or at the limit
    /\ UNCHANGED <<up, boot, ctxOver, sent>>

(* A failed write cancels both directions; Close ends the writing one.      *)
WriteFailed == {}

WriteQuery(c) ==
    /\ caller[c] = "write"
    /\ \/ /\ stream' = [stream EXCEPT ![c] = {"read"}]
          /\ caller' = [caller EXCEPT ![c] = "read"]
          /\ Works(c, "read") /\ UNCHANGED out
       \/ /\ stream' = [stream EXCEPT ![c] = WriteFailed]
          /\ UpReturn(c, Error) /\ Works(c, "end")
    /\ UNCHANGED <<up, boot, ctxOver, sent>>

(* The reading goroutine: a reply, an error, the stream's deadline, or the  *)
(* caller's CancelRead.                                                     *)
ReadStream(c) ==
    /\ worker[c] = "read"
    /\ \/ "read" \in stream[c] /\ WorkerSends(c, [of |-> c, id |-> Nobody, tc |-> FALSE])
       \/ WorkerSends(c, Error)
    /\ UNCHANGED <<up, boot, caller, ctxOver, stream, out>>

(* The caller leaves before the dial: the connection stays in the pool.     *)
DialedForNobody(c) ==
    /\ caller[c] = "done" /\ worker[c] = "dialed"
    /\ Works(c, "end")
    /\ UNCHANGED <<up, boot, caller, ctxOver, sent, stream, out>>

CtxOver(c) ==
    /\ ~ctxOver[c] /\ caller[c] # "done"
    /\ ctxOver' = [ctxOver EXCEPT ![c] = TRUE]
    /\ UNCHANGED <<up, boot, caller, worker, sent, stream, out>>
-----------------------------------------------------------------------------
WorkerStep(c) ==
    \/ TryUpdate(c) \/ CheckDue(c) \/ AddrReady(c) \/ WorkerFails(c) \/ Dialed(c)
    \/ RoundTrip(c) \/ ReadStream(c) \/ DialedForNobody(c) \/ LeftDialEnds(c)
UpCallerStep(c) == UpAnswered(c) \/ GivesUp(c) \/ ReserveNewQuery(c) \/ WriteQuery(c)
UpdaterStep == UpdateAddr \/ SetNextUpdate \/ EndUpdate

UpNext ==
    \/ UpdaterStep \/ UpdateIsDue
    \/ \E c \in UpCalls : WorkerStep(c) \/ UpCallerStep(c) \/ CtxOver(c)

(* Goroutines run; a dial, an exchange and a stream have a timeout of their *)
(* own (WorkerFails, ReadStream), and so has an update of the bootstrap     *)
(* (UpdateAddr), which need never succeed.                                  *)
UpFairness ==
    /\ WF_upVars(UpdaterStep)
    /\ \A c \in UpCalls : WF_upVars(WorkerStep(c)) /\ WF_upVars(UpCallerStep(c))

UpSpec == UpInit /\ [][UpNext]_upVars /\ UpFairness
-----------------------------------------------------------------------------
UpTypeOK ==
    /\ {updating, due, ready} \subseteq BOOLEAN
    /\ addr \in {"", "ip1", "ip2"}
    /\ updater \in {"idle", "resolve", "failed", "stored", "release"}
    /\ caller \in [UpCalls -> {"exchange", "write", "read", "tcp", "done"}]
    /\ worker \in [UpCalls -> {"tryUpdate", "check", "wait", "dial", "dialed",
                               "roundTrip", "read", "left", "end"}]
    /\ ctxOver \in [UpCalls -> BOOLEAN]
    /\ stream \in [UpCalls -> SUBSET {"read", "write"}]

(* nextUpdate, which no lock guards, is in the hands of one goroutine at a  *)
(* time: the one whose swap of updating succeeded, or the update it         *)
(* started; and an update runs only when one is due.                        *)
OneUpdater ==
    /\ Cardinality({c \in UpCalls : worker[c] = "check"})
         + (IF updater = "idle" THEN 0 ELSE 1) = (IF updating THEN 1 ELSE 0)
    /\ updater \in {"resolve", "failed", "stored"} => due

(* What a call returns is the reply to its own query under its own id,      *)
(* whatever id went over the wire, and never a truncated one of UDP: that   *)
(* query has been asked again over TCP.                                     *)
WholeReply ==
    \A c \in UpCalls :
        caller[c] = "done" /\ out[c] # Error =>
            out[c] = [of |-> c, id |-> c, tc |-> FALSE]

(* A call returns, and what it started goes: no goroutine stays, no half of *)
(* a QUIC stream stays open to count against the peer's limit - whether it  *)
(* got a reply, an error, no address or gave up.  One thing may stay: the   *)
(* dial of an https upstream, as long as the bootstrap has found no address.*)
NothingStays ==
    \A c \in UpCalls :
        <>[](/\ caller[c] = "done" /\ stream[c] = {}
             /\ worker[c] = "end" \/ (worker[c] = "left" /\ ~ready))
=============================================================================

--------------------------- MODULE Program_proofs ---------------------------
(***************************************************************************)
(* Theorems about the program around the queries: Life for any plugins and *)
(* queries, Servers for any queries, sizes and minimum, CacheDump for any  *)
(* flushes, updates and crashes, Requery for any tasks, Audit for any logs *)
(* and capacities.                                                         *)
(***************************************************************************)
EXTENDS Requery, CacheDump, Life, Servers, Induction

(* The closer goes wait, worker, plugins, done, and what was loaded when   *)
(* the signal came is from "plugins" on either closed or still to come; it *)
(* does not begin before the signal, so that a second one changes nothing. *)
(* When it was not attached, the signal came before any plugin was loaded. *)
SignalInv == atSignal \subseteq plugins /\ (closeSignal \/ closerPc \in {"none", "wait"})
UnattachedInv ==
    /\ mainPc = "start" => plugins = {} /\ closerPc = "none"
    /\ closerPc = "none" => atSignal = {} /\ (mainPc = "start" \/ closeSignal)
CloserInv ==
    /\ closerPc \in {"none", "wait", "worker", "plugins", "stuck", "done"}
    /\ closerPc = "plugins" => atSignal \subseteq closed \cup toClose
    /\ closerPc = "done" => atSignal \subseteq closed
ExitInv == mainPc = "exit" => closerPc \in {"none", "done"}
LifeInv == SignalInv /\ UnattachedInv /\ CloserInv /\ ExitInv

LEMMA LifeInitOK == LifeInit => LifeInv
  BY DEF LifeInit, LifeInv, SignalInv, UnattachedInv, CloserInv, ExitInv

(* A signal that comes when the closer has begun is not the first one.     *)
LEMMA SignalKeeps ==
  ASSUME SignalInv, UnattachedInv, CloserInv, SendCloseSignal,
         UNCHANGED <<plugins, closerPc, toClose, closed>>,
         mainPc' = mainPc \/ (mainPc # "start" /\ mainPc' # "start")
  PROVE  (SignalInv /\ UnattachedInv /\ CloserInv)'
  BY DEF SignalInv, UnattachedInv, CloserInv, SendCloseSignal

LEMMA LifeStep == ASSUME LifeInv, [LifeNext]_lifeVars PROVE LifeInv'
  <1> USE DEF LifeInv
  <1>1. CASE LoadPlugin
    <2>1. /\ plugins \subseteq plugins' /\ UNCHANGED <<mainPc, closeSignal, atSignal, closerPc, closed>>
          /\ mainPc # "start"
          /\ closerPc = "plugins" => toClose \subseteq toClose'
      BY <1>1 DEF LoadPlugin
    <2> QED BY <2>1 DEF SignalInv, UnattachedInv, CloserInv, ExitInv
  <1>2. CASE LoadFails
    <2>1. (SignalInv /\ UnattachedInv /\ CloserInv)'
      BY <1>2, SignalKeeps DEF LoadFails
    <2> QED BY <1>2, <2>1 DEF LoadFails, ExitInv
  <1>3. CASE Loaded
    BY <1>3 DEF Loaded, SignalInv, UnattachedInv, CloserInv, ExitInv
  <1>4. CASE CloseSignal
    <2>1. (SignalInv /\ UnattachedInv /\ CloserInv)'
      BY <1>4, SignalKeeps DEF CloseSignal
    <2> QED BY <1>4, <2>1 DEF CloseSignal, ExitInv
  <1>5. CASE ApiServerEnds
    <2>1. (SignalInv /\ UnattachedInv /\ CloserInv)'
      BY <1>5, SignalKeeps DEF ApiServerEnds
    <2> QED BY <1>5, <2>1 DEF ApiServerEnds, ExitInv
  <1>6. CASE WaitClosed
    BY <1>6 DEF WaitClosed, AttachedDone, SignalInv, UnattachedInv, CloserInv, ExitInv
  <1>7. CASE StopWorker
    BY <1>7 DEF StopWorker, SignalInv, UnattachedInv, CloserInv, ExitInv
  <1>8. CASE WorkerStopped
    BY <1>8 DEF WorkerStopped, SignalInv, UnattachedInv, CloserInv, ExitInv
  <1>9. CASE ClosePlugin
    <2>1. CASE \E tag \in toClose : toClose' = toClose \ {tag} /\ closed' = closed \cup {tag}
               /\ closerPc' = closerPc
      <3>1. closerPc = "plugins" /\ UNCHANGED <<mainPc, plugins, closeSignal, atSignal, closerPc>>
        BY <1>9, <2>1 DEF ClosePlugin
      <3>2. closed \cup toClose \subseteq closed' \cup toClose'
        BY <2>1
      <3> QED BY <3>1, <3>2 DEF SignalInv, UnattachedInv, CloserInv, ExitInv
    <2>2. CASE toClose = {} /\ closerPc' = "done" /\ UNCHANGED <<toClose, closed>>
      BY <1>9, <2>2 DEF ClosePlugin, SignalInv, UnattachedInv, CloserInv, ExitInv
    <2>3. CASE closerPc' = "stuck" /\ UNCHANGED <<toClose, closed>>
      BY <1>9, <2>3 DEF ClosePlugin, SignalInv, UnattachedInv, CloserInv, ExitInv
    <2> QED BY <1>9, <2>1, <2>2, <2>3 DEF ClosePlugin
  <1>10. ASSUME UNCHANGED life PROVE LifeInv'
    BY <1>10 DEF life, SignalInv, UnattachedInv, CloserInv, ExitInv
  <1>11. ASSUME NEW q \in Handlers, Accept(q) \/ ExecReturns(q) \/ IsCapturing(q) \/ CollectSends(q)
         PROVE LifeInv'
    BY <1>10, <1>11 DEF Accept, ExecReturns, IsCapturing, CollectSends, HandlerAt
  <1>12. CASE AuditStep \/ UNCHANGED lifeVars
    BY <1>10, <1>12 DEF AuditStep, lifeVars
  <1>13. CASE AttachCloser
    BY <1>13 DEF AttachCloser, SignalInv, UnattachedInv, CloserInv, ExitInv
  <1> QED BY <1>13, <1>1, <1>2, <1>3, <1>4, <1>5, <1>6, <1>7, <1>8, <1>9, <1>11, <1>12 DEF LifeNext

(* WaitClosed returns after every plugin that was loaded at the signal has *)
(* been closed, whoever sends signals, and however often.                  *)
THEOREM ExitCorrect == LifeSpec => []ExitClosesPlugins
  <1>1. LifeInv => ExitClosesPlugins
    BY DEF LifeInv, ExitInv, UnattachedInv, CloserInv, ExitClosesPlugins
  <1> QED BY LifeInitOK, LifeStep, <1>1, PTL DEF LifeSpec

-----------------------------------------------------------------------------
QueryRecords ==
    [state : {"none", "handle", "write", "done"}, kind : Kinds, opt : Nat, ctx : {"live", "cancelled"}]
ReplyRecords ==
    [size : Nat, tc : BOOLEAN, status : {"none", "badRequest", "serverError", "silent", "abort", "unsent",
                                             "packed", "reply", "lost"}]
QueriesType ==
    /\ conn \in {"open", "closed"} /\ reader \in {"read", "end"}
    /\ query \in [Queries -> QueryRecords]
    /\ replied \in [Queries -> ReplyRecords]

(* What has been packed fits its query, whether it gets written or not.    *)
Fits(q) ==
    /\ query[q].kind = "query"
    /\ server = "udp" => replied[q].size <= query[q].opt \/ replied[q].size <= MinMsgSize
    /\ replied[q].tc => server = "udp" /\ replied[q].size >= MinMsgSize
FitsInv ==
    \A q \in Queries :
        /\ replied[q].status \in {"packed", "reply"} => Fits(q)
        /\ query[q].state = "write" => replied[q].status = "packed"
        /\ query[q].state = "handle" => query[q].kind # "garbage"

ServersInv == QueriesType /\ FitsInv

LEMMA ServersInitOK == ServersInit => ServersInv
  <1> SUFFICES ASSUME ServersInit PROVE ServersInv
    OBVIOUS
  <1> USE DEF ServersInit
  <1>1. query \in [Queries -> QueryRecords]
    <2>1. [state : {"none"}, kind : Kinds, opt : Sizes \cup {0}, ctx : {"live"}] \subseteq QueryRecords
      <3>1. ASSUME NEW x \in [state : {"none"}, kind : Kinds, opt : Sizes \cup {0}, ctx : {"live"}]
            PROVE  x \in QueryRecords
        <4>1. x.opt \in Nat
          <5>1. x.opt \in Sizes \cup {0}
            OBVIOUS
          <5>2. Sizes \cup {0} \subseteq Nat
            BY ServersAssumption
          <5> QED BY Zenon, <5>1, <5>2
        <4>2. x.state = "none" /\ x.kind \in Kinds /\ x.ctx = "live"
          OBVIOUS
        <4>3. x = [state |-> x.state, kind |-> x.kind, opt |-> x.opt, ctx |-> x.ctx]
          OBVIOUS
        <4> QED BY <4>1, <4>2, <4>3 DEF QueryRecords
      <3> QED BY <3>1
    <2> QED BY <2>1
  <1>2. Nothing \in ReplyRecords
    BY DEF Nothing, ReplyRecords
  <1>3. QueriesType
    BY <1>1, <1>2 DEF QueriesType
  <1>4. \A q \in Queries : replied[q].status = "none" /\ query[q].state = "none"
    BY DEF Nothing
  <1> QED BY <1>3, <1>4 DEF ServersInv, FitsInv

(* Truncate to getValidUDPSize of the OPT. *)
LEMMA Truncated ==
  ASSUME NEW size \in Nat, NEW max \in Nat
  PROVE  /\ Truncate(size, max).size \in Nat /\ Truncate(size, max).size <= max
         /\ Truncate(size, max).tc \in BOOLEAN
         /\ Truncate(size, max).tc => size > max /\ Truncate(size, max).size = max
  <1>1. Truncate(size, max).size = (IF size > max THEN max ELSE size)
    BY DEF Truncate
  <1>2. Truncate(size, max).tc = (size > max)
    BY Zenon DEF Truncate
  <1>3. Truncate(size, max).tc \in BOOLEAN
    BY <1>2
  <1>4. Truncate(size, max).tc => size > max
    BY Zenon, <1>2
  <1>5. size > max => Truncate(size, max).size = max
    BY <1>1
  <1>6. Truncate(size, max).size \in Nat /\ Truncate(size, max).size <= max
    BY <1>1
  <1> QED BY <1>3, <1>4, <1>5, <1>6

LEMMA ValidSize ==
  ASSUME NEW opt \in Nat
  PROVE  /\ getValidUDPSize(opt) \in Nat /\ getValidUDPSize(opt) >= MinMsgSize
         /\ getValidUDPSize(opt) = opt \/ getValidUDPSize(opt) = MinMsgSize
  BY ServersAssumption DEF getValidUDPSize

(* A step of one query q, which no other one notices. *)
LEMMA OneQuery ==
  ASSUME ServersInv, NEW q \in Queries, NEW r \in ReplyRecords, NEW rec \in QueryRecords,
         query' = [query EXCEPT ![q] = rec], replied' = [replied EXCEPT ![q] = r],
         server' = server, conn' \in {"open", "closed"}, reader' \in {"read", "end"},
         r.status \in {"packed", "reply"} => Fits(q)',
         rec.state = "write" => r.status = "packed",
         rec.state = "handle" => rec.kind # "garbage"
  PROVE  ServersInv'
  <1>1. QueriesType'
    BY DEF ServersInv, QueriesType
  <1>2. query'[q] = rec /\ replied'[q] = r
    BY DEF ServersInv, QueriesType
  <1>3. \A p \in Queries \ {q} : query'[p] = query[p] /\ replied'[p] = replied[p]
    BY DEF ServersInv, QueriesType
  <1>4. ASSUME NEW p \in Queries \ {q}
        PROVE  /\ replied'[p].status \in {"packed", "reply"} => Fits(p)'
               /\ query'[p].state = "write" => replied'[p].status = "packed"
               /\ query'[p].state = "handle" => query'[p].kind # "garbage"
    BY <1>3 DEF ServersInv, FitsInv, Fits
  <1> QED BY <1>1, <1>2, <1>4 DEF ServersInv, FitsInv

(* The query as it goes on to another state. *)
LEMMA Onward ==
  ASSUME QueriesType, NEW q \in Queries, NEW s \in {"none", "handle", "write", "done"}, To(q, s)
  PROVE  /\ [query[q] EXCEPT !.state = s] \in QueryRecords
         /\ query' = [query EXCEPT ![q] = [query[q] EXCEPT !.state = s]]
         /\ query'[q].kind = query[q].kind /\ query'[q].opt = query[q].opt
  BY DEF QueriesType, QueryRecords, To

LEMMA Cancelled ==
  ASSUME ServersInv, CancelAll, UNCHANGED server, replied' \in [Queries -> ReplyRecords],
         \A q \in Queries :
             replied'[q] = replied[q] \/ (replied'[q].status = "abort" /\ query[q].state # "write"),
         conn' \in {"open", "closed"}, reader' \in {"read", "end"}
  PROVE  ServersInv'
  <1>1. query \in [Queries -> QueryRecords]
    BY DEF ServersInv, QueriesType
  <1>2. ASSUME NEW q \in Queries
        PROVE  /\ [query[q] EXCEPT !.ctx = "cancelled"] \in QueryRecords
               /\ query'[q].state = query[q].state /\ query'[q].kind = query[q].kind
               /\ query'[q].opt = query[q].opt
    <2>1. query[q] \in QueryRecords /\ query'[q] = [query[q] EXCEPT !.ctx = "cancelled"]
      BY <1>1 DEF CancelAll
    <2> QED BY <2>1 DEF QueryRecords
  <1>3. query' \in [Queries -> QueryRecords]
    BY <1>2 DEF CancelAll
  <1>4. QueriesType'
    BY <1>3 DEF ServersInv, QueriesType
  <1> QED BY <1>2, <1>4 DEF ServersInv, FitsInv, Fits

LEMMA HandleStep == ASSUME ServersInv, NEW q \in Queries, Handle(q) PROVE ServersInv'
  <1>1. /\ server' = server /\ reader' = reader /\ reader \in {"read", "end"}
        /\ conn \in {"open", "closed"} /\ query[q].state = "handle" /\ QueriesType
        /\ query[q] \in QueryRecords /\ replied[q] \in ReplyRecords
    BY DEF Handle, At, ServersInv, QueriesType
  <1>2. CASE NoPayload(q)
    <2> DEFINE rec == [query[q] EXCEPT !.state = "done"]
    <2>1. To(q, "done") /\ conn' \in {"open", "closed"}
      BY <1>1, <1>2 DEF NoPayload
    <2>2. rec \in QueryRecords /\ query' = [query EXCEPT ![q] = rec]
      BY <1>1, <2>1, Onward
    <2>20. rec.state = "done"
      BY <1>1 DEF QueryRecords
    <2>3. PICK s \in {"abort", "serverError", "silent"} : replied' = [replied EXCEPT ![q].status = s]
      BY <1>2 DEF NoPayload
    <2> DEFINE r == [replied[q] EXCEPT !.status = s]
    <2>4. r \in ReplyRecords /\ r.status \notin {"packed", "reply"}
      BY <1>1 DEF ReplyRecords
    <2>5. replied' = [replied EXCEPT ![q] = r]
      BY <2>3
    <2> HIDE DEF rec, r
    <2> QED BY <1>1, <2>1, <2>2, <2>20, <2>4, <2>5, OneQuery
  <1>3. CASE Payload(q)
    <2>1. PICK size \in Sizes :
             replied' = [replied EXCEPT ![q] =
                 [Truncate(size, IF server = "udp" THEN getValidUDPSize(query[q].opt) ELSE size)
                    EXCEPT !.status = "packed"]]
      BY <1>3 DEF Payload
    <2>2. To(q, "write") /\ conn' = conn
      BY <1>3 DEF Payload
    <2> DEFINE max == IF server = "udp" THEN getValidUDPSize(query[q].opt) ELSE size
               t == Truncate(size, max)
               r == [t EXCEPT !.status = "packed"]
               rec == [query[q] EXCEPT !.state = "write"]
    <2>3. size \in Nat /\ query[q].opt \in Nat /\ MinMsgSize \in Nat
      BY <1>1, ServersAssumption DEF QueryRecords
    <2>4. max \in Nat
      BY <2>3, ValidSize
    <2>5. r = [size |-> t.size, tc |-> t.tc, status |-> "packed"]
      BY DEF Truncate
    <2>6. r.size = t.size /\ r.status = "packed"
      BY <2>5
    <2>7. r.tc = t.tc
      BY Zenon, <2>5
    <2>8. /\ t.size \in Nat /\ t.size <= max /\ t.tc \in BOOLEAN
          /\ t.tc => size > max /\ t.size = max
      BY <2>3, <2>4, Truncated
    <2>9. r \in ReplyRecords
      BY <2>5, <2>8 DEF ReplyRecords
    <2>10. rec \in QueryRecords /\ query' = [query EXCEPT ![q] = rec]
           /\ query'[q].kind = query[q].kind /\ query'[q].opt = query[q].opt
      BY <1>1, <2>2, Onward
    <2>11. query[q].kind = "query"
      <3>1. query[q].kind # "garbage"
        BY <1>1 DEF ServersInv, FitsInv
      <3>2. query[q].kind # "bad"
        BY <1>3 DEF Payload
      <3> QED BY <1>1, <3>1, <3>2 DEF QueryRecords, Kinds
    <2>12. server = "udp" => t.size <= query[q].opt \/ t.size <= MinMsgSize
      BY <2>3, <2>4, <2>8, ValidSize
    <2>13. t.tc => server = "udp" /\ t.size >= MinMsgSize
      <3>1. SUFFICES ASSUME t.tc PROVE server = "udp" /\ t.size >= MinMsgSize
        OBVIOUS
      <3>2. size > max /\ t.size = max
        BY <2>8, <3>1
      <3> QED BY <2>3, <3>2, ValidSize
    <2>14. replied' = [replied EXCEPT ![q] = r] /\ replied'[q] = r
      BY <1>1, <2>1 DEF ServersInv, QueriesType
    <2> HIDE DEF t, max
    <2>15. Fits(q)'
      <3>1. server' = "udp" => replied'[q].size <= query'[q].opt \/ replied'[q].size <= MinMsgSize
        BY <1>1, <2>6, <2>10, <2>12, <2>14
      <3>2. replied'[q].tc => server' = "udp" /\ replied'[q].size >= MinMsgSize
        <4>1. replied'[q].tc => t.tc
          BY Zenon, <2>7, <2>14
        <4> QED BY <1>1, <2>6, <2>13, <2>14, <4>1
      <3> QED BY <2>10, <2>11, <3>1, <3>2 DEF Fits
    <2>16. rec.state = "write"
      BY <1>1 DEF QueryRecords
    <2> HIDE DEF r, rec
    <2> QED BY <1>1, <2>2, <2>6, <2>9, <2>10, <2>14, <2>15, <2>16, OneQuery
  <1> QED BY <1>2, <1>3 DEF Handle

LEMMA WriteStep == ASSUME ServersInv, NEW q \in Queries, Write(q) PROVE ServersInv'
  <1>0. PICK st \in {"reply", "unsent", "lost"} : replied' = [replied EXCEPT ![q].status = st]
    BY DEF Write
  <1> DEFINE r == [replied[q] EXCEPT !.status = st]
             rec == [query[q] EXCEPT !.state = "done"]
  <1>1. /\ server' = server /\ reader' \in {"read", "end"} /\ conn' \in {"open", "closed"}
        /\ query[q].state = "write" /\ QueriesType
        /\ query[q] \in QueryRecords /\ replied[q] \in ReplyRecords /\ To(q, "done")
    BY DEF Write, At, ServersInv, QueriesType
  <1>2. Fits(q)
    BY <1>1 DEF ServersInv, FitsInv
  <1>3. rec \in QueryRecords /\ query' = [query EXCEPT ![q] = rec]
        /\ query'[q].kind = query[q].kind /\ query'[q].opt = query[q].opt
    BY <1>1, Onward
  <1>4. rec.state = "done"
    BY <1>1 DEF QueryRecords
  <1>5. r \in ReplyRecords /\ r.size = replied[q].size
    BY <1>1 DEF ReplyRecords
  <1>6. r.tc = replied[q].tc
    BY <1>1, Zenon DEF ReplyRecords
  <1>7. replied' = [replied EXCEPT ![q] = r] /\ replied'[q] = r
    BY <1>0, <1>1 DEF QueriesType
  <1> HIDE DEF r, rec
  <1>8. Fits(q)'
    <2>1. query'[q].kind = "query"
      BY <1>2, <1>3 DEF Fits
    <2>2. server' = "udp" => replied'[q].size <= query'[q].opt \/ replied'[q].size <= MinMsgSize
      BY <1>1, <1>2, <1>3, <1>5, <1>7 DEF Fits
    <2>3. replied'[q].tc => server' = "udp" /\ replied'[q].size >= MinMsgSize
      <3>1. replied'[q].tc => replied[q].tc
        BY Zenon, <1>6, <1>7
      <3> QED BY <1>1, <1>2, <1>5, <1>7, <3>1 DEF Fits
    <2> QED BY <2>1, <2>2, <2>3 DEF Fits
  <1> QED BY <1>1, <1>3, <1>4, <1>5, <1>7, <1>8, OneQuery

LEMMA ReadStep == ASSUME ServersInv, NEW q \in Queries, Read(q) PROVE ServersInv'
  <1>1. /\ server' = server /\ reader \in {"read", "end"} /\ conn \in {"open", "closed"}
        /\ query[q].state = "none" /\ QueriesType
        /\ query[q] \in QueryRecords /\ replied[q] \in ReplyRecords
    BY DEF Read, At, ServersInv, QueriesType
  <1>2. replied = [replied EXCEPT ![q] = replied[q]]
    BY <1>1 DEF QueriesType
  <1>3. replied[q].status \in {"packed", "reply"} => query[q].kind = "query" /\ Fits(q)
    BY DEF ServersInv, FitsInv, Fits
  <1>4. ASSUME NEW s \in {"handle", "done"}, To(q, s), s = "handle" => query[q].kind # "garbage",
               UNCHANGED <<conn, reader>>, NEW r \in ReplyRecords,
               replied' = [replied EXCEPT ![q] = r], r = replied[q] \/ r.status = "badRequest"
        PROVE  ServersInv'
    <2> DEFINE rec == [query[q] EXCEPT !.state = s]
    <2>1. rec \in QueryRecords /\ query' = [query EXCEPT ![q] = rec]
          /\ query'[q].kind = query[q].kind /\ query'[q].opt = query[q].opt
      BY <1>1, <1>4, Onward
    <2>2. rec.state = s /\ rec.kind = query[q].kind
      BY <1>1, <1>4 DEF QueryRecords
    <2>3. replied'[q] = r
      BY <1>1, <1>4 DEF QueriesType
    <2>4. r.status \in {"packed", "reply"} => Fits(q)'
      <3>1. CASE r = replied[q]
        BY <1>1, <1>3, <2>1, <2>3, <3>1 DEF Fits
      <3>2. CASE r.status = "badRequest"
        BY <3>2
      <3> QED BY <1>4, <3>1, <3>2
    <2> HIDE DEF rec
    <2> QED BY <1>1, <1>4, <2>1, <2>2, <2>4, OneQuery
  <1>5. CASE query[q].kind # "garbage"
    <2>1. To(q, "handle") /\ UNCHANGED <<conn, reader, replied>>
      BY <1>5 DEF Read
    <2> QED BY <1>1, <1>2, <1>4, <1>5, <2>1
  <1>6. CASE query[q].kind = "garbage" /\ EndsConn
    <2> DEFINE r == [replied[q] EXCEPT !.status = "abort"]
    <2>1. CloseConn /\ replied' = [replied EXCEPT ![q] = r]
      BY <1>6 DEF Read
    <2>2. r \in ReplyRecords /\ r.status = "abort"
      BY <1>1 DEF ReplyRecords
    <2> HIDE DEF r
    <2>3. CancelAll /\ conn' \in {"open", "closed"} /\ reader' \in {"read", "end"}
      BY <2>1 DEF CloseConn
    <2>4. replied' \in [Queries -> ReplyRecords] /\ replied'[q] = r
          /\ \A p \in Queries \ {q} : replied'[p] = replied[p]
      BY <1>1, <2>1, <2>2 DEF QueriesType
    <2>5. \A p \in Queries :
              replied'[p] = replied[p] \/ (replied'[p].status = "abort" /\ query[p].state # "write")
      BY <1>1, <2>2, <2>4
    <2> QED BY <1>1, <2>3, <2>4, <2>5, Cancelled
  <1>7. CASE query[q].kind = "garbage" /\ ~EndsConn /\ server = "http"
    <2> DEFINE r == [replied[q] EXCEPT !.status = "badRequest"]
    <2>1. To(q, "done") /\ UNCHANGED <<conn, reader>> /\ replied' = [replied EXCEPT ![q] = r]
      BY <1>7 DEF Read
    <2>2. r \in ReplyRecords /\ r.status = "badRequest"
      BY <1>1 DEF ReplyRecords
    <2> HIDE DEF r
    <2> QED BY <1>4, <2>1, <2>2
  <1>8. CASE query[q].kind = "garbage" /\ ~EndsConn /\ server # "http"
    <2>1. To(q, "done") /\ UNCHANGED <<conn, reader, replied>>
      BY <1>8 DEF Read
    <2> QED BY <1>1, <1>2, <1>4, <2>1
  <1> QED BY <1>5, <1>6, <1>7, <1>8

LEMMA ServersStep == ASSUME ServersInv, [ServersNext]_serverVars PROVE ServersInv'
  <1>0. replied \in [Queries -> ReplyRecords]
    BY DEF ServersInv, QueriesType
  <1>1. CASE ReadFails
    BY <1>0, <1>1, Cancelled DEF ReadFails, CloseConn
  <1>2. CASE ServeReturns
    <2>1. /\ CancelAll /\ UNCHANGED <<server, replied>>
          /\ conn' \in {"open", "closed"} /\ reader' \in {"read", "end"}
      BY <1>2 DEF ServeReturns, ReaderEnds, ServersInv, QueriesType
    <2> QED BY <1>0, <2>1, Cancelled
  <1>3. CASE CloseServer
    BY <1>3 DEF CloseServer, ServersInv, QueriesType, FitsInv, Fits
  <1>4. CASE UNCHANGED serverVars
    BY <1>4 DEF serverVars, ServersInv, QueriesType, FitsInv, Fits
  <1> QED BY <1>1, <1>2, <1>3, <1>4, ReadStep, HandleStep, WriteStep DEF ServersNext

(* A reply that is written fits what the client takes, is marked when cut, *)
(* and answers a query: for all sizes, OPTs and minima, and over every     *)
(* kind of server.                                                         *)
THEOREM RepliesFit == ServersSpec => []ReplyFits
  <1>1. ServersInv => ReplyFits
    BY DEF ServersInv, FitsInv, Fits, ReplyFits
  <1> QED BY ServersInitOK, ServersStep, <1>1, PTL DEF ServersSpec

-----------------------------------------------------------------------------
(* Numbers and sets alone: what was not dumped is in the cache, a loop that *)
(* is not at work has nothing in its hands.                                 *)
CountType ==
    /\ {stored, dumpSaving, updated, dumpTaken} \subseteq Nat
    /\ DOMAIN dumpPc = Dumpers
MissingInv == missing \subseteq mem /\ IsFiniteSet(Due)
TakenInv == dumpPc[Loop] # "swapped" => dumpTaken = 0
DumpInv == CountType /\ MissingInv /\ TakenInv /\ ChangesCounted

LEMMA DumpInitOK == DumpInit => DumpInv
  <1> SUFFICES ASSUME DumpInit PROVE DumpInv
    OBVIOUS
  <1>1. IsFiniteSet(Due) /\ Cardinality(Due) = 0
    BY FS_EmptySet DEF DumpInit, Due
  <1> QED BY <1>1 DEF DumpInit, DumpInv, CountType, MissingInv, TakenInv, ChangesCounted

(* Going on from one place that announces a dump to another does not stop   *)
(* it from coming, nor does any step of others.                             *)
Announces == {"flushed", "reset", "closing", "created"}
LEMMA StillComing ==
  ASSUME CountType, NEW d \in Dumpers, NEW l, DumpGoto(d, l),
         dumpPc[d] \in Announces => l \in Announces
  PROVE  DumpComing => DumpComing'
  BY DEF CountType, DumpGoto, DumpComing, Announces

(* A step after which the count covers as much, or a dump still comes.      *)
LEMMA StillCounted ==
  ASSUME DumpInv, DumpComing => DumpComing', Due' = Due,
         CountType', updated + dumpTaken + dumpSaving = updated' + dumpTaken' + dumpSaving'
  PROVE  ChangesCounted'
  BY DEF DumpInv, ChangesCounted

(* A step after which nothing is due.                                       *)
LEMMA NothingDue ==
  ASSUME CountType', Due' = {} PROVE ChangesCounted'
  <1>1. Cardinality(Due') = 0
    BY FS_EmptySet
  <1>2. updated' + dumpTaken' + dumpSaving' \in Nat
    BY DEF CountType
  <1> QED BY <1>1, <1>2 DEF ChangesCounted

LEMMA DumpUpdateStep == ASSUME DumpInv, DumpUpdate PROVE DumpInv'
  <1>1. CountType' /\ TakenInv'
    BY DEF DumpInv, CountType, TakenInv, DumpUpdate
  <1>2. missing' = missing \cup {stored + 1} /\ mem' = mem \cup {stored + 1} /\ forgone' = forgone
    BY DEF DumpUpdate
  <1>4. IsFiniteSet(Due) /\ Due' \subseteq Due \cup {stored + 1}
    BY <1>2 DEF DumpInv, MissingInv, Due
  <1>5. /\ IsFiniteSet(Due \cup {stored + 1}) /\ Cardinality(Due) \in Nat
        /\ Cardinality(Due \cup {stored + 1}) <= Cardinality(Due) + 1
    BY <1>4, FS_AddElement, FS_CardinalityType
  <1>6. IsFiniteSet(Due') /\ Cardinality(Due') <= Cardinality(Due \cup {stored + 1})
    BY <1>4, <1>5, FS_Subset
  <1>3. MissingInv'
    BY <1>2, <1>6 DEF DumpInv, MissingInv
  <1>7. DumpComing' <=> DumpComing
    BY DEF DumpUpdate, DumpComing
  <1>8. /\ dumpSaving' = dumpSaving + 1 /\ updated' = updated /\ dumpTaken' = dumpTaken
        /\ dumpSaving \in Nat /\ updated \in Nat /\ dumpTaken \in Nat
        /\ Cardinality(Due') \in Nat /\ Cardinality(Due \cup {stored + 1}) \in Nat
    BY <1>5, <1>6, FS_CardinalityType DEF DumpUpdate, DumpInv, CountType
  <1>9. ChangesCounted'
    <2>1. CASE DumpComing
      BY <1>7, <2>1 DEF ChangesCounted
    <2>2. CASE Cardinality(Due) <= updated + dumpTaken + dumpSaving
      <3>1. Cardinality(Due') <= updated' + dumpTaken' + dumpSaving'
        BY <1>5, <1>6, <1>8, <2>2
      <3> QED BY <3>1 DEF ChangesCounted
    <2> QED BY <2>1, <2>2 DEF DumpInv, ChangesCounted
  <1> QED BY <1>1, <1>3, <1>9 DEF DumpInv

(* The one step after which a dump no longer comes takes all that is missing.*)
LEMMA DumpSnapshotStep ==
  ASSUME DumpInv, NEW d \in Dumpers, DumpSnapshot(d) PROVE DumpInv'
  <1>1. missing' = {} /\ Due' = {} /\ IsFiniteSet(Due')
    BY FS_EmptySet DEF DumpSnapshot, DumpInv, MissingInv, Due
  <1>2. CountType' /\ TakenInv'
    BY DEF DumpInv, CountType, TakenInv, DumpSnapshot, DumpGoto, memVars
  <1>3. ChangesCounted'
    BY <1>1, <1>2, NothingDue
  <1> QED BY <1>1, <1>2, <1>3 DEF DumpInv, MissingInv

LEMMA DumpRestartStep == ASSUME DumpInv, DumpRestart PROVE DumpInv'
  <1>1. missing' = {} /\ Due' = {} /\ IsFiniteSet(Due')
    BY FS_EmptySet DEF DumpRestart, Due
  <1>2. CountType' /\ TakenInv'
    BY DEF DumpInv, CountType, TakenInv, DumpRestart
  <1>3. ChangesCounted'
    BY <1>1, <1>2, NothingDue
  <1> QED BY <1>1, <1>2, <1>3 DEF DumpInv, MissingInv

LEMMA FlushSteps ==
  ASSUME DumpInv, NEW f \in Flushes, FlushCache(f) \/ FlushCount(f)
  PROVE  DumpInv'
  <1>1. f \in Dumpers /\ Loop \in Dumpers
    BY DEF Dumpers
  <1>2. \E l \in {"flushed", "reset"} : DumpGoto(f, l)
    BY DEF FlushCache, FlushCount
  <1>3. DumpComing'
    BY <1>1, <1>2 DEF DumpInv, CountType, DumpComing, DumpGoto
  <1>4. MissingInv'
    BY FS_EmptySet DEF FlushCache, FlushCount, DumpInv, MissingInv, memVars, Due
  <1>5. CountType'
    BY <1>2 DEF FlushCache, FlushCount, DumpInv, CountType, DumpGoto, memVars
  <1>6. TakenInv'
    <2>1. dumpTaken' = dumpTaken /\ (dumpPc'[Loop] = dumpPc[Loop] \/ dumpPc[Loop] # "swapped" )
      BY <1>1, <1>2 DEF FlushCache, FlushCount, DumpInv, CountType, DumpGoto
    <2> QED BY <1>1, <1>2, <2>1 DEF DumpInv, TakenInv, CountType, DumpGoto, FlushCache, FlushCount
  <1> QED BY <1>3, <1>4, <1>5, <1>6 DEF DumpInv, ChangesCounted

LEMMA LoopSteps ==
  ASSUME DumpInv, CountUpdate \/ DumpSwap \/ TooFew PROVE DumpInv'
  <1>1. missing' = missing /\ mem' = mem /\ Due' = Due
    BY DEF CountUpdate, DumpSwap, TooFew, memVars, Due
  <1>2. /\ stored \in Nat /\ dumpSaving \in Nat /\ updated \in Nat /\ dumpTaken \in Nat
        /\ DOMAIN dumpPc = Dumpers /\ Loop \in Dumpers
    BY DEF DumpInv, CountType, Dumpers
  <1>3. CASE CountUpdate
    <2>1. CountType' /\ updated + dumpTaken + dumpSaving = updated' + dumpTaken' + dumpSaving'
      BY <1>2, <1>3 DEF CountUpdate, CountType
    <2>2. TakenInv' /\ (DumpComing => DumpComing')
      BY <1>3 DEF CountUpdate, DumpInv, TakenInv, DumpComing
    <2> QED BY <1>1, <2>1, <2>2, StillCounted DEF DumpInv, MissingInv
  <1>4. CASE DumpSwap
    <2>1. dumpTaken = 0
      BY <1>4 DEF DumpSwap, DumpInv, TakenInv
    <2>2. CountType' /\ updated + dumpTaken + dumpSaving = updated' + dumpTaken' + dumpSaving'
      BY <1>2, <1>4, <2>1 DEF DumpSwap, CountType, DumpGoto, memVars
    <2>3. dumpPc[Loop] = "idle" /\ DumpGoto(Loop, "swapped")
      BY <1>4 DEF DumpSwap
    <2>4. DumpComing => DumpComing'
      BY <1>2, <2>3, StillComing DEF DumpInv, Announces
    <2>5. TakenInv'
      BY <1>2, <2>3 DEF TakenInv, DumpGoto
    <2> QED BY <1>1, <2>2, <2>4, <2>5, StillCounted DEF DumpInv, MissingInv
  <1>5. CASE TooFew
    <2>1. CountType' /\ updated + dumpTaken + dumpSaving = updated' + dumpTaken' + dumpSaving'
      BY <1>2, <1>5 DEF TooFew, AddBack, CountType, DumpGoto, memVars
    <2>2. dumpPc[Loop] = "swapped" /\ DumpGoto(Loop, "idle") /\ dumpTaken' = 0
      BY <1>5 DEF TooFew
    <2>3. DumpComing => DumpComing'
      BY <1>2, <2>2, StillComing DEF DumpInv, Announces
    <2> QED BY <1>1, <2>1, <2>2, <2>3, StillCounted DEF DumpInv, MissingInv, TakenInv
  <1> QED BY <1>3, <1>4, <1>5

LEMMA DumperSteps ==
  ASSUME DumpInv, NEW d \in Dumpers, DumpCreate(d) \/ DumpWrite(d)
  PROVE  DumpInv'
  <1>1. missing' = missing /\ mem' = mem /\ updated' = updated /\ dumpSaving' = dumpSaving /\ stored' = stored
        /\ Due' = Due
    BY DEF DumpCreate, DumpWrite, memVars, Due
  <1>2. Loop \in Dumpers /\ DOMAIN dumpPc = Dumpers
    BY DEF DumpInv, CountType, Dumpers
  <1>3. CASE DumpCreate(d)
    <2>1. dumpTaken' = (IF d = Loop THEN 0 ELSE dumpTaken) /\ DumpGoto(d, "created")
      BY <1>3 DEF DumpCreate
    <2>2. CountType'
      BY <1>1, <2>1 DEF DumpInv, CountType, DumpGoto
    <2>3. DumpComing'
      BY <1>2, <2>1 DEF DumpComing, DumpGoto
    <2>4. TakenInv'
      BY <1>2, <2>1 DEF DumpInv, TakenInv, DumpGoto
    <2> QED BY <1>1, <2>2, <2>3, <2>4 DEF DumpInv, MissingInv, ChangesCounted
  <1>4. CASE DumpWrite(d)
    <2>1. dumpTaken' = dumpTaken /\ dumpPc[d] = "writing" /\ DumpGoto(d, DumpEnd(d))
      BY <1>4 DEF DumpWrite
    <2>2. CountType' /\ updated + dumpTaken + dumpSaving = updated' + dumpTaken' + dumpSaving'
      BY <1>1, <2>1 DEF DumpInv, CountType, DumpGoto
    <2>3. DumpComing => DumpComing'
      BY <2>1, StillComing DEF DumpInv, Announces
    <2>4. TakenInv'
      BY <1>2, <2>1 DEF DumpInv, TakenInv, DumpGoto, DumpEnd
    <2> QED BY <1>1, <2>2, <2>3, <2>4, StillCounted DEF DumpInv, MissingInv
  <1> QED BY <1>3, <1>4

(* A dump that fails: what it was to take is no longer due.                 *)
LEMMA CreateFailsStep == ASSUME DumpInv, NEW d \in Dumpers, CreateFails(d) PROVE DumpInv'
  <1>1. missing' = missing /\ mem' = mem /\ updated' = updated /\ dumpSaving' = dumpSaving /\ stored' = stored
    BY DEF CreateFails, memVars
  <1>2. dumpTaken' = (IF d = Loop THEN 0 ELSE dumpTaken) /\ DumpGoto(d, DumpEnd(d)) /\ Due' = {}
    BY DEF CreateFails, Due
  <1>3. CountType'
    BY <1>1, <1>2 DEF DumpInv, CountType, DumpGoto
  <1>4. TakenInv'
    BY <1>2 DEF DumpInv, CountType, TakenInv, DumpGoto, DumpEnd
  <1>5. ChangesCounted'
    BY <1>2, <1>3, NothingDue
  <1> QED BY <1>1, <1>2, <1>3, <1>4, <1>5, FS_EmptySet DEF DumpInv, MissingInv

LEMMA WriteFailsStep == ASSUME DumpInv, NEW d \in Dumpers, WriteFails(d) PROVE DumpInv'
  <1>1. mem' = mem /\ updated' = updated /\ dumpSaving' = dumpSaving /\ stored' = stored /\ dumpTaken' = dumpTaken
    BY DEF WriteFails, memVars
  <1> DEFINE More == dumpSnap[d] \cap mem
  <1>2. missing' = missing \cup More /\ forgone' = forgone \cup More
    BY DEF WriteFails
  <1>3. dumpPc[d] = "writing" /\ DumpGoto(d, DumpEnd(d))
    BY DEF WriteFails
  <1>4. CountType' /\ updated + dumpTaken + dumpSaving = updated' + dumpTaken' + dumpSaving'
    BY <1>1, <1>3 DEF DumpInv, CountType, DumpGoto
  <1>5. TakenInv'
    BY <1>1, <1>3 DEF DumpInv, CountType, TakenInv, DumpGoto, DumpEnd
  <1>7. missing' \subseteq mem'
    BY <1>1, <1>2 DEF DumpInv, MissingInv
  <1>8. IsFiniteSet(Due) /\ Due' \subseteq Due
    BY <1>2 DEF DumpInv, MissingInv, Due
  <1>9. IsFiniteSet(Due') /\ Cardinality(Due') <= Cardinality(Due) /\ Cardinality(Due') \in Nat /\ Cardinality(Due) \in Nat
    BY <1>8, FS_Subset, FS_CardinalityType
  <1>10. DumpComing => DumpComing'
    BY <1>3, StillComing DEF DumpInv, Announces
  <1>11. updated + dumpTaken + dumpSaving \in Nat
    BY DEF DumpInv, CountType
  <1>12. ChangesCounted'
    BY <1>4, <1>9, <1>10, <1>11 DEF DumpInv, ChangesCounted
  <1> QED BY <1>4, <1>5, <1>7, <1>9, <1>12 DEF DumpInv, MissingInv

LEMMA CloseStep == ASSUME DumpInv, CloseStarts PROVE DumpInv'
  <1>1. Loop \in Dumpers /\ Closing \in Dumpers /\ DOMAIN dumpPc = Dumpers /\ DumpGoto(Closing, "closing")
        /\ UNCHANGED <<mem, stored, dumpSaving, updated, dumpTaken, missing, forgone>>
    BY DEF CloseStarts, DumpInv, CountType, Dumpers, memVars
  <1>2. DumpComing'
    BY <1>1 DEF DumpComing, DumpGoto
  <1> QED BY <1>1, <1>2 DEF DumpInv, CountType, MissingInv, TakenInv, ChangesCounted, DumpGoto, Closing, Loop, Due

LEMMA DumpStepOK == ASSUME DumpInv, [DumpNext]_dumpVars PROVE DumpInv'
  <1>1. CASE UNCHANGED dumpVars
    BY <1>1 DEF dumpVars, memVars, DumpInv, CountType, MissingInv, TakenInv, ChangesCounted, DumpComing, Due
  <1> QED BY <1>1, DumpUpdateStep, DumpSnapshotStep, DumpRestartStep, FlushSteps, LoopSteps, DumperSteps,
             CreateFailsStep, WriteFailsStep, CloseStep DEF DumpNext, DumpStep

(* The count of changes never falls behind what no dump has taken, unless  *)
(* a dump is about to take all, or a dump that failed was to take it: for  *)
(* any number of flushes, dumps at a time, updates, failures and crashes.  *)
THEOREM DumpCountCorrect == DumpSpec => []ChangesCounted
  <1>1. DumpInv => ChangesCounted
    BY DEF DumpInv
  <1> QED BY DumpInitOK, DumpStepOK, <1>1, PTL DEF DumpSpec
-----------------------------------------------------------------------------
(* Requery: a task that is gone leaves no running state behind; while tasks *)
(* do not overlap, the state tells how the last one ended, the backup loses *)
(* no domain and the rules are flushed after the backup has them.           *)

States3 == States \ {"running"}

(* While tasks do not overlap, at most one is at work, the status is its   *)
(* own, and it stays "running" until the task has ended or has failed.     *)
AloneInv == ~overlapped => \A t, u \in Active : t = u
StateInv ==
    ~overlapped => \A t \in Active :
        /\ outcome[t] \in States3
        /\ \/ taskState = "running" /\ outcome[t] = "idle"
           \/ pc[t] = "exit" /\ taskState = outcome[t]

(* What is merged has all of the backup, then the backup all of it. *)
BackupInv ==
    ~overlapped => \A t \in Tasks :
        /\ pc[t] = "write" => backup \subseteq merged[t]
        /\ pc[t] = "flush" => merged[t] \subseteq backup

TasksInv == TypeOK /\ RunningIsReal /\ AloneInv /\ StateInv /\ BackupInv

Pcs == Working \cup {"none", "spawned"}

-----------------------------------------------------------------------------
LEMMA TasksFirst == Init => TasksInv
  <1> SUFFICES ASSUME Init PROVE TasksInv
    OBVIOUS
  <1> USE DEF Init
  <1>1. Active = {}
    BY DEF Active, Working
  <1>2. TypeOK
    <2>1. {timers, firing, timers + firing} \subseteq 0 .. MaxTimers
      BY TimerAssumption
    <2>2. enabled \in BOOLEAN /\ disk \in [state : States, enabled : BOOLEAN] /\ taskState \in States
      BY DEF States
    <2> QED BY <2>1, <2>2 DEF TypeOK, States
  <1> QED BY <1>1, <1>2 DEF TasksInv, RunningIsReal, AloneInv, StateInv, BackupInv

(* What a save of the config leaves on the disk is of its type. *)
LEMMA SavedType ==
  ASSUME TypeOK, taskState' \in States, enabled' \in BOOLEAN, SaveConfig
  PROVE  disk' \in [state : States, enabled : BOOLEAN]
  BY DEF TypeOK, SaveConfig

LEMMA TimersType ==
  ASSUME TypeOK
  PROVE  timers \in Nat /\ firing \in Nat /\ timers + firing <= MaxTimers
  BY TimerAssumption DEF TypeOK

LEMMA TimersBack ==
  ASSUME timers' \in Nat, firing' \in Nat, timers' + firing' <= MaxTimers
  PROVE  {timers', firing', timers' + firing'} \subseteq 0 .. MaxTimers
  <1>1. ASSUME NEW a \in Nat, NEW b \in Nat, a + b <= MaxTimers
        PROVE  a \in 0 .. MaxTimers /\ b \in 0 .. MaxTimers /\ a + b \in 0 .. MaxTimers
    BY <1>1, TimerAssumption
  <1> QED BY <1>1

StatusType ==
    /\ taskState \in States /\ enabled \in BOOLEAN
    /\ disk \in [state : States, enabled : BOOLEAN]
    /\ taskCancel \in Tasks \cup {NoTask}
    /\ overlapped \in BOOLEAN
TasksType ==
    /\ ctxDone \subseteq Tasks
    /\ pc \in [Tasks -> Pcs]
    /\ outcome \in [Tasks -> States]
    /\ merged \in [Tasks -> SUBSET (Domains \cup OldDomains)]
TimersOK == {timers, firing, timers + firing} \subseteq 0 .. MaxTimers
DataType ==
    /\ {rules, files} \cup writing \subseteq SUBSET Domains
    /\ backup \subseteq Domains \cup OldDomains

LEMMA TypeParts == TypeOK <=> StatusType /\ TasksType /\ TimersOK /\ DataType
  BY DEF TypeOK, StatusType, TasksType, TimersOK, DataType, Pcs

LEMMA StepStatusType ==
  ASSUME TypeOK, Next PROVE StatusType'
  <1> USE DEF TypeOK, StatusType, States
  <1>1. ASSUME NEW t \in Tasks, Trigger(t) \/ TimerStarts(t) PROVE StatusType'
    BY <1>1 DEF Trigger, TimerStarts, Spawn, statusVars
  <1>2. ASSUME NEW t \in Tasks, Begin(t) PROVE StatusType'
    <2>1. taskState' \in States /\ enabled' = enabled /\ (disk' = disk \/ SaveConfig)
      BY <1>2 DEF Begin
    <2>2. disk' \in [state : States, enabled : BOOLEAN]
      BY <2>1, SavedType
    <2>3. overlapped' \in BOOLEAN /\ taskCancel' = taskCancel
      BY <1>2 DEF Begin
    <2> QED BY <2>1, <2>2, <2>3
  <1>3. ASSUME NEW t \in Tasks, Fail(t) \/ QueryCancelled(t) PROVE StatusType'
    BY <1>3 DEF Fail, QueryCancelled, Stop
  <1>4. ASSUME NEW t \in Tasks, SaveRules(t) \/ Merge(t) \/ WriteBackup(t) \/ FlushRules(t)
        PROVE StatusType'
    BY <1>4 DEF SaveRules, Merge, WriteBackup, FlushRules, statusVars
  <1>5. ASSUME NEW t \in Tasks, QueryAll(t) PROVE StatusType'
    BY <1>5, SavedType DEF QueryAll
  <1>6. ASSUME NEW t \in Tasks, Exit(t) PROVE StatusType'
    <2>1. taskState' \in States /\ enabled' = enabled /\ SaveConfig
      BY <1>6 DEF Exit, Cleaned
    <2>2. disk' \in [state : States, enabled : BOOLEAN]
      BY <2>1, SavedType
    <2> QED BY <1>6, <2>1, <2>2 DEF Exit
  <1>7. ASSUME NEW on \in BOOLEAN, UpdateScheduler(on) PROVE StatusType'
    BY <1>7 DEF UpdateScheduler
  <1>8. CASE Restart
    <2>1. disk.state \in States /\ disk.enabled \in BOOLEAN
      OBVIOUS
    <2>2. taskState' \in States /\ enabled' \in BOOLEAN /\ SaveConfig
      BY <1>8, <2>1 DEF Restart, OnStartup
    <2>3. disk' \in [state : States, enabled : BOOLEAN]
      BY <2>2, SavedType
    <2> QED BY <1>8, <2>2, <2>3 DEF Restart
  <1>9. CASE TimerSkips \/ Reschedule \/ CancelTask \/ ClearBackup \/ CopyRules \/ WriteRules
    BY <1>9 DEF TimerSkips, Reschedule, CancelTask, ClearBackup, CopyRules, WriteRules, statusVars
  <1>10. ASSUME NEW d \in Domains, Learn(d) PROVE StatusType'
    BY <1>10 DEF Learn, statusVars
  <1> QED BY <1>1, <1>2, <1>3, <1>4, <1>5, <1>6, <1>7, <1>8, <1>9, <1>10 DEF Next, TaskStep

LEMMA StepTasksType ==
  ASSUME TypeOK, Next PROVE TasksType'
  <1> USE DEF TypeOK, TasksType, States, Pcs, Working
  <1>1. ASSUME NEW t \in Tasks, Trigger(t) \/ TimerStarts(t) PROVE TasksType'
    BY <1>1 DEF Trigger, TimerStarts, Spawn, Goto
  <1>2. ASSUME NEW t \in Tasks, Begin(t) PROVE TasksType'
    BY <1>2 DEF Begin, Goto
  <1>3. ASSUME NEW t \in Tasks, Fail(t) \/ QueryCancelled(t) PROVE TasksType'
    BY <1>3 DEF Fail, QueryCancelled, Stop, Goto
  <1>4. ASSUME NEW t \in Tasks, SaveRules(t) \/ WriteBackup(t) \/ FlushRules(t) \/ QueryAll(t)
        PROVE TasksType'
    BY <1>4 DEF SaveRules, WriteBackup, FlushRules, QueryAll, Goto
  <1>5. ASSUME NEW t \in Tasks, Merge(t) PROVE TasksType'
    <2>1. ToMerge \subseteq Domains \cup OldDomains
      BY DEF ToMerge
    <2>2. merged' \in [Tasks -> SUBSET (Domains \cup OldDomains)]
      BY <1>5, <2>1 DEF Merge
    <2> QED BY <1>5, <2>2 DEF Merge, Goto
  <1>6. ASSUME NEW t \in Tasks, Exit(t) PROVE TasksType'
    BY <1>6 DEF Exit, Goto
  <1>7. CASE Restart
    BY <1>7 DEF Restart
  <1>8. CASE CancelTask
    <2>1. ctxDone' \subseteq Tasks
      BY <1>8 DEF CancelTask
    <2> QED BY <1>8, <2>1 DEF CancelTask
  <1>9. ASSUME UNCHANGED taskVars PROVE TasksType'
    BY <1>9 DEF taskVars
  <1>10. ASSUME NEW on \in BOOLEAN, UpdateScheduler(on) PROVE TasksType'
    BY <1>9, <1>10 DEF UpdateScheduler
  <1>11. ASSUME NEW d \in Domains, Learn(d) PROVE TasksType'
    BY <1>9, <1>11 DEF Learn
  <1>12. CASE TimerSkips \/ Reschedule \/ ClearBackup \/ CopyRules \/ WriteRules
    BY <1>9, <1>12 DEF TimerSkips, Reschedule, ClearBackup, CopyRules, WriteRules
  <1> QED BY <1>1, <1>2, <1>3, <1>4, <1>5, <1>6, <1>7, <1>8, <1>10, <1>11, <1>12 DEF Next, TaskStep

LEMMA StepTimersOK ==
  ASSUME TypeOK, Next PROVE TimersOK'
  <1>0. timers \in Nat /\ firing \in Nat /\ timers + firing <= MaxTimers
    BY TimersType
  <1>1. ASSUME timers > 0, timers' = timers - 1, firing' = firing + 1 PROVE TimersOK'
    BY <1>0, <1>1, TimersBack, TimerAssumption DEF TimersOK
  <1>2. ASSUME UNCHANGED timerVars PROVE TimersOK'
    BY <1>0, <1>2, TimersBack DEF TimersOK, timerVars
  <1>3. \A on \in BOOLEAN : Scheduled(on) \in {0, 1}
    BY DEF Scheduled
  <1>4. ASSUME NEW t \in Tasks, Trigger(t) \/ TimerStarts(t) \/ TaskStep(t) PROVE TimersOK'
    BY <1>1, <1>2, <1>4 DEF Trigger, TimerStarts, TaskStep, Begin, SaveRules, Merge, WriteBackup,
       FlushRules, QueryAll, QueryCancelled, Fail, Exit
  <1>5. CASE Reschedule
    <2>1. firing > 0 /\ firing' = firing - 1 /\ timers' = timers + Scheduled(enabled)
      BY <1>5 DEF Reschedule
    <2>2. Scheduled(enabled) \in {0, 1}
      BY <1>3 DEF TypeOK
    <2> QED BY <1>0, <2>1, <2>2, TimersBack, TimerAssumption DEF TimersOK
  <1>6. ASSUME NEW on \in BOOLEAN, UpdateScheduler(on) PROVE TimersOK'
    <2>1. /\ timers + firing + Scheduled(on) <= MaxTimers /\ firing' = firing
          /\ timers' = timers \/ timers' = timers + Scheduled(on)
      BY <1>6 DEF UpdateScheduler
    <2> QED BY <1>0, <1>3, <2>1, TimersBack, TimerAssumption DEF TimersOK
  <1>7. CASE Restart
    <2>1. enabled' \in BOOLEAN /\ timers' = Scheduled(enabled') /\ firing' = 0
      BY <1>7 DEF Restart, TypeOK
    <2>2. timers' \in {0, 1}
      BY <1>3, <2>1
    <2> QED BY <2>1, <2>2, TimersBack, TimerAssumption DEF TimersOK
  <1>8. CASE TimerSkips
    BY <1>1, <1>8 DEF TimerSkips
  <1>9. ASSUME NEW d \in Domains, Learn(d) PROVE TimersOK'
    BY <1>2, <1>9 DEF Learn
  <1>10. CASE CancelTask \/ ClearBackup \/ CopyRules \/ WriteRules
    BY <1>2, <1>10 DEF CancelTask, ClearBackup, CopyRules, WriteRules
  <1> QED BY <1>4, <1>5, <1>6, <1>7, <1>8, <1>9, <1>10 DEF Next

LEMMA StepDataType ==
  ASSUME TypeOK, Next PROVE DataType'
  <1> USE DEF TypeOK, DataType
  <1>1. ASSUME UNCHANGED dataVars PROVE DataType'
    BY <1>1 DEF dataVars
  <1>2. ASSUME NEW t \in Tasks, Trigger(t) \/ TimerStarts(t) \/ Begin(t) \/ Merge(t) \/ QueryAll(t)
                                \/ QueryCancelled(t) \/ Exit(t)
        PROVE DataType'
    BY <1>1, <1>2 DEF Trigger, TimerStarts, Begin, Merge, QueryAll, QueryCancelled, Exit
  <1>3. ASSUME NEW t \in Tasks, SaveRules(t) \/ FlushRules(t) PROVE DataType'
    <2>1. files' \in Written(rules) \cup Written({}) /\ rules' \in {rules, {}} /\ UNCHANGED <<backup, writing>>
      BY <1>3 DEF SaveRules, FlushRules
    <2>2. files' \subseteq Domains
      BY <2>1 DEF Written
    <2>3. rules' \subseteq Domains
      BY <2>1
    <2> QED BY <2>1, <2>2, <2>3
  <1>4. ASSUME NEW t \in Tasks, WriteBackup(t) PROVE DataType'
    BY <1>4 DEF WriteBackup, Backup
  <1>5. ASSUME NEW t \in Tasks, Fail(t) PROVE DataType'
    <2>1. merged[t] \subseteq Domains \cup OldDomains
      OBVIOUS
    <2>2. CASE UNCHANGED dataVars
      BY <1>1, <2>2
    <2>3. CASE files' \in Written(rules) /\ UNCHANGED <<rules, backup, writing>>
      <3>1. files' \subseteq Domains
        BY <2>3 DEF Written
      <3> QED BY <2>3, <3>1
    <2>4. CASE (\E left \in SUBSET Domains : rules' = rules \cap left /\ files' \in {files, files \cap left})
               /\ UNCHANGED <<backup, writing>>
      BY <2>4
    <2>5. CASE backup' \in SUBSET merged[t] /\ UNCHANGED <<rules, files, writing>>
      BY <2>1, <2>5
    <2> QED BY <1>5, <2>2, <2>3, <2>4, <2>5 DEF Fail
  <1>6. CASE Restart
    <2>1. rules' \subseteq Domains /\ files' \subseteq Domains /\ writing' = {}
      <3>1. rules \subseteq Domains /\ files \subseteq Domains /\ \A c \in writing : c \subseteq Domains
        OBVIOUS
      <3>2. files' \subseteq Domains
        BY <1>6, <3>1 DEF Restart
      <3> QED BY <1>6, <3>2 DEF Restart
    <2>2. \A t \in Tasks : merged[t] \subseteq Domains \cup OldDomains
      OBVIOUS
    <2>3. backup' \subseteq Domains \cup OldDomains
      BY <1>6, <2>2 DEF Restart
    <2> QED BY <2>1, <2>3
  <1>7. CASE WriteRules
    <2>1. files' \subseteq Domains
      BY <1>7 DEF WriteRules
    <2>2. writing' \subseteq writing /\ rules' = rules /\ backup' = backup
      BY <1>7 DEF WriteRules
    <2>3. ({rules, files} \cup writing)' \subseteq SUBSET Domains
      BY <2>1, <2>2
    <2> QED BY <2>2, <2>3
  <1>8. CASE CopyRules \/ ClearBackup
    BY <1>8 DEF CopyRules, ClearBackup
  <1>9. ASSUME NEW d \in Domains, Learn(d) PROVE DataType'
    BY <1>9 DEF Learn
  <1>10. ASSUME NEW on \in BOOLEAN, UpdateScheduler(on) PROVE DataType'
    BY <1>1, <1>10 DEF UpdateScheduler
  <1>11. CASE TimerSkips \/ Reschedule \/ CancelTask
    BY <1>1, <1>11 DEF TimerSkips, Reschedule, CancelTask
  <1> QED BY <1>2, <1>3, <1>4, <1>5, <1>6, <1>7, <1>8, <1>9, <1>10, <1>11 DEF Next, TaskStep

LEMMA TasksTypeStep == ASSUME TypeOK, [Next]_vars PROVE TypeOK'
  <1>1. CASE Next
    <2>1. (StatusType /\ TasksType /\ TimersOK /\ DataType)'
      BY <1>1, StepStatusType, StepTasksType, StepTimersOK, StepDataType
    <2> QED BY <2>1, TypeParts DEF TypeOK, StatusType, TasksType, TimersOK, DataType, Pcs
  <1>2. CASE UNCHANGED vars
    BY <1>2 DEF vars, statusVars, taskVars, timerVars, dataVars, TypeOK
  <1> QED BY <1>1, <1>2

-----------------------------------------------------------------------------
(* The steps of a task that is at work, as far as the status and the       *)
(* backup are concerned.                                                   *)

(* A step of something else: no task's place, status or backup changes.    *)
Elsewhere == UNCHANGED <<taskState, pc, outcome, merged, backup, overlapped>>

LEMMA Others ==
  ASSUME [Next]_vars, ~ClearBackup, ~Restart,
         ~(\E t \in Tasks : Trigger(t) \/ TimerStarts(t) \/ TaskStep(t))
  PROVE  Elsewhere
  BY DEF Next, Learn, UpdateScheduler, CopyRules, WriteRules, TimerSkips, Reschedule, CancelTask,
     vars, Elsewhere, statusVars, taskVars, dataVars

(* A task that works goes on: to another step of work, or with Stop and    *)
(* Exit to an end.                                                         *)
WorksOn(t) ==
    /\ t \in Active /\ pc[t] # "exit"
    /\ \E l \in Working : pc' = [pc EXCEPT ![t] = l]
    /\ UNCHANGED <<taskState, outcome, overlapped>>

LEMMA Works ==
  ASSUME NEW t \in Tasks,
         SaveRules(t) \/ Merge(t) \/ WriteBackup(t) \/ FlushRules(t) \/ QueryAll(t)
  PROVE  WorksOn(t)
  BY DEF SaveRules, Merge, WriteBackup, FlushRules, QueryAll, Goto, statusVars, WorksOn, Working, Active

Stops(t) ==
    /\ t \in Active /\ pc' = [pc EXCEPT ![t] = "exit"]
    /\ \E s \in {"failed", "cancelled"} : taskState' = s /\ outcome' = [outcome EXCEPT ![t] = s]
    /\ UNCHANGED overlapped

LEMMA StopsWork == ASSUME NEW t \in Tasks, Fail(t) \/ QueryCancelled(t) PROVE Stops(t)
  BY DEF Fail, QueryCancelled, Stop, Goto, Stops, Working, Active

Spawns(t) ==
    /\ pc[t] = "none" /\ pc' = [pc EXCEPT ![t] = "spawned"]
    /\ UNCHANGED <<taskState, outcome, merged, backup, overlapped>>

LEMMA Spawned == ASSUME NEW t \in Tasks, Trigger(t) \/ TimerStarts(t) PROVE Spawns(t)
  BY DEF Trigger, TimerStarts, Spawn, Goto, Spawns, statusVars, dataVars

Begins(t) ==
    /\ pc[t] = "spawned" /\ Idle /\ pc' = [pc EXCEPT ![t] = "save"]
    /\ taskState' = "running" /\ outcome' = [outcome EXCEPT ![t] = "idle"]
    /\ overlapped' = (overlapped \/ Active # {})
    /\ UNCHANGED <<merged, backup>>

Declines(t) ==
    /\ pc[t] = "spawned" /\ pc' = [pc EXCEPT ![t] = "none"]
    /\ UNCHANGED <<taskState, outcome, merged, backup, overlapped>>

LEMMA BeginsOrNot == ASSUME NEW t \in Tasks, Begin(t) PROVE Begins(t) \/ Declines(t)
  BY DEF Begin, Goto, Begins, Declines, dataVars

(* The tasks at work after each of these. *)
LEMMA ActiveAfter ==
  ASSUME TypeOK, NEW t \in Tasks
  PROVE  /\ WorksOn(t) \/ Stops(t) => Active' = Active
         /\ Spawns(t) \/ Declines(t) => Active' = Active
         /\ Begins(t) => Active' = Active \cup {t}
         /\ Exit(t) => Active' = Active \ {t}
  <1> USE DEF TypeOK, Active, Working
  <1>1. ASSUME WorksOn(t) \/ Stops(t) PROVE Active' = Active
    <2>1. t \in Active /\ \E l \in Working : pc' = [pc EXCEPT ![t] = l]
      BY <1>1 DEF WorksOn, Stops
    <2> QED BY <2>1
  <1>2. ASSUME Spawns(t) \/ Declines(t) PROVE Active' = Active
    <2>1. t \notin Active /\ \E l \in {"none", "spawned"} : pc' = [pc EXCEPT ![t] = l]
      BY <1>2 DEF Spawns, Declines
    <2> QED BY <2>1
  <1>3. ASSUME Begins(t) PROVE Active' = Active \cup {t}
    BY <1>3 DEF Begins
  <1>4. ASSUME Exit(t) PROVE Active' = Active \ {t}
    <2>1. pc' = [pc EXCEPT ![t] = "none"]
      BY <1>4 DEF Exit, Goto
    <2> QED BY <2>1
  <1> QED BY <1>1, <1>2, <1>3, <1>4

(* The cases of a step, for the conjuncts below. *)
LEMMA StepCases ==
  ASSUME [Next]_vars
  PROVE  \/ Elsewhere \/ ClearBackup \/ Restart
         \/ \E t \in Tasks : WorksOn(t) \/ Stops(t) \/ Spawns(t) \/ Declines(t) \/ Begins(t) \/ Exit(t)
  <1>1. ASSUME NEW t \in Tasks, Trigger(t) \/ TimerStarts(t) \/ TaskStep(t)
        PROVE WorksOn(t) \/ Stops(t) \/ Spawns(t) \/ Declines(t) \/ Begins(t) \/ Exit(t)
    BY <1>1, Works, StopsWork, Spawned, BeginsOrNot DEF TaskStep
  <1> QED BY <1>1, Others

LEMMA StepRunningIsReal ==
  ASSUME TypeOK, RunningIsReal, [Next]_vars PROVE RunningIsReal'
  <1> USE DEF RunningIsReal
  <1>1. CASE Elsewhere
    BY <1>1 DEF Elsewhere, Active
  <1>2. CASE ClearBackup
    BY <1>2 DEF ClearBackup, statusVars, taskVars, Active
  <1>3. CASE Restart
    BY <1>3 DEF Restart, OnStartup
  <1>4. ASSUME NEW t \in Tasks, WorksOn(t) \/ Spawns(t) \/ Declines(t) PROVE RunningIsReal'
    BY <1>4, ActiveAfter DEF WorksOn, Spawns, Declines
  <1>5. ASSUME NEW t \in Tasks, Stops(t) PROVE RunningIsReal'
    BY <1>5 DEF Stops
  <1>6. ASSUME NEW t \in Tasks, Begins(t) PROVE RunningIsReal'
    BY <1>6, ActiveAfter
  <1>7. ASSUME NEW t \in Tasks, Exit(t) PROVE RunningIsReal'
    BY <1>7 DEF Exit, Cleaned
  <1> QED BY <1>1, <1>2, <1>3, <1>4, <1>5, <1>6, <1>7, StepCases

LEMMA StepAloneInv ==
  ASSUME TypeOK, AloneInv, [Next]_vars PROVE AloneInv'
  <1> USE DEF AloneInv
  <1>1. CASE Elsewhere
    BY <1>1 DEF Elsewhere, Active
  <1>2. CASE ClearBackup
    BY <1>2 DEF ClearBackup, taskVars, Active
  <1>3. CASE Restart
    BY <1>3 DEF Restart, Active, Working
  <1>4. ASSUME NEW t \in Tasks, WorksOn(t) \/ Stops(t) \/ Spawns(t) \/ Declines(t) PROVE AloneInv'
    <2>1. Active' = Active /\ overlapped' = overlapped
      BY <1>4, ActiveAfter DEF WorksOn, Stops, Spawns, Declines
    <2> QED BY <2>1
  <1>5. ASSUME NEW t \in Tasks, Begins(t) PROVE AloneInv'
    <2>1. Active' = Active \cup {t}
      BY <1>5, ActiveAfter
    <2>2. ~overlapped' => Active = {}
      BY <1>5 DEF Begins
    <2> QED BY <2>1, <2>2
  <1>6. ASSUME NEW t \in Tasks, Exit(t) PROVE AloneInv'
    <2>1. Active' \subseteq Active /\ overlapped' = overlapped
      BY <1>6, ActiveAfter DEF Exit
    <2> QED BY <2>1
  <1> QED BY <1>1, <1>2, <1>3, <1>4, <1>5, <1>6, StepCases

(* The status belongs to the one task at work, if there is one. *)
LEMMA StepStateInv ==
  ASSUME TypeOK, AloneInv, StateInv, [Next]_vars PROVE StateInv'
  <1> USE DEF StateInv, States3, States
  <1>1. CASE Elsewhere
    BY <1>1 DEF Elsewhere, Active
  <1>2. CASE ClearBackup
    BY <1>2 DEF ClearBackup, statusVars, taskVars, Active
  <1>3. CASE Restart
    BY <1>3 DEF Restart, Active, Working
  <1>4. ASSUME NEW t \in Tasks, Spawns(t) \/ Declines(t) PROVE StateInv'
    <2>1. Active' = Active /\ t \notin Active
      BY <1>4, ActiveAfter DEF Spawns, Declines, Active, Working
    <2>2. UNCHANGED <<taskState, outcome, overlapped>> /\ \A u \in Tasks \ {t} : pc'[u] = pc[u]
      BY <1>4 DEF Spawns, Declines, TypeOK
    <2>3. \A u \in Active : u # t /\ u \in Tasks
      BY <2>1 DEF Active
    <2> QED BY <2>1, <2>2, <2>3
  <1>5. ASSUME NEW t \in Tasks, WorksOn(t) \/ Stops(t) \/ Begins(t), ~overlapped'
        PROVE  Active' = {t} /\ ~overlapped
    <2>1. CASE WorksOn(t) \/ Stops(t)
      <3>1. Active' = Active /\ overlapped' = overlapped /\ t \in Active
        BY <2>1, ActiveAfter DEF WorksOn, Stops
      <3> QED BY <1>5, <3>1 DEF AloneInv
    <2>2. CASE Begins(t)
      <3>1. Active' = Active \cup {t} /\ (overlapped' <=> overlapped \/ Active # {})
        BY <2>2, ActiveAfter DEF Begins
      <3> QED BY <1>5, <3>1
    <2> QED BY <1>5, <2>1, <2>2
  <1>6. ASSUME NEW t \in Tasks, WorksOn(t) PROVE StateInv'
    <2> SUFFICES ASSUME ~overlapped' PROVE StateInv'
      OBVIOUS
    <2>1. Active' = {t} /\ ~overlapped
      BY <1>5, <1>6
    <2>2. t \in Active /\ pc[t] # "exit" /\ taskState' = taskState /\ outcome' = outcome
      BY <1>6 DEF WorksOn
    <2> QED BY <2>1, <2>2
  <1>7. ASSUME NEW t \in Tasks, Stops(t) PROVE StateInv'
    <2> SUFFICES ASSUME ~overlapped' PROVE StateInv'
      OBVIOUS
    <2>1. Active' = {t}
      BY <1>5, <1>7
    <2>2. pc'[t] = "exit" /\ taskState' = outcome'[t] /\ outcome'[t] \in {"failed", "cancelled"}
      BY <1>7 DEF Stops, TypeOK
    <2> QED BY <2>1, <2>2
  <1>8. ASSUME NEW t \in Tasks, Begins(t) PROVE StateInv'
    <2> SUFFICES ASSUME ~overlapped' PROVE StateInv'
      OBVIOUS
    <2>1. Active' = {t}
      BY <1>5, <1>8
    <2>2. taskState' = "running" /\ outcome'[t] = "idle"
      BY <1>8 DEF Begins, TypeOK
    <2> QED BY <2>1, <2>2
  <1>9. ASSUME NEW t \in Tasks, Exit(t) PROVE StateInv'
    <2>1. Active' = Active \ {t} /\ overlapped' = overlapped /\ t \in Active
      BY <1>9, ActiveAfter DEF Exit, Active, Working
    <2>2. ~overlapped => Active' = {}
      BY <2>1 DEF AloneInv
    <2> QED BY <2>1, <2>2
  <1> QED BY <1>1, <1>2, <1>3, <1>4, <1>6, <1>7, <1>8, <1>9, StepCases

(* A task at work keeps the status away from idle, so that the backup is   *)
(* not cleared between its merge and its flush.                            *)
LEMMA NotCleared ==
  ASSUME StateInv, ~overlapped, ClearBackup, NEW t \in Tasks
  PROVE  pc[t] \notin {"write", "flush"}
  BY DEF StateInv, States3, ClearBackup, Idle, Active, Working

LEMMA StepBackupInv ==
  ASSUME TypeOK, AloneInv, StateInv, BackupInv, [Next]_vars PROVE BackupInv'
  <1> USE DEF BackupInv
  <1> DEFINE Ok(t) == /\ pc[t] = "write" => backup \subseteq merged[t]
                      /\ pc[t] = "flush" => merged[t] \subseteq backup
  <1>1. CASE Elsewhere
    BY <1>1 DEF Elsewhere
  <1>2. CASE ClearBackup
    <2>1. UNCHANGED <<pc, overlapped>>
      BY <1>2 DEF ClearBackup, taskVars
    <2>2. ~overlapped => \A t \in Tasks : pc[t] \notin {"write", "flush"}
      BY <1>2, NotCleared
    <2> QED BY <2>1, <2>2
  <1>3. CASE Restart
    BY <1>3 DEF Restart
  <1>4. ASSUME NEW t \in Tasks, NEW l \in Pcs \ {"write", "flush"}, pc' = [pc EXCEPT ![t] = l],
               UNCHANGED <<backup, overlapped>>, \A u \in Tasks \ {t} : merged'[u] = merged[u]
        PROVE  BackupInv'
    <2>1. ASSUME NEW u \in Tasks, ~overlapped PROVE Ok(u)'
      <3>1. CASE u = t
        BY <1>4, <3>1 DEF TypeOK
      <3>2. CASE u # t
        BY <1>4, <2>1, <3>2 DEF TypeOK
      <3> QED BY <3>1, <3>2
    <2> QED BY <1>4, <2>1
  <1>5. ASSUME NEW t \in Tasks, Spawns(t) \/ Declines(t) PROVE BackupInv'
    BY <1>4, <1>5 DEF Spawns, Declines, Pcs
  <1>6. ASSUME NEW t \in Tasks, Begins(t) PROVE BackupInv'
    <2>1. ~overlapped' => ~overlapped
      BY <1>6 DEF Begins
    <2>2. ASSUME NEW u \in Tasks, ~overlapped PROVE Ok(u)'
      BY <1>6, <2>2 DEF Begins, TypeOK
    <2> QED BY <2>1, <2>2
  <1>7. ASSUME NEW t \in Tasks, Exit(t) PROVE BackupInv'
    BY <1>4, <1>7 DEF Exit, Goto, dataVars, Pcs, TypeOK
  <1>8. ASSUME NEW t \in Tasks, SaveRules(t) \/ QueryAll(t) \/ QueryCancelled(t) \/ FlushRules(t)
        PROVE BackupInv'
    <2>1. UNCHANGED <<backup, overlapped, merged>>
          /\ \E l \in {"merge", "exit", "saveAgain", "query"} : pc' = [pc EXCEPT ![t] = l]
      BY <1>8 DEF SaveRules, QueryAll, QueryCancelled, FlushRules, Stop, Goto, dataVars
    <2> QED BY <1>4, <2>1 DEF Pcs, Working
  <1>9. ASSUME NEW t \in Tasks, Active \subseteq {t}, NEW u \in Tasks \ {t}
        PROVE  pc[u] \notin {"write", "flush"}
    BY <1>9 DEF Active, Working
  <1>10. ASSUME NEW t \in Tasks, t \in Active, ~overlapped, pc' = [pc EXCEPT ![t] = pc'[t]],
                pc'[t] = "write" => (backup \subseteq merged[t])',
                pc'[t] = "flush" => (merged[t] \subseteq backup)'
         PROVE  BackupInv'
    <2>1. Active \subseteq {t}
      BY <1>10 DEF AloneInv
    <2>2. \A u \in Tasks \ {t} : pc'[u] \notin {"write", "flush"}
      BY <1>9, <1>10, <2>1 DEF TypeOK
    <2> QED BY <1>10, <2>2
  <1>11. ASSUME NEW t \in Tasks, Merge(t) PROVE BackupInv'
    <2>1. /\ overlapped' = overlapped /\ backup' = backup /\ t \in Active
          /\ merged'[t] = ToMerge /\ pc'[t] \in {"exit", "write"}
          /\ pc' = [pc EXCEPT ![t] = pc'[t]]
      BY <1>11 DEF Merge, Goto, dataVars, Active, Working, TypeOK
    <2>2. backup \subseteq ToMerge
      BY DEF ToMerge
    <2> QED BY <1>10, <2>1, <2>2
  <1>12. ASSUME NEW t \in Tasks, WriteBackup(t) PROVE BackupInv'
    <2>1. /\ overlapped' = overlapped /\ merged' = merged /\ t \in Active
          /\ backup' = merged[t] /\ pc'[t] = "flush"
          /\ pc' = [pc EXCEPT ![t] = pc'[t]]
      BY <1>12 DEF WriteBackup, Backup, Goto, Active, Working, TypeOK
    <2> QED BY <1>10, <2>1
  <1>13. ASSUME NEW t \in Tasks, Fail(t) PROVE BackupInv'
    <2>1. /\ overlapped' = overlapped /\ t \in Active /\ pc'[t] = "exit"
          /\ pc' = [pc EXCEPT ![t] = pc'[t]]
      BY <1>13 DEF Fail, Stop, Goto, Active, Working, TypeOK
    <2> QED BY <1>10, <2>1
  <1>14. ASSUME NEW t \in Tasks, Begin(t) PROVE BackupInv'
    BY <1>5, <1>6, <1>14, BeginsOrNot
  <1>15. ASSUME NEW t \in Tasks, Trigger(t) \/ TimerStarts(t) PROVE BackupInv'
    BY <1>5, <1>15, Spawned
  <1>16. ASSUME ~(\E t \in Tasks : Trigger(t) \/ TimerStarts(t) \/ TaskStep(t)),
                ~ClearBackup, ~Restart
         PROVE  BackupInv'
    <2>1. Elsewhere
      BY <1>16, Others
    <2> QED BY <1>1, <2>1
  <1> QED BY <1>2, <1>3, <1>7, <1>8, <1>11, <1>12, <1>13, <1>14, <1>15, <1>16 DEF TaskStep

-----------------------------------------------------------------------------
(* The domains that must not get lost, element by element. *)
LEMMA KeptElement ==
  /\ \A d : d \in Kept <=> d \in backup \/ \E t \in Tasks : pc[t] = "write" /\ d \in merged[t]
  /\ \A d : d \in Kept' <=> d \in backup' \/ \E t \in Tasks : pc'[t] = "write" /\ d \in merged'[t]
  BY DEF Kept

(* A task that leaves what it has merged alone, or gets or gives it to the *)
(* backup, loses nothing.                                                  *)
LEMMA StepKeeps ==
  ASSUME TypeOK, BackupInv, [Next]_vars, ~overlapped, ~(Kept \subseteq Kept')
  PROVE  \/ ClearBackup
         \/ \E t \in Tasks : pc[t] = "write" /\ (pc'[t] = "exit" \/ Restart)
         \/ Restart /\ UNCHANGED backup
  <1> SUFFICES ASSUME ~ClearBackup, ~Restart,
                      ~ \E t \in Tasks : pc[t] = "write" /\ pc'[t] = "exit"
               PROVE  Kept \subseteq Kept'
    <2>1. CASE Restart
      <3>1. UNCHANGED backup \/ \E t \in Tasks : pc[t] = "write"
        BY <2>1 DEF Restart
      <3> QED BY <2>1, <3>1
    <2> QED BY <2>1
  <1>1. ASSUME backup \subseteq backup',
               \A t \in Tasks : pc[t] = "write" => pc'[t] = "write" /\ merged'[t] = merged[t]
        PROVE  Kept \subseteq Kept'
    BY <1>1, KeptElement
  <1>2. CASE Elsewhere
    BY <1>1, <1>2 DEF Elsewhere
  <1>3. ASSUME NEW t \in Tasks, NEW l \in Pcs, pc' = [pc EXCEPT ![t] = l], pc[t] # "write",
               backup' = backup, \A u \in Tasks \ {t} : merged'[u] = merged[u]
        PROVE  Kept \subseteq Kept'
    BY <1>1, <1>3 DEF TypeOK
  <1>4. ASSUME NEW t \in Tasks, Trigger(t) \/ TimerStarts(t) PROVE Kept \subseteq Kept'
    BY <1>3, <1>4, Spawned DEF Spawns, Pcs
  <1>5. ASSUME NEW t \in Tasks, Begin(t) PROVE Kept \subseteq Kept'
    BY <1>3, <1>5, BeginsOrNot DEF Begins, Declines, Pcs, Working
  <1>6. ASSUME NEW t \in Tasks, SaveRules(t) \/ QueryAll(t) \/ QueryCancelled(t) \/ FlushRules(t)
        PROVE Kept \subseteq Kept'
    <2>1. UNCHANGED <<backup, merged>> /\ pc[t] # "write"
          /\ \E l \in Pcs : pc' = [pc EXCEPT ![t] = l]
      BY <1>6 DEF SaveRules, QueryAll, QueryCancelled, FlushRules, Stop, Goto, dataVars, Pcs, Working
    <2> QED BY <1>3, <2>1
  <1>7. ASSUME NEW t \in Tasks, Merge(t) PROVE Kept \subseteq Kept'
    <2>1. backup' = backup /\ pc[t] # "write" /\ (\E l \in Pcs : pc' = [pc EXCEPT ![t] = l])
      BY <1>7 DEF Merge, Goto, dataVars, Pcs, Working
    <2>2. \A u \in Tasks \ {t} : merged'[u] = merged[u]
      BY <1>7 DEF Merge, TypeOK
    <2> QED BY <1>3, <2>1, <2>2
  <1>8. ASSUME NEW t \in Tasks, Exit(t) PROVE Kept \subseteq Kept'
    <2>1. backup' = backup /\ pc[t] # "write" /\ (\E l \in Pcs : pc' = [pc EXCEPT ![t] = l])
      BY <1>8 DEF Exit, Goto, dataVars, Pcs
    <2>2. \A u \in Tasks \ {t} : merged'[u] = merged[u]
      BY <1>8 DEF Exit, TypeOK
    <2> QED BY <1>3, <2>1, <2>2
  <1>9. ASSUME NEW t \in Tasks, WriteBackup(t) PROVE Kept \subseteq Kept'
    <2>1. backup' = merged[t] /\ backup \subseteq merged[t] /\ merged' = merged
      BY <1>9 DEF WriteBackup, Backup, BackupInv
    <2>2. \A u \in Tasks \ {t} : pc'[u] = pc[u]
      BY <1>9 DEF WriteBackup, Goto, TypeOK
    <2> QED BY <2>1, <2>2, KeptElement
  <1>10. ASSUME NEW t \in Tasks, Fail(t) PROVE Kept \subseteq Kept'
    <2>1. pc' = [pc EXCEPT ![t] = "exit"] /\ pc'[t] = "exit"
      BY <1>10 DEF Fail, Stop, Goto, TypeOK
    <2>2. pc[t] # "write"
      BY <2>1
    <2>3. backup' = backup
      BY <1>10, <2>2 DEF Fail, dataVars
    <2>4. \A u \in Tasks \ {t} : merged'[u] = merged[u]
      BY <1>10 DEF Fail, TypeOK
    <2> QED BY <1>3, <2>1, <2>2, <2>3, <2>4 DEF Pcs, Working
  <1>11. CASE ~ \E t \in Tasks : Trigger(t) \/ TimerStarts(t) \/ TaskStep(t)
    BY <1>2, <1>11, Others
  <1> QED BY <1>4, <1>5, <1>6, <1>7, <1>8, <1>9, <1>10, <1>11 DEF TaskStep

(* Only Exit lets a task go from "exit" to "none", but for a restart. *)
LEMMA StepReports ==
  ASSUME TypeOK, AloneInv, StateInv, [Next]_vars, ~overlapped, ~Restart,
         NEW t \in Tasks, pc[t] = "exit", pc'[t] = "none"
  PROVE  taskState' = outcome[t]
  <1>1. t \in Active
    BY DEF Active, Working
  <1>2. PICK u \in Tasks : \/ WorksOn(u) \/ Stops(u) \/ Spawns(u) \/ Declines(u) \/ Begins(u) \/ Exit(u)
    BY StepCases DEF Elsewhere, ClearBackup, taskVars
  <1>3. CASE Exit(u)
    <2>1. u \in Active
      BY <1>3 DEF Exit, Active, Working
    <2>2. u = t
      BY <1>1, <2>1 DEF AloneInv
    <2>3. taskState' = Cleaned(taskState)
      BY <1>3 DEF Exit
    <2> QED BY <1>1, <2>3 DEF Cleaned, StateInv, States3
  <1>4. CASE WorksOn(u) \/ Stops(u) \/ Begins(u)
    <2>1. \E l \in Working : pc' = [pc EXCEPT ![u] = l]
      BY <1>4 DEF WorksOn, Stops, Begins, Working
    <2> QED BY <2>1 DEF Working, TypeOK
  <1>5. CASE Spawns(u) \/ Declines(u)
    <2>1. pc[u] # "exit" /\ \E l \in Pcs : pc' = [pc EXCEPT ![u] = l]
      BY <1>5 DEF Spawns, Declines, Pcs
    <2> QED BY <2>1 DEF TypeOK
  <1> QED BY <1>2, <1>3, <1>4, <1>5

-----------------------------------------------------------------------------
(* The strengthened invariant: whose the status is, and what the backup    *)
(* has at each step of a task.                                             *)
THEOREM TasksInvariant == Spec => []TasksInv
  <1>1. TasksInv /\ [Next]_vars => TasksInv'
    BY TasksTypeStep, StepRunningIsReal, StepAloneInv, StepStateInv, StepBackupInv DEF TasksInv
  <1> QED BY TasksFirst, <1>1, PTL DEF Spec

(* Every variable keeps its type and the timers their bound. *)
THEOREM TasksTypeCorrect == Spec => []TypeOK
  <1>1. TasksInv => TypeOK
    BY DEF TasksInv
  <1> QED BY <1>1, TasksInvariant, PTL

(* A status of "running", which refuses triggers and timers, belongs to a  *)
(* task at work, even when tasks overlap, fail or the program restarts.    *)
THEOREM RunningCorrect == Spec => []RunningIsReal
  <1>1. TasksInv => RunningIsReal
    BY DEF TasksInv
  <1> QED BY <1>1, TasksInvariant, PTL

(* The cleanup leaves the status the task has ended with, unless another   *)
(* task has begun meanwhile.                                               *)
THEOREM OutcomeCorrect == Spec => OutcomeReported
  <1>1. TasksInv /\ [Next]_vars =>
          [\A t \in Tasks : pc[t] = "exit" /\ pc'[t] = "none" /\ ~overlapped /\ ~Restart
              => taskState' = outcome[t]]_vars
    BY StepReports DEF TasksInv
  <1> QED BY <1>1, TasksInvariant, PTL DEF Spec, OutcomeReported

(* mergeAndBackupDomains reads, merges and writes in steps: nothing is     *)
(* lost in between as long as tasks do not overlap.                        *)
THEOREM BackupKeeps == Spec => AccumulatorKeeps
  <1>1. TasksInv /\ [Next]_vars =>
          [~overlapped /\ ~(Kept \subseteq Kept')
             => \/ ClearBackup
                \/ \E t \in Tasks : pc[t] = "write" /\ (pc'[t] = "exit" \/ Restart)
                \/ Restart /\ UNCHANGED backup]_vars
    BY StepKeeps DEF TasksInv
  <1> QED BY <1>1, TasksInvariant, PTL DEF Spec, AccumulatorKeeps

(* Rules are flushed only when the backup has the domains merged.          *)
THEOREM FlushCorrect == Spec => FlushAfterBackup
  <1>1. TasksInv /\ [Next]_vars =>
          [\A t \in Tasks : ~overlapped /\ pc[t] = "flush" /\ pc'[t] # "flush" /\ ~Restart
              => merged[t] \subseteq backup]_vars
    BY DEF TasksInv, BackupInv
  <1> QED BY <1>1, TasksInvariant, PTL DEF Spec, FlushAfterBackup
-----------------------------------------------------------------------------
(* The audit log. *)
(* Counts and sums over a sequence of logs, as it grows at its end and      *)
(* loses its first.                                                        *)
LEMMA CountInType ==
  ASSUME NEW S, NEW s \in Seq(S), NEW P
  PROVE  /\ IsFiniteSet({i \in DOMAIN s : s[i] \in P})
         /\ CountIn(s, P) \in Nat /\ CountIn(s, P) <= Len(s)
<1> DEFINE T == {i \in DOMAIN s : s[i] \in P}
<1>1. DOMAIN s = 1 .. Len(s) /\ Len(s) \in Nat OBVIOUS
<1>2. IsFiniteSet(1 .. Len(s)) /\ Cardinality(1 .. Len(s)) = Len(s) BY <1>1, FS_Interval
<1>3. T \subseteq 1 .. Len(s) BY <1>1
<1>4. IsFiniteSet(T) /\ Cardinality(T) <= Len(s) /\ Cardinality(T) \in Nat
  BY <1>2, <1>3, FS_Subset, FS_CardinalityType
<1> QED BY <1>4 DEF CountIn

LEMMA CountAppend ==
  ASSUME NEW S, NEW s \in Seq(S), NEW x \in S, NEW P
  PROVE  CountIn(Append(s, x), P) = CountIn(s, P) + (IF x \in P THEN 1 ELSE 0)
<1> DEFINE t == Append(s, x)
           n == Len(s) + 1
           T == {i \in DOMAIN s : s[i] \in P}
           U == {i \in DOMAIN t : t[i] \in P}
<1>1. /\ n \in Nat /\ n \notin DOMAIN s /\ DOMAIN t = DOMAIN s \cup {n} /\ t[n] = x
      /\ \A i \in DOMAIN s : t[i] = s[i]
  BY Appended
<1>2. IsFiniteSet(T) /\ Cardinality(T) \in Nat BY CountInType, FS_CardinalityType
<1> HIDE DEF n, t
<1>3. n \notin T BY <1>1
<1>4. U = IF x \in P THEN T \cup {n} ELSE T BY <1>1
<1> HIDE DEF T, U
<1>5. Cardinality(T \cup {n}) = Cardinality(T) + 1 BY <1>2, <1>3, FS_AddElement
<1>6. Cardinality(U) = Cardinality(T) + (IF x \in P THEN 1 ELSE 0) BY <1>2, <1>4, <1>5
<1> QED BY <1>6 DEF CountIn, T, U, t

LEMMA CountTail ==
  ASSUME NEW S, NEW s \in Seq(S), s # <<>>, NEW P
  PROVE  CountIn(Tail(s), P) = CountIn(s, P) - (IF s[1] \in P THEN 1 ELSE 0)
<1> DEFINE t == Tail(s)
           L == Len(s)
           T == {i \in DOMAIN s : s[i] \in P}
           U == {i \in DOMAIN t : t[i] \in P}
           f == [i \in U |-> i + 1]
<1>1. /\ L \in Nat /\ L >= 1 /\ DOMAIN s = 1 .. L /\ DOMAIN t = 1 .. L - 1
      /\ \A i \in 1 .. L - 1 : t[i] = s[i + 1]
  OBVIOUS
<1>2. IsFiniteSet(T) /\ Cardinality(T) \in Nat BY CountInType, FS_CardinalityType
<1> HIDE DEF L, t
<1>3. f \in Bijection(U, T \ {1})
  <2>1. f \in [U -> T \ {1}] BY <1>1
  <2>2. \A a, b \in U : f[a] = f[b] => a = b BY <1>1
  <2>3. \A b \in T \ {1} : \E a \in U : f[a] = b
    <3> SUFFICES ASSUME NEW b \in T \ {1} PROVE \E a \in U : f[a] = b OBVIOUS
    <3>1. b - 1 \in 1 .. L - 1 /\ (b - 1) + 1 = b BY <1>1
    <3>2. b - 1 \in U BY <3>1, <1>1
    <3> QED BY <3>1, <3>2
  <2> HIDE DEF f, U, T
  <2> QED BY <2>1, <2>2, <2>3 DEF Bijection, Injection, Surjection, IsInjective
<1> HIDE DEF f, U
<1>4. IsFiniteSet(T \ {1}) BY <1>2, FS_Subset
<1>5. Cardinality(U) = Cardinality(T \ {1})
  <2>1. ExistsBijection(U, T \ {1}) BY <1>3 DEF ExistsBijection
  <2>2. f \in Surjection(U, T \ {1}) /\ f \in Injection(U, T \ {1}) BY <1>3 DEF Bijection
  <2>3. IsFiniteSet(U) /\ Cardinality(U) <= Cardinality(T \ {1}) BY <2>2, <1>4, FS_Injection
  <2>4. Cardinality(T \ {1}) <= Cardinality(U) BY <2>2, <2>3, FS_Surjection
  <2>5. Cardinality(U) \in Nat /\ Cardinality(T \ {1}) \in Nat BY <2>3, <1>4, FS_CardinalityType
  <2> QED BY <2>3, <2>4, <2>5
<1>6. 1 \in T <=> s[1] \in P BY <1>1
<1>7. Cardinality(T \ {1}) = IF 1 \in T THEN Cardinality(T) - 1 ELSE Cardinality(T)
  <2>1. CASE 1 \in T BY <2>1, <1>2, FS_RemoveElement
  <2>2. CASE 1 \notin T
    <3>1. T \ {1} = T BY <2>2
    <3> QED BY <3>1, <2>2
  <2> QED BY <2>1, <2>2
<1> HIDE DEF T
<1>8. Cardinality(U) = Cardinality(T) - (IF s[1] \in P THEN 1 ELSE 0) BY <1>2, <1>5, <1>6, <1>7
<1> QED BY <1>8 DEF CountIn, T, U, t

LEMMA CountExcept ==
  ASSUME NEW S, NEW s \in Seq(S), NEW k \in DOMAIN s, NEW x \in S, NEW P
  PROVE  CountIn([s EXCEPT ![k] = x], P)
           = CountIn(s, P) - (IF s[k] \in P THEN 1 ELSE 0) + (IF x \in P THEN 1 ELSE 0)
<1> DEFINE t == [s EXCEPT ![k] = x]
           T == {i \in DOMAIN s : s[i] \in P}
           U == {i \in DOMAIN t : t[i] \in P}
           R == T \ {k}
<1>1. DOMAIN t = DOMAIN s /\ t[k] = x /\ \A i \in DOMAIN s : i # k => t[i] = s[i] OBVIOUS
<1>2. IsFiniteSet(T) /\ Cardinality(T) \in Nat BY CountInType, FS_CardinalityType
<1>3. IsFiniteSet(R) /\ Cardinality(R) \in Nat BY <1>2, FS_Subset, FS_CardinalityType
<1>4. k \notin R OBVIOUS
<1> HIDE DEF t
<1>5. U = IF x \in P THEN R \cup {k} ELSE R BY <1>1
<1>6. T = IF s[k] \in P THEN R \cup {k} ELSE R OBVIOUS
<1> HIDE DEF T, U, R
<1>7. Cardinality(R \cup {k}) = Cardinality(R) + 1 BY <1>3, <1>4, FS_AddElement
<1>8. Cardinality(U) = Cardinality(R) + (IF x \in P THEN 1 ELSE 0) BY <1>3, <1>5, <1>7
<1>9. Cardinality(T) = Cardinality(R) + (IF s[k] \in P THEN 1 ELSE 0) BY <1>3, <1>6, <1>7
<1>10. Cardinality(U) = Cardinality(T) - (IF s[k] \in P THEN 1 ELSE 0) + (IF x \in P THEN 1 ELSE 0)
  BY <1>3, <1>8, <1>9
<1> QED BY <1>10 DEF CountIn, T, U, t

LEMMA CountAll ==
  ASSUME NEW S, NEW s \in Seq(S), NEW P
  PROVE  CountIn(s, P) = Len(s) <=> \A i \in DOMAIN s : s[i] \in P
<1> DEFINE T == {i \in DOMAIN s : s[i] \in P}
<1>1. DOMAIN s = 1 .. Len(s) /\ Len(s) \in Nat OBVIOUS
<1>2. IsFiniteSet(DOMAIN s) /\ Cardinality(DOMAIN s) = Len(s) BY <1>1, FS_Interval
<1>3. T \subseteq DOMAIN s OBVIOUS
<1>4. Cardinality(T) = Cardinality(DOMAIN s) <=> T = DOMAIN s BY <1>2, <1>3, FS_Subset
<1>5. T = DOMAIN s <=> \A i \in DOMAIN s : s[i] \in P OBVIOUS
<1> QED BY <1>2, <1>4, <1>5 DEF CountIn

LEMMA LogsAre == \A l \in Log : l.ms \in Nat /\ l.name \in LogNames
BY AuditAssumption DEF Log

(* The sum of durations. *)
LEMMA SumIs ==
  ASSUME NEW s \in Seq(Log), NEW g,
         g[0] = 0, \A n \in 1 .. Len(s) : g[n] = g[n - 1] + s[n].ms
  PROVE  TotalMs(s) = g[Len(s)] /\ g[Len(s)] \in Nat
<1> DEFINE L == Len(s)
           Eq(f) == f = [n \in 0 .. L |-> IF n = 0 THEN 0 ELSE f[n - 1] + s[n].ms]
           f == CHOOSE f : Eq(f)
<1>1. L \in Nat OBVIOUS
<1>2. Eq([n \in 0 .. L |-> g[n]])
  <2> DEFINE h == [n \in 0 .. L |-> g[n]]
  <2>1. ASSUME NEW n \in 0 .. L PROVE h[n] = IF n = 0 THEN 0 ELSE h[n - 1] + s[n].ms
    <3>1. CASE n = 0 BY <3>1
    <3>2. CASE n # 0
      <4>1. n \in 1 .. L /\ n - 1 \in 0 .. L BY <3>2, <1>1
      <4>2. h[n] = g[n] /\ h[n - 1] = g[n - 1] BY <4>1
      <4> QED BY <3>2, <4>1, <4>2
    <3> QED BY <3>1, <3>2
  <2>2. h = [n \in 0 .. L |-> h[n]] OBVIOUS
  <2> HIDE DEF h
  <2> QED BY <2>1, <2>2
<1>3. Eq(f) BY <1>2
<1>4. TotalMs(s) = f[L] BY DEF TotalMs
<1> HIDE DEF f
<1>5. f[0] = 0 /\ \A n \in 1 .. L : f[n] = f[n - 1] + s[n].ms
  <2>1. \A n \in 0 .. L : f[n] = IF n = 0 THEN 0 ELSE f[n - 1] + s[n].ms BY <1>3
  <2>2. 0 \in 0 .. L /\ \A n \in 1 .. L : n \in 0 .. L /\ n # 0 BY <1>1
  <2> QED BY <2>1, <2>2
<1> DEFINE S == {n \in Nat : n <= L => f[n] = g[n] /\ g[n] \in Nat}
<1>6. 0 \in S BY <1>5
<1>7. ASSUME NEW n \in Nat, n \in S PROVE n + 1 \in S
  <2> SUFFICES ASSUME n + 1 <= L PROVE f[n + 1] = g[n + 1] /\ g[n + 1] \in Nat OBVIOUS
  <2>1. n + 1 \in 1 .. L /\ (n + 1) - 1 = n /\ n <= L BY <1>1
  <2>2. s[n + 1].ms \in Nat BY <2>1, LogsAre
  <2>3. f[n] = g[n] /\ g[n] \in Nat BY <2>1, <1>7
  <2>4. f[n + 1] = f[n] + s[n + 1].ms /\ g[n + 1] = g[n] + s[n + 1].ms BY <2>1, <1>5
  <2> QED BY <2>2, <2>3, <2>4
<1> HIDE DEF S
<1>8. Nat \subseteq S BY <1>6, <1>7, SetInduction
<1>9. L \in S BY <1>8, <1>1
<1>10. f[L] = g[L] /\ g[L] \in Nat BY <1>9, <1>1 DEF S
<1> QED BY <1>4, <1>10

LEMMA SumExists ==
  ASSUME NEW s \in Seq(Log)
  PROVE  \E g \in [0 .. Len(s) -> Nat] : g[0] = 0 /\ \A n \in 1 .. Len(s) : g[n] = g[n - 1] + s[n].ms
<1> DEFINE L == Len(s)
           F == [n \in 1 .. L |-> [v \in Nat |-> v + s[n].ms]]
<1>1. L \in Nat /\ 0 \in Nat /\ \A n \in 1 .. L : s[n].ms \in Nat BY LogsAre
<1>2. F \in StepsOf(L, Nat) BY <1>1 DEF StepsOf
<1>3. PICK g : IsRun(g, L, Nat, 0, F)
  <2> HIDE DEF L, F
  <2> QED BY <1>1, <1>2, Iterates
<1>4. g \in [0 .. L -> Nat] /\ g[0] = 0 BY <1>3 DEF IsRun
<1>5. ASSUME NEW n \in 1 .. L PROVE g[n] = g[n - 1] + s[n].ms
  <2>1. n - 1 \in 0 .. L BY <1>1
  <2>2. g[n - 1] \in Nat BY <2>1, <1>4
  <2>3. g[n] = F[n][g[n - 1]] BY <1>3 DEF IsRun
  <2> QED BY <2>2, <2>3
<1> QED BY <1>4, <1>5

LEMMA SumAppend ==
  ASSUME NEW s \in Seq(Log), NEW x \in Log
  PROVE  TotalMs(Append(s, x)) = TotalMs(s) + x.ms /\ TotalMs(s) \in Nat
<1> DEFINE L == Len(s)
           t == Append(s, x)
<1>1. PICK g \in [0 .. L -> Nat] : g[0] = 0 /\ \A n \in 1 .. L : g[n] = g[n - 1] + s[n].ms
  BY SumExists
<1>2. TotalMs(s) = g[L] /\ g[L] \in Nat BY <1>1, SumIs
<1>3. L \in Nat /\ t \in Seq(Log) /\ Len(t) = L + 1 /\ t[L + 1] = x /\ \A n \in 1 .. L : t[n] = s[n]
  OBVIOUS
<1> DEFINE h == [n \in 0 .. L + 1 |-> IF n = L + 1 THEN g[L] + x.ms ELSE g[n]]
<1> HIDE DEF L, t
<1>4. h[0] = 0 BY <1>1, <1>3
<1>5. ASSUME NEW n \in 1 .. L + 1 PROVE h[n] = h[n - 1] + t[n].ms
  <2>1. CASE n = L + 1
    <3>1. n - 1 = L /\ L \in 0 .. L + 1 /\ L + 1 \in 0 .. L + 1 /\ L # L + 1
      <4>1. L \in Nat BY <1>3
      <4> QED BY <2>1, <4>1
    <3>2. h[L + 1] = g[L] + x.ms /\ h[L] = g[L] BY <3>1
    <3> QED BY <2>1, <3>1, <3>2, <1>3
  <2>2. CASE n # L + 1
    <3>1. n \in 1 .. L /\ n - 1 \in 0 .. L + 1 /\ n - 1 # L + 1 BY <2>2, <1>3
    <3>2. h[n] = g[n] /\ h[n - 1] = g[n - 1] BY <3>1, <2>2
    <3> QED BY <3>1, <3>2, <1>1, <1>3
  <2> QED BY <2>1, <2>2
<1>6. h[L + 1] = g[L] + x.ms BY <1>3
<1> HIDE DEF h
<1>7. TotalMs(t) = h[L + 1] BY <1>3, <1>4, <1>5, SumIs
<1> QED BY <1>2, <1>6, <1>7 DEF t

LEMMA SumTail ==
  ASSUME NEW s \in Seq(Log), s # <<>>
  PROVE  TotalMs(Tail(s)) = TotalMs(s) - s[1].ms
<1> DEFINE L == Len(s)
           t == Tail(s)
<1>1. PICK g \in [0 .. L -> Nat] : g[0] = 0 /\ \A n \in 1 .. L : g[n] = g[n - 1] + s[n].ms
  BY SumExists
<1>2. TotalMs(s) = g[L] /\ g[L] \in Nat BY <1>1, SumIs
<1>3. /\ L \in Nat /\ L >= 1 /\ t \in Seq(Log) /\ Len(t) = L - 1
      /\ \A n \in 1 .. L - 1 : t[n] = s[n + 1]
  OBVIOUS
<1>4. \A n \in 1 .. L : s[n].ms \in Nat BY LogsAre
<1> DEFINE m == s[1].ms
           h == [n \in 0 .. L - 1 |-> g[n + 1] - m]
<1> HIDE DEF L, t
<1>5. m \in Nat /\ g[1] = m
  <2>1. 1 \in 1 .. L /\ 1 - 1 = 0 BY <1>3
  <2>2. g[1] = g[1 - 1] + s[1].ms BY <2>1, <1>1
  <2> QED BY <2>1, <2>2, <1>1, <1>4
<1>6. h[0] = 0
  <2>1. 0 \in 0 .. L - 1 BY <1>3
  <2> QED BY <2>1, <1>5
<1>7. ASSUME NEW n \in 1 .. L - 1 PROVE h[n] = h[n - 1] + t[n].ms
  <2>1. n \in 0 .. L - 1 /\ n - 1 \in 0 .. L - 1 /\ n + 1 \in 1 .. L /\ (n - 1) + 1 = n /\ (n + 1) - 1 = n
        /\ n \in 0 .. L
    BY <1>3
  <2>2. h[n] = g[n + 1] - m /\ h[n - 1] = g[n] - m BY <2>1
  <2>3. g[n + 1] = g[n] + s[n + 1].ms /\ g[n] \in Nat /\ s[n + 1].ms \in Nat BY <2>1, <1>1, <1>4
  <2>4. t[n] = s[n + 1] BY <1>3
  <2> HIDE DEF h, m
  <2> QED BY <2>2, <2>3, <2>4, <1>5
<1>8. h[L - 1] = g[L] - m
  <2>1. L - 1 \in 0 .. L - 1 /\ (L - 1) + 1 = L BY <1>3
  <2> QED BY <2>1
<1> HIDE DEF h
<1>9. TotalMs(t) = h[L - 1] BY <1>3, <1>6, <1>7, SumIs
<1> QED BY <1>2, <1>8, <1>9 DEF t

(* The pages of a listing put together are the listing, for any limit. *)
LEMMA PagesWhole ==
  ASSUME NEW S, NEW l \in Seq(S), NEW limit \in Nat \ {0}
  PROVE  AllPages(l, limit) = l
<1> DEFINE L == Len(l)
           T == TotalPages(l, limit)
           Upper(n) == IF n * limit < L THEN n * limit ELSE L
           Eq(f) == f = [n \in 0 .. T |-> IF n = 0 THEN <<>> ELSE f[n - 1] \o Page(l, n, limit)]
           f == CHOOSE f : Eq(f)
           g == [n \in 0 .. T |-> SubSeq(l, 1, Upper(n))]
<1>1. L \in Nat OBVIOUS
<1>2. T \in Nat /\ T * limit >= L
  <2>1. T = (L + limit - 1) \div limit BY DEF TotalPages
  <2> HIDE DEF T, L
  <2> QED BY <1>1, <2>1
<1> HIDE DEF T
<1>3. \A n \in Nat : Upper(n) \in 0 .. L
  <2> SUFFICES ASSUME NEW n \in Nat PROVE Upper(n) \in 0 .. L OBVIOUS
  <2>1. n * limit \in Nat OBVIOUS
  <2> HIDE DEF L
  <2> QED BY <2>1, <1>1
<1>4. ASSUME NEW n \in 1 .. T PROVE SubSeq(l, 1, Upper(n)) = SubSeq(l, 1, Upper(n - 1)) \o Page(l, n, limit)
  <2> DEFINE o == (n - 1) * limit
             e == IF o + limit > L THEN L ELSE o + limit
  <2>1. n \in Nat /\ n - 1 \in Nat BY <1>2
  <2>2. o \in Nat /\ n * limit = o + limit BY <2>1
  <2>3. Page(l, n, limit) = IF o >= L THEN <<>> ELSE SubSeq(l, o + 1, e) BY DEF Page
  <2>4. Upper(n - 1) = IF o < L THEN o ELSE L OBVIOUS
  <2>5. Upper(n) = IF o + limit < L THEN o + limit ELSE L BY <2>2
  <2> HIDE DEF o, L, Upper
  <2>6. CASE o >= L
    <3>1. Upper(n - 1) = L /\ Upper(n) = L BY <2>2, <2>4, <2>5, <2>6, <1>1
    <3>2. SubSeq(l, 1, L) \in Seq(S) BY <1>1, SubSeqFull DEF L
    <3>3. SubSeq(l, 1, L) = SubSeq(l, 1, L) \o <<>> BY <3>2
    <3> QED BY <2>3, <2>6, <3>1, <3>3
  <2>7. CASE o < L
    <3>1. Upper(n - 1) = o /\ Upper(n) = e BY <2>2, <2>4, <2>5, <2>7, <1>1
    <3>2. o \in 0 .. L /\ e \in o .. L /\ 1 - 1 = 0 /\ 1 \in 1 .. L + 1 BY <2>2, <2>7, <1>1
    <3> HIDE DEF e
    <3>3. SubSeq(l, 1, o) \o SubSeq(l, o + 1, e) = SubSeq(l, 1, e)
      BY <3>2, ConcatAdjacentSubSeq DEF L
    <3>4. ~(o >= L) BY <2>2, <2>7, <1>1
    <3> QED BY <2>3, <3>1, <3>3, <3>4
  <2>8. o >= L \/ o < L
    <3>1. o \in Nat BY <2>2
    <3> QED BY <3>1, <1>1
  <2> QED BY <2>6, <2>7, <2>8
<1>5. SubSeq(l, 1, Upper(0)) = <<>>
  <2>1. Upper(0) = 0 BY <1>1
  <2> HIDE DEF Upper
  <2> QED BY <2>1, SubSeqEmpty
<1> HIDE DEF Upper
<1>6. ASSUME NEW n \in 0 .. T PROVE g[n] = IF n = 0 THEN <<>> ELSE g[n - 1] \o Page(l, n, limit)
  <2>1. CASE n = 0 BY <2>1, <1>5
  <2>2. CASE n # 0
    <3>1. n \in 1 .. T /\ n - 1 \in 0 .. T BY <2>2, <1>2
    <3>2. g[n] = SubSeq(l, 1, Upper(n)) /\ g[n - 1] = SubSeq(l, 1, Upper(n - 1)) BY <3>1
    <3> QED BY <2>2, <3>1, <3>2, <1>4
  <2> QED BY <2>1, <2>2
<1>7. Eq(f)
  <2>1. g = [n \in 0 .. T |-> g[n]] OBVIOUS
  <2> HIDE DEF g
  <2>2. Eq(g) BY <1>6, <2>1
  <2> QED BY <2>2
<1>8. AllPages(l, limit) = f[T] BY DEF AllPages, T
<1> HIDE DEF f
<1>9. f[0] = <<>> /\ \A n \in 1 .. T : f[n] = f[n - 1] \o Page(l, n, limit)
  <2>1. \A n \in 0 .. T : f[n] = IF n = 0 THEN <<>> ELSE f[n - 1] \o Page(l, n, limit) BY <1>7
  <2>2. 0 \in 0 .. T /\ \A n \in 1 .. T : n \in 0 .. T /\ n # 0 BY <1>2
  <2> QED BY <2>1, <2>2
<1> DEFINE R == {n \in Nat : n <= T => f[n] = SubSeq(l, 1, Upper(n))}
<1>10. 0 \in R BY <1>5, <1>9
<1>11. ASSUME NEW n \in Nat, n \in R PROVE n + 1 \in R
  <2> SUFFICES ASSUME n + 1 <= T PROVE f[n + 1] = SubSeq(l, 1, Upper(n + 1)) OBVIOUS
  <2>1. n + 1 \in 1 .. T /\ (n + 1) - 1 = n /\ n <= T BY <1>2
  <2>2. f[n] = SubSeq(l, 1, Upper(n)) BY <2>1, <1>11
  <2>3. f[n + 1] = f[n] \o Page(l, n + 1, limit) BY <2>1, <1>9
  <2>4. SubSeq(l, 1, Upper(n + 1)) = SubSeq(l, 1, Upper((n + 1) - 1)) \o Page(l, n + 1, limit)
    BY <2>1, <1>4
  <2> QED BY <2>1, <2>2, <2>3, <2>4
<1> HIDE DEF R
<1>12. Nat \subseteq R BY <1>10, <1>11, SetInduction
<1>13. T \in R BY <1>12, <1>2
<1>14. f[T] = SubSeq(l, 1, Upper(T)) BY <1>13, <1>2 DEF R
<1>15. Upper(T) = L
  <2>1. T * limit \in Nat BY <1>2
  <2> HIDE DEF L
  <2> QED BY <2>1, <1>1, <1>2 DEF Upper
<1> QED BY <1>8, <1>14, <1>15, SubSeqFull

(* What is kept of the logs that arrived. *)
LastLogs(a, c) == LastOf(a, Lesser(c, Len(a)))

LEMMA LastIs ==
  ASSUME NEW a \in Seq(Log), NEW c \in Nat
  PROVE  /\ Lesser(c, Len(a)) \in 0 .. Len(a) /\ LastLogs(a, c) \in Seq(Log)
         /\ Len(LastLogs(a, c)) = Lesser(c, Len(a))
         /\ \A i \in 1 .. Lesser(c, Len(a)) : LastLogs(a, c)[i] = a[Len(a) - Lesser(c, Len(a)) + i]
<1> DEFINE k == Lesser(c, Len(a))
           m == Len(a) - k + 1
<1>1. Len(a) \in Nat OBVIOUS
<1>2. k \in 0 .. Len(a) BY <1>1 DEF Lesser
<1> HIDE DEF k
<1>3. m \in Int /\ Len(a) \in Int /\ \A i \in m .. Len(a) : a[i] \in Log BY <1>1, <1>2
<1>4. /\ SubSeq(a, m, Len(a)) \in Seq(Log)
      /\ Len(SubSeq(a, m, Len(a))) = IF m <= Len(a) THEN Len(a) - m + 1 ELSE 0
      /\ \A i \in 1 .. Len(a) - m + 1 : SubSeq(a, m, Len(a))[i] = a[m + i - 1]
  <2> HIDE DEF m
  <2> QED BY <1>3, SubSeqProperties
<1>5. Len(a) - m + 1 = k /\ (m <= Len(a) <=> k > 0) /\ \A i \in 1 .. k : m + i - 1 = Len(a) - k + i
  BY <1>1, <1>2
<1>6. LastLogs(a, c) = SubSeq(a, m, Len(a)) BY DEF LastLogs, LastOf, k
<1> HIDE DEF m
<1>7. Len(SubSeq(a, m, Len(a))) = k BY <1>2, <1>4, <1>5
<1> QED BY <1>2, <1>4, <1>5, <1>6, <1>7 DEF k

LEMMA LastGrows ==
  ASSUME NEW a \in Seq(Log), NEW c \in Nat, Len(a) < c, NEW x \in Log
  PROVE  LastLogs(a, c) = a /\ LastLogs(Append(a, x), c) = Append(a, x)
<1> DEFINE b == Append(a, x)
<1>1. Len(a) \in Nat /\ b \in Seq(Log) /\ Len(b) = Len(a) + 1 OBVIOUS
<1>2. Lesser(c, Len(a)) = Len(a) /\ Lesser(c, Len(b)) = Len(b) BY <1>1 DEF Lesser
<1> HIDE DEF b
<1>3. \A s \in Seq(Log) : SubSeq(s, Len(s) - Len(s) + 1, Len(s)) = s
  <2> SUFFICES ASSUME NEW s \in Seq(Log) PROVE SubSeq(s, Len(s) - Len(s) + 1, Len(s)) = s OBVIOUS
  <2>1. Len(s) \in Nat OBVIOUS
  <2>2. Len(s) - Len(s) + 1 = 1 BY <2>1
  <2> QED BY <2>2, SubSeqFull
<1> QED BY <1>1, <1>2, <1>3 DEF LastLogs, LastOf, b

LEMMA LastMoves ==
  ASSUME NEW a \in Seq(Log), NEW c \in Nat \ {0}, Len(a) >= c, NEW x \in Log
  PROVE  /\ LastLogs(a, c) # <<>>
         /\ LastLogs(Append(a, x), c) = Append(Tail(LastLogs(a, c)), x)
<1> DEFINE b == Append(a, x)
           k == LastLogs(a, c)
           r == LastLogs(b, c)
           q == Append(Tail(k), x)
<1>1. /\ Len(a) \in Nat /\ b \in Seq(Log) /\ Len(b) = Len(a) + 1 /\ b[Len(a) + 1] = x
      /\ \A i \in 1 .. Len(a) : b[i] = a[i]
  OBVIOUS
<1> HIDE DEF b
<1>2. Lesser(c, Len(a)) = c /\ Lesser(c, Len(b)) = c BY <1>1 DEF Lesser
<1>3. k \in Seq(Log) /\ Len(k) = c /\ \A i \in 1 .. c : k[i] = a[Len(a) - c + i] BY <1>2, LastIs
<1>4. r \in Seq(Log) /\ Len(r) = c /\ \A i \in 1 .. c : r[i] = b[Len(b) - c + i]
  <2>1. b \in Seq(Log) /\ c \in Nat BY <1>1
  <2>2. /\ LastLogs(b, c) \in Seq(Log) /\ Len(LastLogs(b, c)) = Lesser(c, Len(b))
        /\ \A i \in 1 .. Lesser(c, Len(b)) : LastLogs(b, c)[i] = b[Len(b) - Lesser(c, Len(b)) + i]
    BY <2>1, LastIs
  <2> QED BY <2>2, <1>2
<1> HIDE DEF k, r
<1>5. k # <<>> BY <1>3
<1>6. Tail(k) \in Seq(Log) /\ Len(Tail(k)) = c - 1 /\ \A i \in 1 .. c - 1 : Tail(k)[i] = k[i + 1]
  BY <1>3, <1>5
<1> DEFINE t == Tail(k)
<1> HIDE DEF t
<1>7. q \in Seq(Log) /\ Len(q) = c /\ q[c] = x /\ \A i \in 1 .. c - 1 : q[i] = k[i + 1]
  <2>1. t \in Seq(Log) /\ Len(t) = c - 1 /\ \A i \in 1 .. c - 1 : t[i] = k[i + 1] BY <1>6 DEF t
  <2>2. q = Append(t, x) BY DEF t
  <2>3. Append(t, x) \in Seq(Log) /\ Len(Append(t, x)) = Len(t) + 1 /\ Append(t, x)[Len(t) + 1] = x
        /\ \A i \in 1 .. Len(t) : Append(t, x)[i] = t[i]
    BY <2>1
  <2>4. Len(t) + 1 = c /\ Len(t) = c - 1 BY <2>1
  <2> QED BY <2>1, <2>2, <2>3, <2>4
<1> HIDE DEF q
<1>8. ASSUME NEW i \in 1 .. c PROVE r[i] = q[i]
  <2>1. r[i] = b[Len(a) + 1 - c + i] BY <1>1, <1>4
  <2>2. CASE i = c
    <3>1. Len(a) + 1 - c + i = Len(a) + 1 BY <2>2, <1>1
    <3> QED BY <2>1, <2>2, <3>1, <1>1, <1>7
  <2>3. CASE i # c
    <3>1. i \in 1 .. c - 1 /\ i + 1 \in 1 .. c BY <2>3
    <3>2. Len(a) + 1 - c + i = Len(a) - c + (i + 1) /\ Len(a) + 1 - c + i \in 1 .. Len(a)
      BY <3>1, <1>1
    <3> QED BY <2>1, <3>1, <3>2, <1>1, <1>3, <1>7
  <2> QED BY <2>2, <2>3
<1>9. r = q
  <2>1. DOMAIN r = 1 .. c /\ DOMAIN q = 1 .. c BY <1>4, <1>7
  <2>2. r = [i \in 1 .. c |-> r[i]] /\ q = [i \in 1 .. c |-> q[i]] BY <2>1, <1>4, <1>7
  <2> QED BY <1>8, <2>2
<1> QED BY <1>5, <1>9 DEF r, q, b, k

(* The slowest: for every duration as many that lasted as long as there     *)
(* were, up to the capacity.                                               *)
LEMMA Shortest ==
  ASSUME NEW s \in Seq(Log), s # <<>>
  PROVE  \E i \in DOMAIN s : \A j \in DOMAIN s : s[i].ms <= s[j].ms
<1> DEFINE L == Len(s)
           R == {n \in Nat : n + 1 <= L =>
                    \E i \in 1 .. n + 1 : \A j \in 1 .. n + 1 : s[i].ms <= s[j].ms}
<1>1. L \in Nat /\ L >= 1 /\ DOMAIN s = 1 .. L /\ \A i \in 1 .. L : s[i].ms \in Nat BY LogsAre
<1> HIDE DEF L
<1>2. 0 \in R
  <2>1. \A j \in 1 .. 0 + 1 : j = 1 OBVIOUS
  <2>2. 1 \in 1 .. 0 + 1 /\ 1 \in 1 .. L BY <1>1
  <2>3. s[1].ms <= s[1].ms BY <2>2, <1>1
  <2> QED BY <2>1, <2>2, <2>3
<1>3. ASSUME NEW n \in Nat, n \in R PROVE n + 1 \in R
  <2> SUFFICES ASSUME (n + 1) + 1 <= L
               PROVE  \E i \in 1 .. (n + 1) + 1 : \A j \in 1 .. (n + 1) + 1 : s[i].ms <= s[j].ms
    OBVIOUS
  <2> DEFINE m == (n + 1) + 1
  <2>1. PICK i \in 1 .. n + 1 : \A j \in 1 .. n + 1 : s[i].ms <= s[j].ms BY <1>1, <1>3
  <2>2. \A j \in 1 .. m : j = m \/ j \in 1 .. n + 1 OBVIOUS
  <2>3. \A j \in 1 .. m : s[j].ms \in Nat BY <1>1
  <2>4. i \in 1 .. m /\ m \in 1 .. m /\ \A j \in 1 .. n + 1 : j \in 1 .. m OBVIOUS
  <2> HIDE DEF m
  <2>5. CASE s[i].ms <= s[m].ms BY <2>1, <2>2, <2>4, <2>5 DEF m
  <2>6. CASE ~(s[i].ms <= s[m].ms)
    <3>1. \A j \in 1 .. m : s[m].ms <= s[j].ms
      <4> SUFFICES ASSUME NEW j \in 1 .. m PROVE s[m].ms <= s[j].ms OBVIOUS
      <4>1. s[m].ms \in Nat /\ s[j].ms \in Nat /\ s[i].ms \in Nat BY <2>3, <2>4
      <4>2. j = m \/ s[i].ms <= s[j].ms BY <2>1, <2>2
      <4> QED BY <4>1, <4>2, <2>6
    <3> QED BY <3>1, <2>4 DEF m
  <2> QED BY <2>5, <2>6
<1> HIDE DEF R
<1>4. Nat \subseteq R BY <1>2, <1>3, SetInduction
<1>5. L - 1 \in R /\ (L - 1) + 1 = L BY <1>1, <1>4
<1>6. \E i \in 1 .. L : \A j \in 1 .. L : s[i].ms <= s[j].ms BY <1>5, <1>1 DEF R
<1> QED BY <1>1, <1>6

SlowInv ==
    /\ slowest \in Seq(Log) /\ Len(slowest) = Lesser(SlowCapacity, Len(arrived))
    /\ \A d \in Durations :
          CountIn(slowest, SlowLogs(d)) = Lesser(SlowCapacity, CountIn(arrived, SlowLogs(d)))

LEMMA AddSlowestKeeps ==
  ASSUME SlowInv, arrived \in Seq(Log), NEW x \in Log
  PROVE  LET s == AddSlowest(slowest, x)
             a == Append(arrived, x)
         IN /\ s \in Seq(Log) /\ Len(s) = Lesser(SlowCapacity, Len(a))
            /\ \A d \in Durations : CountIn(s, SlowLogs(d)) = Lesser(SlowCapacity, CountIn(a, SlowLogs(d)))
<1> DEFINE s == AddSlowest(slowest, x)
           a == Append(arrived, x)
           N(d) == CountIn(slowest, SlowLogs(d))
           M(d) == CountIn(arrived, SlowLogs(d))
<1>1. SlowCapacity \in Nat /\ SlowCapacity >= 1 /\ Durations \subseteq Nat BY AuditAssumption
<1>2. /\ slowest \in Seq(Log) /\ Len(slowest) = Lesser(SlowCapacity, Len(arrived))
      /\ \A d \in Durations : N(d) = Lesser(SlowCapacity, M(d))
  BY DEF SlowInv
<1>3. Len(slowest) \in Nat /\ Len(arrived) \in Nat /\ Len(a) = Len(arrived) + 1 BY <1>2
<1>4. \A d \in Durations : /\ N(d) \in Nat /\ N(d) <= Len(slowest)
                           /\ M(d) \in Nat /\ M(d) <= Len(arrived)
  BY <1>2, CountInType
<1>5. \A d : CountIn(a, SlowLogs(d)) = M(d) + (IF x \in SlowLogs(d) THEN 1 ELSE 0) BY CountAppend
<1> HIDE DEF a, N, M
<1>6. CASE Len(slowest) < SlowCapacity
  <2>1. s = Append(slowest, x) BY <1>6 DEF AddSlowest
  <2>2. s \in Seq(Log) /\ Len(s) = Len(slowest) + 1 BY <2>1, <1>2
  <2>3. Len(slowest) = Len(arrived) /\ Len(arrived) < SlowCapacity BY <1>1, <1>2, <1>3, <1>6 DEF Lesser
  <2>4. Len(s) = Lesser(SlowCapacity, Len(a)) BY <2>2, <2>3, <1>1, <1>3 DEF Lesser
  <2>5. ASSUME NEW d \in Durations
        PROVE  CountIn(s, SlowLogs(d)) = Lesser(SlowCapacity, CountIn(a, SlowLogs(d)))
    <3>1. CountIn(s, SlowLogs(d)) = N(d) + (IF x \in SlowLogs(d) THEN 1 ELSE 0)
      BY <2>1, <1>2, CountAppend DEF N
    <3>2. /\ CountIn(a, SlowLogs(d)) = M(d) + (IF x \in SlowLogs(d) THEN 1 ELSE 0)
          /\ N(d) = Lesser(SlowCapacity, M(d)) /\ N(d) \in Nat /\ M(d) \in Nat
          /\ N(d) <= Len(slowest) /\ M(d) <= Len(arrived)
      BY <1>2, <1>4, <1>5
    <3> QED BY <3>1, <3>2, <2>3, <1>1, <1>3 DEF Lesser
  <2> HIDE DEF s
  <2> QED BY <2>2, <2>4, <2>5 DEF s, a
<1>7. CASE ~(Len(slowest) < SlowCapacity)
  <2>1. Len(slowest) = SlowCapacity /\ Len(arrived) >= SlowCapacity
    BY <1>1, <1>2, <1>3, <1>7 DEF Lesser
  <2>2. slowest # <<>> BY <2>1, <1>1
  <2> DEFINE i == CHOOSE i \in DOMAIN slowest : \A j \in DOMAIN slowest : slowest[i].ms <= slowest[j].ms
  <2>3. i \in DOMAIN slowest /\ \A j \in DOMAIN slowest : slowest[i].ms <= slowest[j].ms
    BY <1>2, <2>2, Shortest
  <2>4. s = IF x.ms > slowest[i].ms THEN [slowest EXCEPT ![i] = x] ELSE slowest
    BY <1>7 DEF AddSlowest
  <2> HIDE DEF i, s
  <2>5. \A j \in DOMAIN slowest : slowest[j] \in Log /\ slowest[j].ms \in Nat BY <1>2, LogsAre
  <2>6. x.ms \in Nat BY LogsAre
  <2>7. s \in Seq(Log) /\ Len(s) = SlowCapacity BY <2>1, <2>3, <2>4, <1>2
  <2>8. Len(s) = Lesser(SlowCapacity, Len(a)) BY <2>1, <2>7, <1>1, <1>3 DEF Lesser
  <2>9. ASSUME NEW d \in Durations
        PROVE  CountIn(s, SlowLogs(d)) = Lesser(SlowCapacity, CountIn(a, SlowLogs(d)))
    <3>1. /\ CountIn(a, SlowLogs(d)) = M(d) + (IF x \in SlowLogs(d) THEN 1 ELSE 0)
          /\ N(d) = Lesser(SlowCapacity, M(d)) /\ N(d) \in Nat /\ M(d) \in Nat
          /\ N(d) <= SlowCapacity
      BY <1>2, <1>4, <1>5, <2>1
    <3>2. \A l \in Log : l \in SlowLogs(d) <=> l.ms >= d BY DEF SlowLogs
    <3>3. d \in Nat BY <1>1
    <3>4. N(d) = SlowCapacity <=> \A j \in DOMAIN slowest : slowest[j].ms >= d
      <4>1. N(d) = SlowCapacity <=> \A j \in DOMAIN slowest : slowest[j] \in SlowLogs(d)
        BY <1>2, <2>1, CountAll DEF N
      <4> QED BY <4>1, <3>2, <2>5
    <3>5. N(d) = SlowCapacity <=> slowest[i].ms >= d BY <3>4, <3>3, <2>3, <2>5
    <3>6. x \in SlowLogs(d) <=> x.ms >= d BY <3>2
    <3>7. slowest[i] \in SlowLogs(d) <=> slowest[i].ms >= d BY <3>2, <2>3, <2>5
    <3>8. slowest[i].ms \in Nat BY <2>3, <2>5
    <3>9. CASE x.ms > slowest[i].ms
      <4>1. CountIn(s, SlowLogs(d))
              = N(d) - (IF slowest[i] \in SlowLogs(d) THEN 1 ELSE 0) + (IF x \in SlowLogs(d) THEN 1 ELSE 0)
        <5> DEFINE P == SlowLogs(d)
        <5>1. slowest \in Seq(Log) /\ i \in DOMAIN slowest /\ x \in Log BY <1>2, <2>3
        <5> HIDE DEF P
        <5>2. CountIn([slowest EXCEPT ![i] = x], P)
                = CountIn(slowest, P) - (IF slowest[i] \in P THEN 1 ELSE 0) + (IF x \in P THEN 1 ELSE 0)
          BY ONLY <5>1, CountExcept
        <5> QED BY <5>2, <2>4, <3>9 DEF N, P
      <4> QED BY <4>1, <3>1, <3>3, <3>5, <3>6, <3>7, <3>8, <3>9, <2>6, <1>1 DEF Lesser
    <3>10. CASE ~(x.ms > slowest[i].ms)
      <4>1. CountIn(s, SlowLogs(d)) = N(d) BY <2>4, <3>10 DEF N
      <4> QED BY <4>1, <3>1, <3>3, <3>5, <3>6, <3>8, <3>10, <2>6, <1>1 DEF Lesser
    <3> QED BY <3>9, <3>10
  <2> QED BY <2>7, <2>8, <2>9 DEF s, a
<1> QED BY <1>6, <1>7

(* The ring and what is counted beside it. *)
Age(j) == IF j > head THEN j - head ELSE capacity - head + j
RingInv ==
    /\ capacity \in Nat /\ head \in Nat /\ logs \in Seq(Log) /\ arrived \in Seq(Log)
    /\ Len(logs) <= capacity
    /\ Len(logs) < capacity => head = 0 /\ logs = arrived
    /\ Len(logs) = capacity =>
          /\ Len(arrived) >= capacity
          /\ IF capacity = 0 THEN head = 0 /\ arrived = <<>> ELSE head < capacity
          /\ \A j \in 1 .. capacity : logs[j] = arrived[Len(arrived) - capacity + Age(j)]
InHandInv == ctxChan \in Seq(Log) /\ taken \in Log \cup {NoLog}
Totalled(kept, named, total, duration) ==
    /\ named \in [LogNames -> Int]
    /\ \A n \in LogNames : named[n] = CountIn(kept, NamedLogs(n))
    /\ total = Len(kept) /\ duration = TotalMs(kept)
StatsInv == Totalled(LastLogs(arrived, capacity), counts, totalQueryCount, totalQueryDuration)
AuditInv == InHandInv /\ RingInv /\ SlowInv /\ StatsInv

LEMMA RingGrows ==
  ASSUME RingInv, NEW x \in Log, Len(logs) < capacity,
         logs' = Append(logs, x), head' = head, capacity' = capacity, arrived' = Append(arrived, x)
  PROVE  RingInv'
<1>1. /\ capacity \in Nat /\ head = 0 /\ logs \in Seq(Log) /\ arrived \in Seq(Log) /\ logs = arrived
  BY DEF RingInv
<1>2. /\ logs' = arrived' /\ logs' \in Seq(Log) /\ Len(logs') = Len(logs) + 1 /\ Len(logs) \in Nat
  BY <1>1
<1>3. capacity' \in Nat /\ head' \in Nat /\ head' = 0 /\ Len(logs') <= capacity' BY <1>1, <1>2
<1>4. ASSUME Len(logs') = capacity'
      PROVE  /\ Len(arrived') >= capacity' /\ capacity' # 0 /\ head' < capacity'
             /\ \A j \in 1 .. capacity' : logs'[j] = arrived'[Len(arrived') - capacity' + Age(j)']
  <2>1. \A j \in 1 .. capacity' : Age(j)' = j BY <1>3 DEF Age
  <2>2. \A j \in 1 .. capacity' : Len(arrived') - capacity' + j = j BY <1>2, <1>3, <1>4
  <2> QED BY <2>1, <2>2, <1>2, <1>3, <1>4
<1> QED BY <1>2, <1>3, <1>4 DEF RingInv

LEMMA Remainder == ASSUME NEW a \in Nat, NEW b \in Nat, a < b PROVE a % b = a /\ b % b = 0
OBVIOUS

LEMMA RingTurns ==
  ASSUME RingInv, NEW x \in Log, ~(Len(logs) < capacity), capacity # 0,
         logs' = [logs EXCEPT ![head + 1] = x], head' = (head + 1) % capacity,
         capacity' = capacity, arrived' = Append(arrived, x)
  PROVE  RingInv' /\ Len(arrived) >= capacity /\ logs[head + 1] = LastLogs(arrived, capacity)[1]
<1>1. /\ capacity \in Nat /\ capacity >= 1 /\ head \in Nat /\ logs \in Seq(Log) /\ arrived \in Seq(Log)
      /\ Len(logs) \in Nat /\ Len(arrived) \in Nat
  BY DEF RingInv
<1>2. Len(logs) = capacity BY <1>1 DEF RingInv
<1>3. /\ Len(arrived) >= capacity /\ head < capacity
      /\ \A j \in 1 .. capacity : logs[j] = arrived[Len(arrived) - capacity + Age(j)]
  BY <1>1, <1>2 DEF RingInv
<1>4. head' = IF head + 1 = capacity THEN 0 ELSE head + 1
  <2>1. CASE head + 1 = capacity
    <3>1. capacity % capacity = 0 BY <1>1, Remainder
    <3> QED BY <2>1, <3>1
  <2>2. CASE head + 1 # capacity
    <3>1. head + 1 < capacity BY <2>2, <1>1, <1>3
    <3>2. (head + 1) % capacity = head + 1 BY <3>1, <1>1, Remainder
    <3> QED BY <2>2, <3>2
  <2> QED BY <2>1, <2>2
<1>5. /\ arrived' \in Seq(Log) /\ Len(arrived') = Len(arrived) + 1 /\ arrived'[Len(arrived) + 1] = x
      /\ \A i \in 1 .. Len(arrived) : arrived'[i] = arrived[i]
  BY <1>1
<1>6. head + 1 \in 1 .. capacity BY <1>1, <1>3
<1>7. /\ logs' \in Seq(Log) /\ Len(logs') = capacity /\ logs'[head + 1] = x
      /\ \A j \in 1 .. capacity : j # head + 1 => logs'[j] = logs[j]
  BY <1>1, <1>2, <1>6
<1>8. ASSUME NEW j \in 1 .. capacity PROVE logs'[j] = arrived'[Len(arrived') - capacity' + Age(j)']
  <2>1. Age(j)' = IF j > head' THEN j - head' ELSE capacity - head' + j BY DEF Age
  <2>2. CASE j = head + 1
    <3>1. Age(j)' = capacity BY <2>1, <2>2, <1>1, <1>3, <1>4
    <3>2. Len(arrived') - capacity' + Age(j)' = Len(arrived) + 1 BY <3>1, <1>1, <1>5
    <3> QED BY <2>2, <3>2, <1>5, <1>7
  <2>3. CASE j # head + 1
    <3>1. Age(j)' = Age(j) - 1 /\ Age(j) \in 2 .. capacity
      <4>1. Age(j) = IF j > head THEN j - head ELSE capacity - head + j BY DEF Age
      <4>2. CASE head + 1 = capacity BY <2>1, <2>3, <4>1, <4>2, <1>1, <1>4
      <4>3. CASE head + 1 # capacity
        <5>1. head' = head + 1 /\ head + 2 <= capacity BY <4>3, <1>1, <1>3, <1>4
        <5>2. CASE j > head
          <6>1. j >= head + 2 BY <5>2, <2>3, <1>1
          <6>2. Age(j) = j - head /\ Age(j)' = j - (head + 1) BY <2>1, <4>1, <5>1, <5>2, <6>1, <1>1
          <6> QED BY <6>1, <6>2, <1>1
        <5>3. CASE ~(j > head)
          <6>1. ~(j > head + 1) BY <5>3, <1>1
          <6>2. Age(j) = capacity - head + j /\ Age(j)' = capacity - (head + 1) + j
            BY <2>1, <4>1, <5>1, <5>3, <6>1
          <6> QED BY <6>2, <5>1, <5>3, <1>1
        <5> QED BY <5>2, <5>3
      <4> QED BY <4>2, <4>3
    <3>2. Len(arrived') - capacity' + Age(j)' = Len(arrived) - capacity + Age(j) BY <3>1, <1>1, <1>5
    <3>3. Len(arrived) - capacity + Age(j) \in 1 .. Len(arrived) BY <3>1, <1>1, <1>3
    <3> QED BY <2>3, <3>2, <3>3, <1>3, <1>5, <1>7
  <2> QED BY <2>2, <2>3
<1>9. RingInv'
  <2>1. head' \in Nat /\ head' < capacity' BY <1>1, <1>3, <1>4
  <2>2. /\ capacity' \in Nat /\ capacity' # 0 /\ Len(logs') = capacity' /\ ~(Len(logs') < capacity')
        /\ Len(logs') <= capacity' /\ Len(arrived') >= capacity'
    BY <1>1, <1>3, <1>5, <1>7
  <2> QED BY <2>1, <2>2, <1>5, <1>7, <1>8 DEF RingInv
<1>10. logs[head + 1] = LastLogs(arrived, capacity)[1]
  <2>1. Age(head + 1) = 1 BY <1>1 DEF Age
  <2>2. logs[head + 1] = arrived[Len(arrived) - capacity + 1] BY <2>1, <1>3, <1>6
  <2>3. Lesser(capacity, Len(arrived)) = capacity BY <1>1, <1>3 DEF Lesser
  <2>4. 1 \in 1 .. capacity BY <1>1
  <2>5. \A i \in 1 .. Lesser(capacity, Len(arrived)) :
           LastLogs(arrived, capacity)[i] = arrived[Len(arrived) - Lesser(capacity, Len(arrived)) + i]
    BY <1>1, LastIs
  <2> QED BY <2>2, <2>3, <2>4, <2>5
<1> QED BY <1>3, <1>9, <1>10

LEMMA StatsGrow ==
  ASSUME RingInv, StatsInv, NEW x \in Log, Len(logs) < capacity,
         capacity' = capacity, arrived' = Append(arrived, x),
         counts' = [counts EXCEPT ![x.name] = @ + 1],
         totalQueryCount' = totalQueryCount + 1, totalQueryDuration' = totalQueryDuration + x.ms
  PROVE  StatsInv'
<1>1. arrived \in Seq(Log) /\ capacity \in Nat /\ Len(arrived) < capacity BY DEF RingInv
<1>2. LastLogs(arrived, capacity) = arrived /\ LastLogs(Append(arrived, x), capacity) = Append(arrived, x)
  BY <1>1, LastGrows
<1>3. LastLogs(arrived, capacity)' = Append(arrived, x) BY <1>2 DEF LastLogs, LastOf, Lesser
<1>4. totalQueryCount' = Len(Append(arrived, x))
  BY <1>1, <1>2 DEF StatsInv, Totalled
<1>5. totalQueryDuration' = TotalMs(Append(arrived, x)) BY <1>1, <1>2, SumAppend DEF StatsInv, Totalled
<1>6. counts' \in [LogNames -> Int] BY LogsAre DEF StatsInv, Totalled
<1>7. ASSUME NEW n \in LogNames PROVE counts'[n] = CountIn(Append(arrived, x), NamedLogs(n))
  <2>1. counts \in [LogNames -> Int] /\ counts[n] = CountIn(arrived, NamedLogs(n))
    BY <1>2 DEF StatsInv, Totalled
  <2>2. CountIn(Append(arrived, x), NamedLogs(n))
          = CountIn(arrived, NamedLogs(n)) + (IF x \in NamedLogs(n) THEN 1 ELSE 0)
    BY <1>1, CountAppend
  <2>3. x \in NamedLogs(n) <=> x.name = n BY DEF NamedLogs
  <2> QED BY <2>1, <2>2, <2>3
<1>8. Totalled(Append(arrived, x), counts', totalQueryCount', totalQueryDuration')
  BY <1>4, <1>5, <1>6, <1>7 DEF Totalled
<1> QED BY <1>3, <1>8 DEF StatsInv

LEMMA StatsMove ==
  ASSUME RingInv, StatsInv, NEW x \in Log, Len(arrived) >= capacity, capacity # 0,
         NEW old, old = LastLogs(arrived, capacity)[1],
         capacity' = capacity, arrived' = Append(arrived, x),
         counts' = [Uncounted(old) EXCEPT ![x.name] = @ + 1],
         totalQueryCount' = totalQueryCount, totalQueryDuration' = totalQueryDuration - old.ms + x.ms
  PROVE  StatsInv'
<1> DEFINE k == LastLogs(arrived, capacity)
           t == Tail(k)
<1>1. arrived \in Seq(Log) /\ capacity \in Nat \ {0} /\ Len(arrived) >= capacity BY DEF RingInv
<1>2. k # <<>> /\ LastLogs(Append(arrived, x), capacity) = Append(t, x) BY <1>1, LastMoves
<1>3. k \in Seq(Log) BY <1>1, LastIs
<1>4. LastLogs(arrived, capacity)' = Append(t, x) BY <1>2 DEF LastLogs, LastOf, Lesser
<1>5. /\ totalQueryCount = Len(k) /\ totalQueryDuration = TotalMs(k) /\ counts \in [LogNames -> Int]
      /\ \A n \in LogNames : counts[n] = CountIn(k, NamedLogs(n))
  BY DEF StatsInv, Totalled
<1> HIDE DEF k
<1>6. old = k[1] /\ old \in Log /\ t \in Seq(Log) /\ Len(t) = Len(k) - 1 /\ Len(k) \in Nat
  BY <1>2, <1>3 DEF k
<1>7. TotalMs(t) = TotalMs(k) - old.ms /\ \A P : CountIn(t, P) = CountIn(k, P) - (IF old \in P THEN 1 ELSE 0)
  BY <1>2, <1>3, <1>6, SumTail, CountTail
<1> HIDE DEF t
<1>8. TotalMs(Append(t, x)) = TotalMs(t) + x.ms /\ TotalMs(t) \in Nat BY <1>6, SumAppend
<1>9. TotalMs(k) \in Nat
  <2>1. PICK g \in [0 .. Len(k) -> Nat] : g[0] = 0 /\ \A n \in 1 .. Len(k) : g[n] = g[n - 1] + k[n].ms
    BY <1>3, SumExists
  <2> QED BY <2>1, <1>3, SumIs
<1>10. old.ms \in Nat /\ x.ms \in Nat /\ old.name \in LogNames /\ x.name \in LogNames BY <1>6, LogsAre
<1>11. totalQueryDuration' = TotalMs(Append(t, x)) BY <1>5, <1>7, <1>8, <1>9, <1>10
<1>12. totalQueryCount' = Len(Append(t, x)) BY <1>5, <1>6
<1>13. Uncounted(old) \in [LogNames -> Int] BY <1>5, <1>10 DEF Uncounted
<1>14. counts' \in [LogNames -> Int] BY <1>13, <1>10
<1>15. ASSUME NEW n \in LogNames PROVE counts'[n] = CountIn(Append(t, x), NamedLogs(n))
  <2>1. CountIn(Append(t, x), NamedLogs(n))
          = CountIn(t, NamedLogs(n)) + (IF x \in NamedLogs(n) THEN 1 ELSE 0)
    BY <1>6, CountAppend
  <2>2. CountIn(t, NamedLogs(n)) = CountIn(k, NamedLogs(n)) - (IF old \in NamedLogs(n) THEN 1 ELSE 0)
    BY <1>7
  <2>3. (x \in NamedLogs(n) <=> x.name = n) /\ (old \in NamedLogs(n) <=> old.name = n)
    BY <1>6 DEF NamedLogs
  <2>4. counts[n] = CountIn(k, NamedLogs(n)) /\ counts[n] \in Int BY <1>5
  <2>5. Uncounted(old)[n] = counts[n] - (IF old.name = n THEN 1 ELSE 0)
    BY <1>5, <1>10, <2>4 DEF Uncounted
  <2>6. counts'[n] = Uncounted(old)[n] + (IF x.name = n THEN 1 ELSE 0)
    <3> DEFINE u == Uncounted(old)
    <3>1. u \in [LogNames -> Int] /\ counts' = [u EXCEPT ![x.name] = @ + 1] BY <1>13
    <3> HIDE DEF u
    <3>2. counts'[n] = u[n] + (IF x.name = n THEN 1 ELSE 0) BY <3>1, <1>10
    <3> QED BY <3>2 DEF u
  <2> QED BY <2>1, <2>2, <2>3, <2>4, <2>5, <2>6
<1>16. Totalled(Append(t, x), counts', totalQueryCount', totalQueryDuration')
  BY <1>11, <1>12, <1>14, <1>15 DEF Totalled
<1> QED BY <1>4, <1>16 DEF StatsInv

LEMMA NothingCounted == ASSUME NEW P PROVE CountIn(<<>>, P) = 0
<1>1. {i \in DOMAIN <<>> : <<>>[i] \in P} = {}
  <2>1. DOMAIN <<>> = {} OBVIOUS
  <2> QED BY <2>1
<1> QED BY <1>1, FS_EmptySet DEF CountIn

LEMMA NothingTotalled == Totalled(<<>>, [n \in LogNames |-> 0], 0, 0)
<1>1. \A n : CountIn(<<>>, NamedLogs(n)) = 0 BY NothingCounted
<1>2. TotalMs(<<>>) = 0
  <2>1. <<>> \in Seq(Log) /\ Len(<<>>) = 0 OBVIOUS
  <2>2. PICK g \in [0 .. Len(<<>>) -> Nat] : g[0] = 0 /\ \A n \in 1 .. Len(<<>>) : g[n] = g[n - 1] + <<>>[n].ms
    BY <2>1, SumExists
  <2> QED BY <2>1, <2>2, SumIs
<1> QED BY <1>1, <1>2 DEF Totalled

LEMMA NothingKept == ASSUME NEW c \in Nat PROVE LastLogs(<<>>, c) = <<>>
<1>1. <<>> \in Seq(Log) /\ Len(<<>>) = 0 OBVIOUS
<1>2. LastLogs(<<>>, c) \in Seq(Log) /\ Len(LastLogs(<<>>, c)) = Lesser(c, Len(<<>>)) BY <1>1, LastIs
<1>3. Lesser(c, Len(<<>>)) = 0 BY <1>1 DEF Lesser
<1>4. PICK q : q = LastLogs(<<>>, c) OBVIOUS
<1>5. q = <<>> BY <1>2, <1>3, <1>4
<1> QED BY <1>4, <1>5

LEMMA EmptyInv ==
  ASSUME capacity \in Nat, logs = <<>>, head = 0, slowest = <<>>, arrived = <<>>,
         counts = [n \in LogNames |-> 0], totalQueryCount = 0, totalQueryDuration = 0
  PROVE  RingInv /\ SlowInv /\ StatsInv
<1>1. <<>> \in Seq(Log) /\ Len(<<>>) = 0 OBVIOUS
<1>2. RingInv BY <1>1 DEF RingInv
<1>3. SlowInv
  <2>1. SlowCapacity \in Nat BY AuditAssumption
  <2>2. Lesser(SlowCapacity, 0) = 0 BY <2>1 DEF Lesser
  <2>3. \A d : CountIn(<<>>, SlowLogs(d)) = 0 BY NothingCounted
  <2> QED BY <1>1, <2>2, <2>3 DEF SlowInv
<1>4. StatsInv BY NothingTotalled, NothingKept DEF StatsInv
<1> QED BY <1>2, <1>3, <1>4

LEMMA AuditFirst == ASSUME AuditInit PROVE AuditInv
<1>1. capacity \in Nat BY AuditAssumption DEF AuditInit
<1>2. RingInv /\ SlowInv /\ StatsInv BY <1>1, EmptyInv DEF AuditInit
<1>3. InHandInv BY DEF InHandInv, AuditInit
<1> QED BY <1>2, <1>3 DEF AuditInv

LEMMA ClearedStep == ASSUME Cleared, capacity' \in Nat PROVE RingInv' /\ SlowInv' /\ StatsInv'
<1>1. <<>> \in Seq(Log) /\ Len(<<>>) = 0 OBVIOUS
<1>2. RingInv' BY <1>1 DEF RingInv, Cleared
<1>3. SlowInv'
  <2>1. SlowCapacity \in Nat BY AuditAssumption
  <2>2. Lesser(SlowCapacity, 0) = 0 BY <2>1 DEF Lesser
  <2>3. \A d : CountIn(<<>>, SlowLogs(d)) = 0 BY NothingCounted
  <2> QED BY <1>1, <2>2, <2>3 DEF SlowInv, Cleared
<1>4. StatsInv' 
  <2>1. LastLogs(arrived, capacity)' = LastLogs(<<>>, capacity') BY DEF Cleared
  <2> QED BY <2>1, NothingTotalled, NothingKept DEF StatsInv, Cleared
<1> QED BY <1>2, <1>3, <1>4

LEMMA ProcessStep == ASSUME AuditInv, ProcessContext PROVE AuditInv'
<1>1. PICK x : x = taken OBVIOUS
<1>2. /\ InHandInv /\ RingInv /\ SlowInv /\ StatsInv /\ x \in Log
      /\ taken' = NoLog /\ capacity' = capacity /\ ctxChan' = ctxChan
  BY <1>1 DEF AuditInv, InHandInv, ProcessContext, chan
<1>3. InHandInv' BY <1>2 DEF InHandInv
<1>4. CASE UNCHANGED <<ring, stats, arrived>>
  BY <1>2, <1>3, <1>4 DEF AuditInv, RingInv, SlowInv, StatsInv, ring, stats, Age
<1>5. CASE ~UNCHANGED <<ring, stats, arrived>>
  <2>1. /\ ~(capacity = 0 /\ logs = <<>>)
        /\ IF Len(logs) < capacity THEN Put(x) ELSE PutOver(x)
        /\ slowest' = AddSlowest(slowest, x) /\ arrived' = Append(arrived, x)
    BY <1>1, <1>5 DEF ProcessContext
  <2>2. arrived \in Seq(Log) /\ capacity \in Nat /\ logs \in Seq(Log) /\ Len(logs) <= capacity
    BY <1>2 DEF RingInv
  <2>3. SlowInv'
    <3>1. /\ slowest' \in Seq(Log) /\ Len(slowest') = Lesser(SlowCapacity, Len(arrived'))
          /\ \A d \in Durations : CountIn(slowest', SlowLogs(d)) = Lesser(SlowCapacity, CountIn(arrived', SlowLogs(d)))
      BY <1>2, <2>1, <2>2, AddSlowestKeeps
    <3> QED BY <3>1 DEF SlowInv
  <2>4. CASE Len(logs) < capacity
    <3>1. RingInv' BY <1>2, <2>1, <2>4, RingGrows DEF Put
    <3>2. StatsInv' BY <1>2, <2>1, <2>4, StatsGrow DEF Put
    <3> QED BY <1>3, <2>3, <3>1, <3>2 DEF AuditInv
  <2>5. CASE ~(Len(logs) < capacity)
    <3>1. capacity # 0 BY <2>1, <2>2
    <3>2. RingInv' /\ Len(arrived) >= capacity /\ logs[head + 1] = LastLogs(arrived, capacity)[1]
      BY <1>2, <2>1, <2>5, <3>1, RingTurns DEF PutOver
    <3>3. PICK old : old = logs[head + 1] OBVIOUS
    <3>4. /\ counts' = [Uncounted(old) EXCEPT ![x.name] = @ + 1] /\ totalQueryCount' = totalQueryCount
          /\ totalQueryDuration' = totalQueryDuration - old.ms + x.ms
      BY <2>1, <2>5, <3>3 DEF PutOver
    <3>5. StatsInv' BY <1>2, <2>1, <3>1, <3>2, <3>3, <3>4, StatsMove
    <3> QED BY <1>3, <2>3, <3>2, <3>5 DEF AuditInv
  <2> QED BY <2>4, <2>5
<1> QED BY <1>4, <1>5

LEMMA AuditInvStep == ASSUME AuditInv, [AuditNext]_auditVars PROVE AuditInv'
<1> USE DEF AuditInv
<1>0. Capacities \subseteq Nat BY AuditAssumption
<1>1. ASSUME UNCHANGED <<ring, stats, arrived, capacity>> PROVE RingInv' /\ SlowInv' /\ StatsInv'
  BY <1>1 DEF RingInv, SlowInv, StatsInv, ring, stats, Age
<1>2. CASE Collect
  <2>1. InHandInv' BY <1>2 DEF Collect, Enqueued, InHandInv
  <2> QED BY <1>1, <1>2, <2>1 DEF Collect
<1>3. CASE WorkerTakes
  <2>1. InHandInv' BY <1>3 DEF WorkerTakes, InHandInv
  <2> QED BY <1>1, <1>3, <2>1 DEF WorkerTakes
<1>4. CASE WorkerEnds
  <2>1. InHandInv' BY <1>4 DEF WorkerEnds, InHandInv, chan
  <2> QED BY <1>1, <1>4, <2>1 DEF WorkerEnds
<1>5. CASE ProcessContext BY <1>5, ProcessStep
<1>6. CASE StartStop
  <2>1. InHandInv' BY <1>6 DEF StartStop, InHandInv, chan
  <2> QED BY <1>1, <1>6, <2>1 DEF StartStop
<1>7. CASE ClearLogs
  <2>1. InHandInv' BY <1>7 DEF ClearLogs, InHandInv, chan
  <2>2. capacity' \in Nat BY <1>7 DEF ClearLogs, RingInv
  <2> QED BY <1>7, <2>1, <2>2, ClearedStep DEF ClearLogs
<1>8. CASE SetCapacity
  <2>1. InHandInv' BY <1>8 DEF SetCapacity, InHandInv, chan
  <2>2. capacity' \in Nat BY <1>0, <1>8 DEF SetCapacity
  <2> QED BY <1>8, <2>1, <2>2, ClearedStep DEF SetCapacity
<1>9. CASE UNCHANGED auditVars
  <2>1. InHandInv' BY <1>9 DEF auditVars, InHandInv, chan
  <2> QED BY <1>1, <1>9, <2>1 DEF auditVars
<1> QED BY <1>2, <1>3, <1>4, <1>5, <1>6, <1>7, <1>8, <1>9 DEF AuditNext, WorkerStep, AuditApi

LEMMA Joined ==
  ASSUME NEW S, NEW a \in Seq(S), NEW b \in Seq(S)
  PROVE  /\ a \o b \in Seq(S) /\ Len(a \o b) = Len(a) + Len(b)
         /\ \A i \in 1 .. Len(a) + Len(b) :
               (a \o b)[i] = IF i <= Len(a) THEN a[i] ELSE b[i - Len(a)]
BY ConcatProperties

(* What GetLogs reads off the ring: the last logs, in their order. *)
LEMMA RingRead == ASSUME RingInv PROVE GetLogs = LastLogs(arrived, capacity)
<1>1. /\ capacity \in Nat /\ head \in Nat /\ logs \in Seq(Log) /\ arrived \in Seq(Log)
      /\ Len(logs) \in Nat /\ Len(arrived) \in Nat /\ Len(logs) <= capacity
  BY DEF RingInv
<1>2. CASE Len(logs) < capacity
  <2>1. logs = arrived /\ GetLogs = logs BY <1>2 DEF RingInv, GetLogs
  <2>2. Lesser(capacity, Len(arrived)) = Len(arrived) BY <1>1, <1>2, <2>1 DEF Lesser
  <2>3. /\ LastLogs(arrived, capacity) \in Seq(Log)
        /\ Len(LastLogs(arrived, capacity)) = Len(arrived)
        /\ \A i \in 1 .. Len(arrived) :
              LastLogs(arrived, capacity)[i] = arrived[Len(arrived) - Len(arrived) + i]
    <3>1. PICK m : m = Lesser(capacity, Len(arrived)) OBVIOUS
    <3>2. /\ LastLogs(arrived, capacity) \in Seq(Log)
          /\ Len(LastLogs(arrived, capacity)) = m
          /\ \A i \in 1 .. m : LastLogs(arrived, capacity)[i] = arrived[Len(arrived) - m + i]
      BY <1>1, <3>1, LastIs
    <3> QED BY <2>2, <3>1, <3>2
  <2>4. \A i \in 1 .. Len(arrived) : LastLogs(arrived, capacity)[i] = arrived[i] BY <1>1, <2>3
  <2>5. LastLogs(arrived, capacity) = arrived BY <1>1, <2>3, <2>4
  <2> QED BY <2>1, <2>5
<1>3. CASE ~(Len(logs) < capacity)
  <2>1. Len(logs) = capacity /\ Len(arrived) >= capacity /\ head <= capacity
        /\ \A j \in 1 .. capacity : logs[j] = arrived[Len(arrived) - capacity + Age(j)]
    BY <1>1, <1>3 DEF RingInv
  <2> DEFINE older == SubSeq(logs, head + 1, Len(logs))
             newer == SubSeq(logs, 1, head)
             k == LastLogs(arrived, capacity)
  <2>2. GetLogs = older \o newer BY <1>3 DEF GetLogs
  <2>3. /\ older \in Seq(Log) /\ Len(older) = capacity - head
        /\ \A i \in 1 .. capacity - head : older[i] = logs[head + i]
    BY <1>1, <2>1
  <2>4. newer \in Seq(Log) /\ Len(newer) = head /\ \A i \in 1 .. head : newer[i] = logs[i]
    BY <1>1, <2>1
  <2>5. Lesser(capacity, Len(arrived)) = capacity BY <1>1, <2>1 DEF Lesser
  <2>6. /\ k \in Seq(Log) /\ Len(k) = capacity
        /\ \A i \in 1 .. capacity : k[i] = arrived[Len(arrived) - capacity + i]
    <3>1. PICK m : m = Lesser(capacity, Len(arrived)) OBVIOUS
    <3>2. k \in Seq(Log) /\ Len(k) = m /\ \A i \in 1 .. m : k[i] = arrived[Len(arrived) - m + i]
      BY <1>1, <3>1, LastIs
    <3> QED BY <2>5, <3>1, <3>2
  <2> HIDE DEF older, newer, k
  <2>7. /\ older \o newer \in Seq(Log) /\ Len(older \o newer) = capacity
        /\ \A i \in 1 .. capacity :
              (older \o newer)[i] = IF i <= capacity - head THEN older[i] ELSE newer[i - (capacity - head)]
    <3>1. Len(older) \in Nat /\ Len(newer) \in Nat /\ capacity - head + head = capacity
      BY <1>1, <2>1, <2>3, <2>4
    <3>2. /\ older \o newer \in Seq(Log) /\ Len(older \o newer) = Len(older) + Len(newer)
          /\ \A i \in 1 .. Len(older) + Len(newer) :
                (older \o newer)[i] = IF i <= Len(older) THEN older[i] ELSE newer[i - Len(older)]
      BY <2>3, <2>4, Joined
    <3> QED BY <2>3, <2>4, <3>1, <3>2
  <2>8. ASSUME NEW i \in 1 .. capacity PROVE (older \o newer)[i] = k[i]
    <3>1. CASE i <= capacity - head
      <4>1. i \in 1 .. capacity - head /\ head + i \in 1 .. capacity /\ head + i > head BY <3>1, <1>1
      <4>2. Age(head + i) = i BY <4>1, <1>1 DEF Age
      <4>3. (older \o newer)[i] = logs[head + i] BY <2>3, <2>7, <3>1, <4>1
      <4> QED BY <2>1, <2>6, <4>1, <4>2, <4>3
    <3>2. CASE ~(i <= capacity - head)
      <4>1. PICK j : j = i - (capacity - head) OBVIOUS
      <4>2. j \in 1 .. head /\ j \in 1 .. capacity /\ ~(j > head) BY <3>2, <4>1, <1>1, <2>1
      <4>3. Age(j) = i BY <4>1, <4>2, <1>1 DEF Age
      <4>4. (older \o newer)[i] = logs[j] BY <2>4, <2>7, <3>2, <4>1, <4>2
      <4> QED BY <2>1, <2>6, <4>2, <4>3, <4>4
    <3> QED BY <3>1, <3>2
  <2>9. older \o newer = k BY <2>6, <2>7, <2>8
  <2> QED BY <2>2, <2>9 DEF k
<1> QED BY <1>2, <1>3

(* Audit: what the API shows is what happened.                              *)
LEMMA AuditInvExact == ASSUME AuditInv PROVE AuditExact
<1>1. RingInv /\ SlowInv /\ StatsInv BY DEF AuditInv
<1>2. arrived \in Seq(Log) /\ capacity \in Nat BY <1>1 DEF RingInv
<1>3. KeptLogs = LastLogs(arrived, capacity) BY DEF KeptLogs, LastLogs
<1>4. GetLogs = KeptLogs BY <1>1, <1>3, RingRead
<1>5. KeptLogs \in Seq(Log) BY <1>2, <1>3, LastIs
<1>6. /\ totalQueryCount = Len(KeptLogs) /\ totalQueryDuration = TotalMs(KeptLogs)
      /\ \A n \in LogNames : counts[n] = CountIn(KeptLogs, NamedLogs(n))
  BY <1>1, <1>3 DEF StatsInv, Totalled
<1>7. \A limit \in 1 .. 2 : AllPages(GetLogs, limit) = KeptLogs
  <2> SUFFICES ASSUME NEW limit \in 1 .. 2 PROVE AllPages(KeptLogs, limit) = KeptLogs BY <1>4
  <2>1. limit \in Nat \ {0} OBVIOUS
  <2> QED BY <1>5, <2>1, PagesWhole
<1>8. \A d \in Durations :
        CountIn(slowest, SlowLogs(d)) = Lesser(SlowCapacity, CountIn(arrived, SlowLogs(d)))
  BY <1>1 DEF SlowInv
<1> QED BY <1>4, <1>6, <1>7, <1>8 DEF AuditExact

THEOREM AuditExactCorrect == AuditSpec => []AuditExact
<1>1. AuditInit => AuditInv BY AuditFirst
<1>2. AuditInv /\ [AuditNext]_auditVars => AuditInv' BY AuditInvStep
<1>3. AuditInv => AuditExact BY AuditInvExact
<1> QED BY <1>1, <1>2, <1>3, PTL DEF AuditSpec

(* With the program's life around it: what the handlers send until the     *)
(* channel is closed, and the worker's end, leave the log as exact.         *)
LEMMA LifeKeepsAudit == ASSUME AuditInv, [LifeNext]_lifeVars PROVE AuditInv'
<1>1. CASE UNCHANGED auditVars
  <2>1. [AuditNext]_auditVars BY <1>1
  <2> QED BY <2>1, AuditInvStep
<1>2. CASE StopWorker
  <2>1. UNCHANGED <<capacity, ring, stats, ctxChan, taken, arrived>> BY <1>2 DEF StopWorker
  <2> QED BY <2>1 DEF AuditInv, InHandInv, RingInv, SlowInv, StatsInv, ring, stats, Age
<1>3. ASSUME NEW q \in Handlers, CollectSends(q) PROVE AuditInv'
  <2>1. CASE UNCHANGED auditVars BY <1>1, <2>1
  <2>2. CASE ~UNCHANGED auditVars
    <3>1. /\ \E log \in Log : ctxChan' = Enqueued(log)
          /\ UNCHANGED <<capacity, ring, stats, taken, arrived>>
      BY <1>3, <2>2 DEF CollectSends
    <3>2. InHandInv' BY <3>1 DEF Enqueued, InHandInv, AuditInv
    <3>3. (RingInv /\ SlowInv /\ StatsInv)'
      BY <3>1 DEF AuditInv, RingInv, SlowInv, StatsInv, ring, stats, Age
    <3> QED BY <3>2, <3>3 DEF AuditInv
  <2> QED BY <2>1, <2>2
<1>4. CASE AuditStep
  <2>1. [AuditNext]_auditVars BY <1>4 DEF AuditStep, AuditNext
  <2> QED BY <2>1, AuditInvStep
<1>5. ASSUME AttachCloser \/ LoadPlugin \/ LoadFails \/ Loaded \/ CloseSignal \/ ApiServerEnds \/ WaitClosed
             \/ WorkerStopped \/ ClosePlugin
      PROVE  UNCHANGED auditVars
  BY <1>5 DEF AttachCloser, LoadPlugin, LoadFails, Loaded, CloseSignal, ApiServerEnds, WaitClosed, WorkerStopped, ClosePlugin
<1>6. ASSUME NEW q \in Handlers, Accept(q) \/ ExecReturns(q) \/ IsCapturing(q) PROVE UNCHANGED auditVars
  BY <1>6 DEF Accept, ExecReturns, IsCapturing
<1>7. CASE UNCHANGED lifeVars BY <1>1, <1>7 DEF lifeVars
<1> QED BY <1>1, <1>2, <1>3, <1>4, <1>5, <1>6, <1>7 DEF LifeNext

(* The same of the whole life of the program, shutdown included.           *)
THEOREM AuditExactAlways == LifeSpec => []AuditExact
<1>1. LifeInit => AuditInv BY AuditFirst DEF LifeInit
<1>2. AuditInv /\ [LifeNext]_lifeVars => AuditInv' BY LifeKeepsAudit
<1>3. AuditInv => AuditExact BY AuditInvExact
<1> QED BY <1>1, <1>2, <1>3, PTL DEF LifeSpec
=============================================================================

------------------------------- MODULE Audit -------------------------------
(* The audit log: AuditCollector's ring of logs with the counters and the   *)
(* heap of slow queries kept beside it, the channel that handlers put       *)
(* contexts on, the worker that takes them off, and the API.                *)
EXTENDS Naturals, Sequences, FiniteSets, SequencesExt

CONSTANTS LogNames,     \* what a log is counted under: query name, client, domain set
          Durations,    \* values of DurationMs
          Capacities,   \* capacities the API sets
          ChanCapacity, \* auditChannelCapacity
          SlowCapacity, \* slowestQueriesCapacity
          MaxLogs,      \* bound on the contexts collected since the last clear
          MaxApiCalls   \* bound on calls of the API

ASSUME AuditAssumption ==
    /\ Durations \subseteq Nat /\ Capacities \subseteq Nat /\ 0 \in Capacities
    /\ {ChanCapacity, MaxLogs, MaxApiCalls} \subseteq Nat /\ SlowCapacity \in Nat \ {0}

Log == [name : LogNames, ms : Durations]
NoLog == [name |-> "", ms |-> 0]

VARIABLES
    capturing, capacity,
    logs, head,          \* the ring
    slowest,             \* slowestQueries; the heap's order is left out
    counts,              \* domainCounts; clientCounts and domainSetCounts are kept alike
    totalQueryCount, totalQueryDuration,
    ctxChan, chanClosed, \* contexts, each with the log it is made into
    taken,               \* the context the worker has in hand
    workerDone,
    apiCalls,
    arrived              \* history: logs processed since the last clear

ring == <<logs, head>>
stats == <<slowest, counts, totalQueryCount, totalQueryDuration>>
chan == <<ctxChan, chanClosed>>
auditVars == <<capturing, capacity, ring, stats, chan, taken, workerDone, apiCalls, arrived>>

AuditInit ==
    /\ capturing = TRUE
    /\ capacity \in Capacities \ {0}
    /\ logs = <<>> /\ head = 0 /\ slowest = <<>>
    /\ counts = [n \in LogNames |-> 0]
    /\ totalQueryCount = 0 /\ totalQueryDuration = 0
    /\ ctxChan = <<>> /\ chanClosed = FALSE
    /\ taken = NoLog /\ workerDone = FALSE
    /\ apiCalls = 0 /\ arrived = <<>>
-----------------------------------------------------------------------------
(* Collect's send: a full channel drops the context, a closed one panics.   *)
Enqueued(log) == IF Len(ctxChan) < ChanCapacity THEN Append(ctxChan, log) ELSE ctxChan

(* A handler's call while nothing is shut down. *)
Collect ==
    /\ capturing /\ ~chanClosed
    /\ Len(arrived) + Len(ctxChan) < MaxLogs
    /\ \E log \in Log : ctxChan' = Enqueued(log)
    /\ UNCHANGED <<capturing, capacity, ring, stats, chanClosed, taken, workerDone, apiCalls, arrived>>

(* worker: range over the channel; it ends when the channel is closed and   *)
(* empty.                                                                   *)
WorkerTakes ==
    /\ taken = NoLog /\ ctxChan # <<>>
    /\ taken' = Head(ctxChan) /\ ctxChan' = Tail(ctxChan)
    /\ UNCHANGED <<capturing, capacity, ring, stats, chanClosed, workerDone, apiCalls, arrived>>

Drained == ctxChan = <<>> /\ chanClosed

WorkerEnds ==
    /\ taken = NoLog /\ Drained /\ ~workerDone
    /\ workerDone' = TRUE
    /\ UNCHANGED <<capturing, capacity, ring, stats, chan, taken, apiCalls, arrived>>

(* processContext, under the lock: what is pushed out of the ring leaves    *)
(* the counters with it, but stays among the slowest.                       *)
AddSlowest(s, log) ==
    IF Len(s) < SlowCapacity THEN Append(s, log)
    ELSE LET i == CHOOSE i \in DOMAIN s : \A j \in DOMAIN s : s[i].ms <= s[j].ms
         IN IF log.ms > s[i].ms THEN [s EXCEPT ![i] = log] ELSE s

Put(log) ==
    /\ logs' = Append(logs, log) /\ UNCHANGED head
    /\ counts' = [counts EXCEPT ![log.name] = @ + 1]
    /\ totalQueryCount' = totalQueryCount + 1
    /\ totalQueryDuration' = totalQueryDuration + log.ms

Uncounted_Kept(old) == counts
Uncounted(old) == [counts EXCEPT ![old.name] = @ - 1]

PutOver(log) ==
    LET old == logs[head + 1] IN
    /\ logs' = [logs EXCEPT ![head + 1] = log]
    /\ head' = (head + 1) % capacity
    /\ counts' = [Uncounted(old) EXCEPT ![log.name] = @ + 1]
    /\ totalQueryDuration' = totalQueryDuration - old.ms + log.ms
    /\ UNCHANGED totalQueryCount

ProcessContext ==
    /\ taken # NoLog
    /\ taken' = NoLog
    /\ IF ~capturing \/ (capacity = 0 /\ logs = <<>>)
       THEN UNCHANGED <<ring, stats, arrived>>
       ELSE /\ IF Len(logs) < capacity THEN Put(taken) ELSE PutOver(taken)
            /\ slowest' = AddSlowest(slowest, taken)
            /\ arrived' = Append(arrived, taken)
    /\ UNCHANGED <<capturing, capacity, chan, workerDone, apiCalls>>
-----------------------------------------------------------------------------
(* The API. *)
ApiCall == apiCalls < MaxApiCalls /\ apiCalls' = apiCalls + 1

StartStop ==
    /\ ApiCall
    /\ capturing' \in BOOLEAN
    /\ UNCHANGED <<capacity, ring, stats, chan, taken, workerDone, arrived>>

Cleared ==
    /\ logs' = <<>> /\ head' = 0 /\ slowest' = <<>>
    /\ counts' = [n \in LogNames |-> 0]
    /\ totalQueryCount' = 0 /\ totalQueryDuration' = 0
    /\ arrived' = <<>>

ClearLogs ==
    /\ ApiCall /\ Cleared
    /\ UNCHANGED <<capturing, capacity, chan, taken, workerDone>>

SetCapacity ==
    /\ ApiCall /\ Cleared
    /\ capacity' \in Capacities
    /\ UNCHANGED <<capturing, chan, taken, workerDone>>

(* GetLogs: oldest first; getLogsSnapshot is the reverse. *)
GetLogs ==
    IF Len(logs) < capacity THEN logs
    ELSE SubSeq(logs, head + 1, Len(logs)) \o SubSeq(logs, 1, head)

(* GetV2Logs' page of a list: page and limit from 1. *)
Page(list, page, limit) ==
    LET offset == (page - 1) * limit
        end == IF offset + limit > Len(list) THEN Len(list) ELSE offset + limit
    IN IF offset >= Len(list) THEN <<>> ELSE SubSeq(list, offset + 1, end)
TotalPages(list, limit) == (Len(list) + limit - 1) \div limit

WorkerStep == WorkerTakes \/ ProcessContext \/ WorkerEnds
AuditApi == StartStop \/ ClearLogs \/ SetCapacity
AuditNext == Collect \/ WorkerStep \/ AuditApi
AuditSpec == AuditInit /\ [][AuditNext]_auditVars
-----------------------------------------------------------------------------
(* What the API shows is what happened: the logs kept are the last ones     *)
(* that were processed, in their order; the counters count them, no more    *)
(* and no less, however often the ring has gone round, been cleared or      *)
(* resized; the slowest are those with the longest durations of all; and    *)
(* the pages of a listing put together are the listing.                     *)
LastOf(seq, k) == SubSeq(seq, Len(seq) - k + 1, Len(seq))
Lesser(a, b) == IF a < b THEN a ELSE b
CountIn(seq, some) == Cardinality({i \in DOMAIN seq : seq[i] \in some})
NamedLogs(n) == {log \in Log : log.name = n}
SlowLogs(d) == {log \in Log : log.ms >= d}
TotalMs(seq) ==
    LET sum[n \in 0 .. Len(seq)] == IF n = 0 THEN 0 ELSE sum[n - 1] + seq[n].ms
    IN sum[Len(seq)]
AllPages(list, limit) ==
    LET upTo[n \in 0 .. TotalPages(list, limit)] ==
            IF n = 0 THEN <<>> ELSE upTo[n - 1] \o Page(list, n, limit)
    IN upTo[TotalPages(list, limit)]

KeptLogs == LastOf(arrived, Lesser(capacity, Len(arrived)))

AuditExact ==
    /\ GetLogs = KeptLogs
    /\ totalQueryCount = Len(KeptLogs) /\ totalQueryDuration = TotalMs(KeptLogs)
    /\ \A n \in LogNames : counts[n] = CountIn(KeptLogs, NamedLogs(n))
    /\ \A d \in Durations :
          CountIn(slowest, SlowLogs(d)) = Lesser(SlowCapacity, CountIn(arrived, SlowLogs(d)))
    /\ \A limit \in 1 .. 2 : AllPages(GetLogs, limit) = KeptLogs
=============================================================================

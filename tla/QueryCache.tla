----------------------------- MODULE QueryCache -----------------------------
(***************************************************************************)
(* plugin/executable/cache (Exec, the lazy update and the reply's life in  *)
(* the cache) on pkg/cache and pkg/concurrent_map: queries run             *)
(* concurrently, the map locks one shard for one operation, and what was   *)
(* read is used after the lock is released.                                *)
(*                                                                         *)
(* A question is its type and class: name, bits and ECS go into the key    *)
(* unchanged.  The rest of the chain (next.ExecNext) is a reply picked from *)
(* Replies or none.  Time is a clock that ticks Second times a second.     *)
(*                                                                         *)
(* A variant named X_Y is X with a bug, for the mutation tests.            *)
(***************************************************************************)
EXTENDS Integers, FiniteSets

CONSTANTS
    Queries,    \* the calls of Exec
    Qtypes,     \* the question types clients ask, 16-bit numbers
    Qclasses,   \* and their classes; 1: IN
    None,       \* no entry, no reply
    Kinds,      \* what kinds of reply the chain gives, a subset of ReplyKinds
    Ttls,       \* the TTLs their records have
    LazyTtls,   \* the values of lazy_cache_ttl; 0: no lazy cache
    Size, Shards,                       \* cache size, MapShardSize
    NxTtl, FailTtl, EmptyTtl, MinTtl,   \* 30, 5, 300 and 5 s in saveRespToCache
    StaleTtl,   \* expiredMsgTtl
    Second,     \* ticks in a second
    MaxTime     \* bound on the clock

ReplyKinds == {"answer", "empty", "nxdomain", "servfail", "other", "truncated", "excluded"}

ASSUME QtypeAssumption ==   \* two bytes each
    /\ Qtypes \subseteq 0 .. 256 * 256 - 1 /\ Qtypes # {}
    /\ Qclasses \subseteq 0 .. 256 * 256 - 1 /\ Qclasses # {}
ASSUME KindAssumption == Kinds \subseteq ReplyKinds
ASSUME TtlAssumption ==
    /\ (Ttls \cup LazyTtls) \subseteq Nat
    /\ {NxTtl, FailTtl, EmptyTtl, MinTtl, StaleTtl, Second} \subseteq Nat \ {0}
ASSUME SizeAssumption == Size \in Nat \ {0} /\ Shards \in Nat \ {0}

Questions == [type : Qtypes, class : Qclasses]
Replies == [for : Questions, kind : Kinds, ttl : Ttls]

(* getMsgKey: buf[1] = byte(qtype << 8), buf[2] = byte(qtype), no class. *)
Key_NoType(qn) == <<0, 0>>
Key(qn) == <<((qn.type * 256) % 65536) % 256, qn.type % 256>>
Keys == {Key(qn) : qn \in Questions}

VARIABLES
    now,
    store,     \* backend: key -> entry
    lazyTtl,   \* args.LazyCacheTTL
    pc, asks,  \* calls of Exec, and what each asks
    elem,      \* the entry a call has read
    reply,     \* qCtx.R() of a call
    served,    \* what a call has served from the cache
    flight,    \* lazyUpdateSF: the keys that are being updated
    job, jobReply  \* the lazy update a call has started

callVars == <<pc, elem, reply, served>>
jobVars == <<flight, job, jobReply>>
fixed == <<asks, lazyTtl>>
vars == <<now, store, fixed, callVars, jobVars>>

KeyOf(q) == Key(asks[q])
Goto(q, label) == pc' = [pc EXCEPT ![q] = label]
Least(a, b) == IF a < b THEN a ELSE b

-----------------------------------------------------------------------------
(* The map of pkg/concurrent_map *)

Shard(k) == k[2] % Shards
ShardMax == Size \div Shards
HeldIn(s, k) == {j \in Keys : Shard(j) = Shard(k) /\ s[j] # None}
Held(k) == HeldIn(store, k)

Full_OffByOne(k) == ShardMax > 0 /\ Cardinality(Held(k)) > ShardMax
Full(k) == ShardMax > 0 /\ Cardinality(Held(k)) + 1 > ShardMax

(* set makes room by deleting any entry of the shard. *)
Set(k, e) ==
    \/ ~Full(k) /\ store' = [store EXCEPT ![k] = e]
    \/ Full(k) /\ \E v \in Held(k) : store' = [store EXCEPT ![v] = None, ![k] = e]

-----------------------------------------------------------------------------
(* saveRespToCache *)

Saved(r) == r # None /\ r.kind \notin {"truncated", "excluded"}

AtLeastMin(ttl) == IF ttl <= 0 THEN MinTtl ELSE ttl
MsgTtl(r) ==
    AtLeastMin(CASE r.kind = "nxdomain" -> NxTtl
                 [] r.kind = "servfail" -> FailTtl
                 [] r.kind = "empty" -> Least(r.ttl, EmptyTtl)
                 [] r.kind = "answer" -> r.ttl
                 [] OTHER -> 0)
CacheTtl(r, lazy) == IF lazy > 0 /\ r.kind \in {"empty", "answer"} THEN lazy ELSE MsgTtl(r)

Entry(r, lazy) == [reply |-> r, stored |-> now,
                   msgExp |-> now + MsgTtl(r) * Second,
                   cacheExp |-> now + CacheTtl(r, lazy) * Second]

Save(k, r) == IF Saved(r) THEN Set(k, Entry(r, lazyTtl)) ELSE UNCHANGED store

(* loadDump: what was saved just before the program started, by one that   *)
(* was set up with or without a lazy cache.                                *)
Loaded(k) == {Entry(r, lazy) : r \in {x \in Replies : Key(x.for) = k /\ Saved(x)},
                               lazy \in LazyTtls}
Dumps == [Keys -> UNION {Loaded(k) : k \in Keys} \cup {None}]
WithinLimit(s, k) ==
    /\ s[k] \in Loaded(k) \cup {None}
    /\ ShardMax > 0 => Cardinality(HeldIn(s, k)) <= ShardMax

Init ==
    /\ now = 0
    /\ lazyTtl \in LazyTtls
    /\ store \in {s \in Dumps : \A k \in Keys : WithinLimit(s, k)}
    /\ pc = [q \in Queries |-> "start"]
    /\ asks \in [Queries -> Questions]
    /\ elem = [q \in Queries |-> None]
    /\ reply = [q \in Queries |-> None]
    /\ served = [q \in Queries |-> None]
    /\ flight = {}
    /\ job = [q \in Queries |-> "none"]
    /\ jobReply = [q \in Queries |-> None]

-----------------------------------------------------------------------------
(* Exec *)

(* backend.Get reads the entry and then looks at its time ... *)
Lookup(q) ==
    /\ pc[q] = "start"
    /\ LET e == store[KeyOf(q)] IN
          IF e = None THEN Goto(q, "next") /\ UNCHANGED elem
          ELSE IF e.cacheExp < now THEN Goto(q, "del") /\ UNCHANGED elem
          ELSE Goto(q, "hit") /\ elem' = [elem EXCEPT ![q] = e]
    /\ UNCHANGED <<now, store, fixed, reply, served, jobVars>>

(* ... and deletes what is under the key by now when it was expired. *)
Del(q) ==
    /\ pc[q] = "del"
    /\ store' = [store EXCEPT ![KeyOf(q)] = None]
    /\ Goto(q, "next")
    /\ UNCHANGED <<now, fixed, elem, reply, served, jobVars>>

(* The age is in whole seconds: uint32(now.Sub(storedTime).Seconds()). *)
Age(e) == (now - e.stored) \div Second
SubtractTTL_Never(ttl, age) == ttl
SubtractTTL(ttl, age) == IF ttl > age THEN ttl - age ELSE 1

Serve(q, ttl, stale) ==
    served' = [served EXCEPT ![q] = [entry |-> elem[q], ttl |-> ttl, at |-> now, stale |-> stale]]

(* getRespFromCache: a fresh hit, a lazy hit, or a miss. *)
HitFresh(q) ==
    /\ pc[q] = "hit" /\ now < elem[q].msgExp
    /\ Serve(q, SubtractTTL(elem[q].reply.ttl, Age(elem[q])), FALSE)
    /\ Goto(q, "done")
    /\ UNCHANGED <<now, store, fixed, elem, reply, jobVars>>

HitStale(q) ==
    /\ pc[q] = "hit" /\ now >= elem[q].msgExp
    /\ IF lazyTtl > 0 THEN Serve(q, StaleTtl, TRUE) /\ Goto(q, "lazy")
       ELSE Goto(q, "next") /\ UNCHANGED served
    /\ UNCHANGED <<now, store, fixed, elem, reply, jobVars>>

(* doLazyUpdate: one update per key at a time. *)
InFlight_Any(k) == flight # {}
InFlight(k) == k \in flight
DoLazyUpdate(q) ==
    /\ pc[q] = "lazy"
    /\ IF InFlight(KeyOf(q)) THEN UNCHANGED <<flight, job>>
       ELSE flight' = flight \cup {KeyOf(q)} /\ job' = [job EXCEPT ![q] = "fetch"]
    /\ Goto(q, "done")
    /\ UNCHANGED <<now, store, fixed, elem, reply, served, jobReply>>

Answers(qn) == {r \in Replies : r.for = qn} \cup {None}

ExecNext(q) ==
    /\ pc[q] = "next"
    /\ \E r \in Answers(asks[q]) : reply' = [reply EXCEPT ![q] = r]
    /\ Goto(q, "save")
    /\ UNCHANGED <<now, store, fixed, elem, served, jobVars>>

SaveReply(q) ==
    /\ pc[q] = "save"
    /\ Save(KeyOf(q), reply[q])
    /\ Goto(q, "done")
    /\ UNCHANGED <<now, fixed, elem, reply, served, jobVars>>

(* The update's goroutine; its deferred Forget comes last. *)
Fetched_ForgetFirst(q) == flight \ {KeyOf(q)}
Fetched(q) == flight

JobFetch(q) ==
    /\ job[q] = "fetch"
    /\ \E r \in Answers(asks[q]) : jobReply' = [jobReply EXCEPT ![q] = r]
    /\ job' = [job EXCEPT ![q] = "save"]
    /\ flight' = Fetched(q)
    /\ UNCHANGED <<now, store, fixed, callVars>>

JobSave(q) ==
    /\ job[q] = "save"
    /\ Save(KeyOf(q), jobReply[q])
    /\ job' = [job EXCEPT ![q] = "forget"]
    /\ UNCHANGED <<now, fixed, callVars, flight, jobReply>>

JobForget(q) ==
    /\ job[q] = "forget"
    /\ flight' = flight \ {KeyOf(q)}
    /\ job' = [job EXCEPT ![q] = "end"]
    /\ UNCHANGED <<now, store, fixed, callVars, jobReply>>

-----------------------------------------------------------------------------
(* The cleaner deletes what is expired, the API's /flush everything. *)
Gc ==
    /\ \E k \in Keys : store[k] # None /\ store[k].cacheExp < now
    /\ store' = [k \in Keys |-> IF store[k] # None /\ store[k].cacheExp < now
                                THEN None ELSE store[k]]
    /\ UNCHANGED <<now, fixed, callVars, jobVars>>

Flush ==
    /\ \E k \in Keys : store[k] # None
    /\ store' = [k \in Keys |-> None]
    /\ UNCHANGED <<now, fixed, callVars, jobVars>>

Tick == now < MaxTime /\ now' = now + 1 /\ UNCHANGED <<store, fixed, callVars, jobVars>>

-----------------------------------------------------------------------------
CallStep(q) ==
    \/ Lookup(q) \/ Del(q) \/ HitFresh(q) \/ HitStale(q) \/ DoLazyUpdate(q)
    \/ ExecNext(q) \/ SaveReply(q)
JobStep(q) == JobFetch(q) \/ JobSave(q) \/ JobForget(q)

Next == (\E q \in Queries : CallStep(q) \/ JobStep(q)) \/ Gc \/ Flush \/ Tick

Spec == Init /\ [][Next]_vars

(* Goroutines are scheduled; defaultLazyUpdateTimeout ends a fetch. *)
FairSpec == Spec /\ \A q \in Queries : WF_vars(CallStep(q)) /\ WF_vars(JobStep(q))

-----------------------------------------------------------------------------
Entries == [reply : Replies, stored : Nat, msgExp : Nat, cacheExp : Nat]

TypeOK ==
    /\ now \in Nat
    /\ lazyTtl \in LazyTtls
    /\ store \in [Keys -> Entries \cup {None}]
    /\ pc \in [Queries -> {"start", "del", "hit", "lazy", "next", "save", "done"}]
    /\ asks \in [Queries -> Questions]
    /\ elem \in [Queries -> Entries \cup {None}]
    /\ reply \in [Queries -> Replies \cup {None}]
    /\ served \in [Queries -> [entry : Entries, ttl : Nat, at : Nat, stale : BOOLEAN] \cup {None}]
    /\ flight \subseteq Keys
    /\ job \in [Queries -> {"none", "fetch", "save", "forget", "end"}]
    /\ jobReply \in [Queries -> Replies \cup {None}]

(* A reply served from the cache answers the question that was asked        *)
(* (utils.go:68 "bits + qtype + qname length + qname"; cache.go:491 reads   *)
(* the type back from two bytes).  It holds where no two questions in use   *)
(* share a key: types that differ in their low byte, one class.             *)
OwnQuestion == \A q \in Queries : served[q] # None => served[q].entry.reply.for = asks[q]

(* A TTL a client is given ends less than a second after the upstream's     *)
(* did, since the age is cut to whole seconds, but for the floor of one     *)
(* second, and a stale reply's is expiredMsgTtl: a reply kept longer than   *)
(* its records live (NXDOMAIN, SERVFAIL, TTL 0) included.                   *)
HonestTtl ==
    \A q \in Queries : served[q] # None =>
        LET s == served[q] IN
        IF s.stale THEN s.ttl = StaleTtl /\ lazyTtl > 0
        ELSE \/ s.ttl = 1
             \/ s.at + s.ttl * Second < s.entry.stored + (s.entry.reply.ttl + 1) * Second

(* The upstream is asked at most once at a time to refresh a key, however   *)
(* many queries hit the stale entry.                                        *)
OneLazyUpdate ==
    \A q, p \in Queries :
        {job[q], job[p]} \subseteq {"fetch", "save"} /\ KeyOf(q) = KeyOf(p) => q = p

(* map.go 49-51: NewMapCache "returns a cache with a maximum size". *)
SizeLimit == Cardinality({k \in Keys : store[k] # None}) <= Size

(* A stale entry that was served is refreshed: an update of its key that    *)
(* was running or is started runs to its end.                               *)
StaleIsRefreshed ==
    \A q \in Queries :
        (pc[q] = "lazy") ~> (\E p \in Queries : job[p] = "end" /\ KeyOf(p) = KeyOf(q))
=============================================================================

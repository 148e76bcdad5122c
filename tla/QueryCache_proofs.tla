-------------------------- MODULE QueryCache_proofs --------------------------
(***************************************************************************)
(* Theorems about QueryCache for any calls, types, TTLs and sizes: the     *)
(* types, one refresh per key at a time, honest TTLs, and that an answer   *)
(* is to the question when the types in use do not collide in the key.     *)
(***************************************************************************)
EXTENDS QueryCache, FunctionTheorems, FiniteSetTheorems, TLAPS

(* A call that has hit holds an entry; TypeOK alone allows it None. *)
HitInv == \A q \in Queries : pc[q] \in {"hit", "lazy"} => elem[q] \in Entries

(* The keys in flight are those of the running updates, one each. *)
Active(q) == job[q] \in {"fetch", "save", "forget"}
FlightInv ==
    /\ \A q \in Queries : Active(q) => KeyOf(q) \in flight
    /\ \A q, p \in Queries : Active(q) /\ Active(p) /\ KeyOf(q) = KeyOf(p) => q = p

(* What lies under a key, or was read from under it, has that key. *)
KeyInv ==
    /\ \A k \in Keys : store[k] # None => Key(store[k].reply.for) = k
    /\ \A q \in Queries :
          /\ elem[q] # None => Key(elem[q].reply.for) = KeyOf(q)
          /\ reply[q] # None => reply[q].for = asks[q]
          /\ jobReply[q] # None => jobReply[q].for = asks[q]
          /\ pc[q] \in {"hit", "lazy"} => Key(elem[q].reply.for) = KeyOf(q)
          /\ served[q] # None => Key(served[q].entry.reply.for) = KeyOf(q)

-----------------------------------------------------------------------------
(* The values that go into an entry. *)

LEMMA KeyOfType == ASSUME TypeOK, NEW q \in Queries PROVE KeyOf(q) \in Keys
  BY DEF TypeOK, KeyOf, Keys

(* MsgTtl is at least one second: nothing is stored already expired. *)
LEMMA MsgTtlType == ASSUME NEW r \in Replies PROVE MsgTtl(r) \in Nat \ {0}
  <1>1. r.ttl \in Nat
    BY TtlAssumption DEF Replies
  <1>2. /\ NxTtl \in Nat \ {0} /\ FailTtl \in Nat \ {0}
        /\ EmptyTtl \in Nat \ {0} /\ MinTtl \in Nat \ {0}
    BY TtlAssumption
  <1>3. Least(r.ttl, EmptyTtl) \in Nat
    BY <1>1, <1>2 DEF Least
  <1>4. \A t \in Nat : AtLeastMin(t) \in Nat \ {0}
    BY <1>2 DEF AtLeastMin
  <1>5. CASE r.kind = "nxdomain"
    BY <1>2, <1>4, <1>5 DEF MsgTtl
  <1>6. CASE r.kind = "servfail"
    BY <1>2, <1>4, <1>6 DEF MsgTtl
  <1>7. CASE r.kind = "empty"
    BY <1>3, <1>4, <1>7 DEF MsgTtl
  <1>8. CASE r.kind = "answer"
    BY <1>1, <1>4, <1>8 DEF MsgTtl
  <1>9. CASE r.kind \notin {"nxdomain", "servfail", "empty", "answer"}
    BY <1>4, <1>9 DEF MsgTtl
  <1> QED BY <1>5, <1>6, <1>7, <1>8, <1>9

LEMMA EntryType ==
  ASSUME now \in Nat, NEW r \in Replies, NEW lazy \in Nat
  PROVE  Entry(r, lazy) \in Entries
  <1>1. MsgTtl(r) \in Nat
    BY MsgTtlType
  <1>2. CacheTtl(r, lazy) \in Nat
    BY <1>1 DEF CacheTtl
  <1>3. MsgTtl(r) * Second \in Nat /\ CacheTtl(r, lazy) * Second \in Nat
    BY <1>1, <1>2, TtlAssumption
  <1> QED BY <1>3 DEF Entry, Entries

(* Save, which may evict any entry of the shard, puts nothing into the     *)
(* cache but the reply under its key.                                      *)
LEMMA SaveOnlyThat ==
  ASSUME TypeOK, NEW k \in Keys, NEW r \in Replies \cup {None}, Save(k, r)
  PROVE  /\ store' \in [Keys -> Entries \cup {None}]
         /\ \A j \in Keys : \/ store'[j] = store[j] \/ store'[j] = None
                            \/ j = k /\ r # None /\ store'[j].reply = r
  <1>1. CASE ~Saved(r)
    BY <1>1 DEF Save, TypeOK
  <1>2. CASE Saved(r)
    <2>1. r \in Replies /\ r # None
      BY <1>2 DEF Saved
    <2> DEFINE e == Entry(r, lazyTtl)
    <2>2. lazyTtl \in Nat /\ now \in Nat
      BY TtlAssumption DEF TypeOK
    <2>3. e \in Entries
      BY <2>1, <2>2, EntryType
    <2>4. e.reply = r
      BY DEF Entry
    <2>5. Set(k, e)
      BY <1>2 DEF Save
    <2>6. store \in [Keys -> Entries \cup {None}]
      BY TtlAssumption DEF TypeOK
    <2>7. PICK v \in Keys : \/ store' = [store EXCEPT ![k] = e]
                            \/ store' = [store EXCEPT ![v] = None, ![k] = e]
      BY <2>5 DEF Set, Held, HeldIn
    <2> HIDE DEF e
    <2>8. store' \in [Keys -> Entries \cup {None}]
      BY <2>3, <2>6, <2>7
    <2>9. ASSUME NEW j \in Keys
          PROVE  \/ store'[j] = store[j] \/ store'[j] = None
                 \/ j = k /\ store'[j] = e
      BY <2>6, <2>7
    <2> QED BY <2>1, <2>4, <2>8, <2>9
  <1> QED BY <1>1, <1>2

-----------------------------------------------------------------------------
IInv == TypeOK /\ HitInv /\ FlightInv /\ KeyInv /\ HonestTtl

LEMMA InitOK == Init => IInv
  <1> SUFFICES ASSUME Init PROVE IInv
    OBVIOUS
  <1> USE DEF Init
  <1>1. now \in Nat /\ lazyTtl \in LazyTtls
    OBVIOUS
  <1>2. store \in [Keys -> UNION {Loaded(k) : k \in Keys} \cup {None}]
    BY DEF Dumps
  <1>3. ASSUME NEW k \in Keys
        PROVE  store[k] \in Entries \cup {None} /\ (store[k] # None => Key(store[k].reply.for) = k)
    <2>1. store[k] \in Loaded(k) \cup {None}
      BY <1>3 DEF WithinLimit
    <2>2. CASE store[k] # None
      <3>1. PICK r \in Replies, lazy \in LazyTtls : Key(r.for) = k /\ store[k] = Entry(r, lazy)
        BY <2>1, <2>2 DEF Loaded
      <3>2. lazy \in Nat
        BY TtlAssumption
      <3>3. Entry(r, lazy) \in Entries
        BY <1>1, <3>2, EntryType
      <3>4. Entry(r, lazy).reply = r
        BY DEF Entry
      <3> QED BY <3>1, <3>3, <3>4
    <2> QED BY <2>2
  <1>4. store \in [Keys -> Entries \cup {None}]
    BY <1>2, <1>3
  <1>5. TypeOK
    BY <1>1, <1>4 DEF TypeOK
  <1>6. KeyInv
    BY <1>3 DEF KeyInv
  <1>7. HitInv /\ FlightInv /\ HonestTtl
    BY DEF HitInv, FlightInv, Active, HonestTtl
  <1> QED BY <1>5, <1>6, <1>7 DEF IInv

(* What is served ends in time: the remaining time of a fresh hit. *)
LEMMA RemainingTtl ==
  ASSUME NEW ttl \in Nat, NEW age \in Int
  PROVE  SubtractTTL(ttl, age) \in Nat /\ (SubtractTTL(ttl, age) # 1 => SubtractTTL(ttl, age) = ttl - age)
  <1>1. CASE ttl > age
    <2>1. SubtractTTL(ttl, age) = ttl - age
      BY <1>1 DEF SubtractTTL
    <2> QED BY <1>1, <2>1
  <1>2. CASE ~(ttl > age)
    BY <1>2 DEF SubtractTTL
  <1> QED BY <1>1, <1>2

-----------------------------------------------------------------------------
(* One lemma per conjunct, one step per action. *)

Served == [entry : Entries, ttl : Nat, at : Nat, stale : BOOLEAN]

LEMMA ServeType ==
  ASSUME TypeOK, NEW q \in Queries, elem[q] \in Entries,
         NEW ttl \in Nat, NEW stale \in BOOLEAN, Serve(q, ttl, stale)
  PROVE  /\ served' \in [Queries -> Served \cup {None}]
         /\ served'[q] = [entry |-> elem[q], ttl |-> ttl, at |-> now, stale |-> stale]
         /\ \A p \in Queries \ {q} : served'[p] = served[p]
  <1> DEFINE s == [entry |-> elem[q], ttl |-> ttl, at |-> now, stale |-> stale]
  <1>1. s \in Served
    BY DEF Served, TypeOK
  <1>2. served \in [Queries -> Served \cup {None}]
    BY DEF TypeOK, Served
  <1>3. served' = [served EXCEPT ![q] = s]
    BY DEF Serve
  <1> HIDE DEF s
  <1>4. /\ served' \in [Queries -> Served \cup {None}]
        /\ served'[q] = s
        /\ \A p \in Queries \ {q} : served'[p] = served[p]
    BY <1>1, <1>2, <1>3
  <1> QED BY <1>4 DEF s

LEMMA Truncated ==
  ASSUME NEW d \in Int, NEW n \in Nat \ {0}
  PROVE  d \div n \in Int /\ d < (d \div n) * n + n
OBVIOUS

(* How old an entry is, and the least a fresh hit gives of it. *)
LEMMA HitFacts ==
  ASSUME TypeOK, NEW q \in Queries, elem[q] \in Entries
  PROVE  /\ elem[q].stored \in Nat /\ Age(elem[q]) \in Int
         /\ now - elem[q].stored < Age(elem[q]) * Second + Second
         /\ elem[q].reply.ttl \in Nat
         /\ SubtractTTL(elem[q].reply.ttl, Age(elem[q])) \in Nat
  <1>1. elem[q].stored \in Nat /\ elem[q].reply \in Replies /\ now \in Nat
    BY DEF TypeOK, Entries
  <1>2. elem[q].reply.ttl \in Nat
    BY <1>1, TtlAssumption DEF Replies
  <1>3. Age(elem[q]) \in Int /\ now - elem[q].stored < Age(elem[q]) * Second + Second
    <2>1. PICK d \in Int : d = now - elem[q].stored
      BY <1>1
    <2>2. d \div Second \in Int /\ d < (d \div Second) * Second + Second
      BY TtlAssumption, Truncated
    <2>3. Age(elem[q]) = d \div Second
      BY <2>1 DEF Age
    <2> QED BY <2>1, <2>2, <2>3
  <1> QED BY <1>1, <1>2, <1>3, RemainingTtl

LEMMA StepTypeOK ==
  ASSUME TypeOK, HitInv, [Next]_vars
  PROVE  TypeOK'
  <1> USE DEF TypeOK
  <1>1. ASSUME NEW q \in Queries, Lookup(q) PROVE TypeOK'
    <2>1. KeyOf(q) \in Keys
      BY KeyOfType
    <2>2. store[KeyOf(q)] \in Entries \cup {None}
      BY <2>1
    <2>3. elem' = elem \/ elem' = [elem EXCEPT ![q] = store[KeyOf(q)]]
      BY <1>1 DEF Lookup
    <2>4. elem' \in [Queries -> Entries \cup {None}]
      BY <2>2, <2>3
    <2>5. \E l \in {"next", "del", "hit"} : pc' = [pc EXCEPT ![q] = l]
      BY <1>1 DEF Lookup, Goto
    <2>6. pc' \in [Queries -> {"start", "del", "hit", "lazy", "next", "save", "done"}]
      BY <2>5
    <2> QED BY <1>1, <2>4, <2>6 DEF Lookup, fixed, jobVars
  <1>2. ASSUME NEW q \in Queries, Del(q) PROVE TypeOK'
    BY <1>2, KeyOfType DEF Del, Goto, fixed, jobVars
  <1>3. ASSUME NEW q \in Queries, HitFresh(q) PROVE TypeOK'
    <2>1. elem[q] \in Entries
      BY <1>3 DEF HitFresh, HitInv
    <2>2. served' \in [Queries -> Served \cup {None}]
      BY <1>3, <2>1, HitFacts, ServeType DEF HitFresh
    <2> QED BY <1>3, <2>2 DEF HitFresh, Goto, fixed, jobVars, Served
  <1>4. ASSUME NEW q \in Queries, HitStale(q) PROVE TypeOK'
    <2>1. elem[q] \in Entries
      BY <1>4 DEF HitStale, HitInv
    <2>2. StaleTtl \in Nat
      BY TtlAssumption
    <2>3. served' = served \/ served' \in [Queries -> Served \cup {None}]
      BY <1>4, <2>1, <2>2, ServeType DEF HitStale
    <2>4. pc' = [pc EXCEPT ![q] = "lazy"] \/ pc' = [pc EXCEPT ![q] = "next"]
      BY <1>4 DEF HitStale, Goto
    <2>5. pc' \in [Queries -> {"start", "del", "hit", "lazy", "next", "save", "done"}]
      BY <2>4
    <2> QED BY <1>4, <2>3, <2>5 DEF HitStale, fixed, jobVars, Served
  <1>5. ASSUME NEW q \in Queries, DoLazyUpdate(q) PROVE TypeOK'
    <2>1. flight' \subseteq Keys
      BY <1>5, KeyOfType DEF DoLazyUpdate
    <2>2. job' \in [Queries -> {"none", "fetch", "save", "forget", "end"}]
      BY <1>5 DEF DoLazyUpdate
    <2> QED BY <1>5, <2>1, <2>2 DEF DoLazyUpdate, Goto, fixed
  <1>6. ASSUME NEW q \in Queries, ExecNext(q) PROVE TypeOK'
    BY <1>6 DEF ExecNext, Answers, Goto, fixed, jobVars
  <1>7. ASSUME NEW q \in Queries, SaveReply(q) PROVE TypeOK'
    <2>1. store' \in [Keys -> Entries \cup {None}]
      BY <1>7, KeyOfType, SaveOnlyThat DEF SaveReply
    <2> QED BY <1>7, <2>1 DEF SaveReply, Goto, fixed, jobVars
  <1>8. ASSUME NEW q \in Queries, JobFetch(q) PROVE TypeOK'
    BY <1>8 DEF JobFetch, Fetched, Answers, fixed, callVars
  <1>9. ASSUME NEW q \in Queries, JobSave(q) PROVE TypeOK'
    <2>1. store' \in [Keys -> Entries \cup {None}]
      BY <1>9, KeyOfType, SaveOnlyThat DEF JobSave
    <2> QED BY <1>9, <2>1 DEF JobSave, fixed, callVars
  <1>10. ASSUME NEW q \in Queries, JobForget(q) PROVE TypeOK'
    BY <1>10 DEF JobForget, fixed, callVars
  <1>11. CASE Gc
    BY <1>11 DEF Gc, fixed, callVars, jobVars
  <1>12. CASE Flush
    BY <1>12 DEF Flush, fixed, callVars, jobVars
  <1>13. CASE Tick
    BY <1>13 DEF Tick, fixed, callVars, jobVars
  <1>14. CASE UNCHANGED vars
    BY <1>14 DEF vars, fixed, callVars, jobVars
  <1> QED BY <1>1, <1>2, <1>3, <1>4, <1>5, <1>6, <1>7, <1>8, <1>9, <1>10,
             <1>11, <1>12, <1>13, <1>14 DEF Next, CallStep, JobStep

LEMMA StepHitInv ==
  ASSUME TypeOK, HitInv, [Next]_vars
  PROVE  HitInv'
  <1> USE DEF TypeOK, HitInv
  <1>1. ASSUME NEW q \in Queries, Lookup(q) PROVE HitInv'
    <2>1. KeyOf(q) \in Keys
      BY KeyOfType
    <2> DEFINE e == store[KeyOf(q)]
    <2>2. e \in Entries \cup {None}
      BY <2>1
    <2>3. \/ e # None /\ pc' = [pc EXCEPT ![q] = "hit"] /\ elem' = [elem EXCEPT ![q] = e]
          \/ pc' = [pc EXCEPT ![q] = "next"] /\ elem' = elem
          \/ pc' = [pc EXCEPT ![q] = "del"] /\ elem' = elem
      BY <1>1 DEF Lookup, Goto
    <2> HIDE DEF e
    <2> QED BY <2>2, <2>3
  <1>2. ASSUME NEW q \in Queries, Del(q) \/ HitFresh(q) \/ DoLazyUpdate(q) \/ ExecNext(q) \/ SaveReply(q)
        PROVE HitInv'
    <2>1. elem' = elem /\ \E l \in {"next", "save", "done"} : pc' = [pc EXCEPT ![q] = l]
      BY <1>2 DEF Del, HitFresh, DoLazyUpdate, ExecNext, SaveReply, Goto
    <2> QED BY <2>1
  <1>3. ASSUME NEW q \in Queries, HitStale(q) PROVE HitInv'
    <2>1. pc[q] = "hit" /\ elem' = elem /\ \E l \in {"next", "lazy"} : pc' = [pc EXCEPT ![q] = l]
      BY <1>3 DEF HitStale, Goto
    <2> QED BY <2>1
  <1>4. ASSUME pc' = pc, elem' = elem PROVE HitInv'
    BY <1>4
  <1>5. ASSUME NEW q \in Queries, JobStep(q) PROVE HitInv'
    BY <1>4, <1>5 DEF JobStep, JobFetch, JobSave, JobForget, callVars
  <1>6. CASE Gc \/ Flush \/ Tick \/ UNCHANGED vars
    BY <1>4, <1>6 DEF Gc, Flush, Tick, vars, callVars
  <1> QED BY <1>1, <1>2, <1>3, <1>5, <1>6 DEF Next, CallStep

(* An update starts only when its key is not in flight, and the key leaves *)
(* with the one update that has it.                                        *)
LEMMA StepFlightInv ==
  ASSUME TypeOK, FlightInv, [Next]_vars
  PROVE  FlightInv'
  <1> USE DEF TypeOK, FlightInv, Active, KeyOf
  <1>1. ASSUME NEW q \in Queries, DoLazyUpdate(q) PROVE FlightInv'
    <2>1. asks' = asks
      BY <1>1 DEF DoLazyUpdate, fixed
    <2>2. CASE Key(asks[q]) \in flight
      BY <1>1, <2>1, <2>2 DEF DoLazyUpdate, InFlight
    <2>3. CASE Key(asks[q]) \notin flight
      <3>1. flight' = flight \cup {Key(asks[q])} /\ job' = [job EXCEPT ![q] = "fetch"]
        BY <1>1, <2>3 DEF DoLazyUpdate, InFlight
      <3>2. ASSUME NEW p \in Queries, Active(p)' PROVE Key(asks[p]) \in flight' /\ (p # q => Active(p))
        BY <3>1, <3>2
      <3>3. ASSUME NEW p \in Queries, p # q, Active(p) PROVE Key(asks[p]) # Key(asks[q])
        BY <2>3, <3>3
      <3> QED BY <2>1, <3>2, <3>3
    <2> QED BY <2>2, <2>3
  <1>2. ASSUME NEW q \in Queries, JobForget(q) PROVE FlightInv'
    <2>1. asks' = asks /\ Active(q) /\ job' = [job EXCEPT ![q] = "end"]
          /\ flight' = flight \ {Key(asks[q])}
      BY <1>2 DEF JobForget, fixed
    <2>2. ASSUME NEW p \in Queries, Active(p)'
          PROVE  p # q /\ Active(p) /\ Key(asks[p]) # Key(asks[q])
      <3>1. p # q /\ Active(p)
        BY <2>1, <2>2
      <3> QED BY <2>1, <3>1
    <2> QED BY <2>1, <2>2
  <1>3. ASSUME NEW q \in Queries, JobFetch(q) \/ JobSave(q) PROVE FlightInv'
    <2>1. asks' = asks /\ flight' = flight /\ Active(q)
          /\ \E s \in {"save", "forget"} : job' = [job EXCEPT ![q] = s]
      BY <1>3 DEF JobFetch, JobSave, Fetched, fixed
    <2>2. ASSUME NEW p \in Queries, Active(p)' PROVE Active(p)
      BY <2>1, <2>2
    <2> QED BY <2>1, <2>2
  <1>4. ASSUME job' = job, flight' = flight, asks' = asks PROVE FlightInv'
    BY <1>4
  <1>5. ASSUME NEW q \in Queries, Lookup(q) \/ Del(q) \/ HitFresh(q) \/ HitStale(q) \/ ExecNext(q) \/ SaveReply(q)
        PROVE FlightInv'
    <2>1. UNCHANGED <<fixed, jobVars>>
      BY <1>5 DEF Lookup, Del, HitFresh, HitStale, ExecNext, SaveReply
    <2> QED BY <1>4, <2>1 DEF jobVars, fixed
  <1>6. CASE Gc \/ Flush \/ Tick \/ UNCHANGED vars
    BY <1>4, <1>6 DEF Gc, Flush, Tick, vars, jobVars, fixed
  <1> QED BY <1>1, <1>2, <1>3, <1>5, <1>6 DEF Next, CallStep, JobStep

(* A fresh hit gives what is left of the records' time, or one second. *)
LEMMA StepHonestTtl ==
  ASSUME TypeOK, HitInv, HonestTtl, [Next]_vars
  PROVE  HonestTtl'
  <1> DEFINE Honest(q) ==
        served[q] # None =>
            IF served[q].stale THEN served[q].ttl = StaleTtl /\ lazyTtl > 0
            ELSE \/ served[q].ttl = 1
                 \/ served[q].at + served[q].ttl * Second
                        < served[q].entry.stored + (served[q].entry.reply.ttl + 1) * Second
  <1>0. \A q \in Queries : Honest(q)
    BY DEF HonestTtl
  <1>1. ASSUME NEW q \in Queries, HitFresh(q) PROVE HonestTtl'
    <2>1. elem[q] \in Entries /\ lazyTtl' = lazyTtl
      BY <1>1 DEF HitFresh, HitInv, fixed
    <2> DEFINE age == Age(elem[q])
               ttl == SubtractTTL(elem[q].reply.ttl, age)
    <2>2. /\ elem[q].stored \in Nat /\ age \in Int /\ now \in Nat
          /\ elem[q].reply.ttl \in Nat /\ ttl \in Nat
          /\ ttl # 1 => ttl = elem[q].reply.ttl - age
      BY <2>1, HitFacts, RemainingTtl DEF TypeOK
    <2>3. ttl # 1 => now + ttl * Second < elem[q].stored + (elem[q].reply.ttl + 1) * Second
      <3>1. Second \in Nat /\ now - elem[q].stored < age * Second + Second
        BY <2>1, HitFacts, TtlAssumption
      <3> HIDE DEF age, ttl
      <3> SUFFICES ASSUME ttl = elem[q].reply.ttl - age
                   PROVE  now + ttl * Second < elem[q].stored + (elem[q].reply.ttl + 1) * Second
        BY <2>2
      <3>2. ttl * Second = elem[q].reply.ttl * Second - age * Second
        BY <2>2, <3>1
      <3>3. (elem[q].reply.ttl + 1) * Second = elem[q].reply.ttl * Second + Second
        BY <2>2, <3>1
      <3>4. /\ age * Second \in Int /\ elem[q].reply.ttl * Second \in Int
        BY <2>2, <3>1
      <3> QED BY <2>2, <3>1, <3>2, <3>3, <3>4
    <2>4. Serve(q, ttl, FALSE)
      BY <1>1 DEF HitFresh
    <2> HIDE DEF ttl
    <2>5. /\ served'[q] = [entry |-> elem[q], ttl |-> ttl, at |-> now, stale |-> FALSE]
          /\ \A p \in Queries \ {q} : served'[p] = served[p]
      BY <2>1, <2>2, <2>4, ServeType
    <2>6. /\ served'[q].stale = FALSE /\ served'[q].ttl = ttl /\ served'[q].at = now
          /\ served'[q].entry = elem[q]
      BY <2>5
    <2>7. Honest(q)'
      BY <2>3, <2>6
    <2>8. \A p \in Queries \ {q} : Honest(p)'
      BY <1>0, <2>1, <2>5
    <2> QED BY <2>7, <2>8 DEF HonestTtl
  <1>2. ASSUME NEW q \in Queries, HitStale(q) PROVE HonestTtl'
    <2>1. lazyTtl' = lazyTtl
      BY <1>2 DEF HitStale, fixed
    <2>2. CASE lazyTtl > 0
      <3>1. Serve(q, StaleTtl, TRUE) /\ elem[q] \in Entries /\ StaleTtl \in Nat
        BY <1>2, <2>2, TtlAssumption DEF HitStale, HitInv
      <3>2. /\ served'[q] = [entry |-> elem[q], ttl |-> StaleTtl, at |-> now, stale |-> TRUE]
            /\ \A p \in Queries \ {q} : served'[p] = served[p]
        BY <3>1, ServeType
      <3>3. Honest(q)'
        BY <2>1, <2>2, <3>2
      <3>4. \A p \in Queries \ {q} : Honest(p)'
        BY <1>0, <2>1, <3>2
      <3> QED BY <3>3, <3>4 DEF HonestTtl
    <2>3. CASE ~(lazyTtl > 0)
      <3>1. served' = served
        BY <1>2, <2>3 DEF HitStale
      <3> QED BY <1>0, <2>1, <3>1 DEF HonestTtl
    <2> QED BY <2>2, <2>3
  <1>3. ASSUME served' = served, lazyTtl' = lazyTtl PROVE HonestTtl'
    BY <1>0, <1>3 DEF HonestTtl
  <1>4. ASSUME NEW q \in Queries, Lookup(q) \/ Del(q) \/ DoLazyUpdate(q) \/ ExecNext(q) \/ SaveReply(q)
        PROVE HonestTtl'
    BY <1>3, <1>4 DEF Lookup, Del, DoLazyUpdate, ExecNext, SaveReply, fixed
  <1>5. ASSUME NEW q \in Queries, JobStep(q) PROVE HonestTtl'
    BY <1>3, <1>5 DEF JobStep, JobFetch, JobSave, JobForget, callVars, fixed
  <1>6. CASE Gc \/ Flush \/ Tick \/ UNCHANGED vars
    BY <1>3, <1>6 DEF Gc, Flush, Tick, vars, callVars, fixed
  <1> QED BY <1>1, <1>2, <1>4, <1>5, <1>6 DEF Next, CallStep, JobStep

(* The cache is read and written under the key of the question only. *)
LEMMA StepKeyInv ==
  ASSUME TypeOK, HitInv, KeyInv, [Next]_vars
  PROVE  KeyInv'
  <1> USE DEF TypeOK
  <1> DEFINE StoreKeys == \A k \in Keys : store[k] # None => Key(store[k].reply.for) = k
             CallKeys(q) ==
                /\ elem[q] # None => Key(elem[q].reply.for) = KeyOf(q)
                /\ reply[q] # None => reply[q].for = asks[q]
                /\ jobReply[q] # None => jobReply[q].for = asks[q]
                /\ pc[q] \in {"hit", "lazy"} => Key(elem[q].reply.for) = KeyOf(q)
                /\ served[q] # None => Key(served[q].entry.reply.for) = KeyOf(q)
  <1>0. StoreKeys /\ \A q \in Queries : CallKeys(q)
    BY DEF KeyInv
  <1>00. ASSUME StoreKeys', \A q \in Queries : CallKeys(q)' PROVE KeyInv'
    BY <1>00 DEF KeyInv
  <1>1. asks' = asks
    BY DEF Next, CallStep, JobStep, Lookup, Del, HitFresh, HitStale, DoLazyUpdate, ExecNext,
           SaveReply, JobFetch, JobSave, JobForget, Gc, Flush, Tick, vars, fixed
  <1>2. \A q \in Queries : KeyOf(q)' = KeyOf(q)
    BY <1>1 DEF KeyOf
  <1>3. ASSUME store' = store PROVE StoreKeys'
    BY <1>0, <1>3
  <1>4. ASSUME NEW k \in Keys, NEW r \in Replies \cup {None}, Save(k, r), r # None => Key(r.for) = k
        PROVE  StoreKeys'
    <2>1. \A j \in Keys : \/ store'[j] = store[j] \/ store'[j] = None
                          \/ j = k /\ r # None /\ store'[j].reply = r
      BY <1>4, SaveOnlyThat
    <2> QED BY <1>0, <1>4, <2>1
  <1>5. ASSUME NEW q \in Queries, UNCHANGED <<elem, reply, jobReply, pc, served>> PROVE CallKeys(q)'
    BY <1>0, <1>1, <1>2, <1>5
  <1>6. ASSUME NEW q \in Queries, Lookup(q) PROVE KeyInv'
    <2>1. KeyOf(q) \in Keys
      BY KeyOfType
    <2> DEFINE e == store[KeyOf(q)]
    <2>2. e # None => Key(e.reply.for) = KeyOf(q)
      BY <1>0, <2>1
    <2>3. \/ e # None /\ pc' = [pc EXCEPT ![q] = "hit"] /\ elem' = [elem EXCEPT ![q] = e]
          \/ pc' = [pc EXCEPT ![q] = "next"] /\ elem' = elem
          \/ pc' = [pc EXCEPT ![q] = "del"] /\ elem' = elem
      BY <1>6 DEF Lookup, Goto
    <2>4. store' = store /\ reply' = reply /\ served' = served /\ jobReply' = jobReply
      BY <1>6 DEF Lookup, jobVars
    <2> HIDE DEF e
    <2>5. ASSUME NEW p \in Queries PROVE CallKeys(p)'
      <3>1. CASE p = q
        BY <1>0, <1>1, <1>2, <2>2, <2>3, <2>4, <3>1
      <3>2. CASE p # q
        <4>1. elem'[p] = elem[p] /\ pc'[p] = pc[p]
          BY <2>3, <3>2
        <4> QED BY <1>0, <1>1, <1>2, <2>4, <4>1
      <3> QED BY <3>1, <3>2
    <2> QED BY <1>00, <1>3, <2>4, <2>5
  <1>7. ASSUME NEW q \in Queries, Del(q) PROVE KeyInv'
    <2>1. StoreKeys'
      <3>1. store' = [store EXCEPT ![KeyOf(q)] = None]
        BY <1>7 DEF Del
      <3> QED BY <1>0, <3>1
    <2>2. UNCHANGED <<elem, reply, jobReply, served>> /\ pc' = [pc EXCEPT ![q] = "next"]
      BY <1>7 DEF Del, Goto, jobVars
    <2>3. ASSUME NEW p \in Queries PROVE CallKeys(p)'
      BY <1>0, <1>1, <1>2, <2>2
    <2> QED BY <1>00, <2>1, <2>3
  <1>8. ASSUME NEW q \in Queries, NEW ttl \in Nat, NEW stale \in BOOLEAN,
               pc[q] = "hit", Serve(q, ttl, stale),
               UNCHANGED <<store, elem, reply, jobReply>>,
               \E l \in {"lazy", "done"} : pc' = [pc EXCEPT ![q] = l]
        PROVE  KeyInv'
    <2>1. elem[q] \in Entries
      BY <1>8 DEF HitInv
    <2>2. /\ served'[q] = [entry |-> elem[q], ttl |-> ttl, at |-> now, stale |-> stale]
          /\ \A p \in Queries \ {q} : served'[p] = served[p]
      BY <1>8, <2>1, ServeType
    <2>3. served'[q].entry = elem[q]
      BY <2>2
    <2>4. Key(elem[q].reply.for) = KeyOf(q)
      BY <1>0, <1>8
    <2>5. CallKeys(q)'
      BY <1>0, <1>1, <1>2, <1>8, <2>3, <2>4
    <2>6. \A p \in Queries \ {q} : CallKeys(p)'
      BY <1>0, <1>1, <1>2, <1>8, <2>2
    <2> QED BY <1>00, <1>3, <1>8, <2>5, <2>6
  <1>9. ASSUME NEW q \in Queries, HitFresh(q) PROVE KeyInv'
    <2> DEFINE ttl == SubtractTTL(elem[q].reply.ttl, Age(elem[q]))
    <2>1. ttl \in Nat
      BY <1>9, HitFacts DEF HitFresh, HitInv
    <2>2. Serve(q, ttl, FALSE) /\ pc[q] = "hit" /\ pc' = [pc EXCEPT ![q] = "done"]
          /\ UNCHANGED <<store, elem, reply, jobReply>>
      BY <1>9 DEF HitFresh, Goto, jobVars
    <2> HIDE DEF ttl
    <2> QED BY <1>8, <2>1, <2>2
  <1>10. ASSUME NEW q \in Queries, HitStale(q) PROVE KeyInv'
    <2>1. pc[q] = "hit" /\ UNCHANGED <<store, elem, reply, jobReply>> /\ StaleTtl \in Nat
      BY <1>10, TtlAssumption DEF HitStale, jobVars
    <2>2. CASE lazyTtl > 0
      <3>1. Serve(q, StaleTtl, TRUE) /\ pc' = [pc EXCEPT ![q] = "lazy"]
        BY <1>10, <2>2 DEF HitStale, Goto
      <3> QED BY <1>8, <2>1, <3>1
    <2>3. CASE ~(lazyTtl > 0)
      <3>1. served' = served /\ pc' = [pc EXCEPT ![q] = "next"]
        BY <1>10, <2>3 DEF HitStale, Goto
      <3>2. ASSUME NEW p \in Queries PROVE CallKeys(p)'
        BY <1>0, <1>1, <1>2, <2>1, <3>1
      <3> QED BY <1>00, <1>3, <2>1, <3>2
    <2> QED BY <2>2, <2>3
  <1>11. ASSUME NEW q \in Queries, DoLazyUpdate(q) PROVE KeyInv'
    <2>1. UNCHANGED <<store, elem, reply, jobReply, served>> /\ pc' = [pc EXCEPT ![q] = "done"]
      BY <1>11 DEF DoLazyUpdate, Goto
    <2>2. ASSUME NEW p \in Queries PROVE CallKeys(p)'
      BY <1>0, <1>1, <1>2, <2>1
    <2> QED BY <1>00, <1>3, <2>1, <2>2
  <1>12. ASSUME NEW q \in Queries, ExecNext(q) PROVE KeyInv'
    <2>1. PICK r \in Answers(asks[q]) : reply' = [reply EXCEPT ![q] = r]
      BY <1>12 DEF ExecNext
    <2>2. r # None => r.for = asks[q]
      BY <2>1 DEF Answers
    <2>3. UNCHANGED <<store, elem, jobReply, served>> /\ pc' = [pc EXCEPT ![q] = "save"]
      BY <1>12 DEF ExecNext, Goto, jobVars
    <2>4. ASSUME NEW p \in Queries PROVE CallKeys(p)'
      BY <1>0, <1>1, <1>2, <2>1, <2>2, <2>3
    <2> QED BY <1>00, <1>3, <2>3, <2>4
  <1>13. ASSUME NEW q \in Queries, SaveReply(q) PROVE KeyInv'
    <2>1. /\ Save(KeyOf(q), reply[q]) /\ KeyOf(q) \in Keys /\ reply[q] \in Replies \cup {None}
          /\ reply[q] # None => Key(reply[q].for) = KeyOf(q)
      BY <1>0, <1>13, KeyOfType DEF SaveReply, KeyOf
    <2>2. StoreKeys'
      BY <1>4, <2>1
    <2>3. UNCHANGED <<elem, reply, jobReply, served>> /\ pc' = [pc EXCEPT ![q] = "done"]
      BY <1>13 DEF SaveReply, Goto, jobVars
    <2>4. ASSUME NEW p \in Queries PROVE CallKeys(p)'
      BY <1>0, <1>1, <1>2, <2>3
    <2> QED BY <1>00, <2>2, <2>4
  <1>14. ASSUME NEW q \in Queries, JobFetch(q) PROVE KeyInv'
    <2>1. PICK r \in Answers(asks[q]) : jobReply' = [jobReply EXCEPT ![q] = r]
      BY <1>14 DEF JobFetch
    <2>2. r # None => r.for = asks[q]
      BY <2>1 DEF Answers
    <2>3. UNCHANGED <<store, elem, reply, served, pc>>
      BY <1>14 DEF JobFetch, callVars
    <2>4. ASSUME NEW p \in Queries PROVE CallKeys(p)'
      BY <1>0, <1>1, <1>2, <2>1, <2>2, <2>3
    <2> QED BY <1>00, <1>3, <2>3, <2>4
  <1>15. ASSUME NEW q \in Queries, JobSave(q) PROVE KeyInv'
    <2>1. /\ Save(KeyOf(q), jobReply[q]) /\ KeyOf(q) \in Keys /\ jobReply[q] \in Replies \cup {None}
          /\ jobReply[q] # None => Key(jobReply[q].for) = KeyOf(q)
      BY <1>0, <1>15, KeyOfType DEF JobSave, KeyOf
    <2>2. StoreKeys'
      BY <1>4, <2>1
    <2>3. UNCHANGED <<elem, reply, jobReply, served, pc>>
      BY <1>15 DEF JobSave, callVars
    <2> QED BY <1>00, <1>5, <2>2, <2>3
  <1>16. ASSUME NEW q \in Queries, JobForget(q) PROVE KeyInv'
    <2>1. UNCHANGED <<store, elem, reply, jobReply, served, pc>>
      BY <1>16 DEF JobForget, callVars
    <2> QED BY <1>00, <1>3, <1>5, <2>1
  <1>17. CASE Gc \/ Flush
    <2>1. StoreKeys'
      BY <1>0, <1>17 DEF Gc, Flush
    <2>2. UNCHANGED <<elem, reply, jobReply, served, pc>>
      BY <1>17 DEF Gc, Flush, callVars, jobVars
    <2> QED BY <1>00, <1>5, <2>1, <2>2
  <1>18. CASE Tick \/ UNCHANGED vars
    <2>1. UNCHANGED <<store, elem, reply, jobReply, served, pc>>
      BY <1>18 DEF Tick, vars, callVars, jobVars
    <2> QED BY <1>00, <1>3, <1>5, <2>1
  <1> QED BY <1>6, <1>7, <1>9, <1>10, <1>11, <1>12, <1>13, <1>14, <1>15, <1>16,
             <1>17, <1>18 DEF Next, CallStep, JobStep

-----------------------------------------------------------------------------
(* The strengthened invariant: every call and update is where its entry    *)
(* and its key say it is.                                                  *)
THEOREM Invariance == Spec => []IInv
  <1>1. IInv /\ [Next]_vars => IInv'
    BY StepTypeOK, StepHitInv, StepFlightInv, StepKeyInv, StepHonestTtl DEF IInv
  <1> QED BY InitOK, <1>1, PTL DEF Spec

(* Every variable keeps its type: an entry's times are numbers and a call  *)
(* that hit holds an entry.                                                *)
THEOREM TypeCorrect == Spec => []TypeOK
  <1>1. IInv => TypeOK
    BY DEF IInv
  <1> QED BY <1>1, Invariance, PTL

(* However many calls hit one stale entry, doLazyUpdate asks the chain for *)
(* its key once at a time.                                                 *)
THEOREM OneLazyUpdateCorrect == Spec => []OneLazyUpdate
  <1>1. IInv => OneLazyUpdate
    <2> SUFFICES ASSUME FlightInv, NEW q \in Queries, NEW p \in Queries,
                        {job[q], job[p]} \subseteq {"fetch", "save"}, KeyOf(q) = KeyOf(p)
                 PROVE  q = p
      BY DEF IInv, OneLazyUpdate
    <2> QED BY DEF FlightInv, Active
  <1> QED BY <1>1, Invariance, PTL

(* Clients get TTLs that end with the upstream's, for all TTLs, lazy cache *)
(* settings and times.                                                     *)
THEOREM HonestTtlCorrect == Spec => []HonestTtl
  <1>1. IInv => HonestTtl
    BY DEF IInv
  <1> QED BY <1>1, Invariance, PTL

(* A cached reply answers the question asked, when the types in use differ *)
(* in their low bytes and one class is in use: what getMsgKey leaves out,  *)
(* the high byte of the type and the class, are the only ways to another   *)
(* question's reply, whatever calls, updates, flushes and dumps overlap.   *)
THEOREM OwnQuestionUnlessCollision ==
  ASSUME \A s, t \in Qtypes : s % 256 = t % 256 => s = t,
         \A c, d \in Qclasses : c = d
  PROVE  Spec => []OwnQuestion
  <1>1. IInv => OwnQuestion
    <2> SUFFICES ASSUME TypeOK, KeyInv, NEW q \in Queries, served[q] # None
                 PROVE  served[q].entry.reply.for = asks[q]
      BY DEF IInv, OwnQuestion
    <2>1. Key(served[q].entry.reply.for) = Key(asks[q])
      BY DEF KeyInv, KeyOf
    <2>2. served[q].entry \in Entries /\ asks[q] \in Questions
      BY DEF TypeOK
    <2>3. served[q].entry.reply.for \in Questions
      BY <2>2 DEF Entries, Replies
    <2>4. ASSUME NEW x \in Questions, NEW y \in Questions, Key(x) = Key(y) PROVE x = y
      BY <2>4 DEF Key, Questions
    <2> QED BY <2>1, <2>2, <2>3, <2>4
  <1> QED BY <1>1, Invariance, PTL

-----------------------------------------------------------------------------
(* The size of the map, for any keys, sizes and numbers of shards. *)

Stored == {k \in Keys : store[k] # None}
ShardBound == ShardMax > 0 => \A k \in Keys : Cardinality(Held(k)) <= ShardMax

LEMMA FiniteIn ==
  ASSUME NEW n \in Nat, NEW S, \A s \in S : s \in 0 .. n
  PROVE  IsFiniteSet(S)
  <1>1. S \in SUBSET Nat /\ \A s \in S : s <= n
    OBVIOUS
  <1> QED BY <1>1, FS_BoundedSetOfNaturals

LEMMA KeysFinite == IsFiniteSet(Keys)
  <1>1. 256 * 256 - 1 \in Nat
    OBVIOUS
  <1>2. \A t \in Qtypes : t \in 0 .. 256 * 256 - 1
    BY QtypeAssumption
  <1>3. IsFiniteSet(Qtypes)
    BY <1>1, <1>2, FiniteIn
  <1> DEFINE low(t) == <<((t * 256) % 65536) % 256, t % 256>>
             key == [t \in Qtypes |-> low(t)]
  <1>4. key \in Surjection(Qtypes, Keys)
    <2>1. PICK c : c \in Qclasses
      BY QtypeAssumption
    <2>2. \A k \in Keys : \E t \in Qtypes : low(t) = k
      BY DEF Keys, Key, Questions
    <2>3. ASSUME NEW t \in Qtypes PROVE low(t) \in Keys
      <3> DEFINE qn == [type |-> t, class |-> c]
      <3>1. qn \in Questions /\ Key(qn) = low(t)
        BY <2>1 DEF Questions, Key
      <3> QED BY <3>1 DEF Keys
    <2> HIDE DEF low
    <2>4. key \in [Qtypes -> Keys] /\ \A k \in Keys : \E t \in Qtypes : key[t] = k
      BY <2>2, <2>3
    <2> QED BY <2>4 DEF Surjection
  <1> HIDE DEF key
  <1> QED BY <1>3, <1>4, FS_Surjection

LEMMA ShardType ==
  /\ ShardMax \in Nat /\ Shards * ShardMax <= Size
  /\ Size >= Shards => ShardMax > 0
  /\ \A k \in Keys : Shard(k) \in 0 .. Shards - 1
  <1>1. ASSUME NEW a \in Nat, NEW b \in Nat \ {0}
        PROVE  a \div b \in Nat /\ b * (a \div b) <= a /\ a % b \in 0 .. b - 1
    OBVIOUS
  <1>2. ASSUME NEW a \in Nat, NEW b \in Nat \ {0}, a >= b PROVE a \div b > 0
    <2>1. a = b * (a \div b) + (a % b) /\ a % b \in 0 .. b - 1
      OBVIOUS
    <2> QED BY <1>2, <2>1
  <1>3. ASSUME NEW qn \in Questions PROVE Key(qn)[2] \in Nat
    <2>1. qn.type \in Nat
      <3>1. qn.type \in Qtypes
        BY DEF Questions
      <3>2. qn.type \in 0 .. 256 * 256 - 1
        BY <3>1, QtypeAssumption
      <3>3. \A n \in 0 .. 256 * 256 - 1 : n \in Nat
        OBVIOUS
      <3> QED BY <3>2, <3>3, Zenon
    <2>2. Key(qn)[2] = qn.type % 256
      BY DEF Key
    <2> QED BY <2>1, <2>2
  <1>4. \A k \in Keys : k[2] \in Nat
    BY <1>3 DEF Keys
  <1> QED BY <1>1, <1>2, <1>4, SizeAssumption DEF ShardMax, Shard

LEMMA HeldFinite ==
  ASSUME NEW k \in Keys
  PROVE  IsFiniteSet(Held(k)) /\ Cardinality(Held(k)) \in Nat
  <1>1. Held(k) \subseteq Keys
    BY DEF Held, HeldIn
  <1>2. IsFiniteSet(Held(k))
    BY <1>1, KeysFinite, FS_Subset
  <1> QED BY <1>2, FS_CardinalityType

(* Deletions keep the bound. *)
LEMMA ShrinkBound ==
  ASSUME ShardBound, \A k \in Keys : store[k] = None => store'[k] = None
  PROVE  ShardBound'
  <1> SUFFICES ASSUME ShardMax > 0, NEW k \in Keys PROVE Cardinality(Held(k)') <= ShardMax
    BY DEF ShardBound
  <1>1. Held(k)' \subseteq Held(k)
    BY DEF Held, HeldIn
  <1>2. Cardinality(Held(k)') <= Cardinality(Held(k)) /\ Cardinality(Held(k)') \in Nat
    BY <1>1, HeldFinite, FS_Subset, FS_CardinalityType
  <1> QED BY <1>2, HeldFinite, ShardType DEF ShardBound

(* set makes room in the shard before it adds the one entry to it. *)
LEMMA SetBound ==
  ASSUME ShardBound, store \in [Keys -> Entries \cup {None}], NEW k \in Keys, NEW e, Set(k, e)
  PROVE  ShardBound'
  <1> SUFFICES ASSUME ShardMax > 0, NEW j \in Keys PROVE Cardinality(Held(j)') <= ShardMax
    BY DEF ShardBound
  <1>0. /\ IsFiniteSet(Held(j)) /\ Cardinality(Held(j)) \in Nat
        /\ Cardinality(Held(j)) <= ShardMax /\ ShardMax \in Nat
    BY HeldFinite, ShardType DEF ShardBound
  <1>1. CASE Shard(j) # Shard(k)
    <2>1. Held(j)' \subseteq Held(j)
      BY <1>1 DEF Set, Held, HeldIn
    <2>2. Cardinality(Held(j)') <= Cardinality(Held(j)) /\ Cardinality(Held(j)') \in Nat
      BY <1>0, <2>1, FS_Subset, FS_CardinalityType
    <2> QED BY <1>0, <2>2
  <1>2. CASE Shard(j) = Shard(k)
    <2>1. Held(j) = Held(k)
      BY <1>2 DEF Held, HeldIn
    <2>2. PICK H \in SUBSET Held(j) : Held(j)' \subseteq H \cup {k} /\ Cardinality(H) + 1 <= ShardMax
      <3>1. CASE ~Full(k)
        <4>1. Held(j)' \subseteq Held(j) \cup {k}
          BY <3>1 DEF Set, Held, HeldIn
        <4> QED BY <1>0, <2>1, <3>1, <4>1 DEF Full
      <3>2. CASE Full(k)
        <4>1. PICK v \in Held(k) : store' = [store EXCEPT ![v] = None, ![k] = e]
          BY <3>2 DEF Set
        <4>2. Held(j)' \subseteq (Held(j) \ {v}) \cup {k}
          BY <4>1 DEF Held, HeldIn
        <4>3. Cardinality(Held(j) \ {v}) = Cardinality(Held(j)) - 1
          BY <1>0, <2>1, <4>1, FS_RemoveElement
        <4> QED BY <1>0, <4>2, <4>3
      <3> QED BY <3>1, <3>2
    <2>3. IsFiniteSet(H) /\ Cardinality(H) \in Nat
      BY <1>0, FS_Subset, FS_CardinalityType
    <2>4. IsFiniteSet(H \cup {k}) /\ Cardinality(H \cup {k}) <= Cardinality(H) + 1
          /\ Cardinality(H \cup {k}) \in Nat
      <3>1. IsFiniteSet(H \cup {k})
        BY <2>3, FS_AddElement
      <3>2. Cardinality(H \cup {k}) = IF k \in H THEN Cardinality(H) ELSE Cardinality(H) + 1
        BY <2>3, FS_AddElement
      <3> QED BY <2>3, <3>1, <3>2
    <2>5. Cardinality(Held(j)') <= Cardinality(H \cup {k}) /\ Cardinality(Held(j)') \in Nat
      BY <2>2, <2>4, FS_Subset, FS_CardinalityType
    <2> QED BY <1>0, <2>2, <2>3, <2>4, <2>5
  <1> QED BY <1>1, <1>2

LEMMA StepShardBound ==
  ASSUME TypeOK, ShardBound, [Next]_vars
  PROVE  ShardBound'
  <1>0. store \in [Keys -> Entries \cup {None}]
    BY DEF TypeOK
  <1>1. ASSUME store' = store PROVE ShardBound'
    BY <1>1, ShrinkBound
  <1>2. ASSUME NEW k \in Keys, NEW r, Save(k, r) PROVE ShardBound'
    <2>1. CASE Saved(r)
      BY <1>0, <1>2, <2>1, SetBound DEF Save
    <2>2. CASE ~Saved(r)
      BY <1>1, <1>2, <2>2 DEF Save
    <2> QED BY <2>1, <2>2
  <1>3. ASSUME NEW q \in Queries, SaveReply(q) \/ JobSave(q) PROVE ShardBound'
    <2>1. KeyOf(q) \in Keys
      BY KeyOfType
    <2> QED BY <1>2, <1>3, <2>1 DEF SaveReply, JobSave
  <1>4. ASSUME NEW q \in Queries, Del(q) PROVE ShardBound'
    <2>1. store' = [store EXCEPT ![KeyOf(q)] = None]
      BY <1>4 DEF Del
    <2> QED BY <1>0, <2>1, ShrinkBound
  <1>5. CASE Gc \/ Flush
    <2>1. \A k \in Keys : store[k] = None => store'[k] = None
      BY <1>5 DEF Gc, Flush
    <2> QED BY <2>1, ShrinkBound
  <1>6. ASSUME NEW q \in Queries,
               \/ Lookup(q) \/ HitFresh(q) \/ HitStale(q) \/ DoLazyUpdate(q) \/ ExecNext(q)
               \/ JobFetch(q) \/ JobForget(q)
        PROVE  ShardBound'
    BY <1>1, <1>6 DEF Lookup, HitFresh, HitStale, DoLazyUpdate, ExecNext, JobFetch, JobForget
  <1>7. CASE Tick \/ UNCHANGED vars
    BY <1>1, <1>7 DEF Tick, vars
  <1> QED BY <1>3, <1>4, <1>5, <1>6, <1>7 DEF Next, CallStep, JobStep

(* Shards times their bound bounds the map: an entry is told by its shard  *)
(* and its number in the shard.                                            *)
LEMMA BoundOfShards ==
  ASSUME ShardBound, Size >= Shards
  PROVE  SizeLimit
  <1>0. ShardMax \in Nat /\ ShardMax > 0 /\ Shards * ShardMax <= Size /\ Shards \in Nat /\ Size \in Nat
    BY ShardType, SizeAssumption
  <1> DEFINE Slots == (0 .. Shards - 1) \X (1 .. ShardMax)
             Number(k) == CHOOSE f \in [Held(k) -> 1 .. ShardMax] :
                             \A i, j \in Held(k) : f[i] = f[j] => i = j
             slot == [k \in Stored |-> <<Shard(k), Number(k)[k]>>]
  <1>1. ASSUME NEW k \in Keys
        PROVE  /\ Number(k) \in [Held(k) -> 1 .. ShardMax]
               /\ \A i, j \in Held(k) : Number(k)[i] = Number(k)[j] => i = j
    <2> DEFINE n == Cardinality(Held(k))
    <2>1. IsFiniteSet(Held(k)) /\ n \in Nat /\ n <= ShardMax
      BY <1>0, HeldFinite DEF ShardBound
    <2>2. IsFiniteSet(1 .. n) /\ Cardinality(1 .. n) = n
      BY <2>1, FS_Interval
    <2>3. ExistsBijection(Held(k), 1 .. n)
      BY <2>1, <2>2, FS_SameCardinalityBij
    <2>4. PICK f \in [Held(k) -> 1 .. n] : \A i, j \in Held(k) : f[i] = f[j] => i = j
      BY <2>3 DEF ExistsBijection, Bijection, Injection, IsInjective
    <2>5. f \in [Held(k) -> 1 .. ShardMax]
      BY <1>0, <2>1, <2>4
    <2> QED BY <2>4, <2>5
  <1>2. \A j, k \in Keys : Shard(j) = Shard(k) => Held(j) = Held(k)
    BY DEF Held, HeldIn
  <1>3. \A j, k \in Keys : Shard(j) = Shard(k) => Number(j) = Number(k)
    BY <1>2
  <1>4. \A k \in Stored : k \in Keys /\ k \in Held(k)
    BY DEF Stored, Held, HeldIn
  <1> HIDE DEF Number
  <1>5. slot \in [Stored -> Slots]
    BY <1>1, <1>4, ShardType
  <1>6. ASSUME NEW j \in Stored, NEW k \in Stored, slot[j] = slot[k] PROVE j = k
    <2>1. Shard(j) = Shard(k) /\ Number(j)[j] = Number(k)[k]
      BY <1>6
    <2> QED BY <1>1, <1>2, <1>3, <1>4, <2>1
  <1>7. slot \in Injection(Stored, Slots)
    BY <1>5, <1>6 DEF Injection, IsInjective
  <1>8. /\ IsFiniteSet(0 .. Shards - 1) /\ Cardinality(0 .. Shards - 1) = Shards
        /\ IsFiniteSet(1 .. ShardMax) /\ Cardinality(1 .. ShardMax) = ShardMax
    BY <1>0, SizeAssumption, FS_Interval
  <1> HIDE DEF slot
  <1>9. IsFiniteSet(Slots) /\ Cardinality(Slots) = Shards * ShardMax
    <2>1. ASSUME NEW S, NEW T, IsFiniteSet(S), IsFiniteSet(T)
          PROVE  IsFiniteSet(S \X T) /\ Cardinality(S \X T) = Cardinality(S) * Cardinality(T)
      BY <2>1, FS_Product
    <2>2. /\ IsFiniteSet((0 .. Shards - 1) \X (1 .. ShardMax))
          /\ Cardinality((0 .. Shards - 1) \X (1 .. ShardMax))
                = Cardinality(0 .. Shards - 1) * Cardinality(1 .. ShardMax)
      BY <1>8, <2>1
    <2> QED BY <1>8, <2>2
  <1> HIDE DEF Slots
  <1>10. IsFiniteSet(Stored) /\ Cardinality(Stored) <= Cardinality(Slots)
    BY <1>7, <1>9, FS_Injection
  <1>11. Cardinality(Stored) \in Nat
    BY <1>10, FS_CardinalityType
  <1>12. Shards * ShardMax \in Nat
    BY <1>0
  <1> QED BY <1>0, <1>9, <1>10, <1>11, <1>12 DEF SizeLimit, Stored

(* The cache never holds more than its size, with any number of shards and *)
(* whichever entries are evicted, provided the size gives every shard room *)
(* for one entry: a smaller one is no limit at all (map.go:54).            *)
THEOREM SizeLimitCorrect ==
  ASSUME Size >= Shards
  PROVE  Spec => []SizeLimit
  <1>1. Init => ShardBound
    BY DEF Init, WithinLimit, ShardBound, Held
  <1>2. TypeOK /\ ShardBound /\ [Next]_vars => ShardBound'
    BY StepShardBound
  <1>3. ShardBound => SizeLimit
    BY BoundOfShards
  <1> QED BY <1>1, <1>2, <1>3, TypeCorrect, PTL DEF Spec
=============================================================================

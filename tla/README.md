# A TLA+ model of mosdns

This directory models the parts of this repository (a DNS forwarder built from
plugins) in which goroutines, connections, timers and files meet. Each module
is translated from the Go source it names; `PROJECT.json` maps every definition
to its lines, lists the hazards the properties are for, and names the runs.

Contents: the inventory of the system, the modules, the runs, the bounds, the
fairness, the proofs, the disagreements found, what is not modelled.

## 1. The system

A query enters through a server (UDP, TCP, TLS, QUIC, HTTP), becomes a
`query_context.Context`, and runs through a *sequence*: a list of rules whose
matchers decide and whose executables act. Executables answer from a cache,
forward to upstreams, choose between branches, learn domains, rewrite replies.
Plugins keep their own state and files and are changed through an HTTP API
while queries run.

| Component | State | Operations | What is hard | Correct when | Module |
|---|---|---|---|---|---|
| reuse transport (`transport/reuse.go`) | pool of connections, idle ones; per connection the exchange it waits for | ExchangeContext, dial, read loop, Close | cancelled calls with late replies, dials nobody waits for, two locks taken in both orders | no connection used twice or lost, answers are one's own, Close closes all | ReuseConn |
| multiplexed connection (`conn_traditional.go`) | queue qid -> channel, reservations | reserve, exchange, read loop, close | qid reuse, duplicated and late replies, four ways out of an exchange | qids owned, counters exact, every call returns | TraditionalConn |
| pipeline (`pipeline.go`, `conn_lazy_dial.go`) | lazy connections, early reservations, wait group | getReservedExchanger, ExchangeReserved, dial, Close | waiting under two locks, dial against Close | early callers first, counters exact, nothing left open | Pipeline |
| upstream, bootstrap, DoH, QUIC (`pkg/upstream`) | kind, resolved address, streams | NewUpstream, exchange, resolve, retry | truncated UDP to TCP, one updater, goroutines that outlive the call | the whole reply under the caller's id, one updater, nothing stays | Upstream |
| cache (`plugin/executable/cache`, `pkg/cache`, `pkg/concurrent_map`) | sharded map of replies, keys being refreshed, count of changes, dump file | Exec, lazy update, flush, dump, load | check-then-act over the shard lock, one refresh per key, several writers of a file | own question, honest TTL, size limit, changes get dumped | QueryCache, CacheDump |
| requery, domain_output | task state, cancel function, timers, config file, backup; learned domains, rule files | trigger, cancel, schedule, run; learn, write | overlapping tasks, crash in a task, failure at every step | state real, backup only grows, flush after backup | Requery |
| adguard rules | rules, matchers, files, downloads | API, download, debounced reload, save | stale downloads, shared temporary file | the last change gets loaded and saved | AdguardRule |
| sd_set, si_set | sources, files, matcher | API, tick, download, reload, save | reloads that overlap, files read while written | what is configured is loaded and saved | RuleSets |
| domain_set, ip_set, rewrite's rules, switches | a value in memory and in a file | post, save, flush | what the lock covers, failing and cut writes | the file follows memory | SavedValue |
| matchers (`pkg/matcher`) | tries and lists | add, sort, match | nested prefixes, priorities | equal to a reference definition | Matchers |
| sequence, executables that reply or rewrite, entry handler | the query's Context, the walker's place | ExecNext and what the executables do | jumps out of wrapped chains, query objects that are replaced | the rules run as written; the reply has the client's question | ChainWalk |
| fallback, forward, aliapi, dual selector | the goroutines of a query | Exec | racing branches, timers, results nobody takes | an answer when a branch has one, one at most | QueryPath, Chooser |
| servers (`pkg/server`, `plugin/server`) | connections | read, handle, write, close | bad queries beside good ones, closing while queries run | replies that fit, others unharmed, drained when closed | Servers |
| audit log (`coremain/audit.go`) | ring, counters, slowest queries, channel | collect, clear, set capacity | counters beside a ring, closed channel | what is shown is what happened | Audit |
| log capture (`coremain/capture.go`) | level, timer | start, stop | timers of an old session | debugging ends | Capture |
| program life (`coremain/mosdns.go`, `safe_close`) | plugins, close signal | load, attach, close | signals while loading, closing order | ends, and closes what was loaded | Life |

Interactions: servers call the sequence, the sequence calls cache, forward,
fallback and the rest; forward calls `upstream`, which uses one of the three
transports; the pipeline uses multiplexed connections; requery calls
domain_output (and adguard or the sets) over HTTP and reads its files; the
audit worker takes contexts from a channel the entry handlers fill.

## 2. The modules

A definition named `X_Y` is `X` with a plausible bug `Y`; PROJECT.json names
the property that notices it. Locks are not modelled where a section under one
is a single action; where a call happens under a lock, the lock is a guard.

**Abstract specifications.** `Exchanger` says what a transport promises: a
call returns once, with an error or with the answer to its own query;
`ReuseConn` implements it (`PromiseKept`). `Chooser` says what an executable
that asks several branches promises: it returns once, with the reply of a
branch that has one, and fails only when all of its branches have failed or its
caller's ctx has ended; `QueryPath` implements it (`IsChooser`) for fallback,
forward and aliapi.

`ReuseConn` models `reuse.go` completely. State: `conns`, `idleConns`, `closed`
(under `t.m`), per caller the place in `ExchangeContext`/`exchange` (`pc`), its
connection, `isNewConn` and `retry`; per dial goroutine `dpc`; per connection
the read loop (`rpc`), `waitingResp`, `closeOnce`; per attempt the content of
its `respChan`. `Close`, which calls into connections while it holds `t.m`, is
one action per connection; actions that need `t.m` carry `MutexFree`.
`closeWithErr` is two: a connection leaves `conns` under `t.m`, and its socket is
closed after the unlock, so that `Close` may come and return in between. The
server answers an attempt or sends a message nobody asked for (`Junk`). The two
`panic` calls are the states in which `Register` or `Deliver` is blocked.

`TraditionalConn` models `conn_traditional.go`: `ReserveNewQuery`,
`ExchangeReserved` with every way out, `addQueueC` with its wrapping `nextQid`
and its limit of tries, the read loop between lookup and delivery, and
`CloseWithErr` with the window between `closed` and `closeNotify`. Read
deadlines are the right of a read to fail. `stamp` is a history variable: the
number a qid had before it was wrapped.

`Pipeline` models `pipeline.go` over `conn_lazy_dial.go`. The dialed connection
is its number of places (what `TraditionalConn` guarantees: a place taken is
given back, a call returns). A scan holds `t.m` over all of its steps;
`earlyReserveCallWg.Wait` is the guard of `ScanDialed`, and `MuFree` says that
`lc.mu` is held meanwhile.

`Upstream` has `NewUpstream` as a function from an address and its options to a
kind of upstream and a way to resolve its host, `Bootstrap` (the swap of
`updating`, the update goroutine, readiness), and calls: a caller and the
goroutine that works for it. The transports are that goroutine here. A QUIC
call has the two directions of its stream; a DoH call may return before its
goroutine does; a UDP call whose reply is truncated asks again over TCP. A dial
of net/http does not end with the request that wanted it: it may be left
(`"left"`), and then waits for an address, however long the bootstrap fails.

`QueryCache` models `Exec`, the lazy update and what `pkg/cache` and
`pkg/concurrent_map` do to an entry: lookup and the delete that follows it are
two steps, as in the code. A question is its 16-bit type, which the key
transforms, and its class, which it leaves out; a reply is the question it
answers, its kind, the TTL of its records and when it came. Time is a clock of
fractions of a second (`Second` of them), since the code cuts an entry's age to
whole seconds. `CacheDump` models the dump file: dump loop, `/flush`, `Close`,
crashes and `loadDump`. The content of the cache is the set of updates stored.
Two writers of a file leave one of the two or a mix with the part in front of
the first broken block readable. `os.Create` may fail, and so may a write with a
part of the entries in the file; the count the loop has swapped away is not
added back, and `forgone` is what such a dump was to take.

`QueryPath` follows one query through one of the executables that start
goroutines: fallback (with and without `always_standby`), forward, aliapi,
prefer_ipv4/6 for the other type and for the preferred one. The branches end
with a reply of one of three kinds, an error or nothing; the channels are those
of the code, buffered or not; `makeDdlCtx`, which takes over a deadline but no
cancellation, is why `ctxEnded` and `ctxCancelled` are two variables.

`ChainWalk` is `ChainWalker.ExecNext` over programs of several chains: a node
has matchers, one of which may end the walk with an error, and an executable. A
jump leads to a chain that was loaded before, which here has a higher number.
The walker's place is a path, one number per jump or goto taken; recursive
executables (redirect, ecs_handler, forward_edns0opt, reverse_lookup, prefer)
push a frame that acts when the rest of the walk returns. The Context has the
name, the reply (name, rcode, CNAME, address), a mark, the ECS options as far as
they go, the name of the domain set that matched, and the number of the query object, which tells when a deferred
restore reaches an old one. `Handle` is the entry handler's reply.

`Requery` models the task goroutine step by step, the API, the timers of
`setupScheduler` (a cron that never holds an entry, and `AfterFunc` timers),
the config file, the backup, and domain_output as far as the task sees it: a
worker that copies the rules under the lock and writes the copy later; when
that write fails the API still answers 200 and the old file stays. Restart
is a crash at any time followed by `newRequery`.

`AdguardRule` models API calls, the updater's tick, downloads (one goroutine
per rule), the reload that a trigger starts after a pause unless a newer
trigger supersedes it, and `saveConfig` down to the temporary file that
concurrent saves share and to a write of it that fails (`adFailed`; the API then
answers 500 with the change in memory and triggers no reload, `unloaded`). Any
number of reloads may be saving the new rule counts, and a download stamps
`LastUpdated` under the lock before that. The content of a rule file is a
version number, and a matcher is the versions it was built from. `RuleSets` does
the same for sd_set and si_set, whose reloads nothing serialises and whose
`os.WriteFile` truncates the file a reload may be reading (`"torn"`); a
`RuleSource` is an object on a heap, since a deleted one may still be written
to, and names a path, which a `PUT` may change. Files are keyed by path; a
removal may fail. `held` is what a sequence got when it was built. `behind` says
that since the last reload that began alone another has begun beside it, or that
a handler has given up on a failed save.

`SavedValue` is the one shape of nine plugins: a value, a file (an ip_set may
have several), and an API that replaces, saves or flushes it; they differ in the
order of the two and in what the lock covers (its header has the table). A start
also reads what no API writes, the configuration's own rules and further sets
(`others`), and reads back a line that was posted untrimmed or as a comment as
another one or as none (`ReadsAs`). The list a flush of ip_set stores is not
`sorted`, and saving it panics when the first file has been truncated. `spoilt`
says that a write has failed or was cut, or that two calls have raced where no
lock keeps them apart.

`Matchers` has the data structures as they are filled: the mixed matcher (full,
domain trie, regexp, keyword) and the sorted prefix list with its removal of
nested prefixes and its binary search, and `ToFind` as the reference.

`Servers` is what each kind of server does with the queries of one connection
(for UDP: of one socket): read, one goroutine per query, write, close. A reply
that cannot be packed leaves a UDP client without one and ends a TCP connection;
any write may fail.
`Audit` is the collector with ring, counters, slowest queries, channel, worker
and API; `Life` extends it with loading, the close signal, the closer,
`WaitClosed` and handlers that put contexts on the channel; the closer is not
attached when the signal came first, and the `Close` of a plugin of `Hangers`
may not return (`"stuck"`), as that of an upstream with a reuse transport may
not. `Capture` is `StartCapture`, its timers and `StopCapture`.

`MC*` modules instantiate these for TLC. `MCQueryCache` has two parts, one with
several questions and a short time, one with one question and the TTLs. Three
check several modules in one run: a variable `part` says which of them acts, and the others are put in a
state where they have nothing to do (and fairness asks nothing of them), so
that the state spaces add up instead of multiplying. `MCQueryPath` has
QueryPath, ChainWalk, Upstream and a TraditionalConn with one qid; `MCRules`
has AdguardRule, RuleSets, SavedValue and Matchers; `MCProgram` has CacheDump,
Life, Audit, Servers and Capture. A property of such a run names a question the
modules share and is the conjunction of what each says about it:
`EverythingReturns`, `SavedIsMemory`, `LoadedIsConfigured`, `ComesToRest`. The
`*_proofs` modules hold the theorems, `Induction` the lemmas by which they
reason about sequences and recursive functions.

## 3. The runs

| Run | Shows |
|---|---|
| ReuseConnSafety | no panic, no connection lost, own answers, Close is complete - with cancellations, retries, an unasked-for message |
| ReuseConnLive | calls return without Close; the transport implements `Exchanger` |
| TraditionalConn | UDP and TCP: qids owned and reservations exact, a reservation is worth a qid, a foreign reply only after a full wrap |
| Pipeline | exact counters, early callers first, nothing left open or forgotten, every call returns although a scan waits under the lock |
| QueryCache | own question (for types that do not collide, of one class), honest TTL at every fraction of a second, one refresh per key, size limit; what was served stale is refreshed; with and without lazy cache |
| Requery | two tasks at once: no stale running state, the outcome is reported; the backup keeps everything, and has it before the flush |
| QueryPath | chains are walked as written and the reply names the question; the best reply is chosen and the second best only for a reason; `Chooser` is implemented; one updater of an address, whole replies; and everything returns: branches, upstream calls with their streams and goroutines, calls on a connection |
| Rules | adguard rules, rule sets, lists and switches: files hold what is in memory and what is configured is loaded, over downloads, reloads, saves, failures and restarts, but for the exceptions below; the matchers find what they should |
| Program | changes of the cache are counted until dumped; the audit log is exact; exit closes the plugins; replies fit, and bad queries harm others only where the code closes their connection; and what is due happens: dumps, the end after a signal unless a `Close` hangs, drained servers, the end of a capture |

Three further runs end in a violation on purpose: each states what a comment of
the code says and shows an execution of the code in which it does not hold.

| Run | The code | The comment |
|---|---|---|
| ReuseConnCloseDeadlock | `Close` and `closeWithErr` take `t.m` and `closeOnce` in opposite orders | reuse.go:199 |
| QueryCacheCollide | the high byte of the type is lost from the key | cache/utils.go:68 |
| RequeryOverlap | the cleanup of a task that failed resets the state of one begun meanwhile, and a third works beside that | requery.go:633 |

The properties are stated so that they hold of the code; where they need an
exception, the exception is named in them, and TLC refutes them without it:
`forgone` (a dump has failed), `adFailed`, `unsaved` and `spoilt` (a save has
failed, or two have raced where no lock keeps them apart), `unloaded` and
`behind` (no reload, or not the last one, had the word), `overlapped` (tasks of
requery), not `sorted` (an ip_set that was flushed), `adClosed`, `"stuck"`.

## 4. Bounds

* ReuseConn: two callers and two connections; one retry (the code has three
  attempts more) and one unasked-for message. A caller holds one connection at
  a time, so two are enough for every pair of owners of one connection, which
  is what the invariants relate; the proofs remove the bound.
* TraditionalConn: two qids with three calls, so that qids wrap completely, one
  of which `addQueueC` tries, so that it fails when the limit is three; a limit
  of one is what `ReservationSuffices` is about. The part of QueryPath has one
  qid for two calls and is about liveness.
* Pipeline: one place on a dialed connection, one or two early ones, make two
  callers compete in both phases; a call makes one connection at most, hence
  two. `MaxAttempt` 0 makes a scan give up while connections are left.
* QueryCache: three types of different keys with room for two force evictions
  (the collision needs 1 and 257), and a clock up to a second makes some entries
  stale; loaded ones are there without calls that store them first. One class in
  use, as the code supposes (cache.go:482). The part about TTLs has one type,
  records of no and three seconds, so that a TTL is above the floor when a second
  has been taken off, in replies kept for one to four; the clock has half seconds,
  so that an age is cut, and ends between the shortest of these and the longest.
* Requery: two tasks for what overlaps; one domain that can be learned and one
  that is in the backup from an earlier time, so that what is merged is neither
  only old nor only new (domains do not interact otherwise); one timer at a time.
* QueryPath: one, two or three branches - `concurrent` of 0, 2 and 4 gives both
  ends of its clamping, and three is the code's maximum. Three chains of two or
  three nodes: a jump in a jump, a goto out of a jump, a wrapping executable
  before, between and behind them; the programs are put together from the nodes
  that matter at each place, an error of a matcher among them. Two calls on every
  kind of upstream compete for the one update.
* Rules: two calls on one adguard rule give every order of two changes, their
  downloads, saves and reloads, and of two triggers of which one supersedes the
  other; rules meet only in the config file, which is saved whole. Two reloads
  may be saving counts at once. One source of a set with a call, a tick and a
  manual update, two paths for it to name, two versions to download. Two calls
  on a value of two rules, one of which reads back as another line, with and
  without rules of the configuration; an ip_set has one file or two. Three rules
  and three prefixes: nested, equal and disjoint ones in any order of three,
  addresses of three bits of which IPv4 addresses are one.
* Program: a dump after two changes, two updates, one flush, one crash; a
  channel of one and a ring of two with four logs, resized to none and back; a
  slow list of one; three plugins, of which one is a server and one may hang;
  two queries with sizes around the minimum; three captures, so that a timer may be late for two.

Every bound is a CONSTANT or a guard named in its module.

## 5. Fairness

Safety runs assume none. Liveness assumes that goroutines are scheduled
(weak fairness of their steps), that a dial ends by its timeout, that a read
ends by the deadline the code sets (`reuse.go` 326, the idle and waiting
timeouts of `conn_traditional.go`), and that timers fire. Nothing makes a
server answer or a caller cancel or close. Strong fairness is assumed in two
places: `Lock` of the pipeline, since Go's mutex hands over to starving
waiters, and the choice of `ctx.Done` in the select of `exchange`, since a
select chooses among its ready cases at random. `PathFairness`: a branch's call
ends by its timeout; the caller's ctx need not end. `UpFairness`: a request has
the deadline of its call, an update of the bootstrap and a connection attempt
timeouts of their own. A dial that net/http has left has none while it waits for
an address: it goes on only when there is one, and `NothingStays` lets it stay
until then. `AdFairness` relies on the download timeout of the HTTP client.
`LifeFairness`: loading a plugin returns, the API server notices the signal, and
the closer goes on from one plugin to the next unless a `Close` hangs, which it
may: `ShutsDown` ends there, too. `ServersFairness`: a handler has a deadline
(`EntryHandler`), a connection an idle timeout.

## 6. The proofs

The checks above are for a few calls and connections; the theorems are for any
sets of them, any limits, TTLs, sizes, programs and numbers of retries. They
assume only the named ASSUMEs of the modules they extend (finite sets of calls
where calls are counted, markers like `NoCall` that are not calls, limits that
are numbers, jumps that lead to chains loaded before, rules of the configuration
that read as they are), which TLC evaluates in the
runs; the theorems that need more say so in their statement: `SizeLimit` needs
a size of at least the number of shards, `OwnQuestion` types that do not collide
and one class, `ReservationSuffices` a limit of at most the number of tries
(which that of UDP is not), `OwnAnswer` and the refinement of `Exchanger` a
server that sends nothing unasked for. Every safety property and every action
property of the passing runs has its theorem. Each proof states an inductive invariant, proves that the
initial states have it and that every step keeps it - one lemma per conjunct,
one step per action - and derives the property.

| Module | Theorems are about |
|---|---|
| ReuseConn_proofs | ReuseConn, and that it implements Exchanger |
| PathParts_proofs | TraditionalConn, Upstream, ChainWalk |
| Pipeline_proofs | Pipeline |
| QueryPath_proofs | QueryPath, and that it implements Chooser |
| QueryCache_proofs | QueryCache |
| Rules_proofs | AdguardRule, RuleSets, SavedValue, Matchers, and MCRules |
| Program_proofs | Life, Servers, CacheDump, Audit, Requery |
| Induction | sequences, sums and recursive functions |

**ReuseConn_proofs.** Type correctness; neither panic is reachable (`NoPanic`);
pooled connections are free (`IdleIsFree`); none is lost (`NoConnLost`); calls
get their own answers (`OwnAnswer`, with a server that sends nothing unasked
for); Close leaves nothing open but what a goroutine has taken out of `conns` and
is about to close (`CloseClosesAll`); and ReuseConn implements
`Exchanger` under the same condition (`KeepsPromise`). None of these is inductive: that `exchange` finds no
other one waiting follows from who may hold a connection, so
`IInv` adds `ExchangeInv` (a connection has one holder, a held one is not in
the idle pool), `PoolInv` (where a connection is when nobody holds it),
`AnswerInv` (of a connection at most one answer is asked for, so that after a
cancelled exchange it stays out of the pool until the late reply has come) and
`CallInv`. The refinement uses them to show that the answer a call returns is
to the attempt it made last.

**TraditionalConn (PathParts_proofs).** `IInv` is `TypeOK`, `ReservedExact`, `QidOwned`
and four more: `StampInv` (every qid in use is a number of `nextQid`, and no
number was taken twice), `LatestInv` (of the calls that ever had a qid, the one
in the queue had it last), `ReplyInv` (the read loop hands a reply to a call
that has the qid of the request, and got it no earlier) and `LimitInv`. From
them: the accounting is exact; `ReservationSuffices` (by a pigeonhole lemma:
the calls in the queue and the one that looks for a qid are different
reservations, so one of the qids it tries is free); `OwnReplyUnlessWrapped`
(two numbers with one remainder are `NumQids` apart).

**Upstream (PathParts_proofs).** `WholeReply` needs `AnswerInv` (what a worker sends is the
reply to its caller's query, and the caller keeps it) and `TurnInv` (a worker
that has sent has ended; a caller writes to the network only after the dial).
`OneUpdater` is inductive with the types.

**ChainWalk (PathParts_proofs).** `ReplyNamesQuestion`, from `WalkInv`: a query
goes by the target's name, and has a reply to it, only while a redirect is still
to return. `WalksAsWritten` compares the walk with the program text, so its
proof starts with the order of paths (`Before` is transitive; what follows a
path is its next position or is behind it, unless it is inside of the path) and
with the chain a path is in, a recursive function. That the paths it compares
with are all that lead into the program, however long its chains, is a lemma of
its own (`OccurrencesAreAll`). Then, for a program, a set of
nodes that ran and a set of those come to, `DueIn` is what is still to be come
to. The invariant `WalkGood` says that nothing due is before the walker's place,
that everything come to is, that the place itself is reachable
(`WalkingAt`), and that `jumpBack` leads behind each jump the place is inside
of, out to a goto or to the entry (`JumpsIn`); when the walk is over, that nothing
is due unless an error or a reply cut it short (`WalkOver`). A step goes on
(`StepOn`), into a chain (`StepInto`), back behind a jump (`StepBack`), out of the
entry chain (`StepOut`) or stops (`StepStops`: also when a matcher fails); what
the executables do to the Context does not matter. `ProgramsAssumption` is what
the set-up of jump and goto checks: the chain is there already, so that jumps
never lead back.

**Pipeline_proofs.** `CountersExact` relates `reservedQuery`, `earlyReserved`
and the wait group to the places of the calls; it is preserved only with
`ScanInv` (who scans holds the lock; a connection that is being made is in
nobody else's hands), `DialInv` (what the dial goroutine has done by its
place) and `FastInv` (after the wait group has come to zero no early caller is
left). `KeptInv` says where an open connection is, and gives `OpenConnsKept`.

**QueryPath_proofs.** `BestReply` for any argument `concurrent`, and that
fallback, forward and aliapi implement `Chooser` (`ImplementsChooser`). `GotInv`
and `EndInv` say what a branch and the call have come to, by their places;
`HeardInv`, that the loop of forward and aliapi hears each branch once and goes
on only without an address, so that a full count means that all were heard;
`CountInv`, for fallback, that the results without a reply that were counted or
lie in the channel are those of the branches that ended without one: the call
fails at the second only when both have failed. `OnlyForAReason` has an invariant
of its own for each half: `SecondaryInv` (who starts the secondary, or takes its
reply, has the timer's or the primary's word for it) and `PreferInv` (the other
type is blocked only after the preferred one was seen to have an address).

**QueryCache_proofs.** `FlightInv` (the keys in flight are those of the running
updates, one each) gives `OneLazyUpdate`; `KeyInv` (what lies under a key has
that key), preserved by the eviction of a full shard and by a delete of what was
replaced meanwhile, gives `OwnQuestion` if the types in use differ in their low
bytes and one class is in use: what the key leaves out, the high byte of the type
(the run QueryCacheCollide) and the class, are the ways to another question's
reply. That the name is in the key whole is taken from the code and not modelled.
`HonestTtl` is inductive with the types and `HitInv`, for every fraction of a
second.
`SizeLimit`: a shard is never above its own limit (`ShardBound`), whichever
entry an eviction picks, and the shards' limits add up to no more than the size
if the size is at least their number.

**Requery (Program_proofs).** `RunningIsReal` holds even when tasks overlap. `AloneInv`
(while none overlap, one task is at work), `StateInv` (the status is the task's
own, until the cleanup) and `BackupInv` (what is merged has the whole backup;
what is flushed is in the backup) give `OutcomeReported`, `AccumulatorKeeps` and
`FlushAfterBackup`, which are about steps.

**Life, Servers, CacheDump (Program_proofs).** `ExitClosesPlugins`, from `SignalInv` and `CloserInv` (what
was loaded at the signal is closed or still to be closed; a second signal
changes nothing); `ReplyFits`, from what each kind of server may be given;
`ChangesCounted`, from `MissingInv` (what no dump has taken is in the cache) and
`TakenInv` (nothing is taken off the count but between the swap of the counter
and the dump that follows it). A dump that fails has taken nothing, and what it
was to take is `forgone`: outside of the count, as in the code.

**Audit (Program_proofs).** `AuditExact`, for any capacity, however often the
ring has turned, been cleared or resized. `RingInv` says which of the logs that
have arrived lies in which place of the ring; `StatsInv`, that the counters, by
name and in total, are those of the logs in the ring - each log that is
overwritten is subtracted, a fact about sums over a window that slides;
`SlowInv`, that for every duration the slow list has as many logs above it as
have arrived, up to its length, which says that it keeps the slowest without
saying how ties are broken. The theorem is stated of `Audit` alone and of the
whole life of the program.

**Rules_proofs.** `SavedIsMemory` and `LoadedIsConfigured` are proved for each
module and joined in `MCRules`. AdguardRule: `AdSaveInv` (what a file lacks is
still written to by a save that has it open, or somebody has yet to save; savers
that overlap have the same data, since `p.mu` is read-locked; unless a save has
failed) and `AdLoadInv` (a change has a reload ahead of it, or the matchers are
right; a superseded timer has a successor; unless the call gave up on a failed
save). RuleSets: `ThreadInv`, `DiskInv`, `BuildInv`, `HeapInv` and `LoadInv` say
the same of its reloads, unless they are `behind`. This is about the matcher that
is stored; it is what sd_set answers with, and in si_set nobody asks for it again.
SavedValue: `HoldInv` (who runs with a lock holds it), `BehindInv` and
`AheadInv` for the values that are written after and before they are taken over,
each as what a restart would load, with `others`; of an ip_set that was flushed
nothing is said until it is posted or saved again.
`MatchersAgree` is about data structures and needs induction: that the
deduplication of the sorted list keeps an outermost prefix for each that was
appended (`ListInv`), that the binary search then ends at the prefix that covers
an address, that the trie's walk finds the longest domain, that the last rule of
a pattern wins (`MixInv`). Rules, names, the number of prefixes and the width of
an address (`AddrBits`, with the place of the IPv4 addresses in it) are arbitrary;
two prefixes are disjoint or one lies in the other because the size of a block is
a power of two (`Power2`, by induction: `Powers`, `Multiple`, `NetInside`).

**Induction.** The induction theorems of the library take the hypothesis as an
operator, which no installed prover can instantiate; `SetInduction` takes it as
a set (a set of numbers with 0 and the successor of each member has all of
them), proved from the cardinality of a finite set. `Iterates` derives from it
that a function defined by recursion over `1 .. n` exists, and `Upto` and
`Appended` are the facts about sequences the proofs keep needing.

## 7. Disagreements and observations

Besides the three runs above, the models contain the following; no run singles
them out, either because nothing in the repository promises otherwise or
because the effect is a cost and not a wrong answer.

Transports and upstreams:

* a running exchange counts twice against the limit of its connection, in the
  queue and as a reservation (conn_traditional.go:278), so half of it is unused;
* `respChan` has no buffer, against the comment at conn_traditional.go:195, so a
  reply that comes before its caller is in the select is lost;
* `newLazyDnsConn` ignores its `dialTimeout` (conn_lazy_dial.go:45);
* after a failed bootstrap update, calls that wait for an address are woken
  only by a later call's update or by the end of their ctx;
* `tryTrimIpv6Brackets` cuts one character too many (pkg/upstream/utils.go), and
  the idle timeout of a tls upstream is not handed to its reuse transport;
* a dial that net/http makes does not end with the request: while the bootstrap
  fails, each request that gives up leaves a goroutine waiting for an address
  (upstream.go:449, bootstrap.go:91);
* a plain TCP upstream needs an IP address unless it goes through socks5.

Executables:

* `redirect` puts the name back into the query object it was given; when a
  fallback or prefer inside of it has replaced that object, executables behind
  it still see the target's name (the reply is right, `ReplyNamesQuestion`);
* `ttl` sets the rcode of a reply to success, so that NXDOMAIN becomes NOERROR;
* aliapi leaves out JSON answers whose owner is not the question's name, which
  drops what lies behind a CNAME; rewrite's answers keep the owner name of the
  rule's target;
* the name of a domain set is recorded although a later matcher of the same
  rule fails (chain.go:100);
* fallback's threshold of 0 is no threshold, although the doc names a default.

Cache: a size below the number of shards means no limit (map.go:54); `Get`
deletes by key and so a fresh entry, too (pkg/cache/cache.go:93); several dumps
may write the file at a time, and an older one may end last (cache.go:381); a
dump that fails keeps the count of what it was to take at 0 (cache.go:362), so
that those changes wait for MinChanges others; the class of a question is not
in the key (cache/utils.go:55).

Rules and files:

* the timers of old schedules are never stopped (requery.go:674); domains
  learned between a task's save and its flush are lost (requery.go:220); the
  backup is written in place (requery.go:309); a rule file of domain_output that
  cannot be written is not reported, and the task goes on with the old one
  (domain_output.go:218);
* a save of adguard's config that loses the temporary file to another one makes
  the API answer 500 after the change is in memory and on disk, and without the
  reload (adguard.go:257, 687), and a write that fails leaves the file behind
  memory until the next save; enabling a rule that was never downloaded
  reloads but does not download it (adguard.go:691);
* reloads of sd_set and si_set are not serialised: an older one may store its
  matcher last; a delete while a download runs leaves a file behind;
* si_set is asked for its matcher once, when a rule is built
  (base_ip/ip_matcher.go:65), although si_set.go:156 calls it the currently active
  one: disable a source, let the reload store its matcher, and the rules go on with
  the old one (`ReloadsReachMatchers` of RuleSets, which TLC refutes for si_set);
* so is ip_set, so that a post or flush never reaches the rules built before; and a
  post drops what the set had from the sets it names (ip_set.go:89);
* a flush of ip_set stores a list that was never sorted (ip_set.go:139), over which
  `ForEach` panics (list.go:140): the first file is empty by then, the others keep
  their rules, which a restart loads, against the comments at ip_set.go:134 and 186
  (`FlushSaves` of SavedValue, which TLC refutes for an ip_set of two files);
* domain_set, rewrite and the switchers write their file after they have given
  the lock back.

Program: `StopWorker` closes the audit channel before the servers are closed
(mosdns.go:120), so that a handler at work may send on a closed channel:
`NeverPanics` of Life is false. When the API server fails while plugins load,
the closer iterates over a map that is being written, and plugins loaded later
are never closed. A capture timer that fired just before a new start ends the
new capture early.

## 8. What is left

Only model-checked: liveness and the properties that contain some -
`CallsReturn`, `StaleIsRefreshed`, `EverythingReturns`, `LoadedInTheEnd`,
`OthersDoNoHarm`, `ComesToRest` - which need ENABLED, and so are out of the proof
system's reach. The three violations are TLC's counterexamples, too.

Not modelled: the formats of messages, dumps and rule files; logging, metrics
and statistics; the web UI; kernel sets (ipset, nftset); the rate limiter (a
map of token buckets of a library, over real time); the LRU package, of which
the program uses only the `Hashable` interface; buffer and timer pools; the
command-line tools; the parsing of configuration; quic-go, net/http and other
libraries, whose effects appear as nondeterministic steps.

Next: theorems about type correctness of the modules whose types are so far only
part of an invariant, and that what a composed run checks of QueryPath's parts
holds of the composition; the push of domain_output to domain_set, composed with Requery; the show
API and block format of the cache; hit counters of domain_output; a refinement
of the shard map to a map.

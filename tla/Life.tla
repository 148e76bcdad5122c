-------------------------------- MODULE Life --------------------------------
(* The life of the program: NewMosdns loads the plugins while its API       *)
(* server may already fail; servers hand queries to entry handlers, which   *)
(* put them in the audit log; a close signal ends the audit worker, closes  *)
(* the plugins and lets WaitClosed return.                                  *)
EXTENDS Audit

CONSTANTS Plugins,    \* tags, in the order they are loaded
          Servers,    \* those of them that listen
          Hangers,    \* those whose Close may never return: see ReuseConn
          Handlers    \* queries that come in

ASSUME LifeAssumption == Servers \cup Hangers \subseteq Range(Plugins)

VARIABLES
    mainPc,       \* "start" | "load" | "failed" | "serve" | "exit"
    plugins,      \* m.plugins: tags of the plugins loaded
    closeSignal,
    atSignal,     \* history: m.plugins when the close signal was sent
    apiPc,        \* "serve" | "done": the API server's attached goroutine
    closerPc,     \* "none" | "wait" | "worker" | "plugins" | "stuck" | "done"
    toClose,      \* plugins the closer's loop still comes to
    closed,       \* plugins that were closed
    handler,      \* query -> "none" | "exec" | "collect" | "send" | "done"
    panicked

life == <<mainPc, plugins, closeSignal, atSignal, apiPc, closerPc, toClose, closed>>
lifeVars == <<auditVars, life, handler, panicked>>

LifeInit ==
    /\ AuditInit
    /\ mainPc = "start" /\ plugins = {}
    /\ closeSignal = FALSE /\ atSignal = {}
    /\ apiPc \in {"serve", "done"}    \* done: no API server configured
    /\ closerPc = "none" /\ toClose = {} /\ closed = {}
    /\ handler = [q \in Handlers |-> "none"]
    /\ panicked = FALSE

Runs == mainPc # "exit" /\ ~panicked

(* SafeClose.SendCloseSignal: the first call counts. *)
SendCloseSignal ==
    /\ closeSignal' = TRUE
    /\ atSignal' = IF closeSignal THEN atSignal ELSE plugins
-----------------------------------------------------------------------------
(* SafeClose.Attach of the closer, which is not run when the API server has *)
(* already failed: then nothing that is loaded afterwards is ever closed.   *)
AttachCloser ==
    /\ Runs /\ mainPc = "start"
    /\ mainPc' = "load"
    /\ closerPc' = IF closeSignal THEN "none" ELSE "wait"
    /\ UNCHANGED <<auditVars, plugins, closeSignal, atSignal, apiPc, toClose, closed, handler, panicked>>

(* newPlugin: the map of plugins is written without a lock; the closer may  *)
(* iterate over it at that moment, which the runtime may notice and abort.  *)
LoadPlugin ==
    /\ Runs /\ mainPc = "load" /\ Cardinality(plugins) < Len(Plugins)
    /\ LET tag == Plugins[Cardinality(plugins) + 1] IN
          /\ plugins' = plugins \cup {tag}
          /\ IF closerPc = "plugins"
             THEN /\ panicked' \in BOOLEAN
                  /\ toClose' \in {toClose, toClose \cup {tag}}
             ELSE UNCHANGED <<panicked, toClose>>
    /\ UNCHANGED <<auditVars, mainPc, closeSignal, atSignal, apiPc, closerPc, closed, handler>>

LoadFails ==
    /\ Runs /\ mainPc = "load" /\ Cardinality(plugins) < Len(Plugins)
    /\ SendCloseSignal
    /\ mainPc' = "failed"
    /\ UNCHANGED <<auditVars, plugins, apiPc, closerPc, toClose, closed, handler, panicked>>

Loaded ==
    /\ Runs /\ mainPc = "load" /\ Cardinality(plugins) = Len(Plugins)
    /\ mainPc' = "serve"
    /\ UNCHANGED <<auditVars, plugins, closeSignal, atSignal, apiPc, closerPc, toClose, closed, handler, panicked>>

(* A signal of the system, or a server whose listener fails. *)
CloseSignal ==
    /\ Runs /\ ~closeSignal
    /\ mainPc = "serve" \/ plugins \cap Servers # {}
    /\ SendCloseSignal
    /\ UNCHANGED <<auditVars, mainPc, plugins, apiPc, closerPc, toClose, closed, handler, panicked>>

(* The API server fails, or is closed on the signal. *)
ApiServerEnds ==
    /\ Runs /\ apiPc = "serve"
    /\ apiPc' = "done"
    /\ SendCloseSignal
    /\ UNCHANGED <<auditVars, mainPc, plugins, closerPc, toClose, closed, handler, panicked>>

(* WaitClosed: the signal, and everything attached is done. *)
AttachedDone_Never == TRUE
AttachedDone == apiPc = "done" /\ closerPc \in {"none", "done"}

WaitClosed ==
    /\ Runs /\ mainPc \in {"serve", "failed"} /\ closeSignal /\ AttachedDone
    /\ mainPc' = "exit"
    /\ UNCHANGED <<auditVars, plugins, closeSignal, atSignal, apiPc, closerPc, toClose, closed, handler, panicked>>
-----------------------------------------------------------------------------
(* The closer: StopWorker closes the channel and waits for the worker, then *)
(* the plugins are closed one after the other, of which one may hang: the   *)
(* forwarder closes its transports, and Close of a reuse transport may wait *)
(* for its own mutex (the finding of ReuseConn).                            *)
StopWorker ==
    /\ Runs /\ closerPc = "wait" /\ closeSignal
    /\ chanClosed' = TRUE
    /\ closerPc' = "worker"
    /\ UNCHANGED <<capturing, capacity, ring, stats, ctxChan, taken, workerDone, apiCalls, arrived>>
    /\ UNCHANGED <<mainPc, plugins, closeSignal, atSignal, apiPc, toClose, closed, handler, panicked>>

WorkerStopped ==
    /\ Runs /\ closerPc = "worker" /\ workerDone
    /\ closerPc' = "plugins" /\ toClose' = plugins
    /\ UNCHANGED <<auditVars, mainPc, plugins, closeSignal, atSignal, apiPc, closed, handler, panicked>>

ClosePlugin ==
    /\ Runs /\ closerPc = "plugins"
    /\ \/ \E tag \in toClose : toClose' = toClose \ {tag} /\ closed' = closed \cup {tag}
          /\ UNCHANGED closerPc
       \/ toClose \cap Hangers # {} /\ closerPc' = "stuck" /\ UNCHANGED <<toClose, closed>>
       \/ toClose = {} /\ closerPc' = "done" /\ UNCHANGED <<toClose, closed>>
    /\ UNCHANGED <<auditVars, mainPc, plugins, closeSignal, atSignal, apiPc, handler, panicked>>
-----------------------------------------------------------------------------
(* A query: accepted by a server that listens, executed, put in the audit   *)
(* log by the deferred Collect, which looks at capturing before it sends.   *)
HandlerAt(q, from, to) ==
    /\ Runs /\ handler[q] = from /\ handler' = [handler EXCEPT ![q] = to]
    /\ UNCHANGED life

Accept(q) ==
    /\ (plugins \cap Servers) \ closed # {}
    /\ HandlerAt(q, "none", "exec")
    /\ UNCHANGED <<auditVars, panicked>>

ExecReturns(q) == HandlerAt(q, "exec", "collect") /\ UNCHANGED <<auditVars, panicked>>

IsCapturing(q) ==
    /\ HandlerAt(q, "collect", IF capturing THEN "send" ELSE "done")
    /\ UNCHANGED <<auditVars, panicked>>

CollectSends(q) ==
    /\ HandlerAt(q, "send", "done")
    /\ IF chanClosed
       THEN panicked' = TRUE /\ UNCHANGED auditVars
       ELSE /\ \E log \in Log : ctxChan' = Enqueued(log)
            /\ UNCHANGED <<capturing, capacity, ring, stats, chanClosed, taken, workerDone, apiCalls, arrived>>
            /\ UNCHANGED panicked

AuditStep == Runs /\ (WorkerStep \/ AuditApi) /\ UNCHANGED <<life, handler, panicked>>

LifeNext ==
    \/ AttachCloser \/ LoadPlugin \/ LoadFails \/ Loaded \/ CloseSignal \/ ApiServerEnds \/ WaitClosed
    \/ StopWorker \/ WorkerStopped \/ ClosePlugin \/ AuditStep
    \/ \E q \in Handlers : Accept(q) \/ ExecReturns(q) \/ IsCapturing(q) \/ CollectSends(q)

(* Loading goes on; the attached goroutines and the worker run; the API     *)
(* server notices the signal; the Close of a plugin returns, unless it is   *)
(* one that may hang and does.                                              *)
LifeFairness ==
    /\ WF_lifeVars(AttachCloser \/ LoadPlugin \/ LoadFails \/ Loaded)
    /\ WF_lifeVars(WaitClosed)
    /\ WF_lifeVars(closeSignal /\ ApiServerEnds)
    /\ WF_lifeVars(StopWorker \/ WorkerStopped \/ ClosePlugin)
    /\ WF_lifeVars(Runs /\ WorkerStep /\ UNCHANGED <<life, handler, panicked>>)

LifeSpec == LifeInit /\ [][LifeNext]_lifeVars /\ LifeFairness
-----------------------------------------------------------------------------
LifeTypeOK ==
    /\ mainPc \in {"start", "load", "failed", "serve", "exit"}
    /\ plugins \subseteq Range(Plugins)
    /\ closerPc \in {"none", "wait", "worker", "plugins", "stuck", "done"}
    /\ toClose \subseteq plugins /\ closed \subseteq plugins
    /\ handler \in [Handlers -> {"none", "exec", "collect", "send", "done"}]
    /\ logs \in Seq(Log) /\ Len(ctxChan) <= ChanCapacity

(* The program does not exit before every plugin that was loaded when the   *)
(* close signal was sent has been closed: a cache has written its dump.     *)
ExitClosesPlugins == mainPc = "exit" => atSignal \subseteq closed

(* A close signal, whoever sent it and however far loading had got, ends    *)
(* the program, unless the Close of a plugin hangs: nothing else that the   *)
(* closer or WaitClosed waits for waits for something in its turn.          *)
ShutsDown == closeSignal ~> (mainPc = "exit" \/ panicked \/ closerPc = "stuck")

(* Shutting down is no crash.  (It can be one: a handler that is still at   *)
(* work sends on the channel StopWorker has closed.)                        *)
NeverPanics == ~panicked
=============================================================================

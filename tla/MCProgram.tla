----------------------------- MODULE MCProgram -----------------------------
(* The program around the queries, for TLC: the dumps of the cache, the     *)
(* life of the program, its audit log, the servers, the capture of debug    *)
(* logs.  One of them acts, `part` says which, and the others are in a      *)
(* state in which fairness asks nothing of them.                            *)
EXTENDS CacheDump, Life, Servers, Capture, TLC

VARIABLE part
MCPlugins == <<"cache", "forward", "server">>

(* At rest: Close of the cache is over, the program has ended, a UDP server *)
(* has no queries.                                                          *)
DumpRests ==
    /\ mem = {} /\ stored = 0 /\ dumpSaving = 0 /\ updated = 0 /\ dumpTaken = 0
    /\ dumpPc = [d \in Dumpers |-> IF d = Closing THEN "closed" ELSE "idle"]
    /\ dumpSnap = [d \in Dumpers |-> {}]
    /\ mixed = {} /\ dumpFile = {} /\ intact = TRUE /\ crashes = 0 /\ missing = {} /\ forgone = {}
LifeRests ==
    /\ mainPc = "exit" /\ plugins = {} /\ closeSignal = FALSE /\ atSignal = {}
    /\ apiPc = "done" /\ closerPc = "done" /\ toClose = {} /\ closed = {}
    /\ handler = [q \in Handlers |-> "none"] /\ panicked = FALSE
NoQueries == server = "udp" /\ \A q \in Queries : query[q].kind = "query" /\ query[q].opt = 0

ProgramInit ==
    /\ part \in {"dump", "life", "audit", "servers", "capture"}
    /\ IF part = "dump" THEN DumpInit ELSE DumpRests
    /\ IF part = "life" THEN LifeInit ELSE AuditInit /\ LifeRests
    /\ part \in {"life", "audit"} \/ capacity = 2
    /\ ServersInit /\ (part # "servers" => NoQueries)
    /\ CaptureInit

ProgramNext ==
    /\ UNCHANGED part
    /\ \/ part = "dump" /\ DumpNext /\ UNCHANGED <<lifeVars, serverVars, captureVars>>
       \/ part = "life" /\ LifeNext /\ UNCHANGED <<dumpVars, serverVars, captureVars>>
       \/ part = "audit" /\ AuditNext /\ UNCHANGED <<dumpVars, life, handler, panicked, serverVars, captureVars>>
       \/ part = "servers" /\ ServersNext /\ UNCHANGED <<dumpVars, lifeVars, captureVars>>
       \/ part = "capture" /\ CaptureNext /\ UNCHANGED <<dumpVars, lifeVars, serverVars>>

ProgramSpec ==
    /\ ProgramInit
    /\ [][ProgramNext]_<<part, dumpVars, lifeVars, serverVars, captureVars>>
    /\ DumpFairness /\ LifeFairness /\ ServersFairness /\ CaptureFairness

(* What is due happens: enough changes of the cache are dumped, the program *)
(* ends after a close signal, a server that is closed lets its queries go,  *)
(* a capture of debug logs is over in time.                                 *)
ComesToRest == DumpsHappen /\ ShutsDown /\ Drains /\ DebugEnds
=============================================================================

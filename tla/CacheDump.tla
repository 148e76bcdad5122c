----------------------------- MODULE CacheDump -----------------------------
(***************************************************************************)
(* The dump file of plugin/executable/cache: the dump loop with its count  *)
(* of changes, the dump /flush starts in the background, the one of Close, *)
(* and loadDump when the program starts again.  All of them write the same *)
(* file with os.Create, which truncates it in place.                       *)
(*                                                                         *)
(* The cache's content is the set of updates stored since it was empty; an *)
(* update is a number.                                                     *)
(*                                                                         *)
(* A variant named X_Y is X with a bug, for the mutation tests.            *)
(***************************************************************************)
EXTENDS Naturals, FiniteSets

CONSTANTS
    Flushes,     \* the calls of /flush, each made once
    MinChanges,  \* minimumChangesToDump: 1024
    MaxUpdates,  \* bound: updates stored
    MaxCrashes   \* bound: times the program dies

ASSUME BoundAssumption == {MinChanges, MaxUpdates, MaxCrashes} \subseteq Nat /\ MinChanges > 0

Loop == "loop"
Closing == "Close"
Dumpers == Flushes \cup {Loop, Closing}
Updates == 1 .. MaxUpdates

VARIABLES
    mem,       \* the updates in the cache
    stored,    \* updates so far
    dumpSaving,    \* updates stored whose updatedKey.Add(1) is still to come
    updated,   \* updatedKey
    dumpTaken,     \* what the dump loop has swapped out of it
    dumpPc,        \* per thread that dumps
    dumpSnap,      \* per thread: what it dumps
    mixed,     \* the dumps that share the file with another one
    dumpFile,      \* the updates in the dump file
    intact,    \* the file can be read to its end
    crashes,
    missing,   \* in the cache, and in no dump that was not cut short (history)
    forgone    \* of them, those that a dump which failed was to take (history)

memVars == <<mem, stored, dumpSaving>>
fileVars == <<dumpSnap, mixed, dumpFile, intact>>
dumpVars == <<memVars, updated, dumpTaken, dumpPc, fileVars, crashes, missing, forgone>>

DumpInit ==
    /\ mem = {} /\ stored = 0 /\ dumpSaving = 0
    /\ updated = 0 /\ dumpTaken = 0
    /\ dumpPc = [d \in Dumpers |-> "idle"]
    /\ dumpSnap = [d \in Dumpers |-> {}]
    /\ mixed = {} /\ dumpFile = {} /\ intact = TRUE
    /\ crashes = 0 /\ missing = {} /\ forgone = {}

DumpGoto(d, label) == dumpPc' = [dumpPc EXCEPT ![d] = label]
DumpWriting == {d \in Dumpers : dumpPc[d] \in {"created", "writing"}}

-----------------------------------------------------------------------------
(* Exec and the lazy update: saveRespToCache, then updatedKey.Add(1). *)

DumpUpdate ==
    /\ stored < MaxUpdates
    /\ stored' = stored + 1
    /\ mem' = mem \cup {stored'} /\ missing' = missing \cup {stored'}
    /\ dumpSaving' = dumpSaving + 1
    /\ UNCHANGED <<updated, dumpTaken, dumpPc, fileVars, crashes, forgone>>

CountUpdate ==
    /\ dumpSaving > 0
    /\ dumpSaving' = dumpSaving - 1
    /\ updated' = updated + 1
    /\ UNCHANGED <<mem, stored, dumpTaken, dumpPc, fileVars, crashes, missing, forgone>>

-----------------------------------------------------------------------------
(* The dump loop on a tick: Swap(0), and Add back when it is too few. *)

DumpSwap ==
    /\ dumpPc[Loop] = "idle" /\ dumpPc[Closing] # "closed"
    /\ dumpTaken' = updated /\ updated' = 0
    /\ DumpGoto(Loop, "swapped")
    /\ UNCHANGED <<memVars, fileVars, crashes, missing, forgone>>

AddBack_Store == updated' = dumpTaken
AddBack == updated' = updated + dumpTaken
Enough == dumpTaken >= MinChanges

TooFew ==
    /\ dumpPc[Loop] = "swapped" /\ ~Enough
    /\ AddBack /\ dumpTaken' = 0
    /\ DumpGoto(Loop, "idle")
    /\ UNCHANGED <<memVars, fileVars, crashes, missing, forgone>>

(* /flush: empty the cache, reset the count, dump in the background.        *)
FlushCache(f) ==
    /\ f \in Flushes /\ dumpPc[f] = "idle"
    /\ mem' = {} /\ missing' = {} /\ forgone' = {}
    /\ DumpGoto(f, "flushed")
    /\ UNCHANGED <<stored, dumpSaving, updated, dumpTaken, fileVars, crashes>>

FlushCount(f) ==
    /\ f \in Flushes /\ dumpPc[f] = "flushed"
    /\ updated' = 0
    /\ DumpGoto(f, "reset")
    /\ UNCHANGED <<memVars, dumpTaken, fileVars, crashes, missing, forgone>>

CloseStarts ==
    /\ dumpPc[Closing] = "idle"
    /\ DumpGoto(Closing, "closing")
    /\ UNCHANGED <<memVars, updated, dumpTaken, fileVars, crashes, missing, forgone>>

-----------------------------------------------------------------------------
(* dumpCache *)

MayDump(d) == IF d = Loop THEN dumpPc[d] = "swapped" /\ Enough
              ELSE dumpPc[d] \in {"reset", "closing"}

DumpEnd(d) == IF d = Closing THEN "closed" ELSE IF d = Loop THEN "idle" ELSE "done"

(* os.Create fails: the loop has swapped the count away and does not add it *)
(* back, so what this dump was to take waits for a dump others cause.       *)
CreateFails(d) ==
    /\ MayDump(d)
    /\ forgone' = missing
    /\ dumpTaken' = IF d = Loop THEN 0 ELSE dumpTaken
    /\ DumpGoto(d, DumpEnd(d))
    /\ UNCHANGED <<memVars, updated, fileVars, crashes, missing>>

(* os.Create truncates the file, whoever else is writing it.                *)
DumpCreate(d) ==
    /\ MayDump(d)
    /\ dumpFile' = {} /\ intact' = FALSE
    /\ mixed' = IF DumpWriting = {} THEN mixed ELSE mixed \cup DumpWriting \cup {d}
    /\ dumpTaken' = IF d = Loop THEN 0 ELSE dumpTaken
    /\ DumpGoto(d, "created")
    /\ UNCHANGED <<memVars, updated, dumpSnap, crashes, missing, forgone>>

(* writeDump ranges over the cache. *)
DumpSnapshot(d) ==
    /\ dumpPc[d] = "created"
    /\ dumpSnap' = [dumpSnap EXCEPT ![d] = mem]
    /\ missing' = missing \ mem /\ forgone' = forgone \ mem
    /\ DumpGoto(d, "writing")
    /\ UNCHANGED <<memVars, updated, dumpTaken, mixed, dumpFile, intact, crashes>>

(* Two dumps with their own offsets in one file leave either one or a mix,  *)
(* of which a reader gets the blocks before the first that is broken.       *)
DumpWrite(d) ==
    /\ dumpPc[d] = "writing"
    /\ intact' \in IF d \in mixed THEN BOOLEAN ELSE {TRUE}
    /\ dumpFile' = dumpSnap[d]
    /\ mixed' = mixed \ {d}
    /\ dumpSnap' = [dumpSnap EXCEPT ![d] = {}]
    /\ DumpGoto(d, DumpEnd(d))
    /\ UNCHANGED <<memVars, updated, dumpTaken, crashes, missing, forgone>>

(* A full disk, or a message that cannot be packed: a part is written, and  *)
(* again nothing is added back to the count.                                *)
WriteFails(d) ==
    /\ dumpPc[d] = "writing"
    /\ \E part \in SUBSET dumpSnap[d] : dumpFile' = part
    /\ intact' = FALSE
    /\ mixed' = mixed \ {d}
    /\ missing' = missing \cup (dumpSnap[d] \cap mem)
    /\ forgone' = forgone \cup (dumpSnap[d] \cap mem)
    /\ dumpSnap' = [dumpSnap EXCEPT ![d] = {}]
    /\ DumpGoto(d, DumpEnd(d))
    /\ UNCHANGED <<memVars, updated, dumpTaken, crashes>>

-----------------------------------------------------------------------------
(* The program ends, after Close or at any time, and starts again with what *)
(* loadDump can read.                                                       *)
Readable == IF intact THEN {dumpFile} ELSE SUBSET (dumpFile \cup UNION {dumpSnap[d] : d \in DumpWriting})

DumpRestart ==
    /\ dumpPc[Closing] = "closed" \/ crashes < MaxCrashes
    /\ crashes' = IF dumpPc[Closing] = "closed" THEN crashes ELSE crashes + 1
    /\ dumpPc' = [d \in Dumpers |-> IF d \in Flushes /\ dumpPc[d] # "idle" THEN "gone" ELSE "idle"]
    /\ dumpFile' \in Readable /\ mem' = dumpFile'
    /\ dumpSaving' = 0 /\ updated' = 0 /\ dumpTaken' = 0 /\ missing' = {} /\ forgone' = {}
    /\ dumpSnap' = [d \in Dumpers |-> {}] /\ mixed' = {}
    /\ UNCHANGED <<stored, intact>>

-----------------------------------------------------------------------------
DumpStep(d) == DumpCreate(d) \/ DumpSnapshot(d) \/ DumpWrite(d)

DumpNext ==
    \/ DumpUpdate \/ CountUpdate \/ DumpSwap \/ TooFew \/ CloseStarts \/ DumpRestart
    \/ \E f \in Flushes : FlushCache(f) \/ FlushCount(f)
    \/ \E d \in Dumpers : DumpStep(d) \/ CreateFails(d) \/ WriteFails(d)

DumpSpec == DumpInit /\ [][DumpNext]_dumpVars

(* The ticker ticks and goroutines are scheduled. *)
DumpFairness ==
    /\ WF_dumpVars(CountUpdate) /\ WF_dumpVars(DumpSwap) /\ WF_dumpVars(TooFew)
    /\ \A f \in Flushes : WF_dumpVars(FlushCount(f))
    /\ \A d \in Dumpers : WF_dumpVars(DumpStep(d))

DumpFairSpec == DumpSpec /\ DumpFairness

-----------------------------------------------------------------------------
DumpTypeOK ==
    /\ mem \subseteq Updates /\ forgone \subseteq missing /\ missing \subseteq mem /\ dumpFile \subseteq Updates
    /\ {stored, dumpSaving, updated, dumpTaken, crashes} \subseteq Nat
    /\ dumpPc \in [Dumpers -> {"idle", "swapped", "flushed", "reset", "closing", "created",
                           "writing", "closed", "done", "gone"}]
    /\ dumpSnap \in [Dumpers -> SUBSET Updates]
    /\ mixed \subseteq Dumpers /\ intact \in BOOLEAN

(* Every change that no dump has taken is counted, or a dump that will take *)
(* it is on its way: whatever is stored between Swap and Add, between the   *)
(* flush and the reset of its count, or before Exec has counted it.  Only   *)
(* what a dump that failed was to take is out of the count: dumpCache's     *)
(* error is logged, and what the loop swapped away is not added back.       *)
Due == missing \ forgone
DumpComing == \E d \in Dumpers : dumpPc[d] \in {"flushed", "reset", "closing", "created"}
ChangesCounted == DumpComing \/ Cardinality(Due) <= updated + dumpTaken + dumpSaving

(* As long as the program runs, MinChanges changes do not wait for ever,    *)
(* unless a dump that was to take them has failed.                          *)
DumpsHappen == []<>(Cardinality(Due) < MinChanges \/ dumpPc[Closing] = "closed")
=============================================================================

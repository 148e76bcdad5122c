------------------------------ MODULE RuleSets ------------------------------
(***************************************************************************)
(* plugin/data_provider/sd_set and si_set: sets of domains and of          *)
(* addresses made of downloaded rule sources.  A source is an entry of the *)
(* configuration and a local file.  Every change of the API, every manual  *)
(* update and the background updater ends in reloadAllRules, which nothing *)
(* serialises: each builds a matcher from its own snapshot and stores it.  *)
(*                                                                         *)
(* Threads: one per API call, which goes on as the goroutine it starts;    *)
(* one per source for the downloads of a tick; the updater.                *)
(*                                                                         *)
(* The rules of a source are the version of the list that was downloaded,  *)
(* "part" if they come from a torn file; their number is written as the     *)
(* version that has it, "none" for 0.                                       *)
(***************************************************************************)
EXTENDS Integers, FiniteSets

CONSTANTS
    SetNames,      \* the names of the sources
    SetCalls,      \* the API calls
    Paths,         \* local files a source may name
    Versions,      \* versions of a list that may be downloaded
    SetUpdater,    \* the thread of backgroundUpdater
    Nil            \* no source

ASSUME VersionAssumption ==
    Paths # {} /\ Versions # {} /\ {"none", "part", "torn", "bad"} \cap Versions = {}
ASSUME SetThreadAssumption ==
    SetCalls \cap SetNames = {} /\ {SetUpdater, Nil} \cap (SetCalls \cup SetNames) = {}

VARIABLES
    setKind,   \* "sd" or "si"
    heap,      \* the RuleSource values; one is named for who allocated it
    sources,   \* name -> its RuleSource in heap, or Nil
    config,    \* the configuration file: name -> RuleSource, or Nil
    srs,       \* the local files: path -> "none", "torn" or a version
    matcher,   \* the stored matcher: name -> the rules in it
    held,      \* what the rules of the sequences that use the set match with
    tpc,       \* per thread: where it is
    job,       \* per thread: what it does
    onto,      \* per thread: the name it works on
    path,      \* per thread: the path it has copied from a source
    got,       \* per thread: what it has downloaded, or read from a file
    todo,      \* per thread: sources reloadAllRules has not read yet
    building,  \* per thread: newMatcher
    recount,   \* per thread: rulesCountUpdated
    ticks,     \* the updater has ticked
    setClosed, \* Close has cancelled the context
    behind,    \* since the last reload that began with no other at work, another
               \* has begun beside it, or a change was not followed by one (history)
    unsaved    \* the last save has failed (history)

dataVars == <<setKind, heap, sources>>
diskVars == <<config, srs, unsaved>>
useVars == <<matcher, held>>
jobVars == <<job, onto, path>>
loadVars == <<todo, building, recount, behind>>
endVars == <<ticks, setClosed>>
setVars == <<dataVars, diskVars, useVars, tpc, jobVars, got, loadVars, endVars>>

Blank == [enabled |-> FALSE, file |-> CHOOSE p \in Paths : TRUE, count |-> "none"]
SetThreads == SetCalls \cup SetNames \cup {SetUpdater}
Empty == [n \in SetNames |-> "none"]

Count(rules) == IF rules \in Versions THEN rules ELSE "none"

GoOn(t, label) == tpc' = [tpc EXCEPT ![t] = label]

InUse(n) == sources[n] # Nil
Source(n) == heap[sources[n]]
Wanted == {n \in SetNames : InUse(n) /\ Source(n).enabled}

(* The configuration as saveConfig writes it. *)
Snapshot == [n \in SetNames |-> IF InUse(n) THEN Source(n) ELSE Nil]

(* loadConfig and the first reload, which notes the counts. *)
LoadedFrom(kept, place, on) ==
    /\ heap = [i \in SetNames \cup SetCalls |->
                  IF i \in kept
                  THEN [enabled |-> i \in on, file |-> place[i],
                        count |-> IF i \in on THEN Count(srs[place[i]]) ELSE "none"]
                  ELSE Blank]
    /\ sources = [n \in SetNames |-> IF n \in kept THEN n ELSE Nil]
    /\ config = Snapshot
    /\ matcher = [n \in SetNames |-> IF n \in on THEN srs[place[n]] ELSE "none"]

(* newSdSet, newSiSet; then the sequences that use the set are built and    *)
(* ask it for a matcher.                                                   *)
RuleSetsInit ==
    /\ setKind \in {"sd", "si"}
    /\ srs \in [Paths -> {"none"} \cup {CHOOSE v \in Versions : TRUE}]
    /\ \E kept \in SUBSET SetNames, place \in [SetNames -> Paths] : \E on \in SUBSET kept :
          LoadedFrom(kept, place, on)
    /\ held = matcher
    /\ tpc = [t \in SetThreads |-> IF t \in SetCalls THEN "new" ELSE "idle"]
    /\ job = [t \in SetThreads |-> "none"]
    /\ onto = [t \in SetThreads |-> Nil] /\ path = [t \in SetThreads |-> Nil]
    /\ got = [t \in SetThreads |-> "none"]
    /\ todo = [t \in SetThreads |-> {}]
    /\ building = [t \in SetThreads |-> Empty]
    /\ recount = {}
    /\ ticks = 0 /\ setClosed = FALSE /\ behind = FALSE /\ unsaved = FALSE

-----------------------------------------------------------------------------
(* PUT /config/{name}: change the source in place, its path included, or    *)
(* add one.                                                                *)
PutSource(t, n, on, file) ==
    /\ t \in SetCalls /\ tpc[t] = "new"
    /\ heap' = IF InUse(n)
               THEN [heap EXCEPT ![sources[n]] = [@ EXCEPT !.enabled = on, !.file = file]]
               ELSE [heap EXCEPT ![t] = [enabled |-> on, file |-> file, count |-> "none"]]
    /\ sources' = IF InUse(n) THEN sources ELSE [sources EXCEPT ![n] = t]
    /\ job' = [job EXCEPT ![t] = "put"]
    /\ GoOn(t, "save")
    /\ UNCHANGED <<setKind, diskVars, useVars, onto, path, got, loadVars, endVars>>

(* DELETE /config/{name}: the source under the lock, then its file, then    *)
(* the configuration.                                                      *)
DeleteSource(t, n) ==
    /\ t \in SetCalls /\ tpc[t] = "new" /\ InUse(n)
    /\ sources' = [sources EXCEPT ![n] = Nil]
    /\ job' = [job EXCEPT ![t] = "delete"]
    /\ path' = [path EXCEPT ![t] = Source(n).file]
    /\ GoOn(t, "remove")
    /\ UNCHANGED <<setKind, heap, diskVars, useVars, onto, got, loadVars, endVars>>

(* A file that cannot be removed stays. *)
RemoveFile(t) ==
    /\ tpc[t] = "remove"
    /\ srs' \in {srs, [srs EXCEPT ![path[t]] = "none"]}
    /\ path' = [path EXCEPT ![t] = Nil]
    /\ GoOn(t, "save")
    /\ UNCHANGED <<dataVars, config, unsaved, useVars, job, onto, got, loadVars, endVars>>

(* POST /update/{name} of a source there is: the goroutine it starts.      *)
StartUpdate(t, n) ==
    /\ t \in SetCalls /\ tpc[t] = "new" /\ InUse(n)
    /\ job' = [job EXCEPT ![t] = "update"] /\ onto' = [onto EXCEPT ![t] = n]
    /\ GoOn(t, "start")
    /\ UNCHANGED <<dataVars, diskVars, useVars, path, got, loadVars, endVars>>

(* An invalid body, or a name that is not there. *)
RejectCall(t) ==
    /\ t \in SetCalls /\ tpc[t] = "new"
    /\ GoOn(t, "done")
    /\ UNCHANGED <<dataVars, diskVars, useVars, jobVars, got, loadVars, endVars>>

(* A tick of backgroundUpdater that finds the sources due due; it waits for *)
(* their downloads and then reloads, whatever became of them.               *)
Tick(due) ==
    /\ tpc[SetUpdater] = "idle" /\ ~setClosed /\ ticks = 0
    /\ due # {} /\ due \subseteq Wanted
    /\ ticks' = 1
    /\ tpc' = [t \in SetThreads |-> IF t \in due THEN "start"
                                    ELSE IF t = SetUpdater THEN "await" ELSE tpc[t]]
    /\ onto' = [t \in SetThreads |-> IF t \in due THEN t ELSE onto[t]]
    /\ job' = [t \in SetThreads |-> IF t \in due THEN "auto" ELSE job[t]]
    /\ UNCHANGED <<dataVars, diskVars, useVars, path, got, loadVars, setClosed>>

DownloadsOver ==
    /\ tpc[SetUpdater] = "await" /\ \A n \in SetNames : tpc[n] = "idle"
    /\ GoOn(SetUpdater, "reload")
    /\ UNCHANGED <<dataVars, diskVars, useVars, jobVars, got, loadVars, endVars>>

UpdaterEnds ==
    /\ tpc[SetUpdater] = "idle" /\ setClosed
    /\ GoOn(SetUpdater, "done")
    /\ UNCHANGED <<dataVars, diskVars, useVars, jobVars, got, loadVars, endVars>>

CloseSet ==
    /\ ~setClosed /\ setClosed' = TRUE
    /\ UNCHANGED <<dataVars, diskVars, useVars, tpc, jobVars, got, loadVars, ticks>>

(* Where a thread goes when it has no more to do. *)
Finish(t) == IF t \in SetCalls THEN "done" ELSE "idle"

-----------------------------------------------------------------------------
(* downloadAndUpdateLocalFile copies where the file is before it downloads. *)
(* The list is validated before it is written, but os.WriteFile truncates   *)
(* the file before it fills it.                                            *)
BeginFetch(t) ==
    /\ tpc[t] = "start" /\ InUse(onto[t])
    /\ path' = [path EXCEPT ![t] = Source(onto[t]).file]
    /\ GoOn(t, "fetch")
    /\ UNCHANGED <<dataVars, diskVars, useVars, job, onto, got, loadVars, endVars>>

Fetched(t, v) ==
    /\ tpc[t] = "fetch" /\ ~setClosed
    /\ got' = [got EXCEPT ![t] = v]
    /\ GoOn(t, "truncate")
    /\ UNCHANGED <<dataVars, diskVars, useVars, jobVars, loadVars, endVars>>

(* No such source any more, no answer, or not a list.  A manual update does *)
(* not reload then.                                                         *)
FetchFails(t) ==
    /\ tpc[t] \in {"start", "fetch"}
    /\ path' = [path EXCEPT ![t] = Nil]
    /\ GoOn(t, Finish(t))
    /\ UNCHANGED <<dataVars, diskVars, useVars, job, onto, got, loadVars, endVars>>

TruncateFile(t) ==
    /\ tpc[t] = "truncate"
    /\ srs' = [srs EXCEPT ![path[t]] = "torn"]
    /\ \E fails \in BOOLEAN : GoOn(t, IF fails THEN Finish(t) ELSE "write")
    /\ UNCHANGED <<dataVars, config, unsaved, useVars, jobVars, got, loadVars, endVars>>

WriteFile(t) ==
    /\ tpc[t] = "write"
    /\ srs' = [srs EXCEPT ![path[t]] = got[t]]
    /\ path' = [path EXCEPT ![t] = Nil]
    /\ GoOn(t, "note")
    /\ UNCHANGED <<dataVars, config, unsaved, useVars, job, onto, got, loadVars, endVars>>

SetCount(n, c) == IF InUse(n) THEN [heap EXCEPT ![sources[n]].count = c] ELSE heap
NoteCount(t) ==
    /\ tpc[t] = "note"
    /\ heap' = SetCount(onto[t], Count(got[t]))
    /\ got' = [got EXCEPT ![t] = "none"]
    /\ GoOn(t, "save")
    /\ UNCHANGED <<setKind, sources, diskVars, useVars, jobVars, loadVars, endVars>>

(* saveConfig holds the lock from its snapshot to the rename.  A handler    *)
(* whose save fails answers 500 and does not reload; the others only log.   *)
GivesUp(t, ok) == ~ok /\ job[t] \notin {"update", "auto"}
AfterSave(t, ok) ==
    IF GivesUp(t, ok) THEN "done" ELSE IF job[t] = "auto" THEN "idle" ELSE "reload"
SaveConfig(t, ok) ==
    /\ tpc[t] = "save"
    /\ config' = IF ok THEN Snapshot ELSE config
    /\ unsaved' = ~ok
    /\ behind' = (behind \/ GivesUp(t, ok))
    /\ GoOn(t, AfterSave(t, ok))
    /\ UNCHANGED <<dataVars, srs, useVars, jobVars, got, todo, building, recount, endVars>>

-----------------------------------------------------------------------------
(* reloadAllRules *)
Reloading(t) == tpc[t] \in {"reading", "counting"}

BeginReload(t) ==
    /\ tpc[t] = "reload"
    /\ todo' = [todo EXCEPT ![t] = {<<n, sources[n]>> : n \in Wanted}]
    /\ behind' = \E u \in SetThreads : Reloading(u)
    /\ job' = [job EXCEPT ![t] = "none"] /\ onto' = [onto EXCEPT ![t] = Nil]
    /\ GoOn(t, "reading")
    /\ UNCHANGED <<dataVars, diskVars, useVars, path, got, building, recount, endVars>>

(* What a file gives: a torn one may still start like a list.              *)
Parsed(file) == IF srs[file] = "torn" THEN {"bad", "part"} ELSE {srs[file]}

(* The snapshot has the source itself, so its path is read when it is due.  *)
Seen(t, n) == CHOOSE s \in todo[t] : s[1] = n
ReadSource(t, n) ==
    /\ tpc[t] = "reading" /\ \E s \in todo[t] : s[1] = n
    /\ \E rules \in Parsed(heap[Seen(t, n)[2]].file) :
          /\ got' = [got EXCEPT ![t] = rules]
          /\ building' = [building EXCEPT ![t][n] = IF rules = "bad" THEN "none" ELSE rules]
    /\ onto' = [onto EXCEPT ![t] = n]
    /\ GoOn(t, "counting")
    /\ UNCHANGED <<dataVars, diskVars, useVars, job, path, todo, recount, behind, endVars>>

(* Whether the count is to be changed: sd_set looks at the source of that   *)
(* name and leaves it when the file is not a list; si_set looks, without    *)
(* the lock, at the one of its snapshot.                                    *)
CountDiffers(t, n) ==
    /\ InUse(n)
    /\ setKind = "sd" => got[t] # "bad" /\ Source(n).count # Count(got[t])
    /\ setKind = "si" => heap[Seen(t, n)[2]].count # Count(got[t])
CountSource(t) ==
    LET n == onto[t]
    IN  /\ tpc[t] = "counting"
        /\ IF CountDiffers(t, n)
           THEN heap' = SetCount(n, Count(got[t])) /\ recount' = recount \cup {t}
           ELSE UNCHANGED <<heap, recount>>
        /\ todo' = [todo EXCEPT ![t] = @ \ {Seen(t, n)}]
        /\ onto' = [onto EXCEPT ![t] = Nil] /\ got' = [got EXCEPT ![t] = "none"]
        /\ GoOn(t, "reading")
        /\ UNCHANGED <<setKind, sources, diskVars, useVars, job, path, building, behind, endVars>>

(* rulesCountUpdated *)
NeedsSave(t) == t \in recount

(* matcher.Store.  GetIPMatcher of si_set has given the sequences the list  *)
(* of the moment they were built.                                           *)
StoreRules(t) ==
    /\ tpc[t] = "reading" /\ todo[t] = {}
    /\ matcher' = building[t]
    /\ held' = IF setKind = "sd" THEN building[t] ELSE held
    /\ building' = [building EXCEPT ![t] = Empty]
    /\ GoOn(t, IF NeedsSave(t) THEN "saveCounts" ELSE Finish(t))
    /\ UNCHANGED <<dataVars, diskVars, jobVars, got, todo, recount, behind, endVars>>

SaveCounts(t, ok) ==
    /\ tpc[t] = "saveCounts"
    /\ config' = IF ok THEN Snapshot ELSE config
    /\ unsaved' = ~ok
    /\ recount' = recount \ {t}
    /\ GoOn(t, Finish(t))
    /\ UNCHANGED <<dataVars, srs, useVars, jobVars, got, todo, building, behind, endVars>>

-----------------------------------------------------------------------------
SetStep(t) ==
    \/ RemoveFile(t) \/ FetchFails(t) \/ TruncateFile(t) \/ WriteFile(t) \/ NoteCount(t)
    \/ BeginFetch(t) \/ \E v \in Versions : Fetched(t, v)
    \/ \E ok \in BOOLEAN : SaveConfig(t, ok) \/ SaveCounts(t, ok)
    \/ BeginReload(t) \/ CountSource(t) \/ StoreRules(t)
    \/ \E n \in SetNames : ReadSource(t, n)

SetCall(t) ==
    \/ RejectCall(t)
    \/ \E n \in SetNames :
          \/ DeleteSource(t, n) \/ StartUpdate(t, n)
          \/ \E on \in BOOLEAN, file \in Paths : PutSource(t, n, on, file)

RuleSetsNext ==
    \/ \E t \in SetThreads : SetStep(t) \/ SetCall(t)
    \/ \E due \in SUBSET SetNames : Tick(due)
    \/ DownloadsOver \/ UpdaterEnds \/ CloseSet

RuleSetsSpec == RuleSetsInit /\ [][RuleSetsNext]_setVars

-----------------------------------------------------------------------------
NothingRuns == \A t \in SetThreads : tpc[t] \in {"new", "idle", "done"}

(* What is on disk is what was configured once nobody is between a change   *)
(* and its save and the last save has not failed, whatever the order of     *)
(* handlers, downloads and reloads: saveConfig snapshots, writes and        *)
(* renames under one lock.                                                 *)
SavesInSight(t) ==
    tpc[t] \in {"remove", "save", "saveCounts"} \/ (Reloading(t) /\ t \in recount)
SetConfigFollows ==
    ~unsaved /\ (\A t \in SetThreads : ~SavesInSight(t)) => config = Snapshot

(* When all is quiet the stored matcher, which is the one sd_set answers    *)
(* queries with, has exactly the enabled sources and what their files hold, *)
(* unless since the last reload that began alone another ran beside it (the *)
(* older one may then have stored its matcher last), or a handler gave up   *)
(* when its save failed.  A file of which a write has failed counts for     *)
(* nothing.  In si_set this says only what the matcher is that nobody asks  *)
(* for again: see ReloadsReachMatchers.                                    *)
File(n) == Source(n).file
Exact(n, m) == IF n \in Wanted THEN srs[File(n)] # "torn" => m[n] = srs[File(n)] ELSE m[n] = "none"
LoadedUnlessOverlapped ==
    NothingRuns /\ ~behind =>
        /\ \A n \in SetNames : Exact(n, matcher)
        /\ setKind = "sd" => held = matcher

(* What a reload has stored is what the sequences match with (si_set.go, of *)
(* PUT: "Trigger a reload in the background to apply changes"; of           *)
(* GetIPMatcher: "provides the currently active IP matcher").               *)
ReloadsReachMatchers == held = matcher
=============================================================================

---------------------------- MODULE AdguardRule ----------------------------
(***************************************************************************)
(* plugin/executable/adguard: rule lists that are downloaded to files and  *)
(* loaded into matchers.  API calls change the lists while downloads,      *)
(* debounced reloads and saves of the config file run in goroutines of     *)
(* their own.                                                              *)
(*                                                                         *)
(* The content of a rule file is its version, 0 for no file; a matcher is  *)
(* the versions it was built from.  p.mu is read-locked for all of a save, *)
(* so that what takes p.mu.Lock() carries the guard NoSavers.              *)
(*                                                                         *)
(* A variant named X_Y is X with a bug, for the mutation tests.            *)
(***************************************************************************)
EXTENDS Naturals, FiniteSets

CONSTANTS
    Rules,      \* rule IDs
    Calls,      \* API calls and ticks of the updater, each made once
    CountSavers, \* the goroutines updateAllRuleCounts may start
    None         \* no rule, no file

(* Rule maps, with None for a rule that is not there, and what a config file *)
(* may hold: all of it, or nothing yet.                                     *)
Entries(counts) == [enabled : BOOLEAN, count : counts, updated : counts]
Maps(counts) == [Rules -> Entries(counts) \cup {None}]
ConfigData(counts) == [rules : Maps(counts), whole : {TRUE}] \cup {[rules |-> None, whole |-> FALSE]}

ASSUME DistinctAssumption ==
    /\ (Calls \cup CountSavers) \cap (Calls \X Rules) = {} /\ CountSavers \cap Calls = {}
    /\ None \notin Rules \cup Entries(Nat) \cup ConfigData(Nat) \cup {"tmp", "config", "gone"}

VARIABLES
    onlineRules, \* in memory: rule -> whether it is enabled, its RuleCount, and how
                 \* often it was downloaded, for LastUpdated
    used,        \* the IDs given out: uuid.New never gives one again
    adFile,        \* localPath of each rule
    active,      \* allowMatcher and denyMatcher
    adConfig, tmp, \* config.json and config.json.tmp
    adPc, next,    \* per call: where it is, and what follows its save
    dl,          \* per download: where it is
    adSaving, adSnap, inode, \* per saver: where it is, its data, the file it has open
    adFailed,    \* a save has met an error of the file system and no whole file has
                 \* been renamed to config.json since (history)
    countSave,   \* the CountSavers that are at work
    reloadID, timers, waiting,  \* timers that are pending; reloads that wait for reloadMu
    unloaded,    \* a call that changed something failed, and no reload has begun since
                 \* (history)
    reload, toRead, adBuilding,   \* the reload that holds reloadMu
    adClosed       \* p.ctx is canceled

ruleVars == <<onlineRules, used>>
callVars == <<adPc, next>>
saveVars == <<adConfig, tmp, adSaving, adSnap, inode, adFailed>>
timerVars == <<reloadID, timers, waiting, unloaded>>
reloadVars == <<reload, toRead, adBuilding>>
adVars == <<ruleVars, adFile, active, callVars, dl, saveVars, countSave, timerVars,
          reloadVars, adClosed>>

Downloads == Calls \X Rules
Savers == Calls \cup Downloads \cup CountSavers

Has(r) == onlineRules[r] # None
Enabled(r) == Has(r) /\ onlineRules[r].enabled
Expected == [r \in Rules |-> IF Enabled(r) THEN adFile[r] ELSE 0]

(* newAdguardRule has returned: the rules, counts and matchers are those of *)
(* the files.                                                               *)
AdInit ==
    /\ adFile \in [Rules -> {0, 1}]
    /\ onlineRules \in Maps({0, 1})
    /\ \A r \in Rules : IF Has(r) THEN onlineRules[r].count = adFile[r] /\ onlineRules[r].updated = 0
                                  ELSE adFile[r] = 0
    /\ used = {r \in Rules : Has(r)}
    /\ active = Expected
    /\ adConfig = [rules |-> onlineRules, whole |-> TRUE] /\ tmp = None
    /\ adPc = [c \in Calls |-> "idle"] /\ next = [c \in Calls |-> "done"]
    /\ dl = [d \in Downloads |-> "none"]
    /\ adSaving = [s \in Savers |-> "no"]
    /\ adSnap = [s \in Savers |-> None] /\ inode = [s \in Savers |-> None]
    /\ adFailed = FALSE /\ countSave = {}
    /\ reloadID = 0 /\ timers = {} /\ waiting = 0 /\ unloaded = FALSE
    /\ reload = "idle" /\ toRead = {} /\ adBuilding = [r \in Rules |-> 0]
    /\ adClosed = FALSE

AdGoto(c, label) == adPc' = [adPc EXCEPT ![c] = label]

NoSavers == \A s \in Savers : adSaving[s] = "no"

-----------------------------------------------------------------------------
(* The API, and the updater's tick *)

AdPost(c, r, on) ==
    /\ adPc[c] = "idle" /\ r \notin used /\ NoSavers
    /\ onlineRules' = [onlineRules EXCEPT ![r] = [enabled |-> on, count |-> 0, updated |-> 0]]
    /\ used' = used \cup {r}
    /\ dl' = [dl EXCEPT ![<<c, r>>] = IF on THEN "begin" ELSE "none"]
    /\ next' = [next EXCEPT ![c] = IF on THEN "fetch" ELSE "done"]
    /\ AdGoto(c, "save")
    /\ UNCHANGED <<adFile, active, saveVars, countSave, timerVars, reloadVars, adClosed>>

AdPut(c, r, on) ==
    /\ adPc[c] = "idle" /\ Has(r) /\ NoSavers
    /\ onlineRules' = [onlineRules EXCEPT ![r].enabled = on]
    /\ next' = [next EXCEPT ![c] = "trigger"]
    /\ AdGoto(c, "save")
    /\ UNCHANGED <<used, adFile, active, dl, saveVars, countSave, timerVars, reloadVars, adClosed>>

Delete(c, r) ==
    /\ adPc[c] = "idle" /\ Has(r) /\ NoSavers
    /\ onlineRules' = [onlineRules EXCEPT ![r] = None]
    /\ dl' = [dl EXCEPT ![<<c, r>>] = "remove"]
    /\ next' = [next EXCEPT ![c] = "trigger"]
    /\ AdGoto(c, "remove")
    /\ UNCHANGED <<used, adFile, active, saveVars, countSave, timerVars, reloadVars, adClosed>>

AdRemoveFile(c, r) ==
    /\ adPc[c] = "remove" /\ dl[<<c, r>>] = "remove"
    /\ adFile' = [adFile EXCEPT ![r] = 0]
    /\ dl' = [dl EXCEPT ![<<c, r>>] = "none"]
    /\ AdGoto(c, "save")
    /\ UNCHANGED <<ruleVars, active, next, saveVars, countSave, timerVars, reloadVars, adClosed>>

(* /update takes all enabled rules, the updater those that are due.         *)
AdUpdate(c, due) ==
    /\ adPc[c] = "idle" /\ due \subseteq {r \in Rules : Enabled(r)}
    /\ dl' = [d \in Downloads |-> IF d[1] = c /\ d[2] \in due THEN "begin" ELSE dl[d]]
    /\ AdGoto(c, "fetch")
    /\ UNCHANGED <<ruleVars, adFile, active, next, saveVars, countSave, timerVars,
                   reloadVars, adClosed>>

(* wg.Wait, and then the reload. *)
AdFetched(c) ==
    /\ adPc[c] = "fetch" /\ \A r \in Rules : dl[<<c, r>>] = "none"
    /\ AdGoto(c, "trigger")
    /\ UNCHANGED <<ruleVars, adFile, active, next, dl, saveVars, countSave, timerVars,
                   reloadVars, adClosed>>

-----------------------------------------------------------------------------
(* downloadRule *)

DownloadBegins(c, r) ==
    /\ adPc[c] = "fetch" /\ dl[<<c, r>>] = "begin"
    /\ dl' = [dl EXCEPT ![<<c, r>>] = IF Has(r) THEN "get" ELSE "none"]
    /\ UNCHANGED <<ruleVars, adFile, active, callVars, saveVars, countSave, timerVars,
                   reloadVars, adClosed>>

DownloadFails(c, r) ==
    /\ dl[<<c, r>>] = "get"
    /\ dl' = [dl EXCEPT ![<<c, r>>] = "none"]
    /\ UNCHANGED <<ruleVars, adFile, active, callVars, saveVars, countSave, timerVars,
                   reloadVars, adClosed>>

(* os.Rename to localPath, whether the rule is still there or not; then, if  *)
(* it is, LastUpdated, and a save.                                         *)
Downloaded(c, r) ==
    /\ dl[<<c, r>>] = "get" /\ ~adClosed
    /\ adFile' = [adFile EXCEPT ![r] = @ + 1]
    /\ dl' = [dl EXCEPT ![<<c, r>>] = "stamp"]
    /\ UNCHANGED <<ruleVars, active, callVars, saveVars, countSave, timerVars,
                   reloadVars, adClosed>>

Stamp(c, r) ==
    /\ dl[<<c, r>>] = "stamp" /\ NoSavers
    /\ onlineRules' = IF Has(r) THEN [onlineRules EXCEPT ![r].updated = @ + 1] ELSE onlineRules
    /\ dl' = [dl EXCEPT ![<<c, r>>] = "save"]
    /\ UNCHANGED <<used, adFile, active, callVars, saveVars, countSave, timerVars,
                   reloadVars, adClosed>>

-----------------------------------------------------------------------------
(* saveConfig *)

MustSave(s) == IF s \in Calls THEN adPc[s] = "save"
               ELSE IF s \in Downloads THEN dl[s] = "save" ELSE s \in countSave

(* p.mu.RLock, then the data. *)
SaveBegins(s) ==
    /\ MustSave(s) /\ adSaving[s] = "no"
    /\ adSaving' = [adSaving EXCEPT ![s] = "open"]
    /\ adSnap' = [adSnap EXCEPT ![s] = onlineRules]
    /\ UNCHANGED <<ruleVars, adFile, active, callVars, dl, adConfig, tmp, inode, adFailed, countSave,
                   timerVars, reloadVars, adClosed>>

(* os.WriteFile opens the temporary file, which all saves share ... *)
SaveOpens(s) ==
    /\ adSaving[s] = "open"
    /\ adSaving' = [adSaving EXCEPT ![s] = "write"]
    /\ tmp' = [rules |-> None, whole |-> FALSE]
    /\ inode' = [inode EXCEPT ![s] = "tmp"]
    /\ UNCHANGED <<ruleVars, adFile, active, callVars, dl, adConfig, adSnap, adFailed, countSave,
                   timerVars, reloadVars, adClosed>>

(* ... and writes it, by whatever name it goes now.                         *)
SaveWrites(s) ==
    LET data == [rules |-> adSnap[s], whole |-> TRUE] IN
    /\ adSaving[s] = "write"
    /\ adSaving' = [adSaving EXCEPT ![s] = "rename"]
    /\ tmp' = IF inode[s] = "tmp" THEN data ELSE tmp
    /\ adConfig' = IF inode[s] = "config" THEN data ELSE adConfig
    /\ inode' = [inode EXCEPT ![s] = None]
    /\ UNCHANGED <<ruleVars, adFile, active, callVars, dl, adSnap, adFailed, countSave, timerVars,
                   reloadVars, adClosed>>

(* saveConfig returns: a call goes on or, on an error, answers 500.         *)
SaveReturns(s, ok) ==
    /\ adSaving' = [adSaving EXCEPT ![s] = "no"]
    /\ adSnap' = [adSnap EXCEPT ![s] = None]
    /\ adPc' = IF s \in Calls THEN [adPc EXCEPT ![s] = IF ok THEN next[s] ELSE "failed"] ELSE adPc
    /\ dl' = IF s \in Downloads THEN [dl EXCEPT ![s] = "none"] ELSE dl
    /\ countSave' = countSave \ {s}
    /\ unloaded' = (unloaded \/ (~ok /\ s \in Calls /\ next[s] # "done"))
    /\ UNCHANGED <<ruleVars, adFile, active, next, reloadID, timers, waiting, reloadVars, adClosed>>

Renamed(i) == CASE i = "tmp" -> "config" [] i = "config" -> "gone" [] OTHER -> i

SaveRenames(s) ==
    /\ adSaving[s] = "rename" /\ tmp # None
    /\ adConfig' = tmp /\ tmp' = None
    /\ inode' = [t \in Savers |-> Renamed(inode[t])]
    /\ adFailed' = (adFailed /\ ~tmp.whole)
    /\ SaveReturns(s, TRUE)

(* Another save has renamed the file away. *)
SaveFails(s) ==
    /\ adSaving[s] = "rename" /\ tmp = None
    /\ UNCHANGED <<adConfig, tmp, inode, adFailed>>
    /\ SaveReturns(s, FALSE)

(* The file system fails: what has been opened stays as it is.  Part of the *)
(* data makes no file whole, and tears none: all who are in saveConfig hold *)
(* p.mu and write the same bytes.                                          *)
SaveError(s) ==
    /\ adSaving[s] \in {"open", "write", "rename"}
    /\ inode' = [inode EXCEPT ![s] = None]
    /\ adFailed' = TRUE
    /\ UNCHANGED <<adConfig, tmp>>
    /\ SaveReturns(s, FALSE)

-----------------------------------------------------------------------------
(* triggerReload and reloadAllRules *)

Trigger(c) ==
    /\ adPc[c] = "trigger"
    /\ reloadID' = reloadID + 1
    /\ timers' = timers \cup {reloadID'}
    /\ AdGoto(c, "done")
    /\ UNCHANGED <<ruleVars, adFile, active, next, dl, saveVars, countSave, waiting, unloaded,
                   reloadVars, adClosed>>

Newest_Before(id) == id < reloadID
Newest_WhenIdle(id) == reload = "idle" /\ waiting = 0
Newest(id) == id = reloadID

Fire(id) ==
    /\ id \in timers
    /\ timers' = timers \ {id}
    /\ waiting' = IF ~adClosed /\ Newest(id) THEN waiting + 1 ELSE waiting
    /\ UNCHANGED <<ruleVars, adFile, active, callVars, dl, saveVars, countSave, reloadID,
                   unloaded, reloadVars, adClosed>>

ReloadBegins ==
    /\ reload = "idle" /\ waiting > 0
    /\ waiting' = waiting - 1 /\ unloaded' = FALSE
    /\ reload' = "count"
    /\ toRead' = {r \in Rules : Enabled(r)}
    /\ adBuilding' = [r \in Rules |-> 0]
    /\ UNCHANGED <<ruleVars, adFile, active, callVars, dl, saveVars, countSave, reloadID,
                   timers, adClosed>>

(* updateAllRuleCounts *)
Counted == [r \in Rules |-> IF Has(r) THEN [onlineRules[r] EXCEPT !.count = adFile[r]] ELSE None]
CountChanged == Counted # onlineRules

UpdateCounts ==
    /\ reload = "count" /\ NoSavers
    /\ onlineRules' = Counted
    /\ IF CountChanged THEN \E g \in CountSavers \ countSave : countSave' = countSave \cup {g}
       ELSE UNCHANGED countSave
    /\ reload' = "read"
    /\ UNCHANGED <<used, adFile, active, callVars, dl, saveVars, timerVars, toRead,
                   adBuilding, adClosed>>

ReadFile(r) ==
    /\ reload = "read" /\ r \in toRead
    /\ toRead' = toRead \ {r}
    /\ adBuilding' = [adBuilding EXCEPT ![r] = adFile[r]]
    /\ UNCHANGED <<ruleVars, adFile, active, callVars, dl, saveVars, countSave, timerVars,
                   reload, adClosed>>

AdSwap ==
    /\ reload = "read" /\ toRead = {} /\ NoSavers
    /\ active' = adBuilding
    /\ adBuilding' = [r \in Rules |-> 0]
    /\ reload' = "idle"
    /\ UNCHANGED <<ruleVars, adFile, callVars, dl, saveVars, countSave, timerVars, toRead,
                   adClosed>>

Close ==
    /\ ~adClosed /\ adClosed' = TRUE
    /\ UNCHANGED <<ruleVars, adFile, active, callVars, dl, saveVars, countSave, timerVars,
                   reloadVars>>

-----------------------------------------------------------------------------
Request(c) ==
    \/ \E r \in Rules : Delete(c, r) \/ \E on \in BOOLEAN : AdPost(c, r, on) \/ AdPut(c, r, on)
    \/ \E due \in SUBSET Rules : AdUpdate(c, due)
CallStep(c) == AdFetched(c) \/ Trigger(c) \/ \E r \in Rules : AdRemoveFile(c, r)
DownloadStep(c, r) ==
    DownloadBegins(c, r) \/ DownloadFails(c, r) \/ Downloaded(c, r) \/ Stamp(c, r)
SaveStep(s) ==
    \/ SaveBegins(s) \/ SaveOpens(s) \/ SaveWrites(s)
    \/ SaveRenames(s) \/ SaveFails(s) \/ SaveError(s)
ReloadStep == ReloadBegins \/ UpdateCounts \/ AdSwap \/ \E r \in Rules : ReadFile(r)

AdNext ==
    \/ \E c \in Calls : Request(c) \/ CallStep(c) \/ \E r \in Rules : DownloadStep(c, r)
    \/ \E s \in Savers : SaveStep(s)
    \/ \E id \in timers : Fire(id)
    \/ ReloadStep \/ Close

AdSpec == AdInit /\ [][AdNext]_adVars

(* Goroutines are scheduled, timers fire, a download ends by its timeout.   *)
AdFairness ==
    /\ WF_adVars(ReloadStep) /\ WF_adVars(\E id \in timers : Fire(id))
    /\ \A c \in Calls : WF_adVars(CallStep(c)) /\ \A r \in Rules : WF_adVars(DownloadStep(c, r))
    /\ \A s \in Savers : WF_adVars(SaveStep(s))

AdFairSpec == AdSpec /\ AdFairness

-----------------------------------------------------------------------------
AdVersions == 0 .. Cardinality(Calls) + 1

AdTypeOK ==
    /\ onlineRules \in Maps(AdVersions) /\ used \subseteq Rules
    /\ {adFile, active, adBuilding} \subseteq [Rules -> AdVersions]
    /\ adConfig \in ConfigData(AdVersions) /\ tmp \in ConfigData(AdVersions) \cup {None}
    /\ adPc \in [Calls -> {"idle", "remove", "save", "fetch", "trigger", "done", "failed"}]
    /\ next \in [Calls -> {"fetch", "trigger", "done"}]
    /\ dl \in [Downloads -> {"none", "remove", "begin", "get", "stamp", "save"}]
    /\ adSaving \in [Savers -> {"no", "open", "write", "rename"}]
    /\ adSnap \in [Savers -> Maps(AdVersions) \cup {None}]
    /\ inode \in [Savers -> {None, "tmp", "config", "gone"}]
    /\ reloadID \in 0 .. Cardinality(Calls) /\ timers \subseteq 1 .. reloadID
    /\ waiting \in 0 .. Cardinality(Calls)
    /\ reload \in {"idle", "count", "read"} /\ toRead \subseteq Rules
    /\ countSave \subseteq CountSavers
    /\ {adClosed, adFailed, unloaded} \subseteq BOOLEAN

(* The API has answered what it was asked, every reload that was triggered  *)
(* is over, and a call whose save failed has been followed by a reload.     *)
Quiet ==
    /\ \A c \in Calls : adPc[c] \in {"idle", "done", "failed"}
    /\ timers = {} /\ waiting = 0 /\ reload = "idle" /\ ~adClosed /\ ~unloaded

(* Then the matchers are those of the enabled rules and their files, in     *)
(* whatever order downloads, deletes, superseded timers and reloads ran.    *)
ChangesLoaded == Quiet => active = Expected

(* And so they are in the end.                                             *)
LoadedInTheEnd == <>[](adClosed \/ unloaded \/ active = Expected)

(* config.json holds the rules in memory whenever nothing is left to save,  *)
(* although all saves share one temporary file that others rename under     *)
(* them, and is never torn by a save that is over; after an error of the    *)
(* file system, as soon as a whole file has been put in its place again.    *)
Saved == \A s \in Savers : ~MustSave(s) /\ adSaving[s] = "no"
ConfigFollows ==
    ~adFailed =>
        /\ Saved /\ (\A c \in Calls : adPc[c] # "remove") => adConfig.rules = onlineRules
        /\ ~adConfig.whole => \E s \in Savers : inode[s] = "config"
=============================================================================

------------------------------ MODULE Requery ------------------------------
(***************************************************************************)
(* plugin/executable/requery: a task that saves the rules learned so far,  *)
(* adds their domains to a backup file, flushes the rules and queries      *)
(* every domain again.  It is started by the API or by a timer of the      *)
(* schedule and cancelled by the API; its state is kept in a config file   *)
(* that is written through a temporary one.                                *)
(*                                                                         *)
(* The rules and their files belong to domain_output, which the task calls *)
(* through the URLs of url_actions.                                        *)
(*                                                                         *)
(* A variant named X_Y is X with a bug, for the mutation tests.            *)
(***************************************************************************)
EXTENDS Naturals, FiniteSets

CONSTANTS
    Tasks,       \* the goroutines that run a task, each of them again and again
    Domains,     \* the domains that can be learned
    OldDomains,  \* domains an earlier run of the program may have left in the backup
    NoTask,      \* a nil taskCancel
    MaxTimers    \* bound: timers pending or firing at a time

ASSUME NoTaskAssumption == NoTask \notin Tasks
ASSUME TimerAssumption == MaxTimers \in Nat \ {0}

VARIABLES
    taskState,   \* config.Status.TaskState
    enabled,     \* config.Scheduler: it is enabled and valid
    disk,        \* the two in the config file
    taskCancel,  \* the task whose ctx taskCancel cancels
    ctxDone,     \* the tasks whose ctx is canceled
    pc, outcome, merged,  \* per task: its step, how it ended, the domains it has merged
    timers, firing,       \* AfterFunc timers that are pending; those past jobFunc
    rules, files, backup, \* domains: rules learned, rule files, the backup file
    writing,     \* the copies of the rules domain_output's worker is writing: one at most
    overlapped   \* a task has begun before another was cleaned up (history)

statusVars == <<taskState, enabled, disk>>
taskVars == <<ctxDone, pc, outcome, merged>>
timerVars == <<timers, firing>>
dataVars == <<rules, files, backup, writing>>
vars == <<statusVars, taskCancel, taskVars, timerVars, dataVars, overlapped>>

Working == {"save", "merge", "write", "flush", "query", "saveAgain", "exit"}
Active == {t \in Tasks : pc[t] \in Working}
AtWork == {t \in Active : pc[t] # "exit"}

Init ==
    /\ taskState = "idle" /\ enabled \in BOOLEAN
    /\ disk = [state |-> "idle", enabled |-> enabled]
    /\ taskCancel = NoTask /\ ctxDone = {}
    /\ pc = [t \in Tasks |-> "none"]
    /\ outcome = [t \in Tasks |-> "idle"]
    /\ merged = [t \in Tasks |-> {}]
    /\ timers = (IF enabled THEN 1 ELSE 0) /\ firing = 0
    /\ rules = {} /\ files = {} /\ backup \in {{}, OldDomains} /\ writing = {}
    /\ overlapped = FALSE

Goto(t, label) == pc' = [pc EXCEPT ![t] = label]

(* saveConfigUnlocked: all of the config or, when it fails, nothing. *)
SaveConfig == disk' \in {disk, [state |-> taskState', enabled |-> enabled']}

-----------------------------------------------------------------------------
(* Starting a task *)

(* The check of handleTriggerTask and of jobFunc. *)
Idle == taskState # "running"

Spawn(t) ==
    /\ pc[t] = "none"
    /\ Goto(t, "spawned")
    /\ taskCancel' = t
    /\ ctxDone' = ctxDone \ {t}

Trigger(t) ==
    /\ Idle /\ Spawn(t)
    /\ UNCHANGED <<statusVars, outcome, merged, timerVars, dataVars, overlapped>>

(* A timer fires: jobFunc, then rescheduleTasks. *)
TimerStarts(t) ==
    /\ timers > 0 /\ Idle /\ Spawn(t)
    /\ timers' = timers - 1 /\ firing' = firing + 1
    /\ UNCHANGED <<statusVars, outcome, merged, dataVars, overlapped>>

TimerSkips ==
    /\ timers > 0 /\ ~Idle
    /\ timers' = timers - 1 /\ firing' = firing + 1
    /\ UNCHANGED <<statusVars, taskCancel, taskVars, dataVars, overlapped>>

(* setupScheduler: the entries it removes are those of a cron that has none. *)
Scheduled(on) == IF on THEN 1 ELSE 0

Reschedule ==
    /\ firing > 0
    /\ firing' = firing - 1
    /\ timers' = timers + Scheduled(enabled)
    /\ UNCHANGED <<statusVars, taskCancel, taskVars, dataVars, overlapped>>

UpdateScheduler(on) ==
    /\ timers + firing + Scheduled(on) <= MaxTimers
    /\ enabled' = on
    /\ UNCHANGED taskState
    /\ \/ /\ disk' = [state |-> taskState, enabled |-> on]
          /\ timers' = timers + Scheduled(on)
       \/ UNCHANGED <<disk, timers>>
    /\ UNCHANGED <<taskCancel, taskVars, firing, dataVars, overlapped>>

CancelTask ==
    /\ taskState = "running" /\ taskCancel # NoTask
    /\ ctxDone' = ctxDone \cup {taskCancel}
    /\ UNCHANGED <<statusVars, taskCancel, pc, outcome, merged, timerVars, dataVars, overlapped>>

-----------------------------------------------------------------------------
(* runTask *)

Begin(t) ==
    /\ pc[t] = "spawned"
    /\ \/ /\ ~Idle
          /\ Goto(t, "none")
          /\ UNCHANGED <<taskState, disk, outcome, overlapped>>
       \/ /\ Idle
          /\ taskState' = "running" /\ UNCHANGED enabled /\ SaveConfig
          /\ outcome' = [outcome EXCEPT ![t] = "idle"]
          /\ overlapped' = (overlapped \/ Active # {})
          /\ Goto(t, "save")
    /\ UNCHANGED <<enabled, taskCancel, ctxDone, merged, timerVars, dataVars>>

Stop(t, state) ==
    /\ taskState' = state
    /\ outcome' = [outcome EXCEPT ![t] = state]
    /\ Goto(t, "exit")

(* What doWriteFiles leaves when it is to write d: errors are only printed, *)
(* and the answer is 200 all the same.                                      *)
Written(d) == {files} \cup SUBSET d

(* A URL that cannot be called, a bad status, a canceled ctx: setFailedState. *)
Fail(t) ==
    /\ pc[t] \in {"save", "merge", "write", "flush", "saveAgain"}
    /\ Stop(t, "failed")
    /\ merged' = [merged EXCEPT ![t] = {}]
    /\ \/ UNCHANGED dataVars
       \/ /\ pc[t] \in {"save", "saveAgain"} /\ files' \in Written(rules)
          /\ UNCHANGED <<rules, backup, writing>>
       \/ /\ pc[t] = "flush"
          /\ \E left \in SUBSET Domains :
                rules' = rules \cap left /\ files' \in {files, files \cap left}
          /\ UNCHANGED <<backup, writing>>
       \/ /\ pc[t] = "write"
          /\ backup' \in SUBSET merged[t]
          /\ UNCHANGED <<rules, files, writing>>
    /\ UNCHANGED <<enabled, disk, taskCancel, ctxDone, timerVars, overlapped>>

(* callURLs(SaveRules): domain_output writes its files. *)
SaveRules(t) ==
    /\ pc[t] \in {"save", "saveAgain"}
    /\ files' \in Written(rules)
    /\ Goto(t, IF pc[t] = "save" THEN "merge" ELSE "exit")
    /\ UNCHANGED <<statusVars, taskCancel, ctxDone, outcome, merged, timerVars, rules,
                   backup, writing, overlapped>>

(* mergeAndBackupDomains: read the backup and the files; no domain, no task. *)
ToMerge_FilesOnly == files
ToMerge == backup \cup files

Merge(t) ==
    /\ pc[t] = "merge" /\ t \notin ctxDone
    /\ merged' = [merged EXCEPT ![t] = ToMerge]
    /\ Goto(t, IF ToMerge = {} THEN "exit" ELSE "write")
    /\ UNCHANGED <<statusVars, taskCancel, ctxDone, outcome, timerVars, dataVars, overlapped>>

(* ... leaving out the domains that are in the files anyway *)
Backup_NewOnly(t) == merged[t] \ files
Backup(t) == merged[t]

WriteBackup(t) ==
    /\ pc[t] = "write"
    /\ backup' = Backup(t)
    /\ Goto(t, "flush")
    /\ UNCHANGED <<statusVars, taskCancel, ctxDone, outcome, merged, timerVars, rules,
                   files, writing, overlapped>>

(* callURLs(FlushRules): domain_output forgets its rules and empties its    *)
(* files, if it can.                                                        *)
FlushRules(t) ==
    /\ pc[t] = "flush"
    /\ rules' = {} /\ files' \in Written({})
    /\ Goto(t, "query")
    /\ UNCHANGED <<statusVars, taskCancel, ctxDone, outcome, merged, timerVars, backup,
                   writing, overlapped>>

(* resendDNSQueries: to its end, canceled, or on the way a save of the config. *)
QueryAll(t) ==
    /\ pc[t] = "query"
    /\ Goto(t, "saveAgain")
    /\ UNCHANGED <<taskState, enabled>> /\ SaveConfig
    /\ UNCHANGED <<taskCancel, ctxDone, outcome, merged, timerVars, dataVars, overlapped>>

QueryCancelled(t) ==
    /\ pc[t] = "query" /\ t \in ctxDone
    /\ Stop(t, "cancelled")
    /\ UNCHANGED <<enabled, disk, taskCancel, ctxDone, merged, timerVars, dataVars, overlapped>>

(* The deferred cleanup. *)
Cleaned_Always(s) == "idle"
Cleaned(s) == IF s = "running" THEN "idle" ELSE s

Exit(t) ==
    /\ pc[t] = "exit"
    /\ taskState' = Cleaned(taskState) /\ UNCHANGED enabled /\ SaveConfig
    /\ taskCancel' = NoTask
    /\ ctxDone' = ctxDone \ {t}
    /\ outcome' = [outcome EXCEPT ![t] = "idle"]
    /\ merged' = [merged EXCEPT ![t] = {}]
    /\ Goto(t, "none")
    /\ UNCHANGED <<timerVars, dataVars, overlapped>>

-----------------------------------------------------------------------------
ClearBackup ==
    /\ Idle
    /\ backup' = {}
    /\ UNCHANGED <<statusVars, taskCancel, taskVars, timerVars, rules, files, writing, overlapped>>

(* domain_output: a query makes it learn a domain; its worker copies the    *)
(* rules under the lock and writes the copy without it, so that what is in  *)
(* the files may be old, or a part.                                         *)
Learn(d) ==
    /\ rules' = rules \cup {d}
    /\ UNCHANGED <<statusVars, taskCancel, taskVars, timerVars, files, backup, writing,
                   overlapped>>

CopyRules ==
    /\ rules # {} /\ writing = {}
    /\ writing' = {rules}
    /\ UNCHANGED <<statusVars, taskCancel, taskVars, timerVars, rules, files, backup,
                   overlapped>>

WriteRules ==
    /\ \E copy \in writing : files' \in SUBSET copy
    /\ writing' \in {writing, {}}
    /\ UNCHANGED <<statusVars, taskCancel, taskVars, timerVars, rules, backup, overlapped>>

(* newRequery after a crash: a task that was running has failed.  A file    *)
(* that was being written is cut off.  domain_output loads its own files.   *)
OnStartup_AsIs(s) == s
OnStartup(s) == IF s = "running" THEN "failed" ELSE s

Restart ==
    /\ taskState' = OnStartup(disk.state) /\ enabled' = disk.enabled
    /\ SaveConfig
    /\ taskCancel' = NoTask /\ ctxDone' = {}
    /\ pc' = [t \in Tasks |-> "none"]
    /\ outcome' = [t \in Tasks |-> "idle"]
    /\ merged' = [t \in Tasks |-> {}]
    /\ timers' = Scheduled(enabled') /\ firing' = 0
    /\ \/ UNCHANGED files
       \/ /\ \E t \in Tasks : pc[t] \in {"save", "saveAgain", "flush"}
          /\ files' \in SUBSET rules
       \/ \E copy \in writing : files' \in SUBSET copy
    /\ rules' = files' /\ writing' = {}
    /\ \/ UNCHANGED backup
       \/ \E t \in Tasks : pc[t] = "write" /\ backup' \in SUBSET merged[t]
    /\ overlapped' = FALSE

-----------------------------------------------------------------------------
TaskStep(t) ==
    \/ Begin(t) \/ SaveRules(t) \/ Merge(t) \/ WriteBackup(t) \/ FlushRules(t)
    \/ QueryAll(t) \/ QueryCancelled(t) \/ Fail(t) \/ Exit(t)

Next ==
    \/ \E t \in Tasks : Trigger(t) \/ TimerStarts(t) \/ TaskStep(t)
    \/ \E on \in BOOLEAN : UpdateScheduler(on)
    \/ \E d \in Domains : Learn(d)
    \/ CopyRules \/ WriteRules \/ TimerSkips \/ Reschedule \/ CancelTask \/ ClearBackup \/ Restart

Spec == Init /\ [][Next]_vars

-----------------------------------------------------------------------------
States == {"idle", "running", "failed", "cancelled"}
TypeOK ==
    /\ taskState \in States /\ enabled \in BOOLEAN
    /\ disk \in [state : States, enabled : BOOLEAN]
    /\ taskCancel \in Tasks \cup {NoTask}
    /\ ctxDone \subseteq Tasks
    /\ pc \in [Tasks -> Working \cup {"none", "spawned"}]
    /\ outcome \in [Tasks -> States]
    /\ merged \in [Tasks -> SUBSET (Domains \cup OldDomains)]
    /\ {timers, firing, timers + firing} \subseteq 0 .. MaxTimers
    /\ {rules, files} \cup writing \subseteq SUBSET Domains
    /\ backup \subseteq Domains \cup OldDomains
    /\ overlapped \in BOOLEAN

(* "running" is never left behind by a task that is gone, whatever failed,  *)
(* overlapped or crashed: it would refuse every further task.               *)
RunningIsReal == taskState = "running" => Active # {}

(* As long as tasks do not overlap, the state says how the last one ended.  *)
OutcomeReported ==
    [][\A t \in Tasks : pc[t] = "exit" /\ pc'[t] = "none" /\ ~overlapped /\ ~Restart
          => taskState' = outcome[t]]_vars

(* As long as tasks do not overlap, a domain in the backup or merged by a   *)
(* task stays there: it is lost only when the user clears the backup or a   *)
(* crash or an error cuts the file that is being written.                   *)
Kept == backup \cup UNION {merged[t] : t \in {u \in Tasks : pc[u] = "write"}}
AccumulatorKeeps ==
    [][~overlapped /\ ~(Kept \subseteq Kept')
          => \/ ClearBackup
             \/ \E t \in Tasks : pc[t] = "write" /\ (pc'[t] = "exit" \/ Restart)
             \/ Restart /\ UNCHANGED backup]_vars

(* ... and the rules are flushed only when the backup has what was merged.  *)
FlushAfterBackup ==
    [][\A t \in Tasks : ~overlapped /\ pc[t] = "flush" /\ pc'[t] # "flush" /\ ~Restart
          => merged[t] \subseteq backup]_vars

(* requery.go:633 "already includes the check to prevent task overlap": no  *)
(* two tasks save, merge, flush or query at once.                           *)
NoOverlap == Cardinality(AtWork) <= 1
=============================================================================

----------------------------- MODULE SavedValue -----------------------------
(* The plugins that keep one value in memory and in a file and let the API  *)
(* replace it: domain_set, ip_set and rewrite (a list of rules), switch and *)
(* switcher1 to 9 (a setting).  They differ in the order of the two and in  *)
(* what the lock covers:                                                    *)
(*   domain, switcher,  memory under the lock, then the file without it;    *)
(*   rewrite                                                                *)
(*   ip                 both under the lock, memory first, then each file;  *)
(*   switch             both under the lock, file first.                    *)
(* os.Create and os.WriteFile truncate the file before it is filled;        *)
(* rewrite fills a file of its own and renames it.  A value is the set of   *)
(* its rules; a setting is a set of one, and {} if it is the empty string.  *)
(*                                                                          *)
(* A variant named X_Y is X with a bug, for the mutation tests.             *)
EXTENDS Integers
CONSTANTS
    SaveCalls,   \* the API calls
    Settings,    \* the values that are posted
    Others,      \* what the configuration may have besides: exps or ips, and files no API writes
    MaxFiles,    \* files of an ip_set
    ReadsAs,     \* a line that does not read back as itself: as which (untrimmed), or none (comments)
    Mixed        \* content that is no value: cut short, or of two writers

Reading(r) == IF r \in DOMAIN ReadsAs THEN ReadsAs[r] ELSE {r}
ReadBack(rules) == UNION {Reading(r) : r \in rules}

ASSUME ReadsAssumption == \A r \in DOMAIN ReadsAs : ReadsAs[r] \cap DOMAIN ReadsAs = {}
ASSUME OthersAssumption == \A o \in Others : ReadBack(o) = o
ASSUME MaxFilesAssumption == MaxFiles \in Nat \ {0}

VARIABLES
    plugin,    \* which of the plugins it is
    others,    \* Others of this plugin
    value,     \* the value in memory: rules and mixM, list, value
    sorted,    \* the list in memory may be iterated
    files,     \* the files that are written: one, but of ip_set all
    spc,       \* per call: where it is
    want,      \* per call: the value posted
    toWrite,   \* per call: the value it writes
    at,        \* per call: the file it is at
    writer,    \* the calls that hold the lock for writing: at most one
    readers,   \* the calls that hold it for reading
    spoilt     \* a write has failed or two calls have raced, and nobody has saved since (history)

savedVars == <<plugin, others, value, sorted, files, spc, want, toWrite, at, writer, readers, spoilt>>

Locked == plugin \in {"ip", "switch"}
Lists == {"domain", "ip", "rewrite"}
Renames == plugin = "rewrite"
SGoto(c, label) == spc' = [spc EXCEPT ![c] = label]
Runs(c) == spc[c] \in {"take", "create", "fill", "finish"}

(* What Init reads: the configuration's own rules and every file.          *)
Loads == others \cup UNION {ReadBack(files[f]) : f \in DOMAIN files}

SavedInit ==
    /\ plugin \in Lists \cup {"switcher", "switch"}
    /\ others \in IF plugin \in Lists THEN Others ELSE {{}}
    /\ \E n \in IF plugin = "ip" THEN 1 .. MaxFiles ELSE {1} : files \in [1 .. n -> Settings \cup {{}}]
    /\ value = Loads /\ sorted = TRUE
    /\ spc = [c \in SaveCalls |-> "new"]
    /\ want = [c \in SaveCalls |-> {}] /\ toWrite = want /\ at = [c \in SaveCalls |-> 1]
    /\ writer = {} /\ readers = {} /\ spoilt = FALSE

(* A call that has no lock may still write what it has posted or taken.    *)
Writing(d) == spc[d] \in {"take", "create", "fill"} \/ (Renames /\ spc[d] = "finish")

(* /post, PUT of switch: take the lock.  domain_set, rewrite and the        *)
(* switchers give it back as soon as the value is in memory.  rewrite and   *)
(* ip_set parse what is posted, the others keep it as it is.                *)
TakesLock_Never == FALSE
TakesLock == Locked
Post(c, v) ==
    /\ spc[c] = "new" /\ writer = {} /\ readers = {}
    /\ want' = [want EXCEPT ![c] = IF plugin \in {"rewrite", "ip"} THEN ReadBack(v) ELSE v]
    /\ value' = IF plugin = "switch" THEN value ELSE want'[c]
    /\ sorted' = TRUE
    /\ writer' = IF TakesLock THEN {c} ELSE {}
    /\ spoilt' = (~Locked /\ \E d \in SaveCalls : Writing(d))
    /\ SGoto(c, "take")
    /\ UNCHANGED <<plugin, others, files, toWrite, at, readers>>

(* /flush of ip_set stores a new list, which nobody has sorted.            *)
Flush(c) ==
    /\ plugin = "ip"
    /\ spc[c] = "new" /\ writer = {} /\ readers = {}
    /\ value' = {} /\ sorted' = FALSE
    /\ writer' = {c}
    /\ spoilt' = FALSE
    /\ SGoto(c, "take")
    /\ UNCHANGED <<plugin, others, files, want, toWrite, at, readers>>

(* /save writes what is in memory, under the lock for reading.             *)
Save(c) ==
    /\ plugin \in Lists \ {"rewrite"}
    /\ spc[c] = "new" /\ writer = {}
    /\ readers' = readers \cup {c}
    /\ spoilt' = (spoilt /\ \E d \in SaveCalls : Runs(d))
    /\ SGoto(c, "take")
    /\ UNCHANGED <<plugin, others, value, sorted, files, want, toWrite, at, writer>>

(* What is to be written: the rules as they are by now, or the value posted.*)
(* domain_set and rewrite read d.rules without the lock: another post may   *)
(* be replacing the slice.                                                  *)
Take(c) ==
    /\ spc[c] = "take"
    /\ \E v \in IF plugin \notin Lists THEN {want[c]}
                ELSE IF Locked \/ c \in readers \/ want[c] = value THEN {value}
                ELSE {value, Mixed} : toWrite' = [toWrite EXCEPT ![c] = v]
    /\ SGoto(c, "create")
    /\ UNCHANGED <<plugin, others, value, sorted, files, want, at, writer, readers, spoilt>>

Create(c) ==
    /\ spc[c] = "create"
    /\ files' = IF Renames THEN files ELSE [files EXCEPT ![at[c]] = {}]
    /\ SGoto(c, "fill")
    /\ UNCHANGED <<plugin, others, value, sorted, want, toWrite, at, writer, readers, spoilt>>

(* Two writers each begin at the start of the file; the end of the longer   *)
(* value remains.  ip_set goes on with its next file.                       *)
Fill(c) ==
    /\ spc[c] = "fill" /\ sorted
    /\ \E v \in IF files[at[c]] \in {{}, toWrite[c]} THEN {toWrite[c]} ELSE {toWrite[c], Mixed} :
          files' = IF Renames THEN files ELSE [files EXCEPT ![at[c]] = v]
    /\ IF at[c] + 1 \in DOMAIN files
       THEN at' = [at EXCEPT ![c] = @ + 1] /\ SGoto(c, "create")
       ELSE UNCHANGED at /\ SGoto(c, "finish")
    /\ UNCHANGED <<plugin, others, value, sorted, want, toWrite, writer, readers, spoilt>>

(* ForEach panics over an unsorted list: net/http recovers, the deferred    *)
(* unlock runs, the file stays empty and the other files as they were.      *)
ForEachPanics(c) ==
    /\ spc[c] = "fill" /\ ~sorted
    /\ writer' = writer \ {c} /\ readers' = readers \ {c}
    /\ SGoto(c, "done")
    /\ UNCHANGED <<plugin, others, value, sorted, files, want, toWrite, at, spoilt>>

(* What a write that ends before it is done leaves of the file.            *)
CutShort(c) == IF spc[c] = "fill" /\ ~Renames THEN {files, [files EXCEPT ![at[c]] = Mixed]} ELSE {files}

(* The file cannot be created, or not be written: 500, and the lock goes.   *)
WriteError(c) ==
    /\ spc[c] \in {"create", "fill"} \/ (Renames /\ spc[c] = "finish")
    /\ files' \in CutShort(c)
    /\ spoilt' = TRUE
    /\ writer' = writer \ {c} /\ readers' = readers \ {c}
    /\ SGoto(c, "done")
    /\ UNCHANGED <<plugin, others, value, sorted, want, toWrite, at>>

FinishSave(c) ==
    /\ spc[c] = "finish"
    /\ value' = IF plugin = "switch" THEN want[c] ELSE value
    /\ files' = IF Renames THEN [files EXCEPT ![1] = toWrite[c]] ELSE files
    /\ writer' = writer \ {c} /\ readers' = readers \ {c}
    /\ SGoto(c, "done")
    /\ UNCHANGED <<plugin, others, sorted, want, toWrite, at, spoilt>>

(* The program stops, or crashes, and starts again: calls in progress are   *)
(* gone, the value is what the configuration and the files have.            *)
Restart ==
    /\ UNCHANGED <<plugin, others, want, toWrite, at>>
    /\ files' \in {files} \cup UNION {CutShort(c) : c \in SaveCalls}
    /\ value' = Loads' /\ sorted' = TRUE
    /\ spoilt' = FALSE
    /\ spc' = [c \in SaveCalls |-> IF spc[c] = "new" THEN "new" ELSE "done"]
    /\ writer' = {} /\ readers' = {}

SavedNext ==
    \/ \E c \in SaveCalls :
          \/ Flush(c) \/ Save(c) \/ Take(c) \/ Create(c) \/ Fill(c)
          \/ ForEachPanics(c) \/ WriteError(c) \/ FinishSave(c)
          \/ \E v \in Settings \cup {{}} : Post(c, v)
    \/ Restart

SavedSpec == SavedInit /\ [][SavedNext]_savedVars

-----------------------------------------------------------------------------
NoCallRuns == \A c \in SaveCalls : ~Runs(c)

(* When no call is running, a restart would find what is in memory - as the *)
(* files read back, and with the rules of the configuration, which a post   *)
(* drops from memory only - whatever the order of posts, saves, failures    *)
(* and restarts: in ip_set and switch because the lock keeps calls apart    *)
(* (ip_set.go: "the newly posted data is what gets saved, atomically"); in  *)
(* domain_set, rewrite and the switchers once a call has had the file to    *)
(* itself since the last race for it; in all once a call has succeeded      *)
(* since the last failure; in ip_set not between a flush and the next post. *)
FileFollows == NoCallRuns /\ ~spoilt /\ sorted => Loads = ReadBack(value) \cup others

(* ip_set.go: "GET /flush: clear in-memory and save empty list", and        *)
(* "saveToFiles writes the current list to each configured file".  After a  *)
(* flush, no write having failed, the files are empty.                      *)
FlushSaves == NoCallRuns /\ ~spoilt /\ ~sorted => \A f \in DOMAIN files : files[f] = {}
=============================================================================

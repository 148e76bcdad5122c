---------------------------- MODULE Rules_proofs ----------------------------
(* Theorems about what queries are matched with and where it is kept, for   *)
(* any rules, sources, calls and values: AdguardRule, RuleSets, SavedValue,  *)
(* and what MCRules checks of the three together.  None of the properties   *)
(* is inductive: each needs what is still on its way to a file, or to a     *)
(* matcher.                                                                *)
EXTENDS MCRules, Induction

(* The adguard rules: types, and what calls and downloads have to do with   *)
(* each other.                                                             *)
AdTypes ==
    /\ onlineRules \in Maps(Nat) /\ adFile \in [Rules -> Nat]
    /\ \A r \in Rules : Has(r) => r \in used
    /\ adPc \in [Calls -> {"idle", "remove", "save", "fetch", "trigger", "done", "failed"}]
    /\ next \in [Calls -> {"fetch", "trigger", "done"}]
    /\ dl \in [Downloads -> {"none", "remove", "begin", "get", "stamp", "save"}]
    /\ adSaving \in [Savers -> {"no", "open", "write", "rename"}]
    /\ DOMAIN adSnap = Savers
    /\ inode \in [Savers -> {None, "tmp", "config", "gone"}]
    /\ reloadID \in Nat /\ waiting \in Nat
    /\ reload \in {"idle", "count", "read"} /\ adBuilding \in [Rules -> Nat]
    /\ countSave \subseteq CountSavers
    /\ adClosed \in BOOLEAN /\ adFailed \in BOOLEAN /\ unloaded \in BOOLEAN

CallInv ==
    /\ \A c \in Calls, r \in Rules : dl[<<c, r>>] \in {"get", "stamp", "save"} => adPc[c] = "fetch"
    /\ \A c \in Calls : adPc[c] = "remove" => next[c] = "trigger"
    /\ \A c \in Calls, r \in Rules : adPc[c] = "idle" => dl[<<c, r>>] = "none"
    /\ \A s \in Savers : adSaving[s] # "no" => MustSave(s)

LEMMA SaverKinds ==
  /\ \A g \in CountSavers : g \in Savers /\ g \notin Calls /\ g \notin Downloads
  /\ \A c \in Calls : c \in Savers /\ c \notin Downloads
  /\ \A c \in Calls, r \in Rules : <<c, r>> \in Downloads
  /\ \A d \in Downloads : d \in Savers /\ d \notin Calls
  /\ \A d \in Downloads : d[1] \in Calls /\ d[2] \in Rules /\ d = <<d[1], d[2]>>
  /\ None \notin {"tmp", "config", "gone"}
BY DistinctAssumption DEF Savers, Downloads

LEMMA CountedRules ==
  ASSUME onlineRules \in Maps(Nat), adFile \in [Rules -> Nat]
  PROVE  /\ Counted \in Maps(Nat)
         /\ \A r \in Rules : Counted[r] # None <=> Has(r)
         /\ \A r \in Rules : Has(r) => Counted[r].enabled = onlineRules[r].enabled
<1> SUFFICES ASSUME NEW r \in Rules
             PROVE  /\ Counted[r] \in Entries(Nat) \cup {None}
                    /\ Counted[r] # None <=> Has(r)
                    /\ Has(r) => Counted[r].enabled = onlineRules[r].enabled
  BY DEF Counted, Maps
<1>1. CASE ~Has(r) BY <1>1 DEF Counted
<1>2. CASE Has(r)
  <2>1. onlineRules[r] \in Entries(Nat) BY <1>2 DEF Maps, Has
  <2>2. Counted[r] = [onlineRules[r] EXCEPT !.count = adFile[r]] BY <1>2 DEF Counted
  <2>3. adFile[r] \in Nat OBVIOUS
  <2>4. Counted[r] \in Entries(Nat) /\ Counted[r].enabled = onlineRules[r].enabled
    BY <2>1, <2>2, <2>3 DEF Entries
  <2> QED BY <1>2, <2>4, DistinctAssumption
<1> QED BY <1>1, <1>2

(* A rule that has been downloaded. *)
LEMMA StampedRules ==
  ASSUME onlineRules \in Maps(Nat), NEW r \in Rules,
         onlineRules' = IF Has(r) THEN [onlineRules EXCEPT ![r].updated = @ + 1] ELSE onlineRules
  PROVE  /\ onlineRules' \in Maps(Nat)
         /\ \A q \in Rules : onlineRules'[q] # None <=> Has(q)
         /\ \A q \in Rules : Has(q) => onlineRules'[q].enabled = onlineRules[q].enabled
<1>1. CASE ~Has(r) BY <1>1 DEF Has
<1>2. CASE Has(r)
  <2> DEFINE new == [onlineRules[r] EXCEPT !.updated = @ + 1]
  <2>1. onlineRules[r] \in Entries(Nat) BY <1>2 DEF Maps, Has
  <2>2. new \in Entries(Nat) /\ new.enabled = onlineRules[r].enabled BY <2>1 DEF Entries
  <2>3. new # None BY <2>2, DistinctAssumption
  <2>4. onlineRules' = [onlineRules EXCEPT ![r] = new] BY <1>2
  <2> HIDE DEF new
  <2> QED BY <1>2, <2>2, <2>3, <2>4 DEF Maps, Has
<1> QED BY <1>1, <1>2

LEMMA AdTypesFirst == ASSUME AdInit PROVE AdTypes /\ CallInv
<1> USE SaverKinds DEF AdInit
<1>1. onlineRules \in Maps(Nat) BY DEF Maps, Entries
<1>2. adFile \in [Rules -> Nat] OBVIOUS
<1>3. \A r \in Rules : Has(r) => r \in used OBVIOUS
<1>4. AdTypes BY <1>1, <1>2, <1>3 DEF AdTypes
<1> QED BY <1>4 DEF CallInv

LEMMA AdTypesStep == ASSUME AdTypes, CallInv, [AdNext]_adVars PROVE AdTypes'
<1> USE SaverKinds DEF AdTypes, AdGoto, Has
<1>1. ASSUME NEW c \in Calls, Request(c) PROVE AdTypes'
  <2>1. ASSUME NEW r \in Rules, Delete(c, r) PROVE AdTypes'
    <3>1. onlineRules' \in Maps(Nat) BY <2>1 DEF Delete, Maps
    <3> QED BY <2>1, <3>1 DEF Delete, ruleVars, callVars, saveVars, timerVars, reloadVars
  <2>2. ASSUME NEW r \in Rules, NEW on \in BOOLEAN, AdPost(c, r, on) PROVE AdTypes'
    <3>1. onlineRules' \in Maps(Nat) BY <2>2 DEF AdPost, Maps, Entries
    <3> QED BY <2>2, <3>1 DEF AdPost, ruleVars, callVars, saveVars, timerVars, reloadVars
  <2>3. ASSUME NEW r \in Rules, NEW on \in BOOLEAN, AdPut(c, r, on) PROVE AdTypes'
    <3>1. onlineRules[r] \in Entries(Nat) BY <2>3 DEF AdPut, Maps
    <3>2. [onlineRules[r] EXCEPT !.enabled = on] \in Entries(Nat) BY <3>1 DEF Entries
    <3>3. onlineRules' = [onlineRules EXCEPT ![r] = [onlineRules[r] EXCEPT !.enabled = on]]
      BY <2>3 DEF AdPut
    <3>4. onlineRules' \in Maps(Nat) BY <3>2, <3>3 DEF Maps
    <3> QED BY <2>3, <3>3, <3>4 DEF AdPut, ruleVars, callVars, saveVars, timerVars, reloadVars
  <2>4. ASSUME NEW due \in SUBSET Rules, AdUpdate(c, due) PROVE AdTypes'
    BY <2>4 DEF AdUpdate, ruleVars, callVars, saveVars, timerVars, reloadVars
  <2> QED BY <1>1, <2>1, <2>2, <2>3, <2>4 DEF Request
<1>2. ASSUME NEW c \in Calls, CallStep(c) PROVE AdTypes'
  <2>1. CASE AdFetched(c)
    BY <2>1 DEF AdFetched, ruleVars, callVars, saveVars, timerVars, reloadVars
  <2>2. CASE Trigger(c)
    BY <2>2 DEF Trigger, ruleVars, callVars, saveVars, timerVars, reloadVars
  <2>3. ASSUME NEW r \in Rules, AdRemoveFile(c, r) PROVE AdTypes'
    BY <2>3 DEF AdRemoveFile, ruleVars, callVars, saveVars, timerVars, reloadVars
  <2> QED BY <1>2, <2>1, <2>2, <2>3 DEF CallStep
<1>3. ASSUME NEW c \in Calls, NEW r \in Rules, DownloadStep(c, r) PROVE AdTypes'
  <2>1. CASE DownloadBegins(c, r)
    BY <2>1 DEF DownloadBegins, ruleVars, callVars, saveVars, timerVars, reloadVars
  <2>2. CASE DownloadFails(c, r)
    BY <2>2 DEF DownloadFails, ruleVars, callVars, saveVars, timerVars, reloadVars
  <2>3. CASE Downloaded(c, r)
    BY <2>3 DEF Downloaded, ruleVars, callVars, saveVars, timerVars, reloadVars
  <2>4. CASE Stamp(c, r)
    <3>1. onlineRules' \in Maps(Nat) /\ \A q \in Rules : onlineRules'[q] # None <=> Has(q)
      BY <2>4, StampedRules DEF Stamp
    <3> QED BY <2>4, <3>1 DEF Stamp, ruleVars, callVars, saveVars, timerVars, reloadVars
  <2> QED BY <1>3, <2>1, <2>2, <2>3, <2>4 DEF DownloadStep
<1>4. ASSUME NEW s \in Savers, SaveStep(s) PROVE AdTypes'
  <2>1. CASE SaveBegins(s)
    BY <2>1 DEF SaveBegins, ruleVars, callVars, saveVars, timerVars, reloadVars
  <2>2. CASE SaveOpens(s)
    BY <2>2 DEF SaveOpens, ruleVars, callVars, saveVars, timerVars, reloadVars
  <2>3. CASE SaveWrites(s)
    BY <2>3 DEF SaveWrites, ruleVars, callVars, saveVars, timerVars, reloadVars
  <2>4. CASE SaveRenames(s)
    <3>1. inode' \in [Savers -> {None, "tmp", "config", "gone"}] BY <2>4 DEF SaveRenames, Renamed
    <3> QED BY <2>4, <3>1 DEF SaveRenames, SaveReturns, ruleVars, callVars, saveVars, timerVars, reloadVars
  <2>5. CASE SaveFails(s)
    BY <2>5 DEF SaveFails, SaveReturns, ruleVars, callVars, saveVars, timerVars, reloadVars
  <2>6. CASE SaveError(s)
    BY <2>6 DEF SaveError, SaveReturns, ruleVars, callVars, saveVars, timerVars, reloadVars
  <2> QED BY <1>4, <2>1, <2>2, <2>3, <2>4, <2>5, <2>6 DEF SaveStep
<1>5. ASSUME NEW id \in timers, Fire(id) PROVE AdTypes'
    BY <1>5 DEF Fire, ruleVars, callVars, saveVars, timerVars, reloadVars
<1>6. ASSUME ReloadStep PROVE AdTypes'
  <2>1. CASE ReloadBegins
    <3>1. waiting' \in Nat BY <2>1 DEF ReloadBegins
    <3> QED BY <2>1, <3>1 DEF ReloadBegins, ruleVars, callVars, saveVars, timerVars, reloadVars
  <2>2. CASE UpdateCounts
    <3>1. onlineRules' \in Maps(Nat) /\ \A r \in Rules : onlineRules'[r] # None <=> Has(r)
      BY <2>2, CountedRules DEF UpdateCounts
    <3>2. countSave' \subseteq CountSavers BY <2>2 DEF UpdateCounts
    <3> QED BY <2>2, <3>1, <3>2 DEF UpdateCounts, ruleVars, callVars, saveVars, timerVars, reloadVars
  <2>3. CASE AdSwap
    BY <2>3 DEF AdSwap, ruleVars, callVars, saveVars, timerVars, reloadVars
  <2>4. ASSUME NEW r \in Rules, ReadFile(r) PROVE AdTypes'
    BY <2>4 DEF ReadFile, ruleVars, callVars, saveVars, timerVars, reloadVars
  <2> QED BY <1>6, <2>1, <2>2, <2>3, <2>4 DEF ReloadStep
<1>7. CASE Close
    BY <1>7 DEF Close, ruleVars, callVars, saveVars, timerVars, reloadVars
<1>8. CASE UNCHANGED adVars
    BY <1>8 DEF adVars, ruleVars, callVars, saveVars, timerVars, reloadVars
<1> QED BY <1>1, <1>2, <1>3, <1>4, <1>5, <1>6, <1>7, <1>8 DEF AdNext

(* A save that returns.                                                    *)
LEMMA ReturnKeeps ==
  ASSUME AdTypes, CallInv, NEW s \in Savers, NEW ok \in BOOLEAN,
         adSaving[s] # "no", SaveReturns(s, ok)
  PROVE  CallInv'
<1> USE SaverKinds DEF AdTypes, CallInv
<1>1. MustSave(s) OBVIOUS
<1>2. adSaving' = [adSaving EXCEPT ![s] = "no"] /\ next' = next BY DEF SaveReturns
<1>3. CASE s \in Calls
  <2>1. /\ adPc' = [adPc EXCEPT ![s] = IF ok THEN next[s] ELSE "failed"] /\ dl' = dl
        /\ countSave' = countSave
    BY <1>3 DEF SaveReturns
  <2>2. adPc[s] = "save" BY <1>1, <1>3 DEF MustSave
  <2> QED BY <1>2, <1>3, <2>1, <2>2 DEF MustSave
<1>4. CASE s \in Downloads
  <2>1. adPc' = adPc /\ dl' = [dl EXCEPT ![s] = "none"] /\ countSave' = countSave
    BY <1>4 DEF SaveReturns
  <2> QED BY <1>2, <1>4, <2>1 DEF MustSave
<1>5. CASE s \in CountSavers
  <2>1. adPc' = adPc /\ dl' = dl /\ countSave' = countSave \ {s} BY <1>5 DEF SaveReturns
  <2> QED BY <1>2, <1>5, <2>1 DEF MustSave, Savers
<1> QED BY <1>3, <1>4, <1>5 DEF Savers

LEMMA CallStepInv == ASSUME AdTypes, CallInv, [AdNext]_adVars PROVE CallInv'
<1> USE SaverKinds DEF AdTypes, CallInv, AdGoto, MustSave, NoSavers
<1>1. ASSUME NEW c \in Calls, Request(c) PROVE CallInv'
  <2>1. ASSUME NEW r \in Rules, Delete(c, r) PROVE CallInv'
    BY <2>1 DEF Delete, ruleVars, callVars, saveVars, timerVars, reloadVars
  <2>2. ASSUME NEW r \in Rules, NEW on \in BOOLEAN, AdPost(c, r, on) PROVE CallInv'
    BY <2>2 DEF AdPost, ruleVars, callVars, saveVars, timerVars, reloadVars
  <2>3. ASSUME NEW r \in Rules, NEW on \in BOOLEAN, AdPut(c, r, on) PROVE CallInv'
    BY <2>3 DEF AdPut, ruleVars, callVars, saveVars, timerVars, reloadVars
  <2>4. ASSUME NEW due \in SUBSET Rules, AdUpdate(c, due) PROVE CallInv'
    <3>1. adPc[c] = "idle" /\ adPc' = [adPc EXCEPT ![c] = "fetch"] BY <2>4 DEF AdUpdate
    <3>2. \A d \in Downloads : dl'[d] = dl[d] \/ (d[1] = c /\ dl'[d] = "begin") BY <2>4 DEF AdUpdate
    <3>3. UNCHANGED <<next, countSave, adSaving>> BY <2>4 DEF AdUpdate, saveVars
    <3>4. \A d \in Calls, q \in Rules : <<d, q>>[1] = d OBVIOUS
    <3>5. \A d \in Downloads : dl[d] = "save" => dl'[d] = "save"
      BY <3>1, <3>2
    <3> QED BY <3>1, <3>2, <3>3, <3>4, <3>5
  <2> QED BY <1>1, <2>1, <2>2, <2>3, <2>4 DEF Request
<1>2. ASSUME NEW c \in Calls, CallStep(c) PROVE CallInv'
  <2>1. CASE AdFetched(c)
    BY <2>1 DEF AdFetched, ruleVars, callVars, saveVars, timerVars, reloadVars
  <2>2. CASE Trigger(c)
    BY <2>2 DEF Trigger, ruleVars, callVars, saveVars, timerVars, reloadVars
  <2>3. ASSUME NEW r \in Rules, AdRemoveFile(c, r) PROVE CallInv'
    BY <2>3 DEF AdRemoveFile, ruleVars, callVars, saveVars, timerVars, reloadVars
  <2> QED BY <1>2, <2>1, <2>2, <2>3 DEF CallStep
<1>3. ASSUME NEW c \in Calls, NEW r \in Rules, DownloadStep(c, r) PROVE CallInv'
  <2>1. CASE DownloadBegins(c, r)
    BY <2>1 DEF DownloadBegins, ruleVars, callVars, saveVars, timerVars, reloadVars
  <2>2. CASE DownloadFails(c, r)
    BY <2>2 DEF DownloadFails, ruleVars, callVars, saveVars, timerVars, reloadVars
  <2>3. CASE Downloaded(c, r)
    <3>1. adSaving[<<c, r>>] = "no" BY <2>3 DEF Downloaded
    <3>2. /\ dl[<<c, r>>] = "get" /\ dl' = [dl EXCEPT ![<<c, r>>] = "stamp"]
          /\ UNCHANGED <<adPc, next, adSaving, countSave>>
      BY <2>3 DEF Downloaded, callVars, saveVars
    <3>3. \A s \in Savers : MustSave(s) => MustSave(s)' BY <3>2
    <3>4. \A s \in Savers : adSaving'[s] # "no" => MustSave(s)' BY <3>2, <3>3
    <3>5. \A d \in Downloads : d # <<c, r>> => dl'[d] = dl[d] BY <3>2
    <3>6. dl'[<<c, r>>] = "stamp" /\ adPc'[c] = "fetch" BY <3>2
    <3>7. \A e \in Calls, q \in Rules :
             /\ dl'[<<e, q>>] \in {"get", "stamp", "save"} => adPc'[e] = "fetch"
             /\ adPc'[e] = "idle" => dl'[<<e, q>>] = "none"
      <4> SUFFICES ASSUME NEW e \in Calls, NEW q \in Rules
                   PROVE  /\ dl'[<<e, q>>] \in {"get", "stamp", "save"} => adPc'[e] = "fetch"
                          /\ adPc'[e] = "idle" => dl'[<<e, q>>] = "none"
        OBVIOUS
      <4>1. CASE <<e, q>> = <<c, r>> BY <3>6, <4>1
      <4>2. CASE <<e, q>> # <<c, r>> BY <3>2, <3>5, <4>2
      <4> QED BY <4>1, <4>2
    <3> QED BY <3>2, <3>4, <3>7
  <2>4. CASE Stamp(c, r)
    BY <2>4 DEF Stamp, ruleVars, callVars, saveVars, timerVars, reloadVars
  <2> QED BY <1>3, <2>1, <2>2, <2>3, <2>4 DEF DownloadStep
<1>4. ASSUME NEW s \in Savers, SaveStep(s) PROVE CallInv'
  <2>1. CASE SaveBegins(s)
    BY <2>1 DEF SaveBegins, ruleVars, callVars, saveVars, timerVars, reloadVars
  <2>2. CASE SaveOpens(s)
    BY <2>2 DEF SaveOpens, ruleVars, callVars, saveVars, timerVars, reloadVars
  <2>3. CASE SaveWrites(s)
    BY <2>3 DEF SaveWrites, ruleVars, callVars, saveVars, timerVars, reloadVars
  <2>4. CASE SaveRenames(s)
    BY <2>4, ReturnKeeps DEF SaveRenames, MustSave
  <2>5. CASE SaveFails(s)
    BY <2>5, ReturnKeeps DEF SaveFails, MustSave
  <2>6. CASE SaveError(s)
    BY <2>6, ReturnKeeps DEF SaveError, MustSave
  <2> QED BY <1>4, <2>1, <2>2, <2>3, <2>4, <2>5, <2>6 DEF SaveStep
<1>5. ASSUME NEW id \in timers, Fire(id) PROVE CallInv'
    BY <1>5 DEF Fire, ruleVars, callVars, saveVars, timerVars, reloadVars
<1>6. ASSUME ReloadStep PROVE CallInv'
  <2>1. CASE ReloadBegins
    BY <2>1 DEF ReloadBegins, ruleVars, callVars, saveVars, timerVars, reloadVars
  <2>2. CASE UpdateCounts
    BY <2>2 DEF UpdateCounts, ruleVars, callVars, saveVars, timerVars, reloadVars
  <2>3. CASE AdSwap
    BY <2>3 DEF AdSwap, ruleVars, callVars, saveVars, timerVars, reloadVars
  <2>4. ASSUME NEW r \in Rules, ReadFile(r) PROVE CallInv'
    BY <2>4 DEF ReadFile, ruleVars, callVars, saveVars, timerVars, reloadVars
  <2> QED BY <1>6, <2>1, <2>2, <2>3, <2>4 DEF ReloadStep
<1>7. CASE Close
    BY <1>7 DEF Close, ruleVars, callVars, saveVars, timerVars, reloadVars
<1>8. CASE UNCHANGED adVars
    BY <1>8 DEF adVars, ruleVars, callVars, saveVars, timerVars, reloadVars
<1> QED BY <1>1, <1>2, <1>3, <1>4, <1>5, <1>6, <1>7, <1>8 DEF AdNext

(* Saves: p.mu is read-locked for each, so that all have the same data.  The *)
(* temporary file is there as long as somebody is to rename it, and what a   *)
(* file lacks is still written to by who has it open; after an error of the  *)
(* file system this holds again when a whole file has been renamed.          *)
Opened(f) == \E s \in Savers : inode[s] = f

SaveBase ==
    /\ \A s \in Savers : adSaving[s] # "no" => adSnap[s] = onlineRules
    /\ \A s \in Savers : inode[s] # None => adSaving[s] = "write"
    /\ \A s \in Savers : adSaving[s] \in {"write", "rename"} =>
          (tmp # None /\ tmp.whole = TRUE => tmp.rules = onlineRules)

AdSaveInv ==
    /\ SaveBase
    /\ ~adFailed =>
          /\ tmp # None =>
                /\ \E s \in Savers : adSaving[s] \in {"write", "rename"}
                /\ tmp.whole = TRUE \/ Opened("tmp")
          /\ adConfig.whole = TRUE \/ Opened("config")
          /\ tmp = None =>
                \A s \in Savers : adSaving[s] \in {"write", "rename"} =>
                    adConfig.rules = onlineRules \/ Opened("config")
          /\ \/ adConfig.rules = onlineRules
             \/ \E s \in Savers : MustSave(s)
             \/ \E c \in Calls : adPc[c] = "remove"

(* A step of something else, which leaves what is to be saved to be saved.  *)
LEMMA SaveSame ==
  ASSUME AdSaveInv, UNCHANGED <<onlineRules, saveVars>>,
         \A s \in Savers : MustSave(s) => MustSave(s)',
         \A c \in Calls : adPc[c] = "remove" => adPc'[c] = "remove" \/ MustSave(c)'
  PROVE  AdSaveInv'
BY SaverKinds DEF AdSaveInv, SaveBase, saveVars, Opened

(* A step that locks p.mu: nobody saves, and somebody will if the rules     *)
(* change.                                                                 *)
LEMMA SaveLater ==
  ASSUME AdTypes, AdSaveInv, NoSavers, UNCHANGED saveVars,
         \/ onlineRules' = onlineRules
         \/ \E s \in Savers : MustSave(s)'
         \/ \E c \in Calls : adPc'[c] = "remove",
         onlineRules' = onlineRules => \A s \in Savers : MustSave(s) => MustSave(s)',
         onlineRules' = onlineRules => \A c \in Calls : adPc[c] = "remove" => adPc'[c] = "remove"
  PROVE  AdSaveInv'
<1>1. \A s \in Savers : adSaving[s] = "no" /\ inode[s] = None BY DEF NoSavers, AdSaveInv, SaveBase
<1>2. ~adFailed => tmp = None /\ adConfig.whole = TRUE
  BY <1>1, SaverKinds DEF AdSaveInv, Opened
<1> QED BY <1>1, <1>2, SaverKinds DEF AdSaveInv, SaveBase, saveVars, Opened

(* A save that returns leaves the others to be saved.                      *)
LEMMA MustStays ==
  ASSUME AdTypes, NEW s \in Savers, NEW t \in Savers, t # s, MustSave(t),
         NEW ok \in BOOLEAN, SaveReturns(s, ok)
  PROVE  MustSave(t)'
<1>1. \A x \in Calls : x # s => adPc'[x] = adPc[x] BY DEF SaveReturns, AdTypes
<1>2. \A x \in Downloads : x # s => dl'[x] = dl[x] BY DEF SaveReturns, AdTypes
<1>3. countSave' = countSave \ {s} BY DEF SaveReturns, AdTypes
<1> QED BY <1>1, <1>2, <1>3, SaverKinds DEF MustSave, Savers

LEMMA SaveStepInv == ASSUME AdTypes, CallInv, AdSaveInv, [AdNext]_adVars PROVE AdSaveInv'
<1> USE SaverKinds DEF AdTypes, CallInv, AdGoto, MustSave
<1>1. ASSUME NEW c \in Calls, Request(c) PROVE AdSaveInv'
  <2>1. ASSUME NEW r \in Rules, Delete(c, r) PROVE AdSaveInv'
    BY <2>1, SaveLater DEF Delete, ruleVars, callVars, saveVars, timerVars, reloadVars
  <2>2. ASSUME NEW r \in Rules, NEW on \in BOOLEAN, AdPost(c, r, on) PROVE AdSaveInv'
    BY <2>2, SaveLater DEF AdPost, ruleVars, callVars, saveVars, timerVars, reloadVars
  <2>3. ASSUME NEW r \in Rules, NEW on \in BOOLEAN, AdPut(c, r, on) PROVE AdSaveInv'
    BY <2>3, SaveLater DEF AdPut, ruleVars, callVars, saveVars, timerVars, reloadVars
  <2>4. ASSUME NEW due \in SUBSET Rules, AdUpdate(c, due) PROVE AdSaveInv'
    <3>1. adPc[c] = "idle" /\ adPc' = [adPc EXCEPT ![c] = "fetch"] BY <2>4 DEF AdUpdate
    <3>2. \A d \in Downloads : dl'[d] = dl[d] \/ d[1] = c BY <2>4 DEF AdUpdate
    <3>3. UNCHANGED <<onlineRules, countSave, saveVars>> BY <2>4 DEF AdUpdate, ruleVars
    <3>4. \A d \in Downloads : dl[d] = "save" => dl'[d] = "save" BY <3>1, <3>2
    <3> QED BY <3>1, <3>3, <3>4, SaveSame
  <2> QED BY <1>1, <2>1, <2>2, <2>3, <2>4 DEF Request
<1>2. ASSUME NEW c \in Calls, CallStep(c) PROVE AdSaveInv'
  <2>1. CASE AdFetched(c)
    BY <2>1, SaveSame DEF AdFetched, ruleVars, callVars, saveVars, timerVars, reloadVars
  <2>2. CASE Trigger(c)
    BY <2>2, SaveSame DEF Trigger, ruleVars, callVars, saveVars, timerVars, reloadVars
  <2>3. ASSUME NEW r \in Rules, AdRemoveFile(c, r) PROVE AdSaveInv'
    BY <2>3, SaveSame DEF AdRemoveFile, ruleVars, callVars, saveVars, timerVars, reloadVars
  <2> QED BY <1>2, <2>1, <2>2, <2>3 DEF CallStep
<1>3. ASSUME NEW c \in Calls, NEW r \in Rules, DownloadStep(c, r) PROVE AdSaveInv'
  <2>1. CASE DownloadBegins(c, r)
    BY <2>1, SaveSame DEF DownloadBegins, ruleVars, callVars, saveVars, timerVars, reloadVars
  <2>2. CASE DownloadFails(c, r)
    BY <2>2, SaveSame DEF DownloadFails, ruleVars, callVars, saveVars, timerVars, reloadVars
  <2>3. CASE Downloaded(c, r)
    BY <2>3, SaveSame DEF Downloaded, ruleVars, callVars, saveVars, timerVars, reloadVars
  <2>4. CASE Stamp(c, r)
    <3>1. MustSave(<<c, r>>)' BY <2>4 DEF Stamp
    <3>2. \A s \in Savers : MustSave(s) => MustSave(s)' BY <2>4 DEF Stamp, callVars
    <3> QED BY <2>4, <3>1, <3>2, SaveLater DEF Stamp, callVars
  <2> QED BY <1>3, <2>1, <2>2, <2>3, <2>4 DEF DownloadStep
<1>4. ASSUME NEW s \in Savers, SaveStep(s) PROVE AdSaveInv'
  <2>1. CASE SaveBegins(s)
    <3>1. /\ adSaving[s] = "no" /\ adSaving' = [adSaving EXCEPT ![s] = "open"]
          /\ adSnap' = [adSnap EXCEPT ![s] = onlineRules]
          /\ UNCHANGED <<onlineRules, adPc, dl, countSave, adConfig, tmp, inode, adFailed>>
      BY <2>1 DEF SaveBegins, ruleVars, callVars
    <3> QED BY <3>1 DEF AdSaveInv, SaveBase, Opened
  <2>2. CASE SaveOpens(s)
    <3>1. /\ adSaving[s] = "open" /\ adSaving' = [adSaving EXCEPT ![s] = "write"]
          /\ tmp' = [rules |-> None, whole |-> FALSE]
          /\ inode' = [inode EXCEPT ![s] = "tmp"]
          /\ UNCHANGED <<onlineRules, adPc, dl, countSave, adConfig, adSnap, adFailed>>
      BY <2>2 DEF SaveOpens, ruleVars, callVars
    <3>2. tmp' # None /\ tmp'.whole = FALSE BY <3>1, DistinctAssumption DEF ConfigData
    <3>3. Opened("tmp")' BY <3>1 DEF Opened
    <3>4. inode[s] = None BY <3>1 DEF AdSaveInv, SaveBase
    <3>5. Opened("config") => Opened("config")' BY <3>1, <3>4 DEF Opened
    <3> QED BY <3>1, <3>2, <3>3, <3>5 DEF AdSaveInv, SaveBase
  <2>3. CASE SaveWrites(s)
    <3> DEFINE data == [rules |-> onlineRules, whole |-> TRUE]
    <3>1. /\ adSaving[s] = "write" /\ adSaving' = [adSaving EXCEPT ![s] = "rename"]
          /\ inode' = [inode EXCEPT ![s] = None]
          /\ UNCHANGED <<onlineRules, adPc, dl, countSave, adSnap, adFailed>>
      BY <2>3 DEF SaveWrites, ruleVars, callVars
    <3>2. /\ tmp' = IF inode[s] = "tmp" THEN data ELSE tmp
          /\ adConfig' = IF inode[s] = "config" THEN data ELSE adConfig
      BY <2>3 DEF SaveWrites, AdSaveInv, SaveBase
    <3>3. data # None /\ data.whole = TRUE /\ data.rules = onlineRules
      <4>1. data \in [rules : Maps(Nat), whole : {TRUE}] OBVIOUS
      <4>2. data \in ConfigData(Nat) BY <4>1 DEF ConfigData
      <4>3. \A d \in ConfigData(Nat) : d # None BY DistinctAssumption
      <4> QED BY <4>2, <4>3
    <3> HIDE DEF data
    <3>4. \A f \in {"tmp", "config"} : inode[s] # f /\ Opened(f) => Opened(f)' BY <3>1 DEF Opened
    <3>5. \A t \in Savers : inode'[t] # None => adSaving'[t] = "write" BY <3>1 DEF AdSaveInv, SaveBase
    <3>6. CASE inode[s] = "tmp" BY <3>1, <3>2, <3>3, <3>4, <3>5, <3>6 DEF AdSaveInv, SaveBase
    <3>7. CASE inode[s] = "config" BY <3>1, <3>2, <3>3, <3>4, <3>5, <3>7 DEF AdSaveInv, SaveBase
    <3>8. CASE inode[s] \notin {"tmp", "config"} BY <3>1, <3>2, <3>4, <3>5, <3>8 DEF AdSaveInv, SaveBase
    <3> QED BY <3>6, <3>7, <3>8
  <2>4. CASE SaveRenames(s)
    <3>1. /\ adSaving[s] = "rename" /\ adSaving' = [adSaving EXCEPT ![s] = "no"]
          /\ tmp # None /\ adConfig' = tmp /\ tmp' = None
          /\ inode' = [t \in Savers |-> Renamed(inode[t])]
          /\ adSnap' = [adSnap EXCEPT ![s] = None]
          /\ adFailed' = (adFailed /\ ~tmp.whole)
          /\ UNCHANGED onlineRules
      BY <2>4 DEF SaveRenames, SaveReturns, ruleVars
    <3>2. \A t \in Savers : /\ inode'[t] = "config" <=> inode[t] = "tmp"
                            /\ inode[t] = None => inode'[t] = None
      BY <3>1 DEF Renamed
    <3>3. Opened("tmp") => Opened("config")' BY <3>2 DEF Opened
    <3>4. ~adFailed' => (tmp.whole = TRUE /\ tmp.rules = onlineRules) \/ Opened("config")'
      BY <3>1, <3>3 DEF AdSaveInv, SaveBase
    <3>6. SaveBase' BY <3>1, <3>2 DEF AdSaveInv, SaveBase
    <3>5. Opened("config")' => \E t \in Savers : MustSave(t)'
      <4> SUFFICES ASSUME NEW t \in Savers, inode[t] = "tmp" PROVE MustSave(t)'
        BY <3>2 DEF Opened
      <4>1. t # s /\ MustSave(t) BY <3>1 DEF AdSaveInv, SaveBase
      <4> QED BY <2>4, <4>1, MustStays DEF SaveRenames
    <3> QED BY <3>1, <3>4, <3>5, <3>6 DEF AdSaveInv
  <2>5. CASE SaveFails(s)
    <3>1. /\ adSaving[s] = "rename" /\ adSaving' = [adSaving EXCEPT ![s] = "no"]
          /\ tmp = None
          /\ adSnap' = [adSnap EXCEPT ![s] = None]
          /\ UNCHANGED <<onlineRules, adConfig, tmp, inode, adFailed>>
      BY <2>5 DEF SaveFails, SaveReturns, ruleVars
    <3>2. ~adFailed => adConfig.rules = onlineRules \/ Opened("config") BY <3>1 DEF AdSaveInv
    <3>3. Opened("config") => \E t \in Savers : MustSave(t)'
      <4> SUFFICES ASSUME NEW t \in Savers, inode[t] = "config" PROVE MustSave(t)' BY DEF Opened
      <4>1. t # s /\ MustSave(t) BY <3>1 DEF AdSaveInv, SaveBase
      <4> QED BY <2>5, <4>1, MustStays DEF SaveFails
    <3> QED BY <3>1, <3>2, <3>3 DEF AdSaveInv, SaveBase, Opened
  <2>6. CASE SaveError(s)
    <3>1. /\ adSaving' = [adSaving EXCEPT ![s] = "no"] /\ inode' = [inode EXCEPT ![s] = None]
          /\ adSnap' = [adSnap EXCEPT ![s] = None] /\ adFailed' = TRUE
          /\ UNCHANGED <<onlineRules, tmp>>
      BY <2>6 DEF SaveError, SaveReturns, ruleVars
    <3> QED BY <3>1 DEF AdSaveInv, SaveBase
  <2> QED BY <1>4, <2>1, <2>2, <2>3, <2>4, <2>5, <2>6 DEF SaveStep
<1>5. ASSUME NEW id \in timers, Fire(id) PROVE AdSaveInv'
    BY <1>5, SaveSame DEF Fire, ruleVars, callVars, saveVars, timerVars, reloadVars
<1>6. ASSUME ReloadStep PROVE AdSaveInv'
  <2>1. CASE ReloadBegins
    BY <2>1, SaveSame DEF ReloadBegins, ruleVars, callVars, saveVars, timerVars, reloadVars
  <2>2. CASE UpdateCounts
    <3>1. CountChanged => \E g \in CountSavers : MustSave(g)' BY <2>2 DEF UpdateCounts
    <3>2. ~CountChanged => onlineRules' = onlineRules BY <2>2 DEF UpdateCounts, CountChanged
    <3>3. NoSavers /\ UNCHANGED <<saveVars, adPc, dl>> /\ countSave \subseteq countSave'
      BY <2>2 DEF UpdateCounts, callVars
    <3> QED BY <3>1, <3>2, <3>3, SaveLater
  <2>3. CASE AdSwap
    BY <2>3, SaveSame DEF AdSwap, ruleVars, callVars, saveVars, timerVars, reloadVars
  <2>4. ASSUME NEW r \in Rules, ReadFile(r) PROVE AdSaveInv'
    BY <2>4, SaveSame DEF ReadFile, ruleVars, callVars, saveVars, timerVars, reloadVars
  <2> QED BY <1>6, <2>1, <2>2, <2>3, <2>4 DEF ReloadStep
<1>7. CASE Close
    BY <1>7, SaveSame DEF Close, ruleVars, callVars, saveVars, timerVars, reloadVars
<1>8. CASE UNCHANGED adVars
    BY <1>8, SaveSame DEF adVars, ruleVars, callVars, saveVars, timerVars, reloadVars
<1> QED BY <1>1, <1>2, <1>3, <1>4, <1>5, <1>6, <1>7, <1>8 DEF AdNext

(* Reloads.  Who changes a rule or a file has a reload ahead unless its save *)
(* fails, which is recorded; a superseded timer has a successor.            *)
WillTrigger(c) ==
    \/ adPc[c] \in {"remove", "fetch", "trigger"}
    \/ adPc[c] = "save" /\ next[c] \in {"fetch", "trigger"}

WillLoad ==
    \/ \E c \in Calls : WillTrigger(c)
    \/ reloadID \in timers
    \/ waiting > 0
    \/ unloaded

(* If none is ahead, the matchers or those that are built are right.       *)
OnItsWay ==
    \A r \in Rules : IF r \in toRead THEN Enabled(r) ELSE adBuilding[r] = Expected[r]
AdLoadInv ==
    ~adClosed /\ ~WillLoad => IF reload = "idle" THEN active = Expected ELSE OnItsWay

LEMMA LoadAhead == ASSUME WillLoad' PROVE AdLoadInv'
BY DEF AdLoadInv

(* A step that leaves what is expected and what reloads have done.         *)
LEMMA LoadKept ==
  ASSUME AdLoadInv, adClosed' = adClosed \/ adClosed' = TRUE,
         WillLoad => WillLoad' \/ adClosed',
         Expected' = Expected, \A r \in Rules : Enabled(r)' <=> Enabled(r),
         UNCHANGED <<toRead, adBuilding, active>>,
         reload' = reload \/ (reload # "idle" /\ reload' # "idle")
  PROVE  AdLoadInv'
BY DEF AdLoadInv, OnItsWay

LEMMA RulesKept ==
  ASSUME UNCHANGED <<onlineRules, adFile>>
  PROVE  Expected' = Expected /\ \A r \in Rules : Enabled(r)' <=> Enabled(r)
BY DEF Expected, Enabled, Has

(* A step of a call or a download in which no call gives its reload up.    *)
LEMMA AheadKept ==
  ASSUME UNCHANGED <<reloadID, timers, waiting>>, unloaded => unloaded',
         \A c \in Calls : WillTrigger(c) => WillTrigger(c)' \/ unloaded'
  PROVE  WillLoad => WillLoad'
BY DEF WillLoad

(* A save that returns: a call goes on to its reload, or it is recorded.    *)
LEMMA ReturnAhead ==
  ASSUME AdTypes, CallInv, NEW s \in Savers, NEW ok \in BOOLEAN, adSaving[s] # "no", SaveReturns(s, ok)
  PROVE  WillLoad => WillLoad'
<1> USE SaverKinds DEF AdTypes, CallInv, WillTrigger
<1>1. /\ next' = next /\ UNCHANGED <<reloadID, timers, waiting>>
      /\ unloaded' = (unloaded \/ (~ok /\ s \in Calls /\ next[s] # "done"))
  BY DEF SaveReturns
<1>2. CASE s \in Calls
  <2>1. adPc' = [adPc EXCEPT ![s] = IF ok THEN next[s] ELSE "failed"] BY <1>2 DEF SaveReturns
  <2>2. adPc[s] = "save" BY <1>2 DEF MustSave
  <2>3. \A c \in Calls : WillTrigger(c) => WillTrigger(c)' \/ unloaded' BY <1>1, <1>2, <2>1, <2>2
  <2> QED BY <1>1, <2>3, AheadKept
<1>3. CASE s \notin Calls
  <2>1. adPc' = adPc BY <1>3 DEF SaveReturns
  <2>2. \A c \in Calls : WillTrigger(c) => WillTrigger(c)' BY <1>1, <2>1
  <2> QED BY <1>1, <2>2, AheadKept
<1> QED BY <1>2, <1>3

LEMMA LoadStepInv == ASSUME AdTypes, CallInv, AdLoadInv, [AdNext]_adVars PROVE AdLoadInv'
<1> USE SaverKinds DEF AdTypes, CallInv, AdGoto, WillTrigger
<1>1. ASSUME NEW c \in Calls, Request(c) PROVE AdLoadInv'
  <2>1. ASSUME NEW r \in Rules, Delete(c, r) PROVE AdLoadInv'
    <3>1. WillTrigger(c)' BY <2>1 DEF Delete, callVars
    <3> QED BY <3>1, LoadAhead DEF WillLoad
  <2>2. ASSUME NEW r \in Rules, NEW on \in BOOLEAN, AdPost(c, r, on) PROVE AdLoadInv'
    <3>1. CASE on
      <4>1. WillTrigger(c)' BY <2>2, <3>1 DEF AdPost, callVars
      <4> QED BY <4>1, LoadAhead DEF WillLoad
    <3>2. CASE ~on
      <4>1. /\ onlineRules' = [onlineRules EXCEPT ![r] = [enabled |-> FALSE, count |-> 0, updated |-> 0]]
            /\ adFile' = adFile /\ ~Has(r) /\ adPc[c] = "idle"
            /\ UNCHANGED <<timerVars, reloadVars, active, adClosed>>
        BY <2>2, <3>2 DEF AdPost
      <4>2. \A q \in Rules : q # r => onlineRules'[q] = onlineRules[q] BY <4>1 DEF Maps
      <4>3. ~Enabled(r)'
        <5>1. onlineRules'[r] = [enabled |-> FALSE, count |-> 0, updated |-> 0] BY <4>1 DEF Maps
        <5>2. onlineRules'[r].enabled = FALSE BY <5>1
        <5> QED BY <5>2 DEF Enabled
      <4>4. \A q \in Rules : Enabled(q)' <=> Enabled(q) BY <4>1, <4>2, <4>3 DEF Enabled, Has
      <4>5. Expected' = Expected BY <4>1, <4>4 DEF Expected
      <4>6. WillLoad => WillLoad' BY <2>2, AheadKept DEF AdPost, timerVars
      <4> QED BY <4>1, <4>4, <4>5, <4>6, LoadKept DEF reloadVars
    <3> QED BY <3>1, <3>2
  <2>3. ASSUME NEW r \in Rules, NEW on \in BOOLEAN, AdPut(c, r, on) PROVE AdLoadInv'
    <3>1. WillTrigger(c)' BY <2>3 DEF AdPut, callVars
    <3> QED BY <3>1, LoadAhead DEF WillLoad
  <2>4. ASSUME NEW due \in SUBSET Rules, AdUpdate(c, due) PROVE AdLoadInv'
    <3>1. WillTrigger(c)' BY <2>4 DEF AdUpdate, callVars
    <3> QED BY <3>1, LoadAhead DEF WillLoad
  <2> QED BY <1>1, <2>1, <2>2, <2>3, <2>4 DEF Request
<1>2. ASSUME NEW c \in Calls, CallStep(c) PROVE AdLoadInv'
  <2>1. CASE AdFetched(c)
    <3>1. WillTrigger(c)' BY <2>1 DEF AdFetched, callVars
    <3> QED BY <3>1, LoadAhead DEF WillLoad
  <2>2. CASE Trigger(c)
    <3>1. reloadID' \in timers' BY <2>2 DEF Trigger
    <3> QED BY <3>1, LoadAhead DEF WillLoad
  <2>3. ASSUME NEW r \in Rules, AdRemoveFile(c, r) PROVE AdLoadInv'
    <3>1. WillTrigger(c)' BY <2>3 DEF AdRemoveFile, callVars
    <3> QED BY <3>1, LoadAhead DEF WillLoad
  <2> QED BY <1>2, <2>1, <2>2, <2>3 DEF CallStep
<1>3. ASSUME NEW c \in Calls, NEW r \in Rules, DownloadStep(c, r) PROVE AdLoadInv'
  <2>1. CASE DownloadBegins(c, r)
    <3>1. WillLoad => WillLoad' BY <2>1, AheadKept DEF DownloadBegins, ruleVars, callVars, saveVars, timerVars, reloadVars
    <3> QED BY <2>1, <3>1, RulesKept, LoadKept DEF DownloadBegins, ruleVars, callVars, saveVars, timerVars, reloadVars
  <2>2. CASE DownloadFails(c, r)
    <3>1. WillLoad => WillLoad' BY <2>2, AheadKept DEF DownloadFails, ruleVars, callVars, saveVars, timerVars, reloadVars
    <3> QED BY <2>2, <3>1, RulesKept, LoadKept DEF DownloadFails, ruleVars, callVars, saveVars, timerVars, reloadVars
  <2>3. CASE Downloaded(c, r)
    <3>1. WillTrigger(c)' BY <2>3 DEF Downloaded, callVars
    <3> QED BY <3>1, LoadAhead DEF WillLoad
  <2>4. CASE Stamp(c, r)
    <3>1. WillTrigger(c)' BY <2>4 DEF Stamp, callVars
    <3> QED BY <3>1, LoadAhead DEF WillLoad
  <2> QED BY <1>3, <2>1, <2>2, <2>3, <2>4 DEF DownloadStep
<1>4. ASSUME NEW s \in Savers, SaveStep(s) PROVE AdLoadInv'
  <2>1. CASE SaveBegins(s)
    <3>1. WillLoad => WillLoad' BY <2>1, AheadKept DEF SaveBegins, ruleVars, callVars, saveVars, timerVars, reloadVars
    <3> QED BY <2>1, <3>1, RulesKept, LoadKept DEF SaveBegins, ruleVars, callVars, saveVars, timerVars, reloadVars
  <2>2. CASE SaveOpens(s)
    <3>1. WillLoad => WillLoad' BY <2>2, AheadKept DEF SaveOpens, ruleVars, callVars, saveVars, timerVars, reloadVars
    <3> QED BY <2>2, <3>1, RulesKept, LoadKept DEF SaveOpens, ruleVars, callVars, saveVars, timerVars, reloadVars
  <2>3. CASE SaveWrites(s)
    <3>1. WillLoad => WillLoad' BY <2>3, AheadKept DEF SaveWrites, ruleVars, callVars, saveVars, timerVars, reloadVars
    <3> QED BY <2>3, <3>1, RulesKept, LoadKept DEF SaveWrites, ruleVars, callVars, saveVars, timerVars, reloadVars
  <2>4. CASE SaveRenames(s)
    <3>1. WillLoad => WillLoad' BY <2>4, ReturnAhead DEF SaveRenames
    <3> QED BY <2>4, <3>1, RulesKept, LoadKept DEF SaveRenames, SaveReturns, ruleVars, reloadVars
  <2>5. CASE SaveFails(s)
    <3>1. WillLoad => WillLoad' BY <2>5, ReturnAhead DEF SaveFails
    <3> QED BY <2>5, <3>1, RulesKept, LoadKept DEF SaveFails, SaveReturns, ruleVars, reloadVars
  <2>6. CASE SaveError(s)
    <3>1. WillLoad => WillLoad' BY <2>6, ReturnAhead DEF SaveError
    <3> QED BY <2>6, <3>1, RulesKept, LoadKept DEF SaveError, SaveReturns, ruleVars, reloadVars
  <2> QED BY <1>4, <2>1, <2>2, <2>3, <2>4, <2>5, <2>6 DEF SaveStep
<1>5. ASSUME NEW id \in timers, Fire(id) PROVE AdLoadInv'
  <2>1. /\ timers' = timers \ {id} /\ UNCHANGED <<callVars, reloadID, unloaded>>
        /\ waiting' = IF ~adClosed /\ Newest(id) THEN waiting + 1 ELSE waiting
    BY <1>5 DEF Fire
  <2>2. WillLoad => WillLoad' \/ adClosed BY <2>1 DEF WillLoad, Newest, callVars
  <2> QED BY <1>5, <2>2, RulesKept, LoadKept DEF Fire, ruleVars, reloadVars
<1>6. ASSUME ReloadStep PROVE AdLoadInv'
  <2>1. CASE ReloadBegins
    <3>1. /\ toRead' = {r \in Rules : Enabled(r)} /\ adBuilding' = [r \in Rules |-> 0]
          /\ reload' = "count" /\ UNCHANGED <<onlineRules, adFile>>
      BY <2>1 DEF ReloadBegins, ruleVars
    <3>2. \A r \in Rules : ~Enabled(r) => Expected[r] = 0 BY DEF Expected
    <3>3. OnItsWay' BY <3>1, <3>2, RulesKept DEF OnItsWay
    <3> QED BY <3>1, <3>3 DEF AdLoadInv
  <2>2. CASE UpdateCounts
    <3>1. /\ reload = "count" /\ reload' = "read" /\ onlineRules' = Counted
          /\ UNCHANGED <<adFile, active, callVars, timerVars, toRead, adBuilding, adClosed>>
      BY <2>2 DEF UpdateCounts
    <3>2. \A r \in Rules : Enabled(r)' <=> Enabled(r)
      BY <3>1, CountedRules DEF Enabled, Has
    <3>3. Expected' = Expected BY <3>1, <3>2 DEF Expected
    <3>4. WillLoad => WillLoad' BY <3>1 DEF WillLoad, callVars, timerVars
    <3> QED BY <3>1, <3>2, <3>3, <3>4, LoadKept
  <2>3. CASE AdSwap
    <3>1. /\ toRead = {} /\ active' = adBuilding /\ reload = "read" /\ reload' = "idle"
          /\ UNCHANGED <<onlineRules, adFile, callVars, timerVars, adClosed>>
      BY <2>3 DEF AdSwap, ruleVars
    <3>2. WillLoad => WillLoad' BY <3>1 DEF WillLoad, callVars, timerVars
    <3>3. OnItsWay => adBuilding = Expected
      <4>1. OnItsWay => \A r \in Rules : adBuilding[r] = Expected[r] BY <3>1 DEF OnItsWay
      <4>2. DOMAIN Expected = Rules BY DEF Expected
      <4>3. adBuilding = [r \in Rules |-> adBuilding[r]] BY DEF AdTypes
      <4>4. Expected = [r \in Rules |-> Expected[r]] BY DEF Expected
      <4> QED BY <4>1, <4>3, <4>4
    <3> QED BY <3>1, <3>2, <3>3, RulesKept DEF AdLoadInv
  <2>4. ASSUME NEW r \in Rules, ReadFile(r) PROVE AdLoadInv'
    <3>1. /\ reload = "read" /\ r \in toRead /\ toRead' = toRead \ {r}
          /\ adBuilding' = [adBuilding EXCEPT ![r] = adFile[r]]
          /\ UNCHANGED <<onlineRules, adFile, callVars, timerVars, adClosed, reload>>
      BY <2>4 DEF ReadFile, ruleVars
    <3>2. WillLoad => WillLoad' BY <3>1 DEF WillLoad, callVars, timerVars
    <3>3. Enabled(r) => Expected[r] = adFile[r] BY DEF Expected
    <3>4. OnItsWay => OnItsWay' BY <3>1, <3>3, RulesKept DEF OnItsWay
    <3> QED BY <3>1, <3>2, <3>4 DEF AdLoadInv
  <2> QED BY <1>6, <2>1, <2>2, <2>3, <2>4 DEF ReloadStep
<1>7. CASE Close
  <2> QED BY <1>7, RulesKept, LoadKept DEF Close, ruleVars, reloadVars
<1>8. CASE UNCHANGED adVars
  <2>1. WillLoad => WillLoad' BY <1>8, AheadKept DEF adVars, callVars, timerVars
  <2> QED BY <1>8, <2>1, RulesKept, LoadKept DEF adVars, ruleVars, reloadVars
<1> QED BY <1>1, <1>2, <1>3, <1>4, <1>5, <1>6, <1>7, <1>8 DEF AdNext

AdInv == AdTypes /\ CallInv /\ AdSaveInv /\ AdLoadInv

LEMMA AdInvCorrect == AdSpec => []AdInv
<1>1. ASSUME AdInit PROVE AdInv
  <2>1. AdTypes /\ CallInv BY <1>1, AdTypesFirst
  <2>2. AdSaveInv BY <1>1 DEF AdInit, AdSaveInv, SaveBase
  <2>3. AdLoadInv BY <1>1 DEF AdInit, AdLoadInv
  <2> QED BY <2>1, <2>2, <2>3 DEF AdInv
<1>2. AdInv /\ [AdNext]_adVars => AdInv'
  BY AdTypesStep, CallStepInv, SaveStepInv, LoadStepInv DEF AdInv
<1> QED BY <1>1, <1>2, PTL DEF AdSpec

THEOREM ConfigFollowsCorrect == AdSpec => []ConfigFollows
<1>1. ASSUME AdInv PROVE ConfigFollows
  <2>1. ~adFailed /\ Saved /\ (\A c \in Calls : adPc[c] # "remove") => adConfig.rules = onlineRules
    BY <1>1 DEF AdInv, AdSaveInv, Saved
  <2>2. ~adFailed /\ ~adConfig.whole => \E s \in Savers : inode[s] = "config"
    BY <1>1 DEF AdInv, AdSaveInv, Opened
  <2> QED BY <2>1, <2>2 DEF ConfigFollows
<1> QED BY <1>1, AdInvCorrect, PTL

THEOREM ChangesLoadedCorrect == AdSpec => []ChangesLoaded
<1>1. ASSUME AdInv, Quiet PROVE active = Expected
  <2>1. ~WillLoad BY <1>1 DEF Quiet, WillLoad, WillTrigger
  <2> QED BY <1>1, <2>1 DEF Quiet, AdInv, AdLoadInv
<1>2. AdInv => ChangesLoaded BY <1>1 DEF ChangesLoaded
<1> QED BY <1>2, AdInvCorrect, PTL

-----------------------------------------------------------------------------
(* A set.  The threads of the downloads are at work only while the updater  *)
(* waits for them; only calls remove files.                                 *)
SetLabels == {"new", "idle", "done", "start", "fetch", "await", "remove", "truncate", "write",
              "note", "save", "saveCounts", "reload", "reading", "counting"}

ThreadInv ==
    /\ setKind \in {"sd", "si"}
    /\ unsaved \in BOOLEAN /\ behind \in BOOLEAN
    /\ DOMAIN sources = SetNames
    /\ tpc \in [SetThreads -> SetLabels]
    /\ DOMAIN job = SetThreads /\ DOMAIN onto = SetThreads /\ DOMAIN path = SetThreads
    /\ DOMAIN got = SetThreads
    /\ ticks = 0 => \A n \in SetNames : tpc[n] = "idle"
    /\ \A n \in SetNames : tpc[n] # "idle" => tpc[SetUpdater] = "await" /\ job[n] = "auto"
    /\ tpc[SetUpdater] \in {"idle", "done", "await", "reload", "reading", "counting", "saveCounts"}
    /\ \A n \in SetNames : tpc[n] \notin {"new", "remove", "reload", "reading", "counting", "saveCounts", "await"}
    /\ \A t \in SetCalls : tpc[t] # "await" /\ job[t] # "auto"

LEMMA Threads ==
  /\ SetUpdater \notin SetNames /\ SetUpdater \notin SetCalls
  /\ \A n \in SetNames : n \notin SetCalls /\ n \in SetThreads
  /\ \A t \in SetCalls : t \in SetThreads
  /\ SetUpdater \in SetThreads
  /\ \A t \in SetThreads : t \in SetNames \/ t \in SetCalls \/ t = SetUpdater
BY SetThreadAssumption DEF SetThreads

LEMMA ThreadFirst == ASSUME RuleSetsInit PROVE ThreadInv
<1>1. DOMAIN sources = SetNames BY DEF RuleSetsInit, LoadedFrom
<1> QED BY <1>1, Threads DEF RuleSetsInit, ThreadInv, SetLabels

LEMMA ThreadStep == ASSUME ThreadInv, [RuleSetsNext]_setVars PROVE ThreadInv'
<1> USE Threads DEF ThreadInv, SetLabels, GoOn, Finish
<1>1. ASSUME NEW t \in SetThreads, SetStep(t) PROVE ThreadInv'
  <2>1. CASE RemoveFile(t) BY <2>1 DEF RemoveFile, dataVars, jobVars, loadVars, endVars
  <2>2. CASE FetchFails(t) BY <2>2 DEF FetchFails, dataVars, diskVars, jobVars, loadVars, endVars
  <2>3. CASE TruncateFile(t) BY <2>3 DEF TruncateFile, dataVars, jobVars, loadVars, endVars
  <2>4. CASE WriteFile(t) BY <2>4 DEF WriteFile, dataVars, jobVars, loadVars, endVars
  <2>5. CASE NoteCount(t) BY <2>5 DEF NoteCount, diskVars, jobVars, loadVars, endVars
  <2>6. ASSUME NEW v \in Versions, Fetched(t, v) PROVE ThreadInv'
    BY <2>6 DEF Fetched, dataVars, diskVars, jobVars, loadVars, endVars
  <2>7. ASSUME NEW ok \in BOOLEAN, SaveConfig(t, ok) PROVE ThreadInv'
    BY <2>7 DEF SaveConfig, AfterSave, GivesUp, dataVars, jobVars, endVars
  <2>13. CASE BeginFetch(t) BY <2>13 DEF BeginFetch, dataVars, diskVars, loadVars, endVars
  <2>8. ASSUME NEW ok \in BOOLEAN, SaveCounts(t, ok) PROVE ThreadInv'
    BY <2>8 DEF SaveCounts, dataVars, jobVars, endVars
  <2>9. CASE BeginReload(t) BY <2>9 DEF BeginReload, dataVars, diskVars, endVars
  <2>10. CASE CountSource(t)
    <3>1. /\ tpc[t] = "counting" /\ tpc' = [tpc EXCEPT ![t] = "reading"]
          /\ onto' = [onto EXCEPT ![t] = Nil] /\ got' = [got EXCEPT ![t] = "none"]
          /\ UNCHANGED <<setKind, sources, diskVars, useVars, job, path, building, behind, endVars>>
      BY <2>10 DEF CountSource
    <3> QED BY <3>1 DEF diskVars, endVars
  <2>11. CASE StoreRules(t) BY <2>11 DEF StoreRules, dataVars, diskVars, jobVars, endVars
  <2>12. ASSUME NEW n \in SetNames, ReadSource(t, n) PROVE ThreadInv'
    BY <2>12 DEF ReadSource, dataVars, diskVars, endVars
  <2> QED BY <1>1, <2>1, <2>2, <2>3, <2>4, <2>5, <2>6, <2>7, <2>8, <2>9, <2>10, <2>11, <2>12, <2>13 DEF SetStep
<1>2. ASSUME NEW t \in SetThreads, SetCall(t) PROVE ThreadInv'
  <2>1. CASE RejectCall(t) BY <2>1 DEF RejectCall, dataVars, diskVars, jobVars, loadVars, endVars
  <2>2. ASSUME NEW n \in SetNames, DeleteSource(t, n) PROVE ThreadInv'
    BY <2>2 DEF DeleteSource, diskVars, loadVars, endVars
  <2>3. ASSUME NEW n \in SetNames, StartUpdate(t, n) PROVE ThreadInv'
    BY <2>3 DEF StartUpdate, dataVars, diskVars, loadVars, endVars
  <2>4. ASSUME NEW n \in SetNames, NEW on \in BOOLEAN, NEW file \in Paths, PutSource(t, n, on, file) PROVE ThreadInv'
    BY <2>4 DEF PutSource, diskVars, loadVars, endVars
  <2> QED BY <1>2, <2>1, <2>2, <2>3, <2>4 DEF SetCall
<1>3. ASSUME NEW due \in SUBSET SetNames, Tick(due) PROVE ThreadInv'
  BY <1>3 DEF Tick, dataVars, diskVars, loadVars
<1>4. CASE DownloadsOver BY <1>4 DEF DownloadsOver, dataVars, diskVars, jobVars, loadVars, endVars
<1>5. CASE UpdaterEnds BY <1>5 DEF UpdaterEnds, dataVars, diskVars, jobVars, loadVars, endVars
<1>6. CASE CloseSet BY <1>6 DEF CloseSet, dataVars, diskVars, jobVars, loadVars, endVars
<1>7. CASE UNCHANGED setVars BY <1>7 DEF setVars, dataVars, diskVars, jobVars, loadVars, endVars
<1> QED BY <1>1, <1>2, <1>3, <1>4, <1>5, <1>6, <1>7 DEF RuleSetsNext

(* Disk: unless the last save has failed, the configuration is what is in     *)
(* memory or somebody is to save.                                           *)
DiskInv == ~unsaved => config = Snapshot \/ \E t \in SetThreads : SavesInSight(t)

(* A step that leaves the sources as they are, and saves in sight where    *)
(* they were.                                                              *)
LEMMA DiskSame ==
  ASSUME DiskInv, UNCHANGED <<heap, sources, config, unsaved>>,
         \A t \in SetThreads : SavesInSight(t) => SavesInSight(t)'
  PROVE  DiskInv'
BY DEF DiskInv, Snapshot, Source, InUse

LEMMA DiskSeen ==
  ASSUME NEW t \in SetThreads, SavesInSight(t)' PROVE DiskInv'
BY DEF DiskInv

LEMMA DiskWritten ==
  ASSUME NEW ok \in BOOLEAN, config' = IF ok THEN Snapshot ELSE config, unsaved' = ~ok,
         UNCHANGED <<heap, sources>>
  PROVE  DiskInv'
BY DEF DiskInv, Snapshot, Source, InUse

LEMMA DiskStep == ASSUME ThreadInv, DiskInv, [RuleSetsNext]_setVars PROVE DiskInv'
<1> USE Threads DEF ThreadInv, SetLabels, GoOn, Finish, SavesInSight, Reloading
<1>1. ASSUME NEW t \in SetThreads, SetStep(t) PROVE DiskInv'
  <2>1. CASE RemoveFile(t) BY <2>1, DiskSeen DEF RemoveFile
  <2>2. CASE FetchFails(t) BY <2>2, DiskSame DEF FetchFails, dataVars, diskVars, loadVars
  <2>3. CASE TruncateFile(t) BY <2>3, DiskSame DEF TruncateFile, dataVars, loadVars
  <2>4. CASE WriteFile(t) BY <2>4, DiskSame DEF WriteFile, dataVars, loadVars
  <2>5. CASE NoteCount(t) BY <2>5, DiskSeen DEF NoteCount
  <2>6. ASSUME NEW v \in Versions, Fetched(t, v) PROVE DiskInv'
    BY <2>6, DiskSame DEF Fetched, dataVars, diskVars, loadVars
  <2>7. ASSUME NEW ok \in BOOLEAN, SaveConfig(t, ok) PROVE DiskInv'
    BY <2>7, DiskWritten DEF SaveConfig, dataVars
  <2>13. CASE BeginFetch(t) BY <2>13, DiskSame DEF BeginFetch, dataVars, diskVars, loadVars
  <2>8. ASSUME NEW ok \in BOOLEAN, SaveCounts(t, ok) PROVE DiskInv'
    BY <2>8, DiskWritten DEF SaveCounts, dataVars
  <2>9. CASE BeginReload(t) BY <2>9, DiskSame DEF BeginReload, dataVars, diskVars
  <2>10. CASE CountSource(t)
    <3> DEFINE differs == CountDiffers(t, onto[t])
    <3>1. /\ tpc[t] = "counting" /\ tpc' = [tpc EXCEPT ![t] = "reading"]
          /\ UNCHANGED <<sources, diskVars>>
      BY <2>10 DEF CountSource
    <3>2. differs => recount' = recount \cup {t} BY <2>10 DEF CountSource
    <3>3. ~differs => UNCHANGED <<heap, recount>> BY <2>10 DEF CountSource
    <3> HIDE DEF differs
    <3>4. CASE differs BY <3>1, <3>2, <3>4, DiskSeen
    <3>5. CASE ~differs BY <3>1, <3>3, <3>5, DiskSame DEF diskVars
    <3> QED BY <3>4, <3>5
  <2>11. CASE StoreRules(t) BY <2>11, DiskSame DEF StoreRules, NeedsSave, dataVars, diskVars
  <2>12. ASSUME NEW n \in SetNames, ReadSource(t, n) PROVE DiskInv'
    BY <2>12, DiskSame DEF ReadSource, dataVars, diskVars
  <2> QED BY <1>1, <2>1, <2>2, <2>3, <2>4, <2>5, <2>6, <2>7, <2>8, <2>9, <2>10, <2>11, <2>12, <2>13 DEF SetStep
<1>2. ASSUME NEW t \in SetThreads, SetCall(t) PROVE DiskInv'
  <2>1. CASE RejectCall(t) BY <2>1, DiskSame DEF RejectCall, dataVars, diskVars, loadVars
  <2>2. ASSUME NEW n \in SetNames, DeleteSource(t, n) PROVE DiskInv' BY <2>2, DiskSeen DEF DeleteSource
  <2>3. ASSUME NEW n \in SetNames, StartUpdate(t, n) PROVE DiskInv'
    BY <2>3, DiskSame DEF StartUpdate, dataVars, diskVars, loadVars
  <2>4. ASSUME NEW n \in SetNames, NEW on \in BOOLEAN, NEW file \in Paths, PutSource(t, n, on, file) PROVE DiskInv'
    BY <2>4, DiskSeen DEF PutSource
  <2> QED BY <1>2, <2>1, <2>2, <2>3, <2>4 DEF SetCall
<1>3. ASSUME NEW due \in SUBSET SetNames, Tick(due) PROVE DiskInv'
  BY <1>3, DiskSame DEF Tick, dataVars, diskVars, loadVars
<1>4. CASE DownloadsOver BY <1>4, DiskSame DEF DownloadsOver, dataVars, diskVars, loadVars
<1>5. CASE UpdaterEnds BY <1>5, DiskSame DEF UpdaterEnds, dataVars, diskVars, loadVars
<1>6. CASE CloseSet BY <1>6, DiskSame DEF CloseSet, dataVars, diskVars, loadVars
<1>7. CASE UNCHANGED setVars BY <1>7, DiskSame DEF setVars, dataVars, diskVars, loadVars
<1> QED BY <1>1, <1>2, <1>3, <1>4, <1>5, <1>6, <1>7 DEF RuleSetsNext
(* Reloads.  A call that has changed something, and an updater that waits,  *)
(* will reload, if no save of a handler fails.                             *)
WillReload(t) ==
    \/ tpc[t] \in {"remove", "await", "reload"}
    \/ t \in SetCalls /\ tpc[t] \in {"note", "save"}

(* A reload that began from the sources as they are, and has right what it  *)
(* has read.                                                               *)
Listed(t, n) == \E s \in todo[t] : s[1] = n
Read(t, n) == Listed(t, n) => tpc[t] = "counting" /\ onto[t] = n
OnTheWay(t) ==
    /\ todo[t] \subseteq {<<n, sources[n]>> : n \in Wanted}
    /\ \A n \in SetNames : Read(t, n) => Exact(n, building[t])

BuildInv ==
    /\ building \in [SetThreads -> [SetNames -> Versions \cup {"none", "part"}]]
    /\ todo \in [SetThreads -> SUBSET (SetNames \X (SetNames \cup SetCalls))]
    /\ srs \in [Paths -> Versions \cup {"none", "torn"}]
    /\ \A t \in SetThreads : tpc[t] \in {"truncate", "write"} => got[t] \in Versions
    /\ \A t \in SetThreads : ~Reloading(t) => building[t] = Empty
    /\ \A t \in SetThreads : tpc[t] = "counting" => \E s \in todo[t] : s[1] = onto[t]
    /\ ~behind => \A t, u \in SetThreads : Reloading(t) /\ Reloading(u) => t = u

(* If nobody will reload, the reload that runs reads what there is, and if  *)
(* none runs, the last one has.                                            *)
LoadInv ==
    ~behind /\ (\A t \in SetThreads : ~WillReload(t)) =>
        /\ \A t \in SetThreads : Reloading(t) => OnTheWay(t)
        /\ (\A t \in SetThreads : ~Reloading(t)) => \A n \in SetNames : Exact(n, matcher)

LEMMA BuildFirst == ASSUME RuleSetsInit PROVE BuildInv
BY Threads, VersionAssumption DEF RuleSetsInit, BuildInv, Empty, Reloading

LEMMA LoadFirst == ASSUME RuleSetsInit PROVE LoadInv
<1>1. PICK kept \in SUBSET SetNames, place \in [SetNames -> Paths] : \E on \in SUBSET kept :
        LoadedFrom(kept, place, on)
  BY DEF RuleSetsInit
<1>2. PICK on \in SUBSET kept : LoadedFrom(kept, place, on) BY <1>1
<1>3. \A n \in SetNames : n \in on <=> n \in Wanted
  <2> SUFFICES ASSUME NEW n \in SetNames PROVE n \in on <=> n \in Wanted OBVIOUS
  <2>1. InUse(n) <=> n \in kept BY <1>2, SetThreadAssumption DEF InUse, LoadedFrom
  <2>2. n \in kept => sources[n] = n BY <1>2 DEF LoadedFrom
  <2>3. n \in kept => heap[n].enabled = (n \in on) BY <1>2 DEF LoadedFrom
  <2> QED BY <2>1, <2>2, <2>3 DEF Wanted, Source
<1>4. \A n \in on : File(n) = place[n] BY <1>2 DEF LoadedFrom, File, Source
<1>6. \A n \in SetNames : Exact(n, matcher) BY <1>2, <1>3, <1>4 DEF Exact, LoadedFrom
<1>5. \A t \in SetThreads : ~Reloading(t) BY DEF RuleSetsInit, Reloading
<1> QED BY <1>5, <1>6 DEF LoadInv

(* The sources: each with a path.  What may change in one without a reload  *)
(* is its count.                                                           *)
HeapInv ==
    /\ DOMAIN heap = SetNames \cup SetCalls
    /\ \A i \in DOMAIN heap : {"enabled", "file"} \subseteq DOMAIN heap[i] /\ heap[i].file \in Paths
    /\ \A n \in SetNames : sources[n] \in DOMAIN heap \cup {Nil}

(* Whatever comes out of a file can be in a matcher. *)
LEMMA ParsedIs ==
  ASSUME BuildInv, NEW file \in Paths, NEW rules \in Parsed(file)
  PROVE  (IF rules = "bad" THEN "none" ELSE rules) \in Versions \cup {"none", "part"}
BY VersionAssumption DEF BuildInv, Parsed

(* A source that a reload has seen is one of the heap. *)
LEMMA SeenIs ==
  ASSUME BuildInv, HeapInv, NEW t \in SetThreads, NEW n, Listed(t, n)
  PROVE  Seen(t, n) \in todo[t] /\ Seen(t, n)[1] = n /\ Seen(t, n)[2] \in DOMAIN heap
<1>1. Seen(t, n) \in todo[t] /\ Seen(t, n)[1] = n BY DEF Listed, Seen
<1>2. todo[t] \subseteq SetNames \X DOMAIN heap BY DEF BuildInv, HeapInv
<1> QED BY <1>1, <1>2

LEMMA BuildStep == ASSUME ThreadInv, BuildInv, HeapInv, [RuleSetsNext]_setVars PROVE BuildInv'
<1> USE Threads, VersionAssumption DEF ThreadInv, SetLabels, GoOn, Finish, BuildInv, Reloading, Empty
<1>1. ASSUME NEW t \in SetThreads, SetStep(t) PROVE BuildInv'
  <2>1. CASE RemoveFile(t)
    <3>1. srs' \in {srs, [srs EXCEPT ![path[t]] = "none"]} BY <2>1 DEF RemoveFile
    <3>2. srs' \in [Paths -> Versions \cup {"none", "torn"}] BY <2>1, <3>1 DEF RemoveFile
    <3>3. tpc[t] \in {"remove", "truncate", "write"} /\ tpc' = [tpc EXCEPT ![t] = "save"] BY <2>1 DEF RemoveFile
    <3>4. UNCHANGED <<building, todo, got, behind, onto>>
      BY <2>1 DEF RemoveFile, jobVars, loadVars
    <3> QED BY <3>2, <3>3, <3>4
  <2>2. CASE FetchFails(t)
    BY <2>2 DEF FetchFails, dataVars, diskVars, useVars, jobVars, loadVars, endVars
  <2>3. CASE TruncateFile(t)
    <3>1. srs' = [srs EXCEPT ![path[t]] = "torn"] BY <2>3 DEF TruncateFile
    <3>2. srs' \in [Paths -> Versions \cup {"none", "torn"}] BY <2>3, <3>1 DEF TruncateFile
    <3>3. tpc[t] = "truncate" BY <2>3 DEF TruncateFile
    <3>4. UNCHANGED <<building, todo, got, behind, onto>>
      BY <2>3 DEF TruncateFile, jobVars, loadVars
    <3>5. PICK l \in {"write", "done", "idle"} : tpc' = [tpc EXCEPT ![t] = l] BY <2>3 DEF TruncateFile
    <3> QED BY <3>2, <3>3, <3>4, <3>5
  <2>4. CASE WriteFile(t)
    <3>1. srs' = [srs EXCEPT ![path[t]] = got[t]] BY <2>4 DEF WriteFile
    <3>2. srs' \in [Paths -> Versions \cup {"none", "torn"}] BY <2>4, <3>1 DEF WriteFile
    <3>3. tpc[t] \in {"remove", "truncate", "write"} /\ tpc' = [tpc EXCEPT ![t] = "note"] BY <2>4 DEF WriteFile
    <3>4. UNCHANGED <<building, todo, got, behind, onto>>
      BY <2>4 DEF WriteFile, jobVars, loadVars
    <3> QED BY <3>2, <3>3, <3>4
  <2>5. CASE NoteCount(t)
    BY <2>5 DEF NoteCount, dataVars, diskVars, useVars, jobVars, loadVars, endVars
  <2>6. ASSUME NEW v \in Versions, Fetched(t, v) PROVE BuildInv'
    BY <2>6 DEF Fetched, dataVars, diskVars, useVars, jobVars, loadVars, endVars
  <2>7. ASSUME NEW ok \in BOOLEAN, SaveConfig(t, ok) PROVE BuildInv'
    BY <2>7 DEF SaveConfig, AfterSave, GivesUp, dataVars, diskVars, useVars, jobVars, endVars
  <2>13. CASE BeginFetch(t) BY <2>13 DEF BeginFetch, dataVars, diskVars, useVars, loadVars, endVars
  <2>8. ASSUME NEW ok \in BOOLEAN, SaveCounts(t, ok) PROVE BuildInv'
    BY <2>8 DEF SaveCounts, dataVars, diskVars, useVars, jobVars, loadVars, endVars
  <2>9. CASE BeginReload(t)
    <3>1. {<<n, sources[n]>> : n \in Wanted} \subseteq SetNames \X (SetNames \cup SetCalls)
      BY DEF HeapInv, Wanted, InUse
    <3>2. todo' \in [SetThreads -> SUBSET (SetNames \X (SetNames \cup SetCalls))]
      BY <2>9, <3>1 DEF BeginReload
    <3> QED BY <2>9, <3>2 DEF BeginReload, diskVars
  <2>10. CASE CountSource(t)
    BY <2>10 DEF CountSource, dataVars, diskVars, useVars, jobVars, loadVars, endVars
  <2>11. CASE StoreRules(t)
    BY <2>11 DEF StoreRules, dataVars, diskVars, useVars, jobVars, loadVars, endVars
  <2>12. ASSUME NEW n \in SetNames, ReadSource(t, n) PROVE BuildInv'
    <3>1. Listed(t, n) BY <2>12 DEF ReadSource, Listed
    <3>2. PICK rules \in Parsed(heap[Seen(t, n)[2]].file) :
             /\ got' = [got EXCEPT ![t] = rules]
             /\ building' = [building EXCEPT ![t][n] = IF rules = "bad" THEN "none" ELSE rules]
      BY <2>12 DEF ReadSource
    <3>3. heap[Seen(t, n)[2]].file \in Paths BY <3>1, SeenIs DEF HeapInv
    <3>4. (IF rules = "bad" THEN "none" ELSE rules) \in Versions \cup {"none", "part"}
      BY <3>2, <3>3, ParsedIs
    <3>5. building' \in [SetThreads -> [SetNames -> Versions \cup {"none", "part"}]] BY <3>2, <3>4
    <3>6. /\ tpc[t] = "reading" /\ tpc' = [tpc EXCEPT ![t] = "counting"]
          /\ onto' = [onto EXCEPT ![t] = n] /\ UNCHANGED <<srs, todo, behind>>
      BY <2>12 DEF ReadSource, diskVars
    <3>7. \A u \in SetThreads : u # t => building'[u] = building[u] /\ got'[u] = got[u] BY <3>2
    <3> QED BY <3>1, <3>2, <3>5, <3>6, <3>7 DEF Listed
  <2> QED BY <1>1, <2>1, <2>2, <2>3, <2>4, <2>5, <2>6, <2>7, <2>8, <2>9, <2>10, <2>11, <2>12, <2>13 DEF SetStep
<1>2. ASSUME NEW t \in SetThreads, SetCall(t) PROVE BuildInv'
  <2>1. CASE RejectCall(t) BY <2>1 DEF RejectCall, dataVars, diskVars, useVars, jobVars, loadVars, endVars
  <2>2. ASSUME NEW n \in SetNames, DeleteSource(t, n) PROVE BuildInv' BY <2>2 DEF DeleteSource, dataVars, diskVars, useVars, jobVars, loadVars, endVars
  <2>3. ASSUME NEW n \in SetNames, StartUpdate(t, n) PROVE BuildInv' BY <2>3 DEF StartUpdate, dataVars, diskVars, useVars, jobVars, loadVars, endVars
  <2>4. ASSUME NEW n \in SetNames, NEW on \in BOOLEAN, NEW file \in Paths, PutSource(t, n, on, file) PROVE BuildInv'
    BY <2>4 DEF PutSource, dataVars, diskVars, useVars, jobVars, loadVars, endVars
  <2> QED BY <1>2, <2>1, <2>2, <2>3, <2>4 DEF SetCall
<1>3. ASSUME NEW due \in SUBSET SetNames, Tick(due) PROVE BuildInv' BY <1>3 DEF Tick, dataVars, diskVars, useVars, jobVars, loadVars, endVars
<1>4. CASE DownloadsOver BY <1>4 DEF DownloadsOver, dataVars, diskVars, useVars, jobVars, loadVars, endVars
<1>5. CASE UpdaterEnds BY <1>5 DEF UpdaterEnds, dataVars, diskVars, useVars, jobVars, loadVars, endVars
<1>6. CASE CloseSet BY <1>6 DEF CloseSet, dataVars, diskVars, useVars, jobVars, loadVars, endVars
<1>7. CASE UNCHANGED setVars BY <1>7 DEF setVars, dataVars, diskVars, useVars, jobVars, loadVars, endVars
<1> QED BY <1>1, <1>2, <1>3, <1>4, <1>5, <1>6, <1>7 DEF RuleSetsNext

SourcesKept ==
    sources' = sources /\ Wanted' = Wanted /\ \A n \in Wanted : File(n)' = File(n)

LEMMA CountKeeps ==
  ASSUME HeapInv, NEW n, NEW c, heap' = SetCount(n, c), sources' = sources
  PROVE  HeapInv' /\ SourcesKept
<1>1. CASE ~InUse(n) BY <1>1 DEF HeapInv, SetCount, SourcesKept, File, Wanted, Source, InUse
<1>2. CASE InUse(n)
  <2>1. heap' = [heap EXCEPT ![sources[n]].count = c] BY <1>2 DEF SetCount
  <2>2. DOMAIN heap' = DOMAIN heap BY <2>1
  <2>3. \A i \in DOMAIN heap : /\ DOMAIN heap'[i] = DOMAIN heap[i]
                               /\ heap'[i].enabled = heap[i].enabled /\ heap'[i].file = heap[i].file
    BY <2>1 DEF HeapInv
  <2>4. \A m \in SetNames : InUse(m) => sources[m] \in DOMAIN heap BY DEF HeapInv, InUse
  <2>5. Wanted' = Wanted BY <2>3, <2>4 DEF Wanted, Source, InUse
  <2>6. \A m \in Wanted : File(m)' = File(m) BY <2>3, <2>4 DEF Wanted, File, Source
  <2>7. HeapInv' BY <2>2, <2>3 DEF HeapInv
  <2> QED BY <2>5, <2>6, <2>7 DEF SourcesKept
<1> QED BY <1>1, <1>2

(* A step after which somebody will reload.                                *)
LEMMA LoadSeen == ASSUME NEW t \in SetThreads, WillReload(t)' PROVE LoadInv'
BY DEF LoadInv

(* A step that leaves sources, matchers and reloads as they are, and the    *)
(* files too, or tears one.                                                *)
LEMMA LoadSame ==
  ASSUME LoadInv, ~behind' => ~behind, HeapInv, SourcesKept,
         \A p \in Paths : srs'[p] = srs[p] \/ srs'[p] = "torn",
         UNCHANGED <<matcher, building, todo>>,
         \A t \in SetThreads : WillReload(t) => WillReload(t)',
         \A t \in SetThreads : Reloading(t)' <=> Reloading(t),
         \A t \in SetThreads : Reloading(t) => tpc'[t] = tpc[t] /\ onto'[t] = onto[t]
  PROVE  LoadInv'
<1> SUFFICES ASSUME ~behind', \A t \in SetThreads : ~WillReload(t)'
             PROVE  /\ \A t \in SetThreads : Reloading(t)' => OnTheWay(t)'
                    /\ (\A t \in SetThreads : ~Reloading(t)') =>
                          \A n \in SetNames : Exact(n, matcher)'
  BY DEF LoadInv
<1>0. \A n \in Wanted : File(n) \in Paths BY DEF Wanted, InUse, HeapInv, File, Source
<1>1. \A n \in SetNames :
        /\ Exact(n, matcher) => Exact(n, matcher)'
        /\ \A t \in SetThreads : Exact(n, building[t]) => Exact(n, building[t])'
  BY <1>0 DEF Exact, SourcesKept
<1>2. \A t \in SetThreads, n \in SetNames : Reloading(t) =>
         (Listed(t, n)' <=> Listed(t, n)) /\ (Read(t, n)' <=> Read(t, n))
  BY DEF Listed, Read
<1>3. \A t \in SetThreads : Reloading(t)' => OnTheWay(t)'
  BY <1>1, <1>2 DEF LoadInv, OnTheWay, SourcesKept
<1> QED BY <1>1, <1>3 DEF LoadInv

LEMMA HeapFirst == ASSUME RuleSetsInit PROVE HeapInv
<1>1. PICK kept \in SUBSET SetNames, place \in [SetNames -> Paths] : \E on \in SUBSET kept :
        LoadedFrom(kept, place, on)
  BY DEF RuleSetsInit
<1>2. PICK on \in SUBSET kept : LoadedFrom(kept, place, on) BY <1>1
<1>3. \A i \in SetNames \cup SetCalls :
         {"enabled", "file"} \subseteq DOMAIN heap[i] /\ heap[i].file \in Paths
  <2> SUFFICES ASSUME NEW i \in SetNames \cup SetCalls
               PROVE  {"enabled", "file"} \subseteq DOMAIN heap[i] /\ heap[i].file \in Paths
    OBVIOUS
  <2>1. Blank.file \in Paths BY VersionAssumption DEF Blank
  <2>2. {"enabled", "file"} \subseteq DOMAIN Blank BY DEF Blank
  <2>3. CASE i \in kept
    <3>1. heap[i] = [enabled |-> i \in on, file |-> place[i],
                     count |-> IF i \in on THEN Count(srs[place[i]]) ELSE "none"]
      BY <1>2, <2>3 DEF LoadedFrom
    <3>2. place[i] \in Paths BY <2>3
    <3> QED BY <3>1, <3>2
  <2>4. CASE i \notin kept BY <1>2, <2>1, <2>2, <2>4 DEF LoadedFrom
  <2> QED BY <2>3, <2>4
<1>4. \A n \in SetNames : sources[n] \in {n, Nil} BY <1>2 DEF LoadedFrom
<1> QED BY <1>2, <1>3, <1>4 DEF HeapInv, LoadedFrom

(* The steps that do not change a source.                                  *)
LEMMA SourcesSame ==
  ASSUME HeapInv, UNCHANGED <<heap, sources>> PROVE HeapInv' /\ SourcesKept
BY DEF HeapInv, SourcesKept, Wanted, File, Source, InUse

LEMMA LoadStep ==
  ASSUME ThreadInv, BuildInv, HeapInv, LoadInv, [RuleSetsNext]_setVars
  PROVE  HeapInv' /\ LoadInv'
<1> USE Threads DEF ThreadInv, SetLabels, GoOn, Finish, WillReload, Reloading
<1> DEFINE G == HeapInv' /\ LoadInv'
<1>1. ASSUME NEW t \in SetThreads, SetStep(t) PROVE G
  <2>1. CASE RemoveFile(t)
    BY <2>1, SourcesSame, LoadSeen DEF RemoveFile, dataVars, diskVars, useVars, jobVars, loadVars, endVars
  <2>2. CASE FetchFails(t)
    BY <2>2, SourcesSame, LoadSame DEF FetchFails, dataVars, diskVars, useVars, jobVars, loadVars, endVars
  <2>3. CASE TruncateFile(t)
    <3>1. PICK l \in {"write", "done", "idle"} : tpc' = [tpc EXCEPT ![t] = l] BY <2>3 DEF TruncateFile
    <3>2. \A p \in Paths : srs'[p] = srs[p] \/ srs'[p] = "torn" BY <2>3 DEF TruncateFile, BuildInv
    <3> QED BY <2>3, <3>1, <3>2, SourcesSame, LoadSame DEF TruncateFile, dataVars, useVars, jobVars, loadVars
  <2>4. CASE WriteFile(t)
    <3>1. WillReload(t)' \/ WillReload(SetUpdater)' BY <2>4 DEF WriteFile
    <3> QED BY <2>4, <3>1, SourcesSame, LoadSeen DEF WriteFile, dataVars
  <2>5. CASE NoteCount(t)
    <3>1. WillReload(t)' \/ WillReload(SetUpdater)' BY <2>5 DEF NoteCount
    <3> QED BY <2>5, <3>1, CountKeeps, LoadSeen DEF NoteCount
  <2>6. ASSUME NEW v \in Versions, Fetched(t, v) PROVE G
    BY <2>6, SourcesSame, LoadSame DEF Fetched, dataVars, diskVars, useVars, jobVars, loadVars, endVars
  <2>7. ASSUME NEW ok \in BOOLEAN, SaveConfig(t, ok) PROVE G
    <3>1. ~GivesUp(t, ok) => WillReload(t)' \/ WillReload(SetUpdater)'
      BY <2>7 DEF SaveConfig, AfterSave
    <3>2. GivesUp(t, ok) => behind' BY <2>7 DEF SaveConfig
    <3>3. LoadInv' BY <3>1, <3>2, LoadSeen DEF LoadInv
    <3> QED BY <2>7, <3>3, SourcesSame DEF SaveConfig, dataVars
  <2>8. ASSUME NEW ok \in BOOLEAN, SaveCounts(t, ok) PROVE G
    BY <2>8, SourcesSame, LoadSame DEF SaveCounts, dataVars, diskVars, useVars, jobVars, loadVars, endVars
  <2>13. CASE BeginFetch(t)
    BY <2>13, SourcesSame, LoadSame DEF BeginFetch, dataVars, diskVars, useVars, loadVars, endVars
  <2>9. CASE BeginReload(t)
    <3>1. HeapInv' /\ SourcesKept BY <2>9, SourcesSame DEF BeginReload, dataVars
    <3>2. /\ tpc' = [tpc EXCEPT ![t] = "reading"] /\ tpc[t] = "reload"
          /\ UNCHANGED <<building, srs>>
          /\ todo'[t] = {<<n, sources[n]>> : n \in Wanted}
      BY <2>9 DEF BeginReload, diskVars, BuildInv
    <3>3. ~behind' => \A u \in SetThreads : ~Reloading(u) BY <2>9 DEF BeginReload
    <3>4. \A n \in SetNames : Listed(t, n)' <=> n \in Wanted
      <4> SUFFICES ASSUME NEW n \in SetNames PROVE Listed(t, n)' <=> n \in Wanted OBVIOUS
      <4>1. ASSUME n \in Wanted PROVE Listed(t, n)'
        <5>1. <<n, sources[n]>> \in todo'[t] BY <3>2, <4>1
        <5> QED BY <5>1 DEF Listed
      <4>2. ASSUME NEW s \in todo'[t], s[1] = n PROVE n \in Wanted BY <3>2, <4>2
      <4> QED BY <4>1, <4>2 DEF Listed
    <3>5. \A n \in SetNames : Read(t, n)' => n \notin Wanted
      BY <3>2, <3>4 DEF Read
    <3>6. \A n \in SetNames : building'[t][n] = "none" BY <3>2 DEF BuildInv, Empty
    <3>7. OnTheWay(t)' BY <3>1, <3>2, <3>5, <3>6 DEF OnTheWay, Exact, SourcesKept
    <3>8. LoadInv' BY <3>2, <3>3, <3>7 DEF LoadInv
    <3> QED BY <3>1, <3>8
  <2>10. CASE CountSource(t)
    <3> DEFINE n == onto[t]
               seen == Seen(t, n)
    <3>1. /\ tpc[t] = "counting" /\ tpc' = [tpc EXCEPT ![t] = "reading"]
          /\ todo' = [todo EXCEPT ![t] = @ \ {seen}]
          /\ UNCHANGED <<sources, srs, matcher, building, behind>>
      BY <2>10 DEF CountSource, diskVars, useVars
    <3>2. heap' = SetCount(n, Count(got[t])) \/ heap' = heap BY <2>10 DEF CountSource
    <3>3. HeapInv' /\ SourcesKept BY <3>1, <3>2, CountKeeps, SourcesSame
    <3>4. seen \in todo[t] /\ seen[1] = n BY <3>1, SeenIs DEF BuildInv, Listed
    <3> HIDE DEF seen
    <3>5. todo'[t] \subseteq todo[t] BY <3>1 DEF BuildInv
    <3>6. \A m \in SetNames : Read(t, m)' => Read(t, m)
      BY <3>1, <3>4 DEF Listed, Read, BuildInv
    <3>7. OnTheWay(t) => OnTheWay(t)' BY <3>1, <3>3, <3>5, <3>6 DEF OnTheWay, Exact, SourcesKept
    <3>12. \A m \in SetNames : Exact(m, matcher) => Exact(m, matcher)'
      BY <3>1, <3>3 DEF Exact, SourcesKept
    <3>8. \A u \in SetThreads : Reloading(u)' <=> Reloading(u) BY <3>1
    <3>9. ~behind' => ~behind /\ \A u \in SetThreads : Reloading(u) => u = t
      BY <3>1 DEF BuildInv
    <3>10. \A u \in SetThreads : WillReload(u)' <=> WillReload(u) BY <3>1
    <3>11. LoadInv' BY <3>1, <3>7, <3>8, <3>9, <3>10, <3>12 DEF LoadInv
    <3> QED BY <3>3, <3>11
  <2>11. CASE StoreRules(t)
    <3>1. HeapInv' /\ SourcesKept BY <2>11, SourcesSame DEF StoreRules, dataVars
    <3>2. /\ tpc[t] = "reading" /\ todo[t] = {} /\ matcher' = building[t]
          /\ UNCHANGED <<srs, behind>>
      BY <2>11 DEF StoreRules, diskVars
    <3>3. PICK l \in {"saveCounts", "done", "idle"} : tpc' = [tpc EXCEPT ![t] = l]
      BY <2>11 DEF StoreRules
    <3>4. \A n \in SetNames : Read(t, n) BY <3>2 DEF Read, Listed
    <3>5. OnTheWay(t) => \A n \in SetNames : Exact(n, matcher)'
      BY <3>1, <3>2, <3>4 DEF OnTheWay, Exact, SourcesKept
    <3>6. ~behind' => ~behind /\ \A u \in SetThreads : Reloading(u) => u = t
      BY <3>2 DEF BuildInv
    <3>7. \A u \in SetThreads : WillReload(u)' <=> WillReload(u) BY <3>2, <3>3
    <3>8. ~behind' => \A u \in SetThreads : ~Reloading(u)' BY <3>3, <3>6
    <3>9. LoadInv' BY <3>2, <3>5, <3>6, <3>7, <3>8 DEF LoadInv
    <3> QED BY <3>1, <3>9
  <2>12. ASSUME NEW n \in SetNames, ReadSource(t, n) PROVE G
    <3>1. HeapInv' /\ SourcesKept BY <2>12, SourcesSame DEF ReadSource, dataVars
    <3>2. /\ tpc[t] = "reading" /\ Listed(t, n) /\ tpc' = [tpc EXCEPT ![t] = "counting"]
          /\ onto' = [onto EXCEPT ![t] = n]
          /\ UNCHANGED <<todo, srs, behind, matcher>>
      BY <2>12 DEF ReadSource, diskVars, useVars, Listed
    <3>3. PICK rules \in Parsed(heap[Seen(t, n)[2]].file) :
             building' = [building EXCEPT ![t][n] = IF rules = "bad" THEN "none" ELSE rules]
      BY <2>12 DEF ReadSource
    <3>4. OnTheWay(t) => n \in Wanted /\ Seen(t, n)[2] = sources[n]
      <4>1. Seen(t, n) \in todo[t] /\ Seen(t, n)[1] = n BY <3>2, SeenIs
      <4> QED BY <4>1 DEF OnTheWay
    <3>12. OnTheWay(t) => Exact(n, building[t])'
      <4> SUFFICES ASSUME OnTheWay(t) PROVE Exact(n, building[t])' OBVIOUS
      <4>1. heap[Seen(t, n)[2]].file = File(n) /\ n \in Wanted BY <3>4 DEF File, Source
      <4>2. File(n) \in Paths BY <4>1 DEF Wanted, InUse, HeapInv, File, Source
      <4>3. srs[File(n)] # "torn" => rules = srs[File(n)] /\ rules # "bad"
        BY <3>3, <4>1, <4>2, VersionAssumption DEF Parsed, BuildInv
      <4>4. building'[t][n] = IF rules = "bad" THEN "none" ELSE rules BY <3>3 DEF BuildInv
      <4> QED BY <3>1, <3>2, <4>1, <4>3, <4>4 DEF Exact, SourcesKept
    <3>5. \A m \in SetNames : m # n => building'[t][m] = building[t][m]
      BY <3>3 DEF BuildInv
    <3>6. \A m \in SetNames : Listed(t, m)' <=> Listed(t, m) BY <3>2 DEF Listed
    <3>7. \A m \in SetNames : m # n /\ Read(t, m)' => Read(t, m)
      BY <3>2, <3>6 DEF Read
    <3>13. \A m \in SetNames : m # n /\ Exact(m, building[t]) => Exact(m, building[t])'
      BY <3>1, <3>2, <3>5 DEF Exact, SourcesKept
    <3>8. OnTheWay(t) => OnTheWay(t)'
      BY <3>1, <3>2, <3>7, <3>12, <3>13 DEF OnTheWay, SourcesKept
    <3>9. ~behind' => ~behind /\ \A u \in SetThreads : Reloading(u) => u = t
      BY <3>2 DEF BuildInv
    <3>10. \A u \in SetThreads : (WillReload(u)' <=> WillReload(u)) /\ (Reloading(u)' <=> Reloading(u))
      BY <3>2
    <3>11. LoadInv' BY <3>2, <3>8, <3>9, <3>10 DEF LoadInv
    <3> QED BY <3>1, <3>11
  <2> QED BY <1>1, <2>1, <2>2, <2>3, <2>4, <2>5, <2>6, <2>7, <2>8, <2>9, <2>10, <2>11, <2>12, <2>13 DEF SetStep
<1>2. ASSUME NEW t \in SetThreads, SetCall(t) PROVE G
  <2>1. CASE RejectCall(t)
    BY <2>1, SourcesSame, LoadSame DEF RejectCall, dataVars, diskVars, useVars, jobVars, loadVars, endVars
  <2>2. ASSUME NEW n \in SetNames, DeleteSource(t, n) PROVE G
    <3>1. HeapInv' BY <2>2 DEF DeleteSource, HeapInv
    <3>2. LoadInv' BY <2>2, LoadSeen DEF DeleteSource
    <3> QED BY <3>1, <3>2
  <2>3. ASSUME NEW n \in SetNames, StartUpdate(t, n) PROVE G
    BY <2>3, SourcesSame, LoadSame DEF StartUpdate, dataVars, diskVars, useVars, jobVars, loadVars, endVars
  <2>4. ASSUME NEW n \in SetNames, NEW on \in BOOLEAN, NEW file \in Paths, PutSource(t, n, on, file) PROVE G
    <3>1. CASE InUse(n)
      <4>1. /\ heap' = [heap EXCEPT ![sources[n]] = [@ EXCEPT !.enabled = on, !.file = file]]
            /\ sources' = sources
        BY <2>4, <3>1 DEF PutSource
      <4> QED BY <2>4, <4>1, LoadSeen DEF PutSource, HeapInv
    <3>2. CASE ~InUse(n)
      <4>1. /\ heap' = [heap EXCEPT ![t] = [enabled |-> on, file |-> file, count |-> "none"]]
            /\ sources' = [sources EXCEPT ![n] = t]
        BY <2>4, <3>2 DEF PutSource
      <4> QED BY <2>4, <4>1, LoadSeen DEF PutSource, HeapInv
    <3> QED BY <3>1, <3>2
  <2> QED BY <1>2, <2>1, <2>2, <2>3, <2>4 DEF SetCall
<1>3. ASSUME NEW due \in SUBSET SetNames, Tick(due) PROVE G
  <2>1. WillReload(SetUpdater)' BY <1>3 DEF Tick
  <2> QED BY <1>3, <2>1, SourcesSame, LoadSeen DEF Tick, dataVars
<1>4. CASE DownloadsOver BY <1>4, SourcesSame, LoadSeen DEF DownloadsOver, dataVars
<1>5. CASE UpdaterEnds BY <1>5, SourcesSame, LoadSame DEF UpdaterEnds, dataVars, diskVars, useVars, jobVars, loadVars, endVars
<1>6. CASE CloseSet BY <1>6, SourcesSame, LoadSame DEF CloseSet, dataVars, diskVars, useVars, jobVars, loadVars, endVars
<1>7. CASE UNCHANGED setVars BY <1>7, SourcesSame, LoadSame DEF setVars, dataVars, diskVars, useVars, jobVars, loadVars, endVars
<1> QED BY <1>1, <1>2, <1>3, <1>4, <1>5, <1>6, <1>7 DEF RuleSetsNext

(* In sd_set the stored matcher is the one queries are answered with. *)
HeldInv == setKind = "sd" => held = matcher

LEMMA HeldStep == ASSUME HeldInv, [RuleSetsNext]_setVars PROVE HeldInv'
<1> USE DEF HeldInv, dataVars, useVars, setVars
<1>1. ASSUME NEW t \in SetThreads, SetStep(t) PROVE HeldInv'
  BY <1>1 DEF SetStep, RemoveFile, FetchFails, TruncateFile, WriteFile, NoteCount, BeginFetch, Fetched,
       SaveConfig, SaveCounts, BeginReload, CountSource, StoreRules, ReadSource
<1>2. ASSUME NEW t \in SetThreads, SetCall(t) PROVE HeldInv'
  BY <1>2 DEF SetCall, RejectCall, DeleteSource, StartUpdate, PutSource
<1>3. ASSUME NEW due \in SUBSET SetNames, Tick(due) PROVE HeldInv' BY <1>3 DEF Tick
<1>4. CASE DownloadsOver \/ UpdaterEnds \/ CloseSet \/ UNCHANGED setVars
  BY <1>4 DEF DownloadsOver, UpdaterEnds, CloseSet
<1> QED BY <1>1, <1>2, <1>3, <1>4 DEF RuleSetsNext

SetsInv == ThreadInv /\ DiskInv /\ BuildInv /\ HeapInv /\ LoadInv /\ HeldInv

LEMMA SetsCorrect == RuleSetsSpec => []SetsInv
<1>1. RuleSetsInit => SetsInv
  <2>1. RuleSetsInit => config = Snapshot BY DEF RuleSetsInit, LoadedFrom
  <2>2. RuleSetsInit => HeldInv BY DEF RuleSetsInit, HeldInv
  <2> QED BY <2>1, <2>2, ThreadFirst, BuildFirst, HeapFirst, LoadFirst DEF SetsInv, DiskInv
<1>2. SetsInv /\ [RuleSetsNext]_setVars => SetsInv'
  BY ThreadStep, DiskStep, BuildStep, LoadStep, HeldStep DEF SetsInv
<1> QED BY <1>1, <1>2, PTL DEF RuleSetsSpec

THEOREM SetConfigFollowsCorrect == RuleSetsSpec => []SetConfigFollows
<1>1. SetsInv => SetConfigFollows BY DEF SetsInv, DiskInv, SetConfigFollows
<1> QED BY <1>1, SetsCorrect, PTL

THEOREM LoadedUnlessOverlappedCorrect == RuleSetsSpec => []LoadedUnlessOverlapped
<1>1. ASSUME SetsInv, NothingRuns, ~behind
      PROVE \A n \in SetNames : Exact(n, matcher)
  <2>1. \A t \in SetThreads : ~WillReload(t) /\ ~Reloading(t)
    BY <1>1 DEF NothingRuns, WillReload, Reloading
  <2> QED BY <1>1, <2>1 DEF SetsInv, LoadInv
<1>2. SetsInv => LoadedUnlessOverlapped BY <1>1 DEF LoadedUnlessOverlapped, SetsInv, HeldInv
<1> QED BY <1>2, SetsCorrect, PTL

-----------------------------------------------------------------------------
(* One value and its files.  A call runs from its post or save to its end. *)
Labels == {"new", "take", "create", "fill", "finish", "done"}

(* What comes back after a restart is what the memory has.                 *)
Follows == Loads = ReadBack(value) \cup others

SavedTypes ==
    /\ plugin \in Lists \cup {"switcher", "switch"}
    /\ ReadBack(others) = others
    /\ \E n \in Nat \ {0} : DOMAIN files = 1 .. n
    /\ files = [f \in DOMAIN files |-> files[f]]
    /\ plugin # "ip" => DOMAIN files = {1} /\ sorted
    /\ spc \in [SaveCalls -> Labels]
    /\ DOMAIN want = SaveCalls /\ DOMAIN toWrite = SaveCalls
    /\ at \in [SaveCalls -> DOMAIN files]
    /\ \A c \in SaveCalls : spc[c] \in {"new", "take"} => at[c] = 1
    /\ spoilt \in BOOLEAN

(* Who runs with a lock holds it; a switch lets one call run.              *)
HoldInv ==
    /\ Locked => \A c \in SaveCalls : Runs(c) => c \in writer \cup readers
    /\ plugin \notin Lists => readers = {}
    /\ plugin = "switch" => \A c \in SaveCalls : Runs(c) => writer = {c}

(* What is still to be written is the value in memory, and a file that is   *)
(* behind it has a call that comes to it - unless none has run since the    *)
(* start.                                                                  *)
Behind(c) == spc[c] \in {"create", "fill"} \/ (Renames /\ spc[c] = "finish")
ComesTo(c, f) == spc[c] = "take" \/ (Behind(c) /\ at[c] <= f)
BehindInv ==
    plugin # "switch" /\ ~spoilt /\ sorted =>
        /\ \A c \in SaveCalls : Behind(c) => toWrite[c] = value
        /\ \A c \in SaveCalls : ~Locked /\ spc[c] = "take" /\ c \notin readers => want[c] = value
        /\ \A c \in SaveCalls : ~Renames /\ spc[c] = "fill" => files[at[c]] \in {{}, value}
        /\ \/ \A f \in DOMAIN files : files[f] = value \/ \E c \in SaveCalls : ComesTo(c, f)
           \/ NoCallRuns /\ Follows

(* A switch changes its file first.                                        *)
AheadInv ==
    plugin = "switch" =>
        /\ \A c \in SaveCalls : spc[c] \in {"create", "fill", "finish"} => toWrite[c] = want[c]
        /\ \A c \in SaveCalls : spc[c] = "fill" => files[1] = {}
        /\ \A c \in SaveCalls : spc[c] = "finish" => files[1] = want[c]
        /\ ~spoilt /\ NoCallRuns => Follows

SavedInv == SavedTypes /\ HoldInv /\ BehindInv /\ AheadInv

(* Reading back twice changes nothing more.                                *)
LEMMA ReadBackTwice == ASSUME NEW S PROVE ReadBack(ReadBack(S)) = ReadBack(S)
<1>1. \A r : r \in ReadBack(S) => Reading(r) = {r} BY ReadsAssumption DEF ReadBack, Reading
<1> QED BY <1>1 DEF ReadBack

LEMMA ReadBackUnion == ASSUME NEW S, NEW T PROVE ReadBack(S \cup T) = ReadBack(S) \cup ReadBack(T)
BY DEF ReadBack

(* What was loaded, and what all files hold, is what would be loaded.      *)
LEMMA LoadedFollows == ASSUME ReadBack(others) = others, value = Loads PROVE Follows
<1> DEFINE F == UNION {files[f] : f \in DOMAIN files}
<1>1. UNION {ReadBack(files[f]) : f \in DOMAIN files} = ReadBack(F) BY DEF ReadBack
<1>2. Loads = others \cup ReadBack(F) BY <1>1 DEF Loads
<1>3. ReadBack(Loads) = others \cup ReadBack(F) BY <1>2, ReadBackUnion, ReadBackTwice
<1> QED BY <1>2, <1>3 DEF Follows

LEMMA WrittenFollows ==
  ASSUME NEW n \in Nat \ {0}, DOMAIN files = 1 .. n, \A f \in DOMAIN files : files[f] = value
  PROVE  Follows
<1>1. 1 \in DOMAIN files OBVIOUS
<1>2. UNION {ReadBack(files[f]) : f \in DOMAIN files} = ReadBack(value) BY <1>1
<1> QED BY <1>2 DEF Loads, Follows

LEMMA SavedFirst == ASSUME SavedInit PROVE SavedInv
<1> USE DEF SavedInit
<1>1. PICK n \in Nat \ {0} : files \in [1 .. n -> Settings \cup {{}}] /\ (plugin # "ip" => n = 1)
  BY MaxFilesAssumption
<1>2. ReadBack(others) = others BY OthersAssumption DEF ReadBack
<1>3. SavedTypes
  <2>1. DOMAIN files = 1 .. n /\ 1 \in 1 .. n /\ files = [f \in DOMAIN files |-> files[f]] BY <1>1
  <2>2. plugin # "ip" => DOMAIN files = {1} BY <1>1, <2>1
  <2>3. plugin \in Lists \cup {"switcher", "switch"} OBVIOUS
  <2>4. at \in [SaveCalls -> DOMAIN files] /\ spc \in [SaveCalls -> Labels] BY <2>1 DEF Labels
  <2> QED BY <1>2, <2>1, <2>2, <2>3, <2>4 DEF SavedTypes
<1>4. HoldInv BY DEF HoldInv, Runs
<1>5. Follows BY <1>2, LoadedFollows
<1>6. BehindInv BY <1>5 DEF BehindInv, Behind, NoCallRuns, Runs
<1>7. AheadInv BY <1>5 DEF AheadInv
<1> QED BY <1>3, <1>4, <1>6, <1>7 DEF SavedInv

LEMMA SavedStep == ASSUME SavedInv, [SavedNext]_savedVars PROVE SavedInv'
<1> USE DEF SavedInv, SavedTypes, Labels, Runs, Behind, ComesTo, NoCallRuns, SGoto, Locked, Lists, Renames
<1>1. ASSUME NEW c \in SaveCalls, NEW v \in Settings \cup {{}}, Post(c, v) PROVE SavedInv'
  <2> USE <1>1 DEF Post
  <2>1. SavedTypes' OBVIOUS
  <2>2. Locked => \A d \in SaveCalls : ~Runs(d) BY DEF HoldInv
  <2>3. HoldInv' BY <2>2 DEF HoldInv, TakesLock
  <2>4. plugin # "switch" /\ ~spoilt' => \A d \in SaveCalls : ~Behind(d) /\ spc[d] # "take"
    BY <2>2 DEF Writing
  <2>5. BehindInv' BY <2>4 DEF BehindInv
  <2>6. AheadInv' BY <2>2 DEF AheadInv
  <2> QED BY <2>1, <2>3, <2>5, <2>6
<1>2. ASSUME NEW c \in SaveCalls, Flush(c) PROVE SavedInv'
  <2> USE <1>2 DEF Flush
  <2>1. SavedTypes' OBVIOUS
  <2>2. HoldInv' BY DEF HoldInv
  <2>3. BehindInv' BY DEF BehindInv
  <2>4. AheadInv' BY DEF AheadInv
  <2> QED BY <2>1, <2>2, <2>3, <2>4
<1>3. ASSUME NEW c \in SaveCalls, Save(c) PROVE SavedInv'
  <2> USE <1>3 DEF Save
  <2>1. SavedTypes' OBVIOUS
  <2>2. HoldInv' BY DEF HoldInv
  <2>3. BehindInv' BY DEF BehindInv
  <2>4. AheadInv' BY DEF AheadInv
  <2> QED BY <2>1, <2>2, <2>3, <2>4
<1>4. ASSUME NEW c \in SaveCalls, Take(c) PROVE SavedInv'
  <2> USE <1>4 DEF Take
  <2>1. SavedTypes' OBVIOUS
  <2>2. HoldInv' BY DEF HoldInv
  <2>3. plugin # "switch" /\ ~spoilt /\ sorted => toWrite' = [toWrite EXCEPT ![c] = value]
    <3> SUFFICES ASSUME plugin # "switch", ~spoilt, sorted
                 PROVE  toWrite' = [toWrite EXCEPT ![c] = value]
      OBVIOUS
    <3>1. CASE Locked \/ c \in readers
      <4>1. plugin \in Lists BY <3>1 DEF HoldInv
      <4> QED BY <3>1, <4>1
    <3>2. CASE ~Locked /\ c \notin readers
      <4>1. want[c] = value BY <3>2 DEF BehindInv
      <4> QED BY <4>1
    <3> QED BY <3>1, <3>2
  <2>4. BehindInv'
    <3> SUFFICES ASSUME plugin # "switch", ~spoilt, sorted PROVE BehindInv' BY DEF BehindInv
    <3>1. \A f \in DOMAIN files : at[c] <= f OBVIOUS
    <3> QED BY <2>3, <3>1 DEF BehindInv
  <2>5. AheadInv' BY DEF AheadInv, HoldInv, Follows, Loads, ReadBack
  <2> QED BY <2>1, <2>2, <2>4, <2>5
<1>5. ASSUME NEW c \in SaveCalls, Create(c) PROVE SavedInv'
  <2> USE <1>5 DEF Create
  <2>1. SavedTypes' OBVIOUS
  <2>2. HoldInv' BY DEF HoldInv
  <2>3. BehindInv'
    <3> SUFFICES ASSUME plugin # "switch", ~spoilt, sorted PROVE BehindInv' BY DEF BehindInv
    <3>1. \A f \in DOMAIN files : files[f] = value \/ \E d \in SaveCalls : ComesTo(d, f)
      BY DEF BehindInv
    <3>2. \A f \in DOMAIN files' : files'[f] = value' \/ \E d \in SaveCalls : ComesTo(d, f)'
      <4> TAKE f \in DOMAIN files'
      <4>1. CASE f = at[c] BY <4>1
      <4>2. CASE f # at[c]
        <5>1. files'[f] = files[f] BY <4>2
        <5>2. \A d \in SaveCalls : ComesTo(d, f) => ComesTo(d, f)' OBVIOUS
        <5> QED BY <3>1, <5>1, <5>2
      <4> QED BY <4>1, <4>2
    <3>3. \A d \in SaveCalls : ~Renames /\ spc'[d] = "fill" => files'[at[d]] \in {{}, value}
      BY DEF BehindInv
    <3> QED BY <3>2, <3>3 DEF BehindInv
  <2>4. AheadInv' BY DEF AheadInv, HoldInv
  <2> QED BY <2>1, <2>2, <2>3, <2>4
<1>6. ASSUME NEW c \in SaveCalls, Fill(c) PROVE SavedInv'
  <2> USE <1>6 DEF Fill
  <2>0. PICK v \in IF files[at[c]] \in {{}, toWrite[c]} THEN {toWrite[c]} ELSE {toWrite[c], Mixed} :
          files' = IF Renames THEN files ELSE [files EXCEPT ![at[c]] = v]
    OBVIOUS
  <2>1. SavedTypes'
    <3>1. DOMAIN files' = DOMAIN files /\ files' = [f \in DOMAIN files |-> files'[f]] BY <2>0
    <3>2. at' \in [SaveCalls -> DOMAIN files] /\ spc' \in [SaveCalls -> Labels] OBVIOUS
    <3>3. \A d \in SaveCalls : spc'[d] \in {"new", "take"} => at'[d] = 1 OBVIOUS
    <3>4. ReadBack(others') = others' OBVIOUS
    <3> QED BY <3>1, <3>2, <3>3, <3>4
  <2>2. HoldInv' BY DEF HoldInv
  <2>3. BehindInv'
    <3> SUFFICES ASSUME plugin # "switch", ~spoilt, sorted PROVE BehindInv' BY DEF BehindInv
    <3>1. \A f \in DOMAIN files : files[f] = value \/ \E d \in SaveCalls : ComesTo(d, f)
      BY DEF BehindInv
    <3>2. toWrite[c] = value /\ (~Renames => v = value) BY <2>0 DEF BehindInv
    <3>3. \A f \in DOMAIN files' : files'[f] = value' \/ \E d \in SaveCalls : ComesTo(d, f)'
      <4> TAKE f \in DOMAIN files'
      <4>1. CASE f = at[c] /\ ~Renames BY <4>1, <2>0, <3>2
      <4>2. CASE Renames
        <5>1. spc' = [spc EXCEPT ![c] = "finish"] /\ at' = at /\ f = 1 /\ at[c] = 1
          BY <4>2, <2>0
        <5> QED BY <5>1, <4>2
      <4>3. CASE f # at[c] /\ ~Renames
        <5>1. files'[f] = files[f] BY <2>0, <4>3
        <5>2. \A d \in SaveCalls : d # c /\ ComesTo(d, f) => ComesTo(d, f)' OBVIOUS
        <5>3. ComesTo(c, f) => ComesTo(c, f)'
          <6> SUFFICES ASSUME ComesTo(c, f) PROVE ComesTo(c, f)' OBVIOUS
          <6>1. PICK n \in Nat \ {0} : DOMAIN files = 1 .. n OBVIOUS
          <6>2. at[c] \in 1 .. n /\ f \in 1 .. n /\ at[c] < f BY <6>1, <4>3, <2>0
          <6>3. at[c] + 1 \in DOMAIN files /\ at[c] + 1 <= f BY <6>1, <6>2
          <6> QED BY <6>3
        <5> QED BY <3>1, <5>1, <5>2, <5>3
      <4> QED BY <4>1, <4>2, <4>3
    <3>4. \A d \in SaveCalls : ~Renames /\ spc'[d] = "fill" => files'[at'[d]] \in {{}, value}
      BY <2>0, <3>2 DEF BehindInv
    <3>5. \A d \in SaveCalls : Behind(d)' => Behind(d) BY DEF BehindInv
    <3>6. \A d \in SaveCalls : Behind(d)' => toWrite'[d] = value' BY <3>5 DEF BehindInv
    <3>7. \A d \in SaveCalls : ~Locked /\ spc'[d] = "take" /\ d \notin readers => want[d] = value
      BY DEF BehindInv
    <3> QED BY <3>3, <3>4, <3>6, <3>7 DEF BehindInv
  <2>4. AheadInv'
    <3> SUFFICES ASSUME plugin = "switch" PROVE AheadInv' BY DEF AheadInv
    <3>1. at[c] = 1 /\ spc' = [spc EXCEPT ![c] = "finish"] BY DEF AheadInv
    <3>2. files'[1] = want[c] BY <2>0, <3>1 DEF AheadInv
    <3>3. \A d \in SaveCalls : Runs(d) => d = c BY DEF HoldInv
    <3> QED BY <3>1, <3>2, <3>3 DEF AheadInv
  <2> QED BY <2>1, <2>2, <2>3, <2>4
<1>7. ASSUME NEW c \in SaveCalls, ForEachPanics(c) PROVE SavedInv'
  <2> USE <1>7 DEF ForEachPanics
  <2>1. SavedTypes' OBVIOUS
  <2>2. HoldInv' BY DEF HoldInv
  <2>3. BehindInv' BY DEF BehindInv
  <2>4. AheadInv' BY DEF AheadInv
  <2> QED BY <2>1, <2>2, <2>3, <2>4
<1>8. ASSUME NEW c \in SaveCalls, WriteError(c) PROVE SavedInv'
  <2> USE <1>8 DEF WriteError, CutShort
  <2>1. SavedTypes' OBVIOUS
  <2>2. HoldInv' BY DEF HoldInv
  <2>3. BehindInv' BY DEF BehindInv
  <2>4. AheadInv' BY DEF AheadInv, HoldInv
  <2> QED BY <2>1, <2>2, <2>3, <2>4
<1>9. ASSUME NEW c \in SaveCalls, FinishSave(c) PROVE SavedInv'
  <2> USE <1>9 DEF FinishSave
  <2>1. SavedTypes' OBVIOUS
  <2>2. HoldInv' BY DEF HoldInv
  <2>3. BehindInv'
    <3> SUFFICES ASSUME plugin # "switch", ~spoilt, sorted PROVE BehindInv' BY DEF BehindInv
    <3>1. \A f \in DOMAIN files : files[f] = value \/ \E d \in SaveCalls : ComesTo(d, f)
      BY DEF BehindInv
    <3>2. \A f \in DOMAIN files' : files'[f] = value' \/ \E d \in SaveCalls : ComesTo(d, f)'
      <4> TAKE f \in DOMAIN files'
      <4>1. CASE Renames BY <4>1 DEF BehindInv
      <4>2. CASE ~Renames
        <5>1. \A d \in SaveCalls : ComesTo(d, f) => ComesTo(d, f)' BY <4>2
        <5> QED BY <3>1, <4>2, <5>1
      <4> QED BY <4>1, <4>2
    <3>3. \A d \in SaveCalls : Behind(d)' => Behind(d) OBVIOUS
    <3> QED BY <3>2, <3>3 DEF BehindInv
  <2>4. AheadInv'
    <3> SUFFICES ASSUME plugin = "switch" PROVE AheadInv' BY DEF AheadInv
    <3>1. \A f \in DOMAIN files' : files'[f] = value' BY DEF AheadInv
    <3>2. DOMAIN files' = 1 .. 1 OBVIOUS
    <3>3. Follows' BY <3>1, <3>2 DEF Follows, Loads
    <3>4. \A d \in SaveCalls : Runs(d) => d = c BY DEF HoldInv
    <3> QED BY <3>3, <3>4 DEF AheadInv
  <2> QED BY <2>1, <2>2, <2>3, <2>4
<1>10. CASE Restart
  <2> USE <1>10 DEF Restart, CutShort
  <2>1. SavedTypes'
    <3>1. DOMAIN files' = DOMAIN files /\ files' = [f \in DOMAIN files |-> files'[f]] OBVIOUS
    <3> QED BY <3>1 DEF ReadBack
  <2>2. HoldInv' BY DEF HoldInv
  <2>3. NoCallRuns' OBVIOUS
  <2>4. Follows'
    <3> DEFINE F == UNION {files'[f] : f \in DOMAIN files'}
    <3>1. UNION {ReadBack(files'[f]) : f \in DOMAIN files'} = ReadBack(F) BY DEF ReadBack
    <3>2. Loads' = others \cup ReadBack(F) BY <3>1 DEF Loads, ReadBack
    <3>3. ReadBack(others \cup ReadBack(F)) = ReadBack(others) \cup ReadBack(ReadBack(F)) BY ReadBackUnion
    <3>4. ReadBack(others) = others /\ ReadBack(ReadBack(F)) = ReadBack(F) BY ReadBackTwice
    <3> QED BY <3>2, <3>3, <3>4 DEF Follows, ReadBack
  <2>5. BehindInv' BY <2>3, <2>4 DEF BehindInv
  <2>6. AheadInv' BY <2>3, <2>4 DEF AheadInv
  <2> QED BY <2>1, <2>2, <2>5, <2>6
<1>11. CASE UNCHANGED savedVars
  <2> USE <1>11 DEF savedVars
  <2>1. SavedTypes' BY DEF ReadBack
  <2>2. HoldInv' BY DEF HoldInv
  <2>3. BehindInv' BY DEF BehindInv, Follows, Loads
  <2>4. AheadInv' BY DEF AheadInv, Follows, Loads
  <2> QED BY <2>1, <2>2, <2>3, <2>4
<1> QED BY <1>1, <1>2, <1>3, <1>4, <1>5, <1>6, <1>7, <1>8, <1>9, <1>10, <1>11 DEF SavedNext

(* A restart finds what is in memory (FileFollows): for any number of       *)
(* calls, files and rules, any lines that read back otherwise.             *)
THEOREM FileFollowsCorrect == SavedSpec => []FileFollows
<1>1. ASSUME SavedInv, NoCallRuns, ~spoilt, sorted PROVE Follows
  <2>1. PICK n \in Nat \ {0} : DOMAIN files = 1 .. n BY <1>1 DEF SavedInv, SavedTypes
  <2>2. \A c \in SaveCalls, f \in DOMAIN files : ~ComesTo(c, f)
    BY <1>1 DEF NoCallRuns, Runs, ComesTo, Behind
  <2>3. (\A f \in DOMAIN files : files[f] = value) \/ Follows
    BY <1>1, <2>2 DEF SavedInv, BehindInv, AheadInv
  <2> QED BY <2>1, <2>3, WrittenFollows
<1>2. SavedInv => FileFollows BY <1>1 DEF FileFollows, Follows
<1> QED BY <1>2, SavedFirst, SavedStep, PTL DEF SavedSpec

-----------------------------------------------------------------------------
(* The list.  Prefixes are aligned blocks: of two, one is inside the other  *)
(* or they have nothing in common.                                         *)
Widths == 0 .. AddrBits
Nets == {p \in [addr : AllAddrs, bits : Widths] : p.addr = (p.addr \div Block(p.bits)) * Block(p.bits)}

LEMMA Powers ==
  /\ AddrBits \in Nat /\ \A n \in Widths : Power2[n] \in Nat /\ Power2[n] >= 1
  /\ Power2[0] = 1 /\ \A n \in 1 .. AddrBits : Power2[n] = 2 * Power2[n - 1]
<1> DEFINE L == AddrBits
           V == Nat \ {0}
           F == [n \in 1 .. L |-> [x \in V |-> 2 * x]]
           Eq(f) == f = [n \in 0 .. L |-> IF n = 0 THEN 1 ELSE 2 * f[n - 1]]
<1>1. L \in Nat /\ 1 \in V BY MatchersAssumption
<1>2. PICK w : w \in [0 .. L -> V] /\ w[0] = 1 /\ \A n \in 1 .. L : w[n] = F[n][w[n - 1]]
  <2>1. F \in StepsOf(L, V) BY <1>1 DEF StepsOf
  <2> HIDE DEF F, V, L
  <2>2. \E w : IsRun(w, L, V, 1, F) BY ONLY <1>1, <2>1, Iterates
  <2> QED BY <2>2 DEF IsRun
<1>3. ASSUME NEW n \in 1 .. L PROVE w[n] = 2 * w[n - 1]
  <2>1. n - 1 \in 0 .. L BY <1>1
  <2>2. w[n - 1] \in V BY <2>1, <1>2
  <2> QED BY <2>2, <1>2
<1>4. Eq(w)
  <2>1. \A n \in 0 .. L : n = 0 \/ n \in 1 .. L BY <1>1
  <2>2. \A n \in 0 .. L : w[n] = IF n = 0 THEN 1 ELSE 2 * w[n - 1] BY <1>2, <1>3, <2>1
  <2>3. w = [n \in 0 .. L |-> w[n]] BY <1>2
  <2> QED BY <2>2, <2>3
<1>5. Eq(Power2) BY <1>4 DEF Power2
<1> HIDE DEF Eq, F
<1>6. \A n \in 0 .. L : Power2[n] = IF n = 0 THEN 1 ELSE 2 * Power2[n - 1] BY <1>5 DEF Eq
<1> DEFINE S == {n \in Nat : n <= L => Power2[n] \in Nat /\ Power2[n] >= 1}
<1>7. 0 \in S BY <1>1, <1>6
<1>8. ASSUME NEW n \in Nat, n \in S PROVE n + 1 \in S
  <2> SUFFICES ASSUME n + 1 <= L PROVE Power2[n + 1] \in Nat /\ Power2[n + 1] >= 1 OBVIOUS
  <2>1. Power2[n] \in Nat /\ Power2[n] >= 1 BY <1>8, <1>1
  <2>2. n + 1 \in 0 .. L /\ n + 1 # 0 /\ (n + 1) - 1 = n BY <1>1
  <2>3. Power2[n + 1] = 2 * Power2[n] BY <2>2, <1>6
  <2> QED BY <2>1, <2>3
<1> HIDE DEF S
<1>9. Nat \subseteq S BY <1>7, <1>8, SetInduction
<1>10. \A n \in Widths : Power2[n] \in Nat /\ Power2[n] >= 1
  <2>1. \A n \in Widths : n \in Nat /\ n <= L BY <1>1 DEF Widths
  <2> QED BY <2>1, <1>9 DEF S
<1>11. 0 \in 0 .. L /\ \A n \in 1 .. L : n \in 0 .. L /\ n # 0 BY <1>1
<1> QED BY <1>1, <1>6, <1>10, <1>11

LEMMA Multiple ==
  ASSUME NEW m \in Widths, NEW n \in Widths, m <= n
  PROVE  \E c \in Nat : c >= 1 /\ Power2[n] = c * Power2[m]
<1>1. m \in Nat /\ n \in Nat /\ n <= AddrBits /\ m <= AddrBits /\ AddrBits \in Nat /\ Power2[m] \in Nat
  BY Powers DEF Widths
<1> DEFINE Good(k) == \E c \in Nat : c >= 1 /\ Power2[k] = c * Power2[m]
           S == {k \in Nat : m <= k /\ k <= AddrBits => Good(k)}
<1>2. Good(m)
  <2>1. Power2[m] = 1 * Power2[m] BY <1>1
  <2> QED BY <2>1
<1>3. 0 \in S
  <2>1. m <= 0 => m = 0 BY <1>1
  <2> HIDE DEF Good
  <2> QED BY <2>1, <1>2
<1>4. ASSUME NEW k \in Nat, k \in S PROVE k + 1 \in S
  <2> SUFFICES ASSUME m <= k + 1, k + 1 <= AddrBits PROVE Good(k + 1) OBVIOUS
  <2>1. CASE m = k + 1 BY <1>2, <2>1
  <2>2. CASE m # k + 1
    <3>1. Good(k) BY <1>1, <1>4, <2>2
    <3>2. PICK c \in Nat : c >= 1 /\ Power2[k] = c * Power2[m] BY <3>1
    <3>3. k + 1 \in 1 .. AddrBits /\ (k + 1) - 1 = k BY <1>1
    <3>4. Power2[k + 1] = 2 * Power2[k] BY <3>3, Powers
    <3>5. 2 * (c * Power2[m]) = (2 * c) * Power2[m] BY <1>1
    <3>6. 2 * c \in Nat /\ 2 * c >= 1 BY <3>2
    <3> QED BY <3>2, <3>4, <3>5, <3>6
  <2> QED BY <2>1, <2>2
<1> HIDE DEF S
<1>5. Nat \subseteq S BY <1>3, <1>4, SetInduction
<1>6. n \in S BY <1>1, <1>5
<1> QED BY <1>1, <1>6 DEF S

LEMMA Blocks ==
  /\ \A b \in Widths : Block(b) \in Nat /\ Block(b) >= 1
  /\ \A b, d \in Widths : b <= d => \E c \in Nat : c >= 1 /\ Block(b) = c * Block(d)
<1>1. AddrBits \in Nat BY Powers
<1>2. \A b \in Widths : AddrBits - b \in Widths BY <1>1 DEF Widths
<1>3. \A b \in Widths : Block(b) \in Nat /\ Block(b) >= 1 BY <1>2, Powers DEF Block
<1>4. ASSUME NEW b \in Widths, NEW d \in Widths, b <= d
      PROVE  \E c \in Nat : c >= 1 /\ Block(b) = c * Block(d)
  <2>1. AddrBits - d <= AddrBits - b BY <1>1, <1>4 DEF Widths
  <2> QED BY <1>2, <2>1, Multiple DEF Block
<1> QED BY <1>3, <1>4

LEMMA Quotient ==
  ASSUME NEW a \in Nat, NEW b \in Nat, b >= 1
  PROVE  /\ a \div b \in Nat /\ (a \div b) * b \in Nat /\ (a \div b) * b <= a
         /\ \A k \in Nat : a \div b = k <=> k * b <= a /\ a < k * b + b
OBVIOUS

(* Of two multiples of a number one is as far below the other. *)
LEMMA Room ==
  ASSUME NEW b \in Nat, b >= 1, NEW i \in Int, NEW j \in Int, i * b < j * b
  PROVE  i * b + b <= j * b
<1>1. i < j OBVIOUS
<1>2. i + 1 <= j BY <1>1
<1>3. (i + 1) * b <= j * b BY <1>2
<1>4. (i + 1) * b = i * b + b OBVIOUS
<1> QED BY <1>3, <1>4

LEMMA AddrIs == \A a \in AllAddrs : a \in Nat
BY Powers DEF AllAddrs

LEMMA MaskedIsNet ==
  ASSUME NEW a \in AllAddrs, NEW b \in Widths
  PROVE  Masked(a, b) \in Nets
<1>1. PICK B, k : B = Block(b) /\ k = a \div B OBVIOUS
<1>2. a \in Nat /\ B \in Nat /\ B >= 1 BY <1>1, AddrIs, Blocks
<1>3. k \in Nat /\ k * B \in Nat /\ k * B <= a BY <1>1, <1>2, Quotient
<1>4. k * B \in AllAddrs
  <2>1. AddrBits \in Widths BY Powers DEF Widths
  <2>2. Power2[AddrBits] \in Nat BY <2>1, Powers
  <2>3. a <= Power2[AddrBits] - 1 BY DEF AllAddrs
  <2> QED BY <1>2, <1>3, <2>2, <2>3 DEF AllAddrs
<1>5. (k * B) \div B = k
  <2>1. k * B < k * B + B BY <1>2, <1>3
  <2> QED BY <1>2, <1>3, <2>1, Quotient
<1>6. Masked(a, b) = [addr |-> k * B, bits |-> b] BY <1>1 DEF Masked
<1> QED BY <1>1, <1>4, <1>5, <1>6 DEF Nets

LEMMA PrefixesAreNets == Prefixes6 \cup Prefixes4 \subseteq Nets
<1>1. Prefixes6 \subseteq Nets BY MaskedIsNet DEF Prefixes6, Widths
<1>2. ASSUME NEW a \in 0 .. Power2[V4Bits] - 1, NEW b \in 0 .. V4Bits
      PROVE  To6(a) \in AllAddrs /\ b + AddrBits - V4Bits \in Widths
  <2>1. AddrBits \in Nat /\ V4Bits \in Widths BY MatchersAssumption DEF Widths
  <2>2. V4Bits \in Nat /\ V4Bits <= AddrBits /\ AddrBits \in Widths BY <2>1 DEF Widths
  <2>3. Power2[V4Bits] \in Nat /\ Power2[AddrBits] \in Nat BY <2>1, <2>2, Powers
  <2>4. V4Base \in Nat /\ V4Base + Power2[V4Bits] - 1 <= Power2[AddrBits] - 1
    BY <2>3, MatchersAssumption DEF AllAddrs
  <2> QED BY <2>1, <2>2, <2>3, <2>4 DEF To6, AllAddrs, Widths
<1>3. Prefixes4 \subseteq Nets BY <1>2, MaskedIsNet DEF Prefixes4
<1> QED BY <1>1, <1>3

LEMMA NetIs ==
  ASSUME NEW p \in Nets
  PROVE  /\ p.addr \in AllAddrs /\ p.addr \in Nat /\ p.bits \in Widths
         /\ Block(p.bits) \in Nat /\ Block(p.bits) >= 1
         /\ \E k \in Nat : k = p.addr \div Block(p.bits) /\ p.addr = k * Block(p.bits)
<1>1. /\ p.addr \in AllAddrs /\ p.bits \in Widths
      /\ p.addr = (p.addr \div Block(p.bits)) * Block(p.bits)
  BY DEF Nets
<1>2. p.addr \in Nat /\ Block(p.bits) \in Nat /\ Block(p.bits) >= 1 BY <1>1, AddrIs, Blocks
<1>3. p.addr \div Block(p.bits) \in Nat BY <1>2, Quotient
<1> QED BY <1>1, <1>2, <1>3

LEMMA NetCovers ==
  ASSUME NEW p \in Nets, NEW a \in AllAddrs
  PROVE  /\ Block(p.bits) \in Nat /\ p.addr \in AllAddrs /\ p.bits \in Widths
         /\ Covers(p, a) <=> p.addr <= a /\ a < p.addr + Block(p.bits)
<1>1. PICK B, x : B = Block(p.bits) /\ x = p.addr OBVIOUS
<1>2. PICK k \in Nat : k = x \div B /\ x = k * B BY <1>1, NetIs
<1>3. B \in Nat /\ B >= 1 /\ a \in Nat BY <1>1, NetIs, AddrIs
<1>4. a \div B = k <=> k * B <= a /\ a < k * B + B BY <1>2, <1>3, Quotient
<1> QED BY <1>1, <1>2, <1>4, NetIs DEF Covers

LEMMA NetInside ==
  ASSUME NEW p \in Nets, NEW q \in Nets, NEW a \in AllAddrs, Covers(q, a),
         IF p.addr = q.addr THEN p.bits <= q.bits ELSE Covers(p, q.addr)
  PROVE  Covers(p, a)
<1>1. PICK x, y, B, C : x = p.addr /\ y = q.addr /\ B = Block(p.bits) /\ C = Block(q.bits) OBVIOUS
<1>2. /\ x \in Nat /\ y \in Nat /\ B \in Nat /\ B >= 1 /\ C \in Nat /\ C >= 1 /\ a \in Nat
      /\ y \in AllAddrs /\ p.bits \in Widths /\ q.bits \in Widths
  BY <1>1, NetIs, AddrIs
<1>3. PICK i \in Nat : x = i * B BY <1>1, NetIs
<1>4. PICK j \in Nat : y = j * C BY <1>1, NetIs
<1>5. x <= y /\ y < x + B
  <2>1. CASE x = y BY <2>1, <1>2
  <2>2. CASE x # y BY <2>2, <1>1, <1>2, NetCovers
  <2> QED BY <2>1, <2>2
<1>6. y + C <= x + B
  <2>1. CASE p.bits <= q.bits
    <3>1. PICK c \in Nat : c >= 1 /\ B = c * C BY <2>1, <1>1, <1>2, Blocks
    <3>2. i * (c * C) = (i * c) * C /\ (i * c) * C + c * C = (i * c + c) * C BY <1>2
    <3>3. x + B = (i * c + c) * C BY <1>3, <3>1, <3>2
    <3>4. i * c + c \in Int /\ j \in Int OBVIOUS
    <3>5. j * C + C <= (i * c + c) * C
      <4>1. j * C < (i * c + c) * C BY <1>4, <1>5, <3>3
      <4> QED BY <1>2, <3>4, <4>1, Room
    <3> QED BY <1>4, <3>3, <3>5
  <2>2. CASE ~(p.bits <= q.bits)
    <3>1. x # y BY <2>2, <1>1
    <3>2. q.bits <= p.bits BY <2>2, <1>2, Powers DEF Widths
    <3>3. PICK c \in Nat : c >= 1 /\ C = c * B BY <3>2, <1>1, <1>2, Blocks
    <3>4. j * (c * B) = (j * c) * B BY <1>2
    <3>5. y = (j * c) * B BY <1>4, <3>3, <3>4
    <3>6. j * c \in Int /\ i \in Int OBVIOUS
    <3>7. i * B < (j * c) * B BY <1>2, <1>3, <1>5, <3>1, <3>5
    <3>8. i * B + B <= (j * c) * B BY <1>2, <3>6, <3>7, Room
    <3> QED BY <1>2, <1>3, <1>5, <3>5, <3>8
  <2> QED BY <2>1, <2>2
<1>7. y <= a /\ a < y + C BY <1>1, NetCovers
<1>8. x <= a /\ a < x + B BY <1>2, <1>5, <1>6, <1>7
<1> QED BY <1>1, <1>8, NetCovers

Ordered(s) ==
    \A i, j \in DOMAIN s : i < j => s[i].addr < s[j].addr /\ ~Covers(s[i], s[j].addr)
Within(s, a) == \E i \in DOMAIN s : Covers(s[i], a)

LEMMA DedupStep ==
  ASSUME NEW out \in Seq(Nets), Ordered(out), NEW n \in Nets,
         out # <<>> => out[Len(out)].addr <= n.addr
  PROVE  /\ Dedup(out, n) \in Seq(Nets) /\ Ordered(Dedup(out, n)) /\ Dedup(out, n) # <<>>
         /\ Dedup(out, n)[Len(Dedup(out, n))].addr <= n.addr
         /\ \A a \in AllAddrs : Within(Dedup(out, n), a) <=> Within(out, a) \/ Covers(n, a)
<1>1. n.addr \in AllAddrs BY NetCovers DEF Nets
<1>2. CASE out = <<>>
  <2>1. Dedup(out, n) = <<n>> BY <1>2 DEF Dedup
  <2> QED BY <2>1, <1>1, <1>2 DEF Ordered, Within, AllAddrs
<1>3. CASE out # <<>>
  <2> DEFINE m == Len(out)
             lv == out[m]
  <2>1. m \in Nat /\ m >= 1 /\ lv \in Nets BY <1>3
  <2>2. lv.addr \in AllAddrs /\ lv.addr <= n.addr BY <2>1, <1>3 DEF Nets
  <2>3. Last(out) = lv BY DEF Last
  <2>4. CASE n.addr = lv.addr /\ n.bits < lv.bits
    <3> DEFINE r == Append(Front(out), n)
    <3>1. Dedup(out, n) = r BY <1>3, <2>3, <2>4 DEF Dedup
    <3>2. r \in Seq(Nets) /\ Len(r) = m /\ r[m] = n /\ \A i \in 1 .. m - 1 : r[i] = out[i]
      <4>1. Front(out) = SubSeq(out, 1, m - 1) BY DEF Front
      <4>2. Front(out) \in Seq(Nets) /\ Len(Front(out)) = m - 1 /\ \A i \in 1 .. m - 1 : Front(out)[i] = out[i]
        <5>1. m - 1 \in 0 .. Len(out) BY <2>1
        <5> QED BY <4>1, <5>1, Upto
      <4> HIDE DEF m
      <4> QED BY <4>2, <2>1
    <3>3. Ordered(r) BY <2>1, <2>4, <3>2 DEF Ordered
    <3>4. ASSUME NEW a \in AllAddrs PROVE Within(r, a) <=> Within(out, a) \/ Covers(n, a)
      <4>1. Covers(lv, a) => Covers(n, a)
        <5> HIDE DEF m
        <5>1. n.bits \in Widths /\ lv.bits \in Widths /\ lv \in Nets BY <2>1, NetIs
        <5>2. n.bits <= lv.bits BY <5>1, <2>4, Powers DEF Widths
        <5>3. IF n.addr = lv.addr THEN n.bits <= lv.bits ELSE Covers(n, lv.addr) BY <5>2, <2>4
        <5> HIDE DEF lv
        <5> QED BY <5>1, <5>3, NetInside
      <4>2. Within(r, a) => Within(out, a) \/ Covers(n, a) BY <3>2 DEF Within
      <4>3. Covers(n, a) => Within(r, a) BY <3>2, <2>1 DEF Within
      <4>4. ASSUME NEW i \in 1 .. m, Covers(out[i], a) PROVE Within(r, a)
        BY <4>1, <4>3, <4>4, <3>2 DEF Within
      <4> QED BY <4>2, <4>3, <4>4 DEF Within
    <3> QED BY <3>1, <3>2, <3>3, <3>4, <1>1, <2>1 DEF AllAddrs
  <2>5. CASE (n.addr = lv.addr /\ ~(n.bits < lv.bits)) \/ (n.addr # lv.addr /\ Inside(lv, n.addr))
    <3>1. Dedup(out, n) = out BY <1>3, <2>3, <2>5 DEF Dedup
    <3>2. ASSUME NEW a \in AllAddrs, Covers(n, a) PROVE Within(out, a)
      <4>1. n.bits \in Widths /\ lv.bits \in Widths /\ lv \in Nets BY <2>1, NetIs
      <4>2. Covers(lv, a)
        <5> HIDE DEF m
        <5>1. ~(n.bits < lv.bits) => lv.bits <= n.bits BY <4>1, Powers DEF Widths
        <5>2. IF lv.addr = n.addr THEN lv.bits <= n.bits ELSE Covers(lv, n.addr)
          BY <5>1, <2>5 DEF Inside
        <5> HIDE DEF lv
        <5> QED BY <4>1, <5>2, <3>2, NetInside
      <4> QED BY <4>2, <2>1 DEF Within
    <3> QED BY <3>1, <3>2, <1>3, <2>2
  <2>6. CASE n.addr # lv.addr /\ ~Inside(lv, n.addr)
    <3> DEFINE r == Append(out, n)
    <3>1. Dedup(out, n) = r BY <1>3, <2>3, <2>6 DEF Dedup
    <3>2. r \in Seq(Nets) /\ Len(r) = m + 1 /\ r[m + 1] = n /\ \A i \in 1 .. m : r[i] = out[i]
      BY <2>1
    <3>3. lv.addr < n.addr /\ ~Covers(lv, n.addr) BY <2>2, <2>6, <1>1 DEF Inside, AllAddrs
    <3>4. ASSUME NEW i \in 1 .. m PROVE out[i].addr < n.addr /\ ~Covers(out[i], n.addr)
      <4>1. CASE i = m BY <4>1, <3>3
      <4>2. CASE i < m
        <5>1. out[i] \in Nets /\ out[i].addr \in AllAddrs BY DEF Nets
        <5>2. out[i].addr < lv.addr /\ ~Covers(out[i], lv.addr) BY <4>2, <2>1 DEF Ordered
        <5>3. /\ Block(out[i].bits) \in Nat
              /\ Covers(out[i], n.addr) <=>
                    out[i].addr <= n.addr /\ n.addr < out[i].addr + Block(out[i].bits)
              /\ Covers(out[i], lv.addr) <=>
                    out[i].addr <= lv.addr /\ lv.addr < out[i].addr + Block(out[i].bits)
          BY <5>1, <1>1, <2>2, NetCovers
        <5>4. out[i].addr \in Nat /\ lv.addr \in Nat /\ n.addr \in Nat BY <5>1, <1>1, <2>2 DEF AllAddrs
        <5> DEFINE o == out[i].addr
                   e == Block(out[i].bits)
                   l == lv.addr
                   a == n.addr
        <5>5. o < l /\ ~(o <= l /\ l < o + e) /\ l < a BY <5>2, <5>3, <3>3
        <5>6. o \in Nat /\ l \in Nat /\ a \in Nat /\ e \in Nat BY <5>3, <5>4
        <5>7. Covers(out[i], n.addr) <=> o <= a /\ a < o + e BY <5>3
        <5> HIDE DEF o, e, l, a
        <5>8. o < a /\ ~(o <= a /\ a < o + e) BY <5>5, <5>6
        <5> QED BY <5>7, <5>8 DEF o, a
      <4> QED BY <4>1, <4>2, <2>1
    <3>5. Ordered(r) BY <2>1, <3>2, <3>4 DEF Ordered
    <3>6. \A a \in AllAddrs : Within(r, a) <=> Within(out, a) \/ Covers(n, a)
      BY <2>1, <3>2 DEF Within
    <3> QED BY <3>1, <3>2, <3>5, <3>6, <1>1, <2>1 DEF AllAddrs
  <2> QED BY <2>4, <2>5, <2>6
<1> QED BY <1>2, <1>3

LEMMA DedupType ==
  ASSUME NEW out \in Seq(Nets), NEW n \in Nets
  PROVE  Dedup(out, n) \in Seq(Nets)
<1>1. CASE out = <<>> BY <1>1 DEF Dedup
<1>2. CASE out # <<>>
  <2>1. Len(out) \in Nat /\ Len(out) >= 1 BY <1>2
  <2>2. Len(out) - 1 \in 0 .. Len(out) BY <2>1
  <2>3. Front(out) \in Seq(Nets) BY <2>2, Upto DEF Front
  <2>4. Append(Front(out), n) \in Seq(Nets) /\ Append(out, n) \in Seq(Nets) BY <2>3
  <2> QED BY <1>2, <2>4 DEF Dedup
<1> QED BY <1>1, <1>2

Rising(s) == \A i, j \in DOMAIN s : i < j => s[i].addr <= s[j].addr

LEMMA DedupedCorrect ==
  ASSUME NEW s \in Seq(Nets), Rising(s)
  PROVE  /\ Deduped(s) \in Seq(Nets) /\ Ordered(Deduped(s))
         /\ \A a \in AllAddrs : Within(Deduped(s), a) <=> Within(s, a)
<1> DEFINE L == Len(s)
           V == Seq(Nets)
           F == [n \in 1 .. L |-> [o \in V |-> Dedup(o, s[n])]]
           Eq(f) == f = [n \in 0 .. L |-> IF n = 0 THEN <<>> ELSE Dedup(f[n - 1], s[n])]
           f == CHOOSE f : Eq(f)
<1>1. L \in Nat /\ DOMAIN s = 1 .. L /\ \A n \in 1 .. L : s[n] \in Nets OBVIOUS
<1>2. \E w : Eq(w)
  <2>1. F \in StepsOf(L, V) BY <1>1, DedupType DEF StepsOf
  <2>2. <<>> \in V OBVIOUS
  <2>3. PICK w \in [0 .. L -> V] : w[0] = <<>> /\ \A n \in 1 .. L : w[n] = F[n][w[n - 1]]
    <3>1. L \in Nat BY <1>1
    <3> DEFINE b == <<>>
    <3>2. b \in V BY <2>2
    <3> HIDE DEF F, V, L, b
    <3>3. \E w : IsRun(w, L, V, b, F) BY ONLY <3>1, <2>1, <3>2, Iterates
    <3> QED BY <3>3 DEF b, IsRun
  <2>4. ASSUME NEW n \in 1 .. L PROVE w[n] = Dedup(w[n - 1], s[n])
    <3>1. n - 1 \in 0 .. L BY <1>1
    <3>2. w[n - 1] \in V BY <3>1, <2>3
    <3> QED BY <3>2, <2>3
  <2>5. \A n \in 0 .. L : n = 0 \/ n \in 1 .. L BY <1>1
  <2>6. \A n \in 0 .. L : w[n] = IF n = 0 THEN <<>> ELSE Dedup(w[n - 1], s[n]) BY <2>3, <2>4, <2>5
  <2>7. w = [n \in 0 .. L |-> w[n]] BY <2>3
  <2>8. Eq(w) BY <2>6, <2>7
  <2> QED BY <2>8
<1>3. Eq(f) BY <1>2
<1>4. Deduped(s) = f[L] BY DEF Deduped
<1> HIDE DEF f
<1>5. f[0] = <<>> /\ \A n \in 1 .. L : f[n] = Dedup(f[n - 1], s[n])
  <2>1. \A n \in 0 .. L : f[n] = IF n = 0 THEN <<>> ELSE Dedup(f[n - 1], s[n]) BY <1>3
  <2>2. 0 \in 0 .. L /\ \A n \in 1 .. L : n \in 0 .. L /\ n # 0 BY <1>1
  <2> QED BY <2>1, <2>2
<1> DEFINE Good(n) ==
             /\ f[n] \in Seq(Nets) /\ Ordered(f[n])
             /\ f[n] # <<>> => n > 0 /\ f[n][Len(f[n])].addr <= s[n].addr
             /\ \A a \in AllAddrs : Within(f[n], a) <=> \E i \in 1 .. n : Covers(s[i], a)
           S == {n \in Nat : n <= L => Good(n)}
<1>6. 0 \in S
  <2>1. Good(0) BY <1>5 DEF Ordered, Within
  <2> QED BY <2>1
<1>7. ASSUME NEW k \in Nat, k \in S PROVE k + 1 \in S
  <2> SUFFICES ASSUME k + 1 <= L PROVE Good(k + 1) OBVIOUS
  <2>1. Good(k) BY <1>7, <1>1
  <2>2. k + 1 \in 1 .. L /\ (k + 1) - 1 = k BY <1>1
  <2>3. f[k + 1] = Dedup(f[k], s[k + 1]) BY <2>2, <1>5
  <2>4. s[k + 1] \in Nets BY <2>2, <1>1
  <2>5. f[k] # <<>> => f[k][Len(f[k])].addr <= s[k + 1].addr
    <3> SUFFICES ASSUME f[k] # <<>> PROVE f[k][Len(f[k])].addr <= s[k + 1].addr OBVIOUS
    <3>1. k > 0 /\ f[k][Len(f[k])].addr <= s[k].addr BY <2>1
    <3>2. k \in DOMAIN s /\ k + 1 \in DOMAIN s /\ k < k + 1 BY <3>1, <2>2, <1>1
    <3>3. s[k].addr <= s[k + 1].addr BY <3>2 DEF Rising
    <3>4. f[k][Len(f[k])] \in Nets BY <2>1
    <3>5. f[k][Len(f[k])].addr \in Nat /\ s[k].addr \in Nat /\ s[k + 1].addr \in Nat
      <4>1. \A p \in Nets : p.addr \in Nat BY DEF Nets, AllAddrs
      <4>2. s[k] \in Nets BY <3>2, <1>1
      <4> QED BY <4>1, <4>2, <3>4, <2>4
    <3> QED BY <3>1, <3>3, <3>5
  <2>6. /\ f[k + 1] \in Seq(Nets) /\ Ordered(f[k + 1]) /\ f[k + 1] # <<>>
        /\ f[k + 1][Len(f[k + 1])].addr <= s[k + 1].addr
        /\ \A a \in AllAddrs : Within(f[k + 1], a) <=> Within(f[k], a) \/ Covers(s[k + 1], a)
    <3> DEFINE o == f[k]
               n == s[k + 1]
    <3>1. /\ o \in Seq(Nets) /\ Ordered(o) /\ n \in Nets
          /\ o # <<>> => o[Len(o)].addr <= n.addr
      BY <2>1, <2>4, <2>5
    <3> HIDE DEF o, n, Good
    <3>2. /\ Dedup(o, n) \in Seq(Nets) /\ Ordered(Dedup(o, n)) /\ Dedup(o, n) # <<>>
          /\ Dedup(o, n)[Len(Dedup(o, n))].addr <= n.addr
          /\ \A a \in AllAddrs : Within(Dedup(o, n), a) <=> Within(o, a) \/ Covers(n, a)
      BY ONLY <3>1, DedupStep
    <3> QED BY <3>2, <2>3 DEF o, n
  <2>7. \A a \in AllAddrs : Within(f[k + 1], a) <=> \E i \in 1 .. k + 1 : Covers(s[i], a)
    <3>1. \A i \in 1 .. k + 1 : i = k + 1 \/ i \in 1 .. k OBVIOUS
    <3>2. k + 1 \in 1 .. k + 1 /\ \A i \in 1 .. k : i \in 1 .. k + 1 OBVIOUS
    <3> QED BY <2>1, <2>6, <3>1, <3>2
  <2> QED BY <2>6, <2>7
<1> HIDE DEF S
<1>8. Nat \subseteq S BY <1>6, <1>7, SetInduction
<1>9. Good(L) BY <1>8, <1>1 DEF S
<1> QED BY <1>9, <1>4, <1>1 DEF Within

LEMMA SortedFacts ==
  ASSUME NEW l \in Seq(Nets), NEW s \in SortedForms(l)
  PROVE  /\ s \in Seq(Nets) /\ Rising(s)
         /\ \A a \in AllAddrs : Within(s, a) <=> Within(l, a)
<1> DEFINE D == DOMAIN l
<1>1. PICK f \in [D -> D] : /\ \A i, j \in D : i # j => f[i] # f[j]
                            /\ \A i, j \in D : i < j => l[f[i]].addr <= l[f[j]].addr
                            /\ s = [i \in D |-> l[f[i]]]
  BY DEF SortedForms
<1>2. D = 1 .. Len(l) /\ Len(l) \in Nat OBVIOUS
<1>3. s \in Seq(Nets) /\ DOMAIN s = D
  <2>1. \A i \in 1 .. Len(l) : l[f[i]] \in Nets BY <1>1, <1>2
  <2>2. s = [i \in 1 .. Len(l) |-> l[f[i]]] BY <1>1, <1>2
  <2> HIDE DEF D
  <2> QED BY <2>1, <2>2, <1>2
<1>4. Rising(s) BY <1>1, <1>3 DEF Rising
<1>5. \A j \in D : \E i \in D : f[i] = j
  <2>1. IsFiniteSet(D) BY <1>2, FS_Interval
  <2>2. f \in Injection(D, D) BY <1>1 DEF Injection, IsInjective
  <2>3. f \in Surjection(D, D) BY <2>1, <2>2, FS_Injection
  <2> QED BY <2>3 DEF Surjection
<1>6. ASSUME NEW a \in AllAddrs PROVE Within(s, a) <=> Within(l, a)
  <2>1. Within(s, a) => Within(l, a) BY <1>1, <1>3 DEF Within
  <2>2. ASSUME NEW j \in D, Covers(l[j], a) PROVE Within(s, a)
    <3>1. PICK i \in D : f[i] = j BY <1>5
    <3> QED BY <3>1, <2>2, <1>1, <1>3 DEF Within
  <2> QED BY <2>1, <2>2 DEF Within
<1> QED BY <1>3, <1>4, <1>6

Clamp(i, j, K) == IF i >= j \/ K <= i THEN i ELSE IF K >= j THEN j ELSE K

LEMMA Halving ==
  ASSUME NEW i \in Nat, NEW j \in Nat, i < j, NEW K \in Nat, NEW h, h = (i + j) \div 2
  PROVE  /\ h \in Nat /\ i <= h /\ h < j
         /\ h + 1 <= K => Clamp(h + 1, j, K) = Clamp(i, j, K)
         /\ ~(h + 1 <= K) => Clamp(i, h, K) = Clamp(i, j, K)
<1>1. h \in Nat /\ i <= h /\ h < j OBVIOUS
<1> QED BY <1>1 DEF Clamp

LEMMA LastBefore ==
  ASSUME NEW s \in Seq(Nets), Ordered(s), NEW a \in AllAddrs
  PROVE  \E K \in 0 .. Len(s) : \A i \in 1 .. Len(s) : s[i].addr <= a <=> i <= K
<1> DEFINE L == Len(s)
           Good(n) == \E K \in 0 .. n : \A i \in 1 .. n : s[i].addr <= a <=> i <= K
           S == {n \in Nat : n <= L => Good(n)}
<1>1. L \in Nat /\ DOMAIN s = 1 .. L /\ a \in Nat /\ \A n \in 1 .. L : s[n].addr \in Nat
  BY DEF Nets, AllAddrs
<1>2. 0 \in S
  <2>1. Good(0) OBVIOUS
  <2> QED BY <2>1
<1>3. ASSUME NEW k \in Nat, k \in S PROVE k + 1 \in S
  <2> SUFFICES ASSUME k + 1 <= L PROVE Good(k + 1)
    <3> HIDE DEF Good
    <3> QED OBVIOUS
  <2>1. PICK K \in 0 .. k : \A i \in 1 .. k : s[i].addr <= a <=> i <= K BY <1>3, <1>1
  <2>2. \A i \in 1 .. k + 1 : i = k + 1 \/ i \in 1 .. k OBVIOUS
  <2>3. CASE s[k + 1].addr <= a
    <3>1. ASSUME NEW i \in 1 .. k PROVE s[i].addr <= a
      <4>1. i \in DOMAIN s /\ k + 1 \in DOMAIN s /\ i < k + 1 BY <1>1
      <4>2. s[i].addr < s[k + 1].addr BY <4>1 DEF Ordered
      <4>3. s[i].addr \in Nat /\ s[k + 1].addr \in Nat BY <4>1, <1>1
      <4> QED BY <4>2, <4>3, <2>3, <1>1
    <3>2. \A i \in 1 .. k + 1 : s[i].addr <= a <=> i <= k + 1 BY <3>1, <2>2, <2>3
    <3>3. k + 1 \in 0 .. k + 1 OBVIOUS
    <3>4. \E J \in 0 .. k + 1 : \A i \in 1 .. k + 1 : s[i].addr <= a <=> i <= J
      <4> WITNESS k + 1 \in 0 .. k + 1
      <4> QED BY <3>2
    <3> QED BY <3>4
  <2>4. CASE ~(s[k + 1].addr <= a)
    <3>1. \A i \in 1 .. k + 1 : s[i].addr <= a <=> i <= K BY <2>1, <2>2, <2>4
    <3>2. K \in 0 .. k + 1 OBVIOUS
    <3>3. \E J \in 0 .. k + 1 : \A i \in 1 .. k + 1 : s[i].addr <= a <=> i <= J
      <4> WITNESS K \in 0 .. k + 1
      <4> QED BY <3>1
    <3> QED BY <3>3
  <2> QED BY <2>3, <2>4
<1> HIDE DEF S
<1>4. Nat \subseteq S BY <1>2, <1>3, SetInduction
<1>5. L \in S BY <1>4, <1>1
<1>6. L \in S => Good(L)
  <2> HIDE DEF Good
  <2> QED BY <1>1 DEF S
<1> QED BY <1>5, <1>6

LEMMA ListContainsCorrect ==
  ASSUME list \in Seq(Nets), Ordered(list), NEW addr \in AllAddrs
  PROVE  ListContains(addr) <=> Within(list, addr)
<1> DEFINE L == Len(list)
           D == (0 .. L) \X (0 .. L)
           Body(g, w) ==
             LET h == (w[1] + w[2]) \div 2
             IN IF w[1] >= w[2] THEN w[1]
                ELSE IF list[h + 1].addr <= addr THEN g[<<h + 1, w[2]>>] ELSE g[<<w[1], h>>]
           Eq(g) == g = [w \in D |-> Body(g, w)]
           f == CHOOSE g : Eq(g)
<1>1. L \in Nat /\ DOMAIN list = 1 .. L BY LenProperties
<1>2. PICK K \in 0 .. L : \A i \in 1 .. L : list[i].addr <= addr <=> i <= K BY LastBefore
<1>3. ASSUME NEW i \in 0 .. L, NEW j \in 0 .. L, i < j, NEW h, h = (i + j) \div 2
      PROVE  /\ h \in 0 .. L /\ h + 1 \in 0 .. L /\ i <= h /\ h < j
             /\ list[h + 1].addr <= addr => Clamp(h + 1, j, K) = Clamp(i, j, K)
             /\ ~(list[h + 1].addr <= addr) => Clamp(i, h, K) = Clamp(i, j, K)
  <2>1. i \in Nat /\ j \in Nat /\ K \in Nat BY <1>1
  <2>2. /\ h \in Nat /\ i <= h /\ h < j
        /\ h + 1 <= K => Clamp(h + 1, j, K) = Clamp(i, j, K)
        /\ ~(h + 1 <= K) => Clamp(i, h, K) = Clamp(i, j, K)
    <3> HIDE DEF L
    <3> QED BY ONLY <2>1, <1>3, Halving
  <2>3. h \in 0 .. L /\ h + 1 \in 1 .. L BY <2>2, <1>1
  <2>4. list[h + 1].addr <= addr <=> h + 1 <= K BY <2>3, <1>2
  <2> QED BY <2>2, <2>3, <2>4
<1>4. \E g : Eq(g)
  <2> DEFINE g == [w \in D |-> Clamp(w[1], w[2], K)]
  <2>1. ASSUME NEW i \in 0 .. L, NEW j \in 0 .. L PROVE Clamp(i, j, K) = Body(g, <<i, j>>)
    <3> DEFINE h == (i + j) \div 2
    <3>1. CASE i >= j BY <3>1 DEF Clamp
    <3>2. CASE i < j
      <4>1. /\ h \in 0 .. L /\ h + 1 \in 0 .. L /\ i <= h /\ h < j
            /\ list[h + 1].addr <= addr => Clamp(h + 1, j, K) = Clamp(i, j, K)
            /\ ~(list[h + 1].addr <= addr) => Clamp(i, h, K) = Clamp(i, j, K)
        BY <1>3, <3>2
      <4>2. g[<<h + 1, j>>] = Clamp(h + 1, j, K) /\ g[<<i, h>>] = Clamp(i, h, K) BY <4>1
      <4>3. ~(i >= j) BY <3>2, <1>1
      <4>4. Body(g, <<i, j>>) = IF list[h + 1].addr <= addr THEN g[<<h + 1, j>>] ELSE g[<<i, h>>]
        <5> HIDE DEF g
        <5> QED BY <4>3
      <4> QED BY <4>1, <4>2, <4>4
    <3> QED BY <3>1, <3>2, <1>1
  <2>2. ASSUME NEW w \in D PROVE g[w] = Body(g, w)
    <3>1. PICK i \in 0 .. L, j \in 0 .. L : w = <<i, j>> OBVIOUS
    <3>2. g[w] = Clamp(i, j, K) BY <3>1
    <3> HIDE DEF g, Body
    <3> QED BY <3>1, <3>2, <2>1
  <2>3. g = [w \in D |-> g[w]] OBVIOUS
  <2>4. Eq(g)
    <3> HIDE DEF g, Body, D
    <3> QED BY <2>2, <2>3
  <2> QED BY <2>4
<1>5. Eq(f) BY <1>4
<1>6. ListContains(addr) <=> f[<<0, L>>] # 0 /\ Covers(list[f[<<0, L>>]], addr) BY DEF ListContains
<1> HIDE DEF f
<1>7. ASSUME NEW i \in 0 .. L, NEW j \in 0 .. L, NEW h, h = (i + j) \div 2
      PROVE  f[<<i, j>>] = IF i >= j THEN i
                           ELSE IF list[h + 1].addr <= addr THEN f[<<h + 1, j>>] ELSE f[<<i, h>>]
  <2>1. <<i, j>> \in D OBVIOUS
  <2>2. f[<<i, j>>] = Body(f, <<i, j>>)
    <3> HIDE DEF Body, D
    <3> QED BY <1>5, <2>1
  <2> QED BY <2>2, <1>7
<1> DEFINE S == {n \in Nat : \A i, j \in 0 .. L : j <= i + n => f[<<i, j>>] = Clamp(i, j, K)}
<1>8. 0 \in S
  <2>1. ASSUME NEW i \in 0 .. L, NEW j \in 0 .. L, j <= i + 0 PROVE f[<<i, j>>] = Clamp(i, j, K)
    <3>1. i >= j BY <2>1, <1>1
    <3> QED BY <3>1, <1>7 DEF Clamp
  <2> QED BY <2>1
<1>9. ASSUME NEW n \in Nat, n \in S PROVE n + 1 \in S
  <2>1. ASSUME NEW i \in 0 .. L, NEW j \in 0 .. L, j <= i + (n + 1) PROVE f[<<i, j>>] = Clamp(i, j, K)
    <3> DEFINE h == (i + j) \div 2
    <3>1. CASE i >= j BY <3>1, <1>7 DEF Clamp
    <3>2. CASE i < j
      <4>1. /\ h \in 0 .. L /\ h + 1 \in 0 .. L /\ i <= h /\ h < j
            /\ list[h + 1].addr <= addr => Clamp(h + 1, j, K) = Clamp(i, j, K)
            /\ ~(list[h + 1].addr <= addr) => Clamp(i, h, K) = Clamp(i, j, K)
        BY <1>3, <3>2
      <4>2. ~(i >= j) BY <3>2, <1>1
      <4>3. f[<<i, j>>] = IF list[h + 1].addr <= addr THEN f[<<h + 1, j>>] ELSE f[<<i, h>>]
        BY <4>2, <1>7
      <4> HIDE DEF h
      <4>4. j <= (h + 1) + n /\ h <= i + n BY <4>1, <2>1, <1>1
      <4>5. f[<<h + 1, j>>] = Clamp(h + 1, j, K) /\ f[<<i, h>>] = Clamp(i, h, K)
        BY <4>1, <4>4, <1>9
      <4> QED BY <4>1, <4>3, <4>5
    <3> QED BY <3>1, <3>2, <1>1
  <2> QED BY <2>1
<1> HIDE DEF S
<1>10. Nat \subseteq S BY <1>8, <1>9, SetInduction
<1>11. f[<<0, L>>] = K
  <2>1. L \in S /\ 0 \in 0 .. L /\ L \in 0 .. L /\ L <= 0 + L BY <1>10, <1>1
  <2>2. f[<<0, L>>] = Clamp(0, L, K) BY <2>1 DEF S
  <2>3. Clamp(0, L, K) = K
    <3>1. K \in Nat /\ K <= L BY <1>1
    <3> HIDE DEF L
    <3> QED BY <3>1, <1>1 DEF Clamp
  <2> QED BY <2>2, <2>3
<1>12. ASSUME Within(list, addr) PROVE K # 0 /\ Covers(list[K], addr)
  <2>1. PICK i \in 1 .. L : Covers(list[i], addr) BY <1>12, <1>1 DEF Within
  <2>2. list[i] \in Nets BY <1>1
  <2> DEFINE o == list[i].addr
             e == Block(list[i].bits)
  <2>3. e \in Nat /\ o \in AllAddrs /\ (Covers(list[i], addr) <=> o <= addr /\ addr < o + e)
    BY <2>2, NetCovers
  <2>4. i <= K BY <2>1, <2>3, <1>2
  <2>5. CASE i = K BY <2>1, <2>5, <1>1
  <2>6. CASE i < K
    <3>1. K \in 1 .. L BY <2>6, <1>1
    <3>2. list[K] \in Nets BY <3>1, <1>1
    <3>3. list[K].addr \in AllAddrs BY <3>2, NetCovers DEF Nets
    <3>4. o < list[K].addr /\ ~Covers(list[i], list[K].addr) BY <2>6, <3>1, <1>1 DEF Ordered
    <3>5. Covers(list[i], list[K].addr) <=> o <= list[K].addr /\ list[K].addr < o + e
      BY <2>2, <3>3, NetCovers
    <3>6. list[K].addr <= addr BY <3>1, <1>2, <1>1
    <3>7. o \in Nat /\ list[K].addr \in Nat /\ addr \in Nat BY <2>3, <3>3 DEF AllAddrs
    <3> HIDE DEF o, e
    <3> QED BY <2>1, <2>3, <3>4, <3>5, <3>6, <3>7
  <2> QED BY <2>4, <2>5, <2>6, <1>1
<1>13. ASSUME K # 0, Covers(list[K], addr) PROVE Within(list, addr)
  <2>1. K \in DOMAIN list BY <1>13, <1>1
  <2> QED BY <2>1, <1>13 DEF Within
<1> QED BY <1>6, <1>11, <1>12, <1>13

(* The list is right, whatever is appended and whenever it is sorted.       *)
ListInv ==
    /\ list \in Seq(Nets) /\ appended \subseteq Nets
    /\ \A a \in AllAddrs : Within(list, a) <=> \E p \in appended : Covers(p, a)
    /\ listSorted = TRUE => Ordered(list)

LEMMA ListFirst == ASSUME MatchersInit PROVE ListInv
<1>1. list = <<>> /\ listSorted = FALSE /\ appended = {} BY DEF MatchersInit
<1>2. list \in Seq(Nets) /\ DOMAIN list = {} BY <1>1
<1>3. ~(listSorted = TRUE) BY <1>1
<1> QED BY <1>1, <1>2, <1>3 DEF ListInv, Within

LEMMA ListStep == ASSUME ListInv, [MatchersNext]_matchVars PROVE ListInv'
<1>1. CASE Sort
  <2>1. PICK s \in SortedForms(list) : list' = Deduped(s) BY <1>1 DEF Sort
  <2>2. list \in Seq(Nets) BY DEF ListInv
  <2>3. s \in Seq(Nets) /\ Rising(s) /\ \A a \in AllAddrs : Within(s, a) <=> Within(list, a)
    BY <2>2, SortedFacts
  <2>4. /\ list' \in Seq(Nets) /\ Ordered(list')
        /\ \A a \in AllAddrs : Within(list', a) <=> Within(list, a)
    BY <2>1, <2>3, DedupedCorrect
  <2>5. appended' = appended BY <1>1 DEF Sort
  <2> QED BY <2>4, <2>5 DEF ListInv
<1>2. ASSUME NEW p \in Prefixes6 \cup Prefixes4, AppendNet(p) PROVE ListInv'
  <2>1. p \in Nets BY PrefixesAreNets
  <2>2. /\ list' = Append(list, p) /\ appended' = appended \cup {p} /\ listSorted' = FALSE
    BY <1>2 DEF AppendNet
  <2>3. list \in Seq(Nets) /\ list' \in Seq(Nets) /\ appended' \subseteq Nets
    BY <2>1, <2>2 DEF ListInv
  <2>4. /\ Len(list') = Len(list) + 1 /\ list'[Len(list) + 1] = p /\ Len(list) \in Nat
        /\ \A i \in 1 .. Len(list) : list'[i] = list[i]
    BY <2>2, <2>3
  <2>5. \A a \in AllAddrs : Within(list', a) <=> Within(list, a) \/ Covers(p, a)
    <3>1. DOMAIN list' = 1 .. Len(list) + 1 /\ DOMAIN list = 1 .. Len(list) BY <2>3, <2>4
    <3>2. \A i \in 1 .. Len(list) + 1 : i = Len(list) + 1 \/ i \in 1 .. Len(list) BY <2>4
    <3>3. Len(list) + 1 \in 1 .. Len(list) + 1 /\ \A i \in 1 .. Len(list) : i \in 1 .. Len(list) + 1
      BY <2>4
    <3> QED BY <2>4, <3>1, <3>2, <3>3 DEF Within
  <2> QED BY <2>2, <2>3, <2>5 DEF ListInv
<1>3. CASE UNCHANGED listVars BY <1>3 DEF listVars, ListInv, Within, Ordered
<1>4. ASSUME NEW w, NEW p, Add(w, p) PROVE UNCHANGED listVars BY <1>4 DEF Add
<1> QED BY <1>1, <1>2, <1>3, <1>4 DEF MatchersNext, MixNext, ListNext, matchVars

LEMMA ListAgrees ==
  ASSUME ListInv
  PROVE  listSorted => \A addr \in AllAddrs :
                          ListContains(addr) = (\E p \in appended : Covers(p, addr))
<1> SUFFICES ASSUME listSorted, NEW addr \in AllAddrs
             PROVE  ListContains(addr) = (\E p \in appended : Covers(p, addr))
  OBVIOUS
<1>2. listSorted = TRUE => Ordered(list) BY DEF ListInv
<1>3. Ordered(list) BY <1>2
<1>4. ListContains(addr) <=> Within(list, addr) BY <1>3, ListContainsCorrect DEF ListInv
<1>5. ListContains(addr) \in BOOLEAN BY DEF ListContains, Covers
<1> QED BY <1>4, <1>5 DEF ListInv

(* The mix: each matcher holds the last rule of its type for every pattern.  *)
Ty(i) == TypeOf(added[i].type)
Latest(f, type) ==
    /\ f \in [DOMAIN f -> Nat]
    /\ \A i \in DOMAIN added : Ty(i) = type => added[i].pattern \in DOMAIN f
    /\ \A p \in DOMAIN f :
          /\ f[p] \in DOMAIN added /\ Ty(f[p]) = type /\ added[f[p]].pattern = p
          /\ \A i \in DOMAIN added : Ty(i) = type /\ added[i].pattern = p => i <= f[p]

Kinds == {"full", "domain", "regexp", "keyword"}
MixInv ==
    /\ added \in Seq([type : Kinds \cup {NoType, "unknown"}, pattern : DomainNames])
    /\ \A i \in DOMAIN added : Ty(i) \in Kinds
    /\ Latest(full, "full") /\ Latest(values, "domain")
    /\ Latest(regs, "regexp") /\ Latest(kws, "keyword")
    /\ DOMAIN values \subseteq nodes

LEMMA KindsAre == ToSet(Types) = Kinds /\ DOMAIN Types = 1 .. 4
<1>1. DOMAIN Types = 1 .. 4 BY DEF Types
<1>2. \A i \in 1 .. 4 : i = 1 \/ i = 2 \/ i = 3 \/ i = 4 OBVIOUS
<1>3. Types[1] = "full" /\ Types[2] = "domain" /\ Types[3] = "regexp" /\ Types[4] = "keyword"
  BY DEF Types
<1> QED BY <1>1, <1>2, <1>3 DEF ToSet, Kinds

LEMMA MixFirst == ASSUME MatchersInit PROVE MixInv
<1>1. added = <<>> /\ full = NoneYet /\ values = NoneYet /\ regs = NoneYet /\ kws = NoneYet
  BY DEF MatchersInit
<1>2. added \in Seq([type : Kinds \cup {NoType, "unknown"}, pattern : DomainNames]) /\ DOMAIN added = {}
  BY <1>1
<1>3. DOMAIN NoneYet = {} /\ NoneYet \in [DOMAIN NoneYet -> Nat] BY DEF NoneYet
<1> QED BY <1>1, <1>2, <1>3 DEF MixInv, Latest

LEMMA MixStep == ASSUME MixInv, [MatchersNext]_matchVars PROVE MixInv'
<1> DEFINE R == [type : Kinds \cup {NoType, "unknown"}, pattern : DomainNames]
<1>1. ASSUME NEW w \in ToSet(Types) \cup {NoType, "unknown"}, NEW p \in DomainNames, Add(w, p)
      PROVE  MixInv'
  <2>0. PICK v : v = Len(added) + 1 OBVIOUS
  <2> DEFINE t == TypeOf(w)
             a == [type |-> w, pattern |-> p]
  <2>1. /\ t \in Kinds /\ added' = Append(added, a)
        /\ full' = IF t = "full" THEN Put(full, p, v) ELSE full
        /\ nodes' = IF t = "domain" THEN nodes \cup Path(p) ELSE nodes
        /\ values' = IF t = "domain" THEN Put(values, p, v) ELSE values
        /\ regs' = IF t = "regexp" THEN Put(regs, p, v) ELSE regs
        /\ kws' = IF t = "keyword" THEN Put(kws, p, v) ELSE kws
        /\ defaultMatcher' = defaultMatcher
    BY <1>1, <2>0, KindsAre DEF Add
  <2>2. a \in R BY KindsAre
  <2>3. added \in Seq(R) BY DEF MixInv
  <2>5. Ty(v)' = t /\ \A i \in DOMAIN added : added'[i] = added[i] => Ty(i)' = Ty(i)
    <3>1. added'[v] = a /\ a.type = w
      <4> HIDE DEF R, a
      <4>1. Append(added, a)[Len(added) + 1] = a BY <2>2, <2>3, Appended
      <4> QED BY <2>0, <2>1, <4>1 DEF a
    <3> HIDE DEF a
    <3> QED BY <2>1, <3>1 DEF Ty, TypeOf
  <2> HIDE DEF t, a, R
  <2>4. /\ added' \in Seq(R) /\ v \in Nat /\ v \notin DOMAIN added
        /\ DOMAIN added' = DOMAIN added \cup {v} /\ added'[v] = a
        /\ \A i \in DOMAIN added : added'[i] = added[i] /\ i \in Nat /\ i <= v
    BY <2>0, <2>1, <2>2, <2>3, Appended
  <2>6. Ty(v)' = t /\ \A i \in DOMAIN added : Ty(i)' = Ty(i) BY <2>4, <2>5
  <2>7. \A i \in DOMAIN added' : i = v \/ i \in DOMAIN added BY <2>4
  <2>8. \A i \in DOMAIN added : i \in DOMAIN added' /\ i \in Nat /\ i <= v BY <2>4
  <2>9. v \in DOMAIN added' /\ v \in Nat /\ v \notin DOMAIN added /\ v <= v BY <2>4
  <2>10. a.pattern = p BY DEF a
  <2>11. ASSUME NEW f, NEW g, NEW k, Latest(f, k), g = IF t = k THEN Put(f, p, v) ELSE f
         PROVE  Latest(g, k)'
    <3>1. CASE t = k
      <4>1. /\ DOMAIN g = DOMAIN f \cup {p} /\ g[p] = v
            /\ \A q \in DOMAIN f : q # p => g[q] = f[q]
        BY <2>11, <3>1 DEF Put
      <4>2. g = [x \in DOMAIN f \cup {p} |-> IF x = p THEN v ELSE f[x]] BY <2>11, <3>1 DEF Put
      <4>3. g \in [DOMAIN g -> Nat] BY <4>2, <2>9, <2>11 DEF Latest
      <4>4. \A i \in DOMAIN added' : Ty(i)' = k => added'[i].pattern \in DOMAIN g
        BY <4>1, <2>4, <2>6, <2>7, <2>10, <2>11 DEF Latest
      <4>5. ASSUME NEW q \in DOMAIN g
            PROVE  /\ g[q] \in DOMAIN added' /\ Ty(g[q])' = k /\ added'[g[q]].pattern = q
                   /\ \A i \in DOMAIN added' : Ty(i)' = k /\ added'[i].pattern = q => i <= g[q]
        <5>1. CASE q = p
          <6>1. g[q] = v BY <5>1, <4>1
          <6>2. \A i \in DOMAIN added' : i <= v BY <2>7, <2>8, <2>9
          <6>3. v \in DOMAIN added' /\ added'[v].pattern = p BY <2>4, <2>9, <2>10
          <6>4. Ty(v)' = k BY <2>6, <3>1
          <6> QED BY <5>1, <6>1, <6>2, <6>3, <6>4
        <5>2. CASE q # p
          <6>1. q \in DOMAIN f /\ g[q] = f[q] BY <5>2, <4>1
          <6>2. /\ f[q] \in DOMAIN added /\ Ty(f[q]) = k /\ added[f[q]].pattern = q
                /\ \A i \in DOMAIN added : Ty(i) = k /\ added[i].pattern = q => i <= f[q]
            BY <6>1, <2>11 DEF Latest
          <6>3. f[q] \in DOMAIN added' /\ Ty(f[q])' = k /\ added'[f[q]].pattern = q
            BY <6>2, <2>4, <2>6, <2>8
          <6>4. added'[v].pattern # q BY <5>2, <2>4, <2>10
          <6>5. \A i \in DOMAIN added' : Ty(i)' = k /\ added'[i].pattern = q => i <= f[q]
            BY <6>2, <6>4, <2>4, <2>6, <2>7
          <6> QED BY <6>1, <6>3, <6>5
        <5> QED BY <5>1, <5>2
      <4> QED BY <4>3, <4>4, <4>5 DEF Latest
    <3>2. CASE t # k
      <4>1. g = f BY <3>2, <2>11
      <4>2. \A i \in DOMAIN added' : Ty(i)' = k => i \in DOMAIN added BY <3>2, <2>4, <2>6, <2>7
      <4>3. \A i \in DOMAIN added : i \in DOMAIN added' /\ Ty(i)' = Ty(i) /\ added'[i] = added[i]
        BY <2>4, <2>6, <2>8
      <4>4. /\ f \in [DOMAIN f -> Nat]
            /\ \A i \in DOMAIN added : Ty(i) = k => added[i].pattern \in DOMAIN f
            /\ \A q \in DOMAIN f :
                 /\ f[q] \in DOMAIN added /\ Ty(f[q]) = k /\ added[f[q]].pattern = q
                 /\ \A i \in DOMAIN added : Ty(i) = k /\ added[i].pattern = q => i <= f[q]
        BY <2>11 DEF Latest
      <4>5. \A i \in DOMAIN added' : Ty(i)' = k => added'[i].pattern \in DOMAIN f
        BY <4>2, <4>3, <4>4
      <4>6. \A q \in DOMAIN f :
                 /\ f[q] \in DOMAIN added' /\ Ty(f[q])' = k /\ added'[f[q]].pattern = q
                 /\ \A i \in DOMAIN added' : Ty(i)' = k /\ added'[i].pattern = q => i <= f[q]
        BY <4>2, <4>3, <4>4
      <4> QED BY <4>1, <4>4, <4>5, <4>6 DEF Latest
    <3> QED BY <3>1, <3>2
  <2>12. Latest(full, "full")' BY <2>1, <2>11 DEF MixInv
  <2>13. Latest(values, "domain")' BY <2>1, <2>11 DEF MixInv
  <2>14. Latest(regs, "regexp")' BY <2>1, <2>11 DEF MixInv
  <2>15. Latest(kws, "keyword")' BY <2>1, <2>11 DEF MixInv
  <2>16. DOMAIN values' \subseteq nodes'
    <3>1. p \in Path(p)
      <4>1. p \in Seq(STRING) BY MatchersAssumption
      <4>2. p = SubSeq(p, 1, Len(p)) /\ Len(p) \in 0 .. Len(p)
        <5>1. Len(p) \in Nat BY <4>1
        <5> QED BY <4>1, <5>1, SubSeqFull
      <4> QED BY <4>2 DEF Path
    <3> QED BY <3>1, <2>1 DEF MixInv, Put
  <2>17. \A i \in DOMAIN added' : Ty(i)' \in Kinds BY <2>1, <2>4, <2>6, <2>7 DEF MixInv
  <2> QED BY <2>4, <2>12, <2>13, <2>14, <2>15, <2>16, <2>17 DEF MixInv, R
<1>2. CASE UNCHANGED mixVars
  <2>1. /\ defaultMatcher' = defaultMatcher /\ full' = full /\ nodes' = nodes /\ values' = values
        /\ regs' = regs /\ kws' = kws /\ added' = added
    BY <1>2 DEF mixVars
  <2>2. \A i : Ty(i)' = Ty(i) BY <2>1 DEF Ty, TypeOf
  <2>3. \A f, k : Latest(f, k) => Latest(f, k)' BY <2>1, <2>2 DEF Latest
  <2>4. Latest(full, "full")' /\ Latest(values, "domain")' BY <2>1, <2>3 DEF MixInv
  <2>5. Latest(regs, "regexp")' /\ Latest(kws, "keyword")' BY <2>1, <2>3 DEF MixInv
  <2> QED BY <2>1, <2>2, <2>4, <2>5 DEF MixInv
<1>3. ASSUME ListNext PROVE UNCHANGED mixVars BY <1>3 DEF ListNext, Sort, AppendNet
<1> QED BY <1>1, <1>2, <1>3 DEF MatchersNext, MixNext, matchVars

(* What ToFind is made of. *)
RankOf(i) == CHOOSE n \in DOMAIN Types : Types[n] = Ty(i)
Fitting(name) == {i \in DOMAIN added : Fits(Ty(i), added[i].pattern, name)}
Beats(i, j) ==
    \/ RankOf(i) < RankOf(j)
    \/ /\ RankOf(i) = RankOf(j)
       /\ \/ added[i].pattern = added[j].pattern /\ i > j
          \/ Ty(i) = "domain" /\ Len(added[i].pattern) > Len(added[j].pattern)

LEMMA ToFindIs ==
  ASSUME NEW name
  PROVE  ToFind(name) = {i \in Fitting(name) : \A j \in Fitting(name) : ~Beats(j, i)}
BY DEF ToFind, Fitting, Beats, RankOf, Ty

Order == [k \in Kinds |-> CASE k = "full" -> 1 [] k = "domain" -> 2
                            [] k = "regexp" -> 3 [] k = "keyword" -> 4]

LEMMA Ranks ==
  ASSUME NEW i, Ty(i) \in Kinds
  PROVE  RankOf(i) = Order[Ty(i)]
<1>1. \A n \in 1 .. 4 : n = 1 \/ n = 2 \/ n = 3 \/ n = 4 OBVIOUS
<1>2. Types[1] = "full" /\ Types[2] = "domain" /\ Types[3] = "regexp" /\ Types[4] = "keyword"
  BY DEF Types
<1>3. /\ Order["full"] = 1 /\ Order["domain"] = 2 /\ Order["regexp"] = 3 /\ Order["keyword"] = 4
  BY DEF Order, Kinds
<1>4. PICK m \in 1 .. 4 : Types[m] = Ty(i) /\ Order[Ty(i)] = m BY <1>2, <1>3 DEF Kinds
<1>5. \A n \in 1 .. 4 : Types[n] = Ty(i) => n = m BY <1>1, <1>2, <1>4
<1>6. DOMAIN Types = 1 .. 4 BY KindsAre
<1> QED BY <1>4, <1>5, <1>6 DEF RankOf

(* Where no rule of a type before it fits, a type whose patterns do not     *)
(* beat each other finds the last rule of each pattern that fits.           *)
LEMMA OneKind ==
  ASSUME MixInv, NEW name, NEW k \in Kinds, k # "domain", NEW f, Latest(f, k),
         \A j \in Fitting(name) : Order[Ty(j)] >= Order[k],
         (\E p \in DOMAIN f : Fits(k, p, name)) \/ (\A j \in Fitting(name) : Ty(j) = k)
  PROVE  ToFind(name) = {f[p] : p \in {p \in DOMAIN f : Fits(k, p, name)}}
<1>1. \A j \in Fitting(name) : /\ j \in DOMAIN added /\ Ty(j) \in Kinds /\ RankOf(j) = Order[Ty(j)]
                               /\ Fits(Ty(j), added[j].pattern, name) /\ j \in Nat
  BY Ranks DEF Fitting, MixInv
<1>2. /\ Order["full"] = 1 /\ Order["domain"] = 2 /\ Order["regexp"] = 3 /\ Order["keyword"] = 4
  BY DEF Order, Kinds
<1>3. \A x, y \in Kinds : Order[x] \in Nat /\ (Order[x] = Order[y] => x = y)
  BY <1>2 DEF Kinds
<1>4. \A p \in DOMAIN f : /\ f[p] \in DOMAIN added /\ Ty(f[p]) = k /\ added[f[p]].pattern = p /\ f[p] \in Nat
                          /\ Fits(k, p, name) => f[p] \in Fitting(name)
  BY DEF Latest, Fitting
<1>5. ASSUME NEW p \in DOMAIN f, Fits(k, p, name), NEW j \in Fitting(name) PROVE ~Beats(j, f[p])
  <2>1. f[p] \in Fitting(name) /\ Ty(f[p]) = k /\ added[f[p]].pattern = p /\ f[p] \in Nat
    BY <1>4, <1>5
  <2>2. RankOf(f[p]) = Order[k] /\ RankOf(j) = Order[Ty(j)] BY <2>1, <1>1
  <2>3. Ty(j) \in Kinds /\ j \in DOMAIN added /\ j \in Nat BY <1>1
  <2>4. Order[Ty(j)] \in Nat /\ Order[k] \in Nat /\ Order[Ty(j)] >= Order[k] BY <2>3, <1>3
  <2>5. ~(RankOf(j) < RankOf(f[p])) BY <2>2, <2>4
  <2>6. RankOf(j) = RankOf(f[p]) => Ty(j) = k BY <2>2, <2>3, <1>3
  <2>7. Ty(j) = k /\ added[j].pattern = p => j <= f[p] BY <2>3 DEF Latest
  <2>8. j <= f[p] => ~(j > f[p]) BY <2>1, <2>3
  <2> QED BY <2>1, <2>5, <2>6, <2>7, <2>8 DEF Beats
<1>6. ASSUME NEW i \in Fitting(name), \A j \in Fitting(name) : ~Beats(j, i)
      PROVE  /\ added[i].pattern \in DOMAIN f /\ Fits(k, added[i].pattern, name)
             /\ i = f[added[i].pattern]
  <2>1. Ty(i) = k
    <3>1. CASE \A j \in Fitting(name) : Ty(j) = k BY <3>1
    <3>2. CASE \E p \in DOMAIN f : Fits(k, p, name)
      <4>1. PICK p \in DOMAIN f : Fits(k, p, name) BY <3>2
      <4>2. f[p] \in Fitting(name) /\ Ty(f[p]) = k BY <4>1, <1>4
      <4>3. ~(RankOf(f[p]) < RankOf(i)) BY <4>2, <1>6 DEF Beats
      <4>4. RankOf(f[p]) = Order[k] /\ RankOf(i) = Order[Ty(i)] /\ Ty(i) \in Kinds BY <4>2, <1>1
      <4>5. Order[Ty(i)] \in Nat /\ Order[k] \in Nat /\ Order[Ty(i)] >= Order[k] BY <4>4, <1>3
      <4>6. Order[Ty(i)] = Order[k] BY <4>3, <4>4, <4>5
      <4> QED BY <4>4, <4>6, <1>3
    <3> QED BY <3>1, <3>2
  <2> DEFINE p == added[i].pattern
  <2>2. p \in DOMAIN f /\ Fits(k, p, name) BY <2>1, <1>1 DEF Latest
  <2>3. /\ f[p] \in Fitting(name) /\ Ty(f[p]) = k /\ added[f[p]].pattern = p /\ f[p] \in Nat
        /\ i \in Nat /\ i <= f[p]
    BY <2>1, <2>2, <1>1, <1>4 DEF Latest
  <2>4. RankOf(f[p]) = RankOf(i) BY <2>1, <2>3, <1>1
  <2>5. ~(f[p] > i) BY <2>3, <2>4, <1>6 DEF Beats
  <2> QED BY <2>2, <2>3, <2>5
<1> DEFINE G == {f[p] : p \in {p \in DOMAIN f : Fits(k, p, name)}}
           H == {i \in Fitting(name) : \A j \in Fitting(name) : ~Beats(j, i)}
<1>7. \A x \in G : x \in H BY <1>4, <1>5
<1>8. \A x \in H : x \in G
  <2> SUFFICES ASSUME NEW x \in H PROVE x \in G OBVIOUS
  <2>1. /\ added[x].pattern \in DOMAIN f /\ Fits(k, added[x].pattern, name)
        /\ x = f[added[x].pattern]
    BY <1>6
  <2> QED BY <2>1
<1> HIDE DEF G, H
<1>9. G = H BY <1>7, <1>8
<1> QED BY <1>9, ToFindIs DEF G, H

LEMMA WalkFinds ==
  ASSUME NEW name \in Seq(STRING), DOMAIN values \subseteq nodes
  PROVE  \/ SubDomainMatch(name) = {}
            /\ \A m \in 0 .. Len(name) : SubSeq(name, 1, m) \notin DOMAIN values
         \/ \E m \in 0 .. Len(name) :
               /\ SubSeq(name, 1, m) \in DOMAIN values
               /\ SubDomainMatch(name) = {values[SubSeq(name, 1, m)]}
               /\ \A k \in m + 1 .. Len(name) : SubSeq(name, 1, k) \notin DOMAIN values
<1> DEFINE L == Len(name)
           Node(n) == SubSeq(name, 1, n)
           Step(v, n) == IF Node(n) \in nodes THEN Deeper(v, Node(n)) ELSE v
           V == SUBSET {values[x] : x \in DOMAIN values}
           F == [n \in 1 .. L |-> [v \in V |-> Step(v, n)]]
           Eq(f) == f = [n \in 0 .. L |-> Step(IF n = 0 THEN {} ELSE f[n - 1], n)]
           f == CHOOSE f : Eq(f)
<1>1. L \in Nat OBVIOUS
<1>2. \A v, n : Step(v, n) = IF Node(n) \in DOMAIN values THEN {values[Node(n)]} ELSE v
  BY DEF Deeper
<1>3. \A v \in V : \A n : Step(v, n) \in V BY <1>2
<1> HIDE DEF Step
<1>4. \E w : Eq(w)
  <2>1. F \in StepsOf(L, V) BY <1>3 DEF StepsOf
  <2> DEFINE b == Step({}, 0)
  <2>2. b \in V BY <1>3
  <2>3. PICK w : IsRun(w, L, V, b, F)
    <3> HIDE DEF F, V, L, b
    <3> QED BY ONLY <1>1, <2>1, <2>2, Iterates
  <2>4. w \in [0 .. L -> V] /\ w[0] = Step({}, 0) /\ \A n \in 1 .. L : w[n] = F[n][w[n - 1]]
    BY <2>3 DEF IsRun
  <2>5. ASSUME NEW n \in 0 .. L PROVE w[n] = Step(IF n = 0 THEN {} ELSE w[n - 1], n)
    <3>1. CASE n = 0 BY <3>1, <2>4
    <3>2. CASE n # 0
      <4>1. n \in 1 .. L /\ n - 1 \in 0 .. L BY <3>2, <1>1
      <4>2. w[n - 1] \in V BY <4>1, <2>4
      <4>3. w[n] = Step(w[n - 1], n) BY <4>1, <4>2, <2>4
      <4> QED BY <4>3, <3>2
    <3> QED BY <3>1, <3>2
  <2>6. w = [n \in 0 .. L |-> w[n]] BY <2>4
  <2>7. Eq(w) BY <2>5, <2>6
  <2> QED BY <2>7
<1>5. Eq(f) BY <1>4
<1>6. SubDomainMatch(name) = f[L] BY DEF SubDomainMatch, Step
<1> HIDE DEF f
<1>7. \A n \in 0 .. L : f[n] = Step(IF n = 0 THEN {} ELSE f[n - 1], n) BY <1>5
<1> DEFINE Good(n) ==
             \/ f[n] = {} /\ \A m \in 0 .. n : Node(m) \notin DOMAIN values
             \/ \E m \in 0 .. n : /\ Node(m) \in DOMAIN values /\ f[n] = {values[Node(m)]}
                                  /\ \A k \in m + 1 .. n : Node(k) \notin DOMAIN values
           S == {n \in Nat : n <= L => Good(n)}
<1> HIDE DEF Node
<1>8. 0 \in S
  <2>1. 0 \in 0 .. L /\ \A m \in 0 .. 0 : m = 0 BY <1>1
  <2>2. f[0] = IF Node(0) \in DOMAIN values THEN {values[Node(0)]} ELSE {} BY <2>1, <1>2, <1>7
  <2>3. Good(0) BY <2>1, <2>2
  <2> QED BY <2>3
<1>9. ASSUME NEW n \in Nat, n \in S PROVE n + 1 \in S
  <2> SUFFICES ASSUME n + 1 <= L PROVE Good(n + 1) OBVIOUS
  <2>1. Good(n) BY <1>9, <1>1
  <2>2. n + 1 \in 0 .. L /\ n + 1 # 0 /\ (n + 1) - 1 = n BY <1>1
  <2>3. f[n + 1] = IF Node(n + 1) \in DOMAIN values THEN {values[Node(n + 1)]} ELSE f[n]
    BY <2>2, <1>2, <1>7
  <2>4. \A m \in 0 .. n + 1 : m = n + 1 \/ m \in 0 .. n OBVIOUS
  <2>5. CASE Node(n + 1) \in DOMAIN values
    <3>1. n + 1 \in 0 .. n + 1 /\ \A k \in (n + 1) + 1 .. n + 1 : FALSE OBVIOUS
    <3>2. f[n + 1] = {values[Node(n + 1)]} BY <2>3, <2>5
    <3> QED BY <2>5, <3>1, <3>2
  <2>6. CASE Node(n + 1) \notin DOMAIN values
    <3>1. f[n + 1] = f[n] BY <2>3, <2>6
    <3>2. CASE f[n] = {} /\ \A m \in 0 .. n : Node(m) \notin DOMAIN values
      BY <3>1, <3>2, <2>4, <2>6
    <3>3. CASE \E m \in 0 .. n : /\ Node(m) \in DOMAIN values /\ f[n] = {values[Node(m)]}
                                 /\ \A k \in m + 1 .. n : Node(k) \notin DOMAIN values
      <4>1. PICK m \in 0 .. n : /\ Node(m) \in DOMAIN values /\ f[n] = {values[Node(m)]}
                                /\ \A k \in m + 1 .. n : Node(k) \notin DOMAIN values
        BY <3>3
      <4>2. m \in 0 .. n + 1 /\ \A k \in m + 1 .. n + 1 : k = n + 1 \/ k \in m + 1 .. n OBVIOUS
      <4> QED BY <4>1, <4>2, <3>1, <2>6
    <3> QED BY <3>2, <3>3, <2>1
  <2> QED BY <2>5, <2>6
<1> HIDE DEF S
<1>10. Nat \subseteq S BY <1>8, <1>9, SetInduction
<1>11. L \in S BY <1>10, <1>1
<1>12. Good(L) BY <1>11, <1>1 DEF S
<1> QED BY <1>12, <1>6 DEF Node

LEMMA DomainFits ==
  ASSUME NEW p \in Seq(STRING), NEW name \in Seq(STRING)
  PROVE  Fits("domain", p, name) <=> Len(p) \in 0 .. Len(name) /\ p = SubSeq(name, 1, Len(p))
<1>1. Fits("domain", p, name) <=> IsPrefix(p, name) BY DEF Fits
<1>2. Len(p) \in Nat /\ Len(name) \in Nat OBVIOUS
<1>3. SubSeq(p, 1, Len(p)) = p BY SubSeqFull
<1> QED BY <1>1, <1>2, <1>3 DEF IsPrefix

LEMMA DomainKind ==
  ASSUME MixInv, NEW name \in Seq(STRING), \A j \in Fitting(name) : Ty(j) # "full"
  PROVE  IF \E p \in DOMAIN values : Fits("domain", p, name)
         THEN SubDomainMatch(name) # {} /\ ToFind(name) = SubDomainMatch(name)
         ELSE SubDomainMatch(name) = {}
<1>0. \A i \in DOMAIN added : added[i].pattern \in Seq(STRING) /\ i \in Nat
  <2> DEFINE R == [type : Kinds \cup {NoType, "unknown"}, pattern : DomainNames]
  <2>1. added \in Seq(R) BY DEF MixInv
  <2>2. \A a \in R : a.pattern \in Seq(STRING) BY MatchersAssumption
  <2> HIDE DEF R
  <2> QED BY <2>1, <2>2
<1>1. /\ Order["full"] = 1 /\ Order["domain"] = 2 /\ Order["regexp"] = 3 /\ Order["keyword"] = 4
  BY DEF Order, Kinds
<1>2. \A j \in Fitting(name) : /\ j \in DOMAIN added /\ Ty(j) \in Kinds /\ RankOf(j) = Order[Ty(j)]
                               /\ Fits(Ty(j), added[j].pattern, name) /\ j \in Nat
                               /\ added[j].pattern \in Seq(STRING)
  BY <1>0, Ranks DEF Fitting, MixInv
<1>3. \A j \in Fitting(name) : Ty(j) = "domain" \/ RankOf(j) \in {3, 4} BY <1>1, <1>2 DEF Kinds
<1>4. /\ Latest(values, "domain")
      /\ \A p \in DOMAIN values : /\ values[p] \in DOMAIN added /\ Ty(values[p]) = "domain"
                                  /\ added[values[p]].pattern = p /\ values[p] \in Nat
                                  /\ p \in Seq(STRING)
  BY <1>0 DEF Latest, MixInv
<1>5. DOMAIN values \subseteq nodes BY DEF MixInv
<1>6. CASE \A m \in 0 .. Len(name) : SubSeq(name, 1, m) \notin DOMAIN values
  <2>1. SubDomainMatch(name) = {} BY <1>5, <1>6, WalkFinds
  <2>2. ~ \E p \in DOMAIN values : Fits("domain", p, name) BY <1>4, <1>6, DomainFits
  <2> QED BY <2>1, <2>2
<1>7. CASE ~ \A m \in 0 .. Len(name) : SubSeq(name, 1, m) \notin DOMAIN values
  <2>1. PICK m \in 0 .. Len(name) :
           /\ SubSeq(name, 1, m) \in DOMAIN values
           /\ SubDomainMatch(name) = {values[SubSeq(name, 1, m)]}
           /\ \A k \in m + 1 .. Len(name) : SubSeq(name, 1, k) \notin DOMAIN values
    BY <1>5, <1>7, WalkFinds
  <2> DEFINE q == SubSeq(name, 1, m)
             i == values[q]
  <2>2. q \in DOMAIN values /\ Len(q) = m /\ m \in 0 .. Len(name) BY <2>1, Upto
  <2>3. Fits("domain", q, name) BY <2>2, <1>4, DomainFits
  <2>4. i \in Fitting(name) /\ Ty(i) = "domain" /\ added[i].pattern = q /\ i \in Nat /\ RankOf(i) = 2
    <3>1. i \in DOMAIN added /\ Ty(i) = "domain" /\ added[i].pattern = q /\ i \in Nat BY <2>2, <1>4
    <3>2. i \in Fitting(name) BY <3>1, <2>3 DEF Fitting
    <3> QED BY <3>1, <3>2, <1>1, <1>2
  <2>5. ASSUME NEW j \in Fitting(name), Ty(j) = "domain"
        PROVE  /\ Len(added[j].pattern) \in Nat /\ Len(added[j].pattern) <= m
               /\ Len(added[j].pattern) = m => added[j].pattern = q
    <3> DEFINE p == added[j].pattern
    <3>1. p \in Seq(STRING) /\ Fits("domain", p, name) /\ p \in DOMAIN values
      BY <2>5, <1>2, <1>4 DEF Latest
    <3>2. Len(p) \in 0 .. Len(name) /\ p = SubSeq(name, 1, Len(p)) BY <3>1, DomainFits
    <3>3. Len(p) \notin m + 1 .. Len(name) BY <3>1, <3>2, <2>1
    <3>4. Len(p) <= m BY <3>2, <3>3, <2>2
    <3>5. Len(p) = m => p = q BY <3>2
    <3> HIDE DEF q
    <3> QED BY <3>2, <3>4, <3>5
  <2>6. \A j \in Fitting(name) : Ty(j) = "domain" /\ added[j].pattern = q => j <= i
    BY <2>2, <1>2, <1>4 DEF Latest
  <2> HIDE DEF q, i
  <2>7. \A j \in Fitting(name) : ~Beats(j, i)
    <3> SUFFICES ASSUME NEW j \in Fitting(name) PROVE ~Beats(j, i) OBVIOUS
    <3>1. CASE Ty(j) = "domain"
      <4>1. RankOf(j) = 2 /\ j \in Nat BY <3>1, <1>1, <1>2
      <4>2. ~(RankOf(j) < RankOf(i)) BY <4>1, <2>4
      <4>3. ~(added[j].pattern = added[i].pattern /\ j > i) BY <3>1, <4>1, <2>4, <2>6
      <4>4. ~(Len(added[j].pattern) > Len(added[i].pattern))
        <5>1. Len(added[i].pattern) = m /\ m \in Nat BY <2>2, <2>4
        <5>2. Len(added[j].pattern) \in Nat /\ Len(added[j].pattern) <= m BY <3>1, <2>5
        <5> QED BY <5>1, <5>2
      <4> QED BY <4>2, <4>3, <4>4 DEF Beats
    <3>2. CASE RankOf(j) \in {3, 4} BY <3>2, <2>4 DEF Beats
    <3> QED BY <3>1, <3>2, <1>3
  <2>8. ASSUME NEW j \in Fitting(name), j # i PROVE Beats(i, j)
    <3>1. CASE Ty(j) = "domain"
      <4>1. RankOf(j) = 2 /\ j \in Nat BY <3>1, <1>1, <1>2
      <4>2. CASE Len(added[j].pattern) = m
        <5>1. added[j].pattern = added[i].pattern BY <4>2, <3>1, <2>4, <2>5
        <5>2. i > j BY <5>1, <3>1, <4>1, <2>4, <2>6, <2>8
        <5> QED BY <5>1, <5>2, <4>1, <2>4 DEF Beats
      <4>3. CASE Len(added[j].pattern) # m
        <5>1. Len(added[i].pattern) > Len(added[j].pattern) BY <4>3, <3>1, <2>2, <2>4, <2>5
        <5> QED BY <5>1, <4>1, <2>4 DEF Beats
      <4> QED BY <4>2, <4>3
    <3>2. CASE RankOf(j) \in {3, 4} BY <3>2, <2>4 DEF Beats
    <3> QED BY <3>1, <3>2, <1>3
  <2>9. ToFind(name) = {i}
    <3>1. \A x \in ToFind(name) : x = i BY <2>4, <2>8, ToFindIs
    <3>2. i \in ToFind(name) BY <2>4, <2>7, ToFindIs
    <3> QED BY <3>1, <3>2
  <2>10. SubDomainMatch(name) = {i} BY <2>1 DEF i, q
  <2> QED BY <2>2, <2>3, <2>9, <2>10
<1> QED BY <1>6, <1>7

LEMMA MixAgrees ==
  ASSUME MixInv, NEW name \in DomainNames
  PROVE  MixMatch(name) = ToFind(name)
<1>1. /\ Order["full"] = 1 /\ Order["domain"] = 2 /\ Order["regexp"] = 3 /\ Order["keyword"] = 4
  BY DEF Order, Kinds
<1>2. \A j \in Fitting(name) : /\ j \in DOMAIN added /\ Ty(j) \in Kinds
                               /\ Fits(Ty(j), added[j].pattern, name)
  BY DEF Fitting, MixInv
<1>3. \A j \in Fitting(name) : Order[Ty(j)] >= 1 BY <1>1, <1>2 DEF Kinds
<1>4. name \in Seq(STRING) BY MatchersAssumption
<1>5. \A p : Fits("full", p, name) <=> name = p BY DEF Fits
<1> DEFINE Hit(f, k) == \E p \in DOMAIN f : Fits(k, p, name)
<1>6. \A k \in Kinds : \A f : Latest(f, k) /\ ~Hit(f, k) => \A j \in Fitting(name) : Ty(j) # k
  BY <1>2 DEF Latest
<1>7. CASE FullMatch(name) # {}
  <2>1. name \in DOMAIN full BY <1>7 DEF FullMatch
  <2>2. ToFind(name) = {full[p] : p \in {p \in DOMAIN full : Fits("full", p, name)}}
    <3>1. "full" \in Kinds /\ "full" # "domain" BY DEF Kinds
    <3>2. \A j \in Fitting(name) : Order[Ty(j)] >= Order["full"] BY <1>1, <1>3
    <3>3. \E p \in DOMAIN full : Fits("full", p, name) BY <2>1, <1>5
    <3> QED BY <3>1, <3>2, <3>3, OneKind DEF MixInv
  <2>3. {p \in DOMAIN full : Fits("full", p, name)} = {name} BY <2>1, <1>5
  <2>4. ToFind(name) = {full[name]} BY <2>2, <2>3
  <2> QED BY <1>7, <2>1, <2>4 DEF MixMatch, FullMatch
<1>8. CASE FullMatch(name) = {}
  <2>1. ~Hit(full, "full") BY <1>8, <1>5 DEF FullMatch
  <2>2. \A j \in Fitting(name) : Ty(j) # "full" BY <2>1, <1>6 DEF Kinds, MixInv
  <2>3. IF Hit(values, "domain")
        THEN SubDomainMatch(name) # {} /\ ToFind(name) = SubDomainMatch(name)
        ELSE SubDomainMatch(name) = {}
    BY <2>2, <1>4, DomainKind
  <2>4. CASE Hit(values, "domain")
    <3> HIDE DEF Hit
    <3> QED BY <2>3, <2>4, <1>8 DEF MixMatch
  <2>5. CASE ~Hit(values, "domain")
    <3>1. SubDomainMatch(name) = {} BY <2>3, <2>5
    <3>2. \A j \in Fitting(name) : Ty(j) # "domain" BY <2>5, <1>6 DEF Kinds, MixInv
    <3>3. "regexp" \in Kinds /\ "regexp" # "domain" /\ "keyword" \in Kinds /\ "keyword" # "domain"
      BY DEF Kinds
    <3>4. CASE Hit(regs, "regexp")
      <4>1. \A j \in Fitting(name) : Order[Ty(j)] >= Order["regexp"]
        BY <2>2, <3>2, <1>1, <1>2 DEF Kinds
      <4>2. ToFind(name) = RegexMatch(name) BY <3>3, <3>4, <4>1, OneKind DEF MixInv, RegexMatch
      <4>3. RegexMatch(name) # {} BY <3>4 DEF RegexMatch
      <4> QED BY <4>2, <4>3, <3>1, <1>8 DEF MixMatch
    <3>5. CASE ~Hit(regs, "regexp")
      <4>1. RegexMatch(name) = {} BY <3>5 DEF RegexMatch
      <4>2. \A j \in Fitting(name) : Ty(j) # "regexp" BY <3>5, <1>6 DEF Kinds, MixInv
      <4>3. \A j \in Fitting(name) : Ty(j) = "keyword" BY <2>2, <3>2, <4>2, <1>2 DEF Kinds
      <4>4. \A j \in Fitting(name) : Order[Ty(j)] >= Order["keyword"] BY <4>3, <1>1
      <4>5. ToFind(name) = KeywordMatch(name) BY <3>3, <4>3, <4>4, OneKind DEF MixInv, KeywordMatch
      <4> QED BY <4>1, <4>5, <3>1, <1>8 DEF MixMatch
    <3> QED BY <3>4, <3>5
  <2> QED BY <2>4, <2>5
<1> QED BY <1>7, <1>8

LEMMA MatchersInvCorrect == MatchersSpec => [](ListInv /\ MixInv)
<1>1. MatchersInit => ListInv /\ MixInv BY ListFirst, MixFirst
<1>2. ListInv /\ MixInv /\ [MatchersNext]_matchVars => (ListInv /\ MixInv)'
  BY ListStep, MixStep
<1> QED BY <1>1, <1>2, PTL DEF MatchersSpec

(* A name gets the value of a rule it should and a sorted list contains what *)
(* was appended (MatchersAgree): for any names, any rules in any order, any *)
(* number of prefixes - the walk of the trie, the deduplication and the     *)
(* search by halving are followed through by induction.                     *)
THEOREM MatchersCorrect == MatchersSpec => []MatchersAgree
<1>1. ListInv /\ MixInv => MatchersAgree BY ListAgrees, MixAgrees DEF MatchersAgree
<1> QED BY <1>1, MatchersInvCorrect, PTL

-----------------------------------------------------------------------------
(* Together.  Each part of MCRules only takes steps of its own.             *)
LEMMA PartsRun == RulesSpec => AdSpec /\ RuleSetsSpec /\ SavedSpec /\ MatchersSpec
<1>1. RulesInit => AdInit /\ RuleSetsInit /\ SavedInit /\ MatchersInit BY DEF RulesInit
<1>2. [RulesNext]_<<part, adVars, setVars, savedVars, matchVars>> =>
         [AdNext]_adVars /\ [RuleSetsNext]_setVars /\ [SavedNext]_savedVars /\ [MatchersNext]_matchVars
  BY DEF RulesNext, MatchersNext
<1> QED BY <1>1, <1>2, PTL DEF RulesSpec, AdSpec, RuleSetsSpec, SavedSpec, MatchersSpec

THEOREM SavedIsMemoryCorrect == RulesSpec => []SavedIsMemory
<1>1. ConfigFollows /\ SetConfigFollows /\ FileFollows => SavedIsMemory BY DEF SavedIsMemory
<1> QED BY <1>1, PartsRun, ConfigFollowsCorrect, SetConfigFollowsCorrect, FileFollowsCorrect, PTL

THEOREM LoadedIsConfiguredCorrect == RulesSpec => []LoadedIsConfigured
<1>1. ChangesLoaded /\ LoadedUnlessOverlapped => LoadedIsConfigured BY DEF LoadedIsConfigured
<1> QED BY <1>1, PartsRun, ChangesLoadedCorrect, LoadedUnlessOverlappedCorrect, PTL

(* What is matched is what was configured, names and prefixes. *)
THEOREM MatchersAgreeCorrect == RulesSpec => []MatchersAgree
BY PartsRun, MatchersCorrect, PTL
=============================================================================

------------------------------ MODULE MCRules ------------------------------
(* What queries are matched with and where it is kept, for TLC: the adguard *)
(* rules, the rule sets, the lists and switches, the matchers.  One of them *)
(* acts, `part` says which, and the others have nothing to do.              *)
EXTENDS AdguardRule, RuleSets, SavedValue, Matchers, TLC

VARIABLE part
MCReadsAs == [r \in {" b"} |-> {"b"}]
MCNames == {<<>>, <<"a">>, <<"b">>, <<"a", "b">>, <<"a", "b", "a">>}

RulesInit ==
    /\ part \in {"adguard", "sets", "saved", "names", "list"}
    /\ AdInit /\ (part # "adguard" => used = {})
    /\ RuleSetsInit
    /\ part # "sets" => /\ setKind = "sd" /\ \A p \in Paths : srs[p] = "none"
                       /\ \A n \in SetNames : sources[n] = Nil
    /\ \A n \in SetNames : InUse(n) => File(n) = CHOOSE p \in Paths : TRUE \* they are alike
    /\ SavedInit /\ (part # "saved" => plugin = "domain" /\ value = {})
    /\ MatchersInit /\ (part # "names" => defaultMatcher = NoType)

RulesNext ==
    /\ UNCHANGED part
    /\ \/ part = "adguard" /\ AdNext /\ UNCHANGED <<setVars, savedVars, matchVars>>
       \/ part = "sets" /\ RuleSetsNext /\ UNCHANGED <<adVars, savedVars, matchVars>>
       \/ part = "saved" /\ SavedNext /\ UNCHANGED <<adVars, setVars, matchVars>>
       \/ part = "names" /\ MixNext /\ UNCHANGED <<adVars, setVars, savedVars>>
       \/ part = "list" /\ ListNext /\ UNCHANGED <<adVars, setVars, savedVars>>

RulesSpec == RulesInit /\ [][RulesNext]_<<part, adVars, setVars, savedVars, matchVars>> /\ AdFairness

(* What the next start will read is what is in memory: the configuration of *)
(* the adguard rules and of the rule sets, the lists and the switches.      *)
SavedIsMemory == ConfigFollows /\ SetConfigFollows /\ FileFollows

(* What was configured is what the matchers are built from when all is       *)
(* quiet: of the adguard rules whatever downloads, deletes and reloads        *)
(* overlap, of a rule set unless reloads overlapped or a handler gave up.     *)
LoadedIsConfigured == ChangesLoaded /\ LoadedUnlessOverlapped
=============================================================================

----------------------------- MODULE QueryPath -----------------------------
(* The executables that ask several branches at a time: fallback (primary   *)
(* and secondary), forward and aliapi (concurrent upstreams) and            *)
(* prefer_ipv4/6 (the query and a reference query of the preferred type).   *)
(* One query is followed; the branches are goroutines that work on copies   *)
(* of its Context.                                                          *)
EXTENDS Integers, Sequences, FiniteSets, SequencesExt

CONSTANT Concurrents   \* values of the argument "concurrent" of forward and aliapi

ASSUME ConcurrentsAssumption == Concurrents \subseteq Int

MaxConcurrent == 3     \* maxConcurrentQueries
Names == <<"b1", "b2", "b3">>
Branch == Range(Names)
Primary == "b1"  Secondary == "b2"       \* branches of fallback
Reference == "b1"  Original == "b2"      \* branches of prefer_ipv4/6

(* What an upstream or a sequence comes to: a reply with an address (of the *)
(* preferred type, for the reference query), a definitive one without, one  *)
(* with another rcode, an error or no reply at all.                         *)
Replies == {"ip", "definitive", "other"}
Ends == Replies \cup {"error"}
None == "none"

Execs == {"fallback", "standby", "forward", "aliapi", "prefer", "preferred"}

VARIABLES
    exec,       \* the executable: "fallback" | "standby" (fallback with always_standby)
                \* | "forward" | "aliapi" | "prefer" (query of the other type) | "preferred"
    branches,   \* the branches this query has
    ctxEnded,   \* the caller's ctx: its deadline has passed
    ctxCancelled,  \* it was cancelled
    timer,      \* the threshold, or the wait for the reference, has passed
    bpc,        \* where each branch goroutine is
    got,        \* what each branch's call has come to
    respChan,   \* buffered channel of results: branches, or None for nil
    nils,       \* results without a reply fallback's loop has seen
    heard,      \* results the loop of forward or aliapi has seen, in their order
    mainPc,     \* "select" | "wait" | "end"
    outcome,    \* "pending" | "ctx" | "failed" | "blocked" | the branch whose reply is taken
    preferOk,   \* preferTypOkCache has the name
    seenPrefer  \* history: some reply had an address of the preferred type

query == <<exec, branches>>
ctx == <<ctxEnded, ctxCancelled, timer>>
main == <<mainPc, outcome>>
counts == <<nils, heard>>
chan == <<respChan, counts>>
prefs == <<preferOk, seenPrefer>>
pathVars == <<query, ctx, bpc, got, chan, main, prefs>>

Fallback == exec \in {"fallback", "standby"}
Prefer == exec \in {"prefer", "preferred"}
CtxDone == ctxEnded \/ ctxCancelled

PathGoto(b, label) == bpc' = [bpc EXCEPT ![b] = label]
Return(o) == outcome' = o /\ mainPc' = "end"
Send(x) == respChan' = Append(respChan, x)

-----------------------------------------------------------------------------
(* How many upstreams are asked; aliapi asks none of its us twice. *)
NumConcurrent(arg) ==
    IF arg <= 0 THEN 1 ELSE IF arg > MaxConcurrent THEN MaxConcurrent ELSE arg

NumToQuery(arg, us) == Min({NumConcurrent(arg), us})

(* The main goroutine has started its branches; the secondary of a fallback *)
(* that does not stand by waits first.                                      *)
PathInit ==
    /\ exec \in Execs
    /\ \E arg \in Concurrents :
       \E us \in 1 .. MaxConcurrent :
          LET n == CASE exec = "forward" -> NumConcurrent(arg)
                     [] exec = "aliapi" -> NumToQuery(arg, us)
                     [] exec = "preferred" -> 1
                     [] OTHER -> 2
          IN branches = {Names[i] : i \in 1 .. n}
    /\ bpc = [b \in Branch |-> IF b \notin branches THEN "none"
                               ELSE IF exec = "fallback" /\ b = Secondary THEN "wait"
                               ELSE "exec"]
    /\ got = [b \in Branch |-> None]
    /\ ctxEnded = FALSE /\ ctxCancelled = FALSE /\ timer = FALSE
    /\ respChan = <<>> /\ nils = 0 /\ heard = <<>>
    /\ mainPc = "start" /\ outcome = "pending"
    /\ preferOk \in (IF Prefer THEN BOOLEAN ELSE {FALSE})
    /\ seenPrefer = preferOk

(* prefer: a name known to have the preferred type is blocked right away,   *)
(* without branches.                                                        *)
Start ==
    /\ mainPc = "start"
    /\ IF preferOk /\ exec = "prefer"
       THEN /\ Return("blocked")
            /\ bpc' = [b \in Branch |-> "none"] /\ branches' = {}
       ELSE mainPc' = "select" /\ UNCHANGED <<outcome, bpc, branches>>
    /\ UNCHANGED <<ctx, chan, prefs, exec, got>>

Running(b) == mainPc # "start" /\ bpc[b] = "exec"

(* The branch's own call (ExchangeContext of an upstream, Exec of a         *)
(* sequence) ends.                                                          *)
BranchReturns(b) ==
    /\ Running(b)
    /\ \E e \in Ends :
          /\ got' = [got EXCEPT ![b] = e]
          /\ seenPrefer' = (seenPrefer \/ (Prefer /\ b = Reference /\ e = "ip"))
    /\ PathGoto(b, "returned")
    /\ UNCHANGED <<query, ctx, main, chan, preferOk>>

Replied(b) == got[b] \in Replies
-----------------------------------------------------------------------------
(* fallback.  The primary closes primDone or primFailed, then sends. *)
primDone == Replied(Primary) /\ bpc[Primary] \in {"send", "end"}
primFailed == got[Primary] = "error" /\ bpc[Primary] \in {"send", "end"}

PrimaryCloses ==
    /\ Fallback /\ bpc[Primary] = "returned"
    /\ PathGoto(Primary, "send")
    /\ UNCHANGED <<query, ctx, main, chan, prefs, got>>

PrimarySends ==
    /\ Fallback /\ bpc[Primary] = "send"
    /\ Send(IF Replied(Primary) THEN Primary ELSE None)
    /\ PathGoto(Primary, "end")
    /\ UNCHANGED <<query, ctx, main, prefs, got, counts>>

(* The secondary's select before it starts. *)
SecondaryWaits ==
    /\ exec = "fallback" /\ mainPc # "start" /\ bpc[Secondary] = "wait"
    /\ \/ primDone /\ Send(None) /\ PathGoto(Secondary, "end")
       \/ (primFailed \/ timer) /\ PathGoto(Secondary, "exec") /\ UNCHANGED respChan
    /\ UNCHANGED <<query, ctx, main, prefs, got, counts>>

SecondaryReturns ==
    /\ Fallback /\ bpc[Secondary] = "returned"
    /\ IF Replied(Secondary) /\ exec = "standby"
       THEN PathGoto(Secondary, "standby") /\ UNCHANGED respChan
       ELSE /\ Send(IF Replied(Secondary) THEN Secondary ELSE None)
            /\ PathGoto(Secondary, "end")
    /\ UNCHANGED <<query, ctx, main, prefs, got, counts>>

(* Its select when it stands by with a reply: makeDdlCtx takes over the     *)
(* deadline of the caller's ctx, not its cancellation.                      *)
Needed_Always == TRUE
Needed == primFailed \/ timer

SecondaryStandsBy ==
    /\ bpc[Secondary] = "standby"
    /\ \/ (ctxEnded \/ primDone) /\ UNCHANGED respChan
       \/ Needed /\ Send(Secondary)
    /\ PathGoto(Secondary, "end")
    /\ UNCHANGED <<query, ctx, main, prefs, got, counts>>

(* doFallback's loop over two results. *)
LastNil_OffByOne == nils = 0
LastNil == nils = 1

FallbackReceives ==
    /\ Fallback /\ mainPc = "select" /\ respChan # <<>>
    /\ respChan' = Tail(respChan)
    /\ IF Head(respChan) # None
       THEN Return(Head(respChan)) /\ UNCHANGED nils
       ELSE /\ nils' = nils + 1
            /\ IF LastNil
               THEN Return("failed") ELSE UNCHANGED <<main>>
    /\ UNCHANGED <<query, ctx, prefs, bpc, got, heard>>
-----------------------------------------------------------------------------
(* forward.  resChan has no buffer: a branch sends when the loop receives,  *)
(* or finds done closed.                                                    *)
First(S, seq) == seq[CHOOSE i \in DOMAIN seq :
                        /\ got[seq[i]] \in S
                        /\ \A j \in 1 .. i - 1 : got[seq[j]] \notin S]
Has(S, seq) == \E i \in DOMAIN seq : got[seq[i]] \in S

(* What is returned when every branch has been heard. *)
Best_Any(seq) ==
    IF Has(Replies, seq) THEN First(Replies, seq) ELSE "failed"
Best(seq) ==
    IF Has({"definitive"}, seq) THEN First({"definitive"}, seq)
    ELSE IF Has({"other"}, seq) THEN First({"other"}, seq)
    ELSE "failed"

Hear(b) ==
    LET seq == Append(heard, b) IN
    /\ heard' = seq
    /\ IF got[b] = "ip" THEN Return(b)
       ELSE IF Len(seq) = Cardinality(branches) THEN Return(Best(seq))
       ELSE UNCHANGED <<main>>

ForwardReceives(b) ==
    /\ exec = "forward" /\ mainPc = "select" /\ bpc[b] = "returned"
    /\ PathGoto(b, "end")
    /\ Hear(b)
    /\ UNCHANGED <<query, ctx, prefs, got, nils, respChan>>

DoneClosed_Never == FALSE
DoneClosed == mainPc = "end"

ForwardDone(b) ==
    /\ exec = "forward" /\ DoneClosed /\ bpc[b] = "returned"
    /\ PathGoto(b, "end")
    /\ UNCHANGED <<query, ctx, main, chan, prefs, got>>
-----------------------------------------------------------------------------
(* aliapi.  resChan has room for every result; exchangeCtx ends with the    *)
(* loop or the caller's ctx, and a branch may then drop its result.         *)
AliSends(b) ==
    /\ exec = "aliapi" /\ bpc[b] = "returned"
    /\ \/ Send(b)
       \/ (DoneClosed \/ CtxDone) /\ UNCHANGED respChan
    /\ PathGoto(b, "end")
    /\ UNCHANGED <<query, ctx, main, prefs, got, counts>>

AliReceives ==
    /\ exec = "aliapi" /\ mainPc = "select" /\ respChan # <<>>
    /\ respChan' = Tail(respChan)
    /\ Hear(Head(respChan))
    /\ UNCHANGED <<query, ctx, prefs, bpc, got, nils>>

(* When the ctx ends, what has been heard is good enough. *)
AliGivesUp ==
    /\ exec = "aliapi" /\ mainPc = "select" /\ CtxDone
    /\ Return(IF Has(Replies, heard) THEN Best(heard) ELSE "ctx")
    /\ UNCHANGED <<query, ctx, chan, prefs, bpc, got>>
-----------------------------------------------------------------------------
(* prefer_ipv4/6.  The reference query remembers a name that has the        *)
(* preferred type and closes shouldBlock or shouldPass.                     *)
ShouldBlock == exec = "prefer" /\ bpc[Reference] = "end" /\ got[Reference] = "ip"
ShouldPass == bpc[Reference] = "end" /\ ~ShouldBlock

ReferenceEnds ==
    /\ exec = "prefer" /\ bpc[Reference] = "returned"
    /\ PathGoto(Reference, "end")
    /\ preferOk' = (preferOk \/ got[Reference] = "ip")
    /\ UNCHANGED <<query, ctx, main, chan, got, seenPrefer>>

OriginalSends ==
    /\ exec = "prefer" /\ bpc[Original] = "returned"
    /\ Send(Original)
    /\ PathGoto(Original, "end")
    /\ UNCHANGED <<query, ctx, main, prefs, got, counts>>

(* A query of the preferred type runs the rest of the chain itself. *)
PreferredReturns ==
    /\ exec = "preferred" /\ mainPc = "select" /\ bpc[Reference] = "returned"
    /\ PathGoto(Reference, "end")
    /\ Return(IF Replied(Reference) THEN Reference ELSE "failed")
    /\ preferOk' = (preferOk \/ got[Reference] = "ip")
    /\ UNCHANGED <<query, ctx, chan, got, seenPrefer>>

OriginalOutcome == IF Replied(Original) THEN Original ELSE "failed"

PreferSelects ==
    /\ exec = "prefer" /\ mainPc \in {"select", "wait"}
    /\ \/ ShouldBlock /\ Return("blocked") /\ UNCHANGED respChan
       \/ /\ mainPc = "select" /\ respChan # <<>>
          /\ respChan' = Tail(respChan)
          /\ mainPc' = "wait" /\ UNCHANGED outcome
       \/ /\ mainPc = "wait" /\ (ShouldPass \/ timer)
          /\ Return(OriginalOutcome) /\ UNCHANGED respChan
    /\ UNCHANGED <<query, ctx, prefs, bpc, got, counts>>
-----------------------------------------------------------------------------
(* Every select of a main goroutine has ctx.Done as well. *)
MainCtxDone ==
    /\ mainPc \in {"select", "wait"} /\ CtxDone /\ exec \notin {"preferred", "aliapi"}
    /\ Return("ctx")
    /\ UNCHANGED <<query, ctx, chan, prefs, bpc, got>>

Timer ==
    /\ ~timer /\ (Fallback \/ exec = "prefer") /\ mainPc # "start"
    /\ exec = "prefer" => mainPc = "wait"
    /\ timer' = TRUE
    /\ UNCHANGED <<query, main, chan, prefs, ctxEnded, ctxCancelled, bpc, got>>

(* Only a standby tells a deadline that passes after a cancellation. *)
CtxEnds ==
    /\ mainPc # "start"
    /\ CtxDone => exec = "standby"
    /\ \/ ~ctxEnded /\ ctxEnded' = TRUE /\ UNCHANGED ctxCancelled
       \/ ~ctxCancelled /\ ctxCancelled' = TRUE /\ UNCHANGED ctxEnded
    /\ UNCHANGED <<query, main, chan, prefs, timer, bpc, got>>

BranchStep(b) ==
    \/ BranchReturns(b) \/ ForwardDone(b) \/ AliSends(b)
    \/ b = Primary /\ (PrimaryCloses \/ PrimarySends)
    \/ b = Secondary /\ (SecondaryWaits \/ SecondaryReturns \/ SecondaryStandsBy)
    \/ b = Reference /\ ReferenceEnds
    \/ b = Original /\ OriginalSends

MainStep ==
    \/ Start \/ FallbackReceives \/ PreferSelects \/ PreferredReturns \/ MainCtxDone
    \/ AliReceives \/ AliGivesUp
    \/ \E b \in Branch : ForwardReceives(b)

PathNext == (\E b \in Branch : BranchStep(b)) \/ MainStep \/ Timer \/ CtxEnds

(* Goroutines run, calls of branches end by their timeouts, timers fire.    *)
(* The caller's ctx need not end.                                           *)
PathFairness ==
    /\ WF_pathVars(MainStep) /\ WF_pathVars(Timer)
    /\ \A b \in Branch : WF_pathVars(BranchStep(b))

PathSpec == PathInit /\ [][PathNext]_pathVars /\ PathFairness
-----------------------------------------------------------------------------
PathTypeOK ==
    /\ exec \in Execs
    /\ branches \subseteq Branch
    /\ {ctxEnded, ctxCancelled, timer, preferOk, seenPrefer} \subseteq BOOLEAN
    /\ bpc \in [Branch -> {"none", "wait", "exec", "returned", "send", "standby", "end"}]
    /\ got \in [Branch -> Ends \cup {None}]
    /\ respChan \in Seq(Branch \cup {None}) /\ Len(respChan) <= MaxConcurrent
    /\ heard \in Seq(branches) /\ Len(heard) <= MaxConcurrent
    /\ nils \in 0 .. 2
    /\ mainPc \in {"start", "select", "wait", "end"}
    /\ outcome \in Branch \cup {"pending", "ctx", "failed", "blocked"}

(* Forward, aliapi and fallback are Choosers: a reply is one of a branch that has   *)
(* replied, and the call fails only if every branch has failed - a result   *)
(* that is dropped, or counted twice, would make it fail with a reply at    *)
(* hand.                                                                    *)
asked == IF Prefer THEN {} ELSE branches
ended ==
    [b \in Branch |-> IF b \notin asked THEN "failed"
                      ELSE IF got[b] = None THEN "running"
                      ELSE IF got[b] = "error" THEN "failed" ELSE "replied"]
chosen ==
    IF Prefer THEN "pending"
    ELSE IF outcome \in Branch THEN "answered" ELSE outcome
Choice == INSTANCE Chooser WITH Branches <- Branch, ended <- ended, outcome <- chosen
IsChooser == Choice!Spec

(* The order of preference of forward and aliapi, whatever order the        *)
(* replies come in: an address as soon as there is one, else a definitive   *)
(* reply, else another one; and only when nobody is left to be heard, or,   *)
(* of aliapi, when the ctx has ended.                                       *)
BestReply ==
    exec \in {"forward", "aliapi"} /\ outcome \in Branch /\ got[outcome] # "ip" =>
        /\ Range(heard) = branches \/ (exec = "aliapi" /\ CtxDone)
        /\ \A b \in Range(heard) :
              /\ got[b] \in Ends \ {"ip"}
              /\ got[b] = "definitive" => got[outcome] = "definitive"

(* The secondary is asked, or its reply used, only when the primary has     *)
(* failed or the threshold has passed.                                      *)
SecondaryOnlyIfNeeded ==
    /\ Fallback /\ outcome = Secondary => got[Primary] = "error" \/ timer
    /\ exec = "fallback" /\ got[Secondary] # None => got[Primary] = "error" \/ timer

(* A query is answered with an empty reply only when a reply with the       *)
(* preferred type has been seen for its name.                               *)
BlockedOnlyIfPreferred == outcome = "blocked" \/ preferOk => seenPrefer

(* An empty or a second-best reply has its reason: the blocked one and the  *)
(* secondary's.                                                             *)
OnlyForAReason == SecondaryOnlyIfNeeded /\ BlockedOnlyIfPreferred

(* The call returns even if its ctx never ends, and leaves no goroutine     *)
(* behind: no result is forgotten that the main loop waits for, and no      *)
(* sender is stuck when it has left.                                        *)
EverythingEnds ==
    <>(mainPc = "end" /\ \A b \in Branch : bpc[b] \in {"none", "end"})
=============================================================================

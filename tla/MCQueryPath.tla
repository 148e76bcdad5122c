---------------------------- MODULE MCQueryPath ----------------------------
(* The way of a query, for TLC: the walk through the sequences, the         *)
(* executables that ask several branches, the upstream, its connection.     *)
(* One of them acts, `part` says which, and the others are in a state in    *)
(* which fairness asks nothing of them.                                     *)
EXTENDS QueryPath, ChainWalk, Upstream, TraditionalConn, TLC

VARIABLE part

-----------------------------------------------------------------------------
(* Three chains: the first one is left, wrapped or works on the reply, its  *)
(* jumps go to the second one; of the third there is one, which returns.    *)
To(chain, x) == [m |-> <<>>, x |-> x, to |-> chain]
If(ms, x) == [m |-> ms, x |-> x, to |-> 2]
Entries == {To(2, x) : x \in {"redirect", "ecs_handler", "jump", "prefer"}}
Middles ==
    {To(2, x) : x \in {"jump", "fallback", "rewrite", "ttl", "forward_edns0opt"}}
    \cup {If(<<"mark">>, "goto"), If(<<"!has_resp", "qname">>, "hosts"),
            If(<<"qname", "err", "mark">>, "hosts")}
Exits == {To(2, "forward"), If(<<"has_resp">>, "accept")}
Seconds ==
    {<<To(3, "redirect"), To(3, "return"), To(3, "forward")>>,
     <<To(3, "mark"), To(3, "jump"), To(3, "aliapi")>>,
     <<To(3, "jump"), To(3, "reverse_lookup"), To(3, "arbitrary")>>,
     <<To(3, "forward"), To(3, "cname_remover"), To(3, "redirect")>>,
     <<If(<<"!has_resp">>, "black_hole"), If(<<"has_wanted_ans">>, "drop_resp"), To(3, "reject")>>}
Third == <<To(3, "mark"), To(3, "return")>>
MCPrograms ==
    {<<<<a, b, c>>, second, Third>> :
        a \in Entries, b \in Middles, c \in Exits, second \in Seconds}
-----------------------------------------------------------------------------
(* At rest: a preferred name is blocked, the upstream was refused, the      *)
(* connection is closed; the walk asks for no fairness.                     *)
BranchesRest ==
    /\ exec = "preferred" /\ branches = {}
    /\ ctxEnded = FALSE /\ ctxCancelled = FALSE /\ timer = FALSE
    /\ bpc = [b \in Branch |-> "none"] /\ got = [b \in Branch |-> None]
    /\ respChan = <<>> /\ nils = 0 /\ heard = <<>> /\ mainPc = "end" /\ outcome = "blocked"
    /\ preferOk = TRUE /\ seenPrefer = TRUE
ConnClosed ==
    /\ isTcp = TRUE /\ maxCq = 1
    /\ pc = [c \in Calls |-> "done"] /\ qid = [c \in Calls |-> -1]
    /\ reply = [c \in Calls |-> NoReply] /\ stamp = [c \in Calls |-> -1]
    /\ cancelled = {} /\ reserved = 0 /\ issued = 0 /\ queue = [i \in Qids |-> NoCall]
    /\ closed = TRUE /\ notified = TRUE /\ closer = NoCall
    /\ loop = "end" /\ msg = NoCall /\ target = NoCall /\ inflight = {}

QueryInit ==
    /\ part \in {"branches", "walk", "upstream", "conn"}
    /\ IF part = "branches" THEN PathInit ELSE BranchesRest
    /\ WalkInit /\ (part # "walk" => program = (CHOOSE p \in Programs : TRUE) /\ ~clientEcs)
    /\ UpInit /\ (part # "upstream" => up = Refused)
    /\ IF part = "conn" THEN Init ELSE ConnClosed

QueryNext ==
    /\ UNCHANGED part
    /\ \/ part = "branches" /\ PathNext /\ UNCHANGED <<walkVars, upVars, vars>>
       \/ part = "walk" /\ WalkNext /\ UNCHANGED <<pathVars, upVars, vars>>
       \/ part = "upstream" /\ UpNext /\ UNCHANGED <<pathVars, walkVars, vars>>
       \/ part = "conn" /\ Next /\ UNCHANGED <<pathVars, walkVars, upVars>>

QuerySpec ==
    /\ QueryInit /\ [][QueryNext]_<<part, pathVars, walkVars, upVars, vars>>
    /\ PathFairness /\ UpFairness /\ Fairness

(* A query ends: the branches of an executable, a call of an upstream with  *)
(* its stream and its goroutines (a dial of net/http may stay), a call on a connection - on TCP even if   *)
(* its ctx never does, on UDP when its ctx ends.                            *)
EverythingReturns == EverythingEnds /\ NothingStays /\ CallsReturn /\ CancelledReturn
=============================================================================

----------------------------- MODULE ChainWalk -----------------------------
(* A query on its way through the sequences: ChainWalker over nodes with    *)
(* matchers, the actions that move between chains, the plugins that reply   *)
(* to, rewrite or post-process a query, and the entry handler that turns    *)
(* the result into the client's reply.  Recursive executables wrap the rest *)
(* of the walk: what they do after next.ExecNext is a frame on calls.       *)
EXTENDS Naturals, Sequences, FiniteSets, SequencesExt

CONSTANT Programs   \* sequences of chains: chain 1 is the entry; a node jumps to a later chain

(* A jump or a goto is to a sequence loaded before its own, which the set-up *)
(* looks up: chains are numbered against the order of loading.              *)
Moves == {"jump", "goto"}
IsProgram(P) ==
    /\ Len(P) \in Nat \ {0} /\ DOMAIN P = 1 .. Len(P)
    /\ \A c \in DOMAIN P : Len(P[c]) \in Nat /\ DOMAIN P[c] = 1 .. Len(P[c])
    /\ \A c \in DOMAIN P : \A i \in DOMAIN P[c] : P[c][i].x \in Moves => P[c][i].to \in c + 1 .. Len(P)
ASSUME ProgramsAssumption == \A P \in Programs : IsProgram(P)

(* Names: what the client asks and what redirect makes of it. *)
Asked == "asked"  Target == "target"
NoResp == [name |-> "", rcode |-> "", cname |-> FALSE, ip |-> FALSE]
Reply(name, rcode, cname, ip) ==
    [name |-> name, rcode |-> rcode, cname |-> cname, ip |-> ip]

VARIABLES
    program,   \* chain number -> sequence of nodes [m |-> matchers, x |-> exec, to |-> chain]
    at,        \* the walker: a path of node numbers, one per jump or goto taken
    jumpBack,  \* where chains that were jumped to go back to
    calls,     \* recursive executables that wait for next.ExecNext
    qCtx,      \* the Context
    clientEcs, \* the client's OPT carries an ECS option
    visited,   \* history: nodes in the order they were come to, and whether they ran
    walk,      \* "run" | "unwind" | "done"
    failed,    \* ExecNext returns an error
    clientReply \* what the client gets

walkVars ==
    <<program, at, jumpBack, calls, qCtx, clientEcs, visited, walk, failed, clientReply>>

(* The chain a path is in, and the node it is at. *)
ChainOf(path) ==
    IF Len(path) = 1 THEN 1
    ELSE LET chainAt[n \in 1 .. Len(path)] ==
               IF n = 1 THEN 1 ELSE program[chainAt[n - 1]][path[n - 1]].to
         IN chainAt[Len(path)]
Node(path) == program[ChainOf(path)][Last(path)]
InChain(path) == Last(path) <= Len(program[ChainOf(path)])
Next1(path) == Append(Front(path), Last(path) + 1)

-----------------------------------------------------------------------------
WalkInit ==
    /\ program \in Programs
    /\ clientEcs \in BOOLEAN
    /\ at = <<1>> /\ jumpBack = <<>> /\ calls = <<>>
    /\ qCtx = [name |-> Asked, query |-> 0, resp |-> NoResp, ecs |-> FALSE,
               upstreamEcs |-> FALSE, respEcs |-> FALSE, mark |-> FALSE, set |-> ""]
    /\ visited = <<>> /\ walk = "run" /\ failed = FALSE /\ clientReply = NoResp

(* Matchers.  Of two, the second is looked at if the first holds.  None of  *)
(* the repository's returns an error; "err" is one that does, as a matcher  *)
(* of another build may (and the one of sequence_test.go does).             *)
Holds(m) ==
    CASE m = "has_resp" -> qCtx.resp # NoResp
      [] m = "!has_resp" -> qCtx.resp = NoResp
      [] m = "has_wanted_ans" -> qCtx.resp.ip
      [] m = "mark" -> qCtx.mark
      [] m = "qname" -> qCtx.name = Asked
      [] m = "err" -> FALSE
Matched(ms) == \A i \in DOMAIN ms : Holds(ms[i])
MatchErrs(ms) == \E i \in DOMAIN ms : ms[i] = "err" /\ \A j \in 1 .. i - 1 : Holds(ms[j])

(* The name of the first domain set that matched is kept, even if a later   *)
(* matcher of the node fails.                                               *)
SetAfter(ms) ==
    IF qCtx.set = "" /\ \E i \in DOMAIN ms :
          ms[i] = "qname" /\ \A j \in 1 .. i : Holds(ms[j])
    THEN "qname" ELSE qCtx.set

Visit(ran) == visited' = Append(visited, [path |-> at, ran |-> ran])

Skip ==
    /\ walk = "run" /\ InChain(at) /\ ~Matched(Node(at).m) /\ ~MatchErrs(Node(at).m)
    /\ Visit(FALSE)
    /\ qCtx' = [qCtx EXCEPT !.set = SetAfter(Node(at).m)]
    /\ at' = Next1(at)
    /\ UNCHANGED <<program, jumpBack, calls, clientEcs, walk, failed, clientReply>>

(* The node at the walker runs, with the Context its matchers leave. *)
Runs(x) ==
    /\ walk = "run" /\ InChain(at) /\ Node(at).x = x /\ Matched(Node(at).m)
    /\ Visit(TRUE)
    /\ UNCHANGED <<program, clientEcs, clientReply>>
Ctx == [qCtx EXCEPT !.set = SetAfter(Node(at).m)]

GoOn == at' = Next1(at) /\ UNCHANGED <<jumpBack, calls, walk, failed>>
Stop(err) == walk' = "unwind" /\ failed' = err /\ UNCHANGED <<at, jumpBack, calls>>
Keep == qCtx' = Ctx

(* A matcher's error ends the walk before the node runs. *)
MatchFails ==
    /\ walk = "run" /\ InChain(at) /\ MatchErrs(Node(at).m)
    /\ Visit(FALSE) /\ Keep /\ Stop(TRUE)
    /\ UNCHANGED <<program, clientEcs, clientReply>>

(* A recursive executable runs the rest of the walk. *)
Wrap_LosesJumpBack(frame) ==
    /\ at' = Next1(at) /\ calls' = Append(calls, frame)
    /\ jumpBack' = <<>> /\ UNCHANGED <<walk, failed>>
Wrap(frame) ==
    /\ at' = Next1(at) /\ calls' = Append(calls, frame)
    /\ UNCHANGED <<jumpBack, walk, failed>>

(* Walking back: the end of a chain that was jumped to. *)
JumpBack ==
    IF jumpBack # <<>>
    THEN at' = Last(jumpBack) /\ jumpBack' = Front(jumpBack)
         /\ UNCHANGED <<calls, walk, failed>>
    ELSE Stop(FALSE)

EndOfChain ==
    /\ walk = "run" /\ ~InChain(at)
    /\ JumpBack
    /\ UNCHANGED <<program, qCtx, clientEcs, visited, clientReply>>
-----------------------------------------------------------------------------
(* Built-in actions. *)
ActionAccept == Runs("accept") /\ Stop(FALSE) /\ Keep
ActionReject ==
    /\ Runs("reject") /\ Stop(FALSE)
    /\ qCtx' = [Ctx EXCEPT !.resp = Reply(qCtx.name, "refused", FALSE, FALSE),
                           !.upstreamEcs = FALSE]
ActionReturn == Runs("return") /\ JumpBack /\ Keep
ActionJump ==
    /\ Runs("jump") /\ Keep
    /\ at' = Append(at, 1)
    /\ jumpBack' = Append(jumpBack, Next1(at))
    /\ UNCHANGED <<calls, walk, failed>>
ActionGoto ==
    /\ Runs("goto") /\ Keep
    /\ at' = Append(at, 1)
    /\ jumpBack' = <<>>
    /\ UNCHANGED <<calls, walk, failed>>
-----------------------------------------------------------------------------
(* Executables. *)
Answered(r) == [Ctx EXCEPT !.resp = r, !.upstreamEcs = FALSE]

(* A server's reply repeats the question; its OPT may carry an ECS.        *)
ServerReplies ==
    \E rcode \in {"success", "nxdomain"} : \E cname \in BOOLEAN :
        qCtx' = [Ctx EXCEPT !.resp = Reply(qCtx.name, rcode, cname, rcode = "success"),
                            !.upstreamEcs = qCtx.ecs]
Forward ==
    /\ Runs("forward")
    /\ \/ Stop(TRUE) /\ Keep
       \/ GoOn /\ ServerReplies

(* aliapi asks servers or a JSON API.  Of the API's answers, records of an  *)
(* owner and a type, those whose owner is the question's name are kept if   *)
(* the status is success; a type or data it cannot represent becomes a TXT. *)
getDNSRecord(type) == IF type = "malformed" THEN "TXT" ELSE type
ApiReplies ==
    \E status \in {"success", "nxdomain"} :
    \E answers \in SUBSET ({qCtx.name, "alias"} \X {"CNAME", "A", "malformed"}) :
        LET kept == {getDNSRecord(a[2]) : a \in {a \in answers :
                        status = "success" /\ a[1] = qCtx.name}}
        IN qCtx' = [Ctx EXCEPT !.resp = Reply(qCtx.name, status, "CNAME" \in kept, "A" \in kept),
                               !.upstreamEcs = FALSE]
AliAPI ==
    /\ Runs("aliapi")
    /\ \/ Stop(TRUE) /\ Keep
       \/ GoOn /\ (ServerReplies \/ ApiReplies)

(* fallback copies the Context of the branch it takes over the caller's:   *)
(* the query message becomes another object.                               *)
FallbackExec ==
    /\ Runs("fallback")
    /\ \/ Stop(TRUE) /\ Keep
       \/ /\ GoOn
          /\ qCtx' = [Answered(Reply(qCtx.name, "success", FALSE, TRUE))
                         EXCEPT !.query = @ + 1]

(* Replies from a table, for the names (and types) the table has. *)
LocalReply(x) ==
    /\ Runs(x) /\ GoOn
    /\ \/ Keep
       \/ qCtx' = Answered(Reply(qCtx.name, "success", FALSE, TRUE))
BlackHole == LocalReply("black_hole")
Arbitrary == LocalReply("arbitrary")
(* hosts has an empty reply for a name it has no address of the type for.  *)
Hosts ==
    \/ LocalReply("hosts")
    \/ /\ Runs("hosts") /\ GoOn
       /\ qCtx' = Answered(Reply(qCtx.name, "success", FALSE, FALSE))

DropResp == Runs("drop_resp") /\ GoOn /\ qCtx' = Answered(NoResp)

(* ttl sets the rcode to success and the question to the query's. *)
TTL ==
    /\ Runs("ttl") /\ GoOn
    /\ qCtx' = IF qCtx.resp = NoResp THEN Ctx
               ELSE [Ctx EXCEPT !.resp.name = qCtx.name, !.resp.rcode = "success"]

CnameRemover == Runs("cname_remover") /\ GoOn /\ qCtx' = [Ctx EXCEPT !.resp.cname = FALSE]
SetMark == Runs("mark") /\ GoOn /\ qCtx' = [Ctx EXCEPT !.mark = TRUE]
-----------------------------------------------------------------------------
(* Recursive executables, up to next.ExecNext. *)
Redirect ==
    /\ Runs("redirect")
    /\ IF qCtx.name # Asked THEN Keep /\ GoOn
       ELSE /\ Wrap([x |-> "redirect", query |-> qCtx.query, forwarded |-> FALSE])
            /\ qCtx' = [Ctx EXCEPT !.name = Target]

(* ecs_handler with forward: the client's ECS, unless the query has one,   *)
(* or else the preset.                                                     *)
EcsHandler ==
    /\ Runs("ecs_handler")
    /\ Wrap([x |-> "ecs_handler", query |-> qCtx.query,
             forwarded |-> ~qCtx.ecs /\ clientEcs])
    /\ qCtx' = [Ctx EXCEPT !.ecs = TRUE]

(* forward_edns0opt for the code of ECS. *)
EdnsForwarder ==
    /\ Runs("forward_edns0opt")
    /\ Wrap([x |-> "forward_edns0opt", query |-> qCtx.query, forwarded |-> clientEcs])
    /\ qCtx' = [Ctx EXCEPT !.ecs = @ \/ clientEcs]

(* reverse_lookup replies to a PTR query it knows, or saves the addresses  *)
(* of the reply; query_summary only logs.                                  *)
ReverseLookup ==
    /\ Runs("reverse_lookup")
    /\ \/ Stop(FALSE) /\ qCtx' = Answered(Reply(qCtx.name, "success", FALSE, FALSE))
       \/ /\ Wrap([x |-> "reverse_lookup", query |-> qCtx.query, forwarded |-> FALSE])
          /\ Keep

(* rewrite replies for a name it has a rule for, with the rule's address,   *)
(* without one for another type, with what its DNS server has for the       *)
(* rule's name, or with SERVFAIL; it runs the rest for other names.         *)
Rewritten ==
    {Reply(qCtx.name, "success", cname, ip) : cname \in BOOLEAN, ip \in BOOLEAN}
    \cup {Reply(qCtx.name, "servfail", FALSE, FALSE)}
RewriteExec ==
    /\ Runs("rewrite")
    /\ \/ Stop(FALSE) /\ \E r \in Rewritten : qCtx' = Answered(r)
       \/ GoOn /\ Keep

(* prefer_ipv4/6 replies with an empty message, or runs the rest on a copy *)
(* of the Context that it takes over.                                      *)
SelectorExec ==
    /\ Runs("prefer")
    /\ \/ Stop(FALSE) /\ qCtx' = Answered(Reply(qCtx.name, "success", FALSE, FALSE))
       \/ /\ Wrap([x |-> "prefer", query |-> qCtx.query, forwarded |-> FALSE])
          /\ qCtx' = [Ctx EXCEPT !.query = @ + 1]

(* What redirect does to a reply. *)
Renamed_Forgotten(r) == [r EXCEPT !.cname = TRUE]
Renamed(r) ==
    [r EXCEPT !.name = IF @ = Target THEN Asked ELSE @, !.cname = TRUE]

(* The deferred restore reaches the query message redirect was given, which *)
(* may no longer be the Context's.                                          *)
RedirectReturns(frame) ==
    qCtx' = [qCtx EXCEPT
        !.resp = IF @ = NoResp THEN @ ELSE Renamed(@),
        !.name = IF qCtx.query = frame.query THEN Asked ELSE @]

EcsReturns(frame) ==
    qCtx' = [qCtx EXCEPT !.respEcs = @ \/ (~failed /\ frame.forwarded /\ qCtx.upstreamEcs)]
EdnsReturns(frame) ==
    qCtx' = [qCtx EXCEPT !.respEcs = @ \/ (~failed /\ qCtx.upstreamEcs)]

Unwind ==
    /\ walk = "unwind" /\ calls # <<>>
    /\ LET frame == Last(calls) IN
          \/ frame.x = "redirect" /\ RedirectReturns(frame)
          \/ frame.x = "ecs_handler" /\ EcsReturns(frame)
          \/ frame.x = "forward_edns0opt" /\ EdnsReturns(frame)
          \/ frame.x \in {"reverse_lookup", "prefer"} /\ UNCHANGED qCtx
    /\ calls' = Front(calls)
    /\ UNCHANGED <<program, at, jumpBack, clientEcs, visited, walk, failed, clientReply>>

(* The entry handler: SERVFAIL for an error, REFUSED without a reply.  The  *)
(* query it holds is the client's message.                                 *)
Handle ==
    /\ walk = "unwind" /\ calls = <<>>
    /\ walk' = "done"
    /\ clientReply' = IF failed THEN Reply(Asked, "servfail", FALSE, FALSE)
                ELSE IF qCtx.resp = NoResp THEN Reply(Asked, "refused", FALSE, FALSE)
                ELSE qCtx.resp
    /\ UNCHANGED <<program, at, jumpBack, calls, qCtx, clientEcs, visited, failed>>

WalkNext ==
    \/ Skip \/ MatchFails \/ EndOfChain \/ Unwind \/ Handle
    \/ ActionAccept \/ ActionReject \/ ActionReturn \/ ActionJump \/ ActionGoto
    \/ Forward \/ AliAPI \/ FallbackExec \/ BlackHole \/ Arbitrary \/ Hosts
    \/ DropResp \/ TTL \/ CnameRemover \/ SetMark
    \/ Redirect \/ EcsHandler \/ EdnsForwarder \/ ReverseLookup \/ RewriteExec \/ SelectorExec

WalkSpec == WalkInit /\ [][WalkNext]_walkVars
-----------------------------------------------------------------------------
(* Every occurrence of a node: the paths that jumps and gotos open, each to *)
(* a later chain.                                                           *)
Occurrences ==
    LET steps == UNION {DOMAIN program[c] : c \in DOMAIN program}
        upTo == UNION {[1 .. n -> steps] : n \in DOMAIN program}
    IN {p \in upTo :
          /\ \A n \in 1 .. Len(p) - 1 :
                /\ InChain(SubSeq(p, 1, n)) /\ Node(SubSeq(p, 1, n)).x \in Moves
          /\ InChain(p)}

Before(p, q) ==   \* p is written before q
    \/ Len(p) < Len(q) /\ SubSeq(q, 1, Len(p)) = p
    \/ \E n \in 1 .. Len(p) : /\ n <= Len(q) /\ p[n] < q[n]
                             /\ SubSeq(p, 1, n - 1) = SubSeq(q, 1, n - 1)

Ran == {visited[i].path : i \in {i \in DOMAIN visited : visited[i].ran}}

(* Should the walk come to p, given what ran?  The jump or goto that leads  *)
(* to it must have run; no return of its chain, or of a chain around it, no *)
(* goto it is not inside of, no accept or reject may have run before it.    *)
Reachable(p) ==
    /\ \A n \in 1 .. Len(p) - 1 : SubSeq(p, 1, n) \in Ran
    /\ \A r \in Ran : Before(r, p) =>
          LET inside == Len(r) < Len(p) /\ SubSeq(p, 1, Len(r)) = r
              sameChain == Len(r) <= Len(p) /\ Front(r) = SubSeq(p, 1, Len(r) - 1)
          IN /\ Node(r).x \in {"accept", "reject"} => FALSE
             /\ Node(r).x = "goto" => inside
             /\ Node(r).x = "return" => ~sameChain

(* A walk comes to the nodes in the order they are written, each once, and  *)
(* leaves none out: jumps come back, gotos do not, whatever recursive       *)
(* executables wrap the walk.  A walk that ends in an error, or by the      *)
(* reply of a recursive executable, may stop early.                         *)
Repliers == {"reverse_lookup", "rewrite", "prefer"}
stoppedEarly == failed \/ (visited # <<>> /\ Node(Last(visited).path).x \in Repliers)
WalksAsWritten ==
    /\ \A i, j \in DOMAIN visited : i < j => Before(visited[i].path, visited[j].path)
    /\ \A i \in DOMAIN visited : Reachable(visited[i].path)
    /\ LET paths == {visited[i].path : i \in DOMAIN visited}
       IN \A p \in Occurrences \ paths :
             Reachable(p) => /\ walk = "run" \/ stoppedEarly
                             /\ \A q \in paths : Before(q, p)

(* The client's reply has the client's question, whatever name the query    *)
(* went by on its way.                                                      *)
ReplyNamesQuestion == walk = "done" => clientReply.name = Asked
=============================================================================

-------------------------- MODULE PathParts_proofs --------------------------
(* Theorems about three parts that QueryPath composes: the walk through the *)
(* plugins of a sequence (ChainWalk), the exchange with an upstream         *)
(* (Upstream) and the multiplexed connection (TraditionalConn).             *)
EXTENDS ChainWalk, Upstream, TraditionalConn, Induction

(* The walk.  A query goes by the target's name, and a reply is to it, only *)
(* while a redirect is still to return; its return renames the reply.      *)

CtxFields == {"name", "query", "resp", "ecs", "upstreamEcs", "respEcs", "mark", "set"}
RespFields == {"name", "rcode", "cname", "ip"}
Frames ==
    [x : {"redirect", "ecs_handler", "forward_edns0opt", "reverse_lookup", "prefer"},
     query : Nat, forwarded : BOOLEAN]
IsReply(r) == r = NoResp \/ (DOMAIN r = RespFields /\ r.name \in {Asked, Target})
Redirecting(c) == \E i \in DOMAIN c : c[i].x = "redirect"

WalkInv ==
    /\ DOMAIN qCtx = CtxFields /\ qCtx.query \in Nat /\ qCtx.name \in {Asked, Target}
    /\ clientEcs \in BOOLEAN /\ calls \in Seq(Frames)
    /\ IsReply(qCtx.resp)
    /\ walk = "run" /\ qCtx.name = Target => Redirecting(calls)
    /\ qCtx.resp.name = Target => Redirecting(calls)
    /\ ReplyNamesQuestion

LEMMA ReplyNames ==
  ASSUME NEW name \in {Asked, Target}, NEW rcode, NEW cname, NEW ip
  PROVE  /\ Reply(name, rcode, cname, ip).name = name
         /\ IsReply(Reply(name, rcode, cname, ip))
  BY DEF Reply, IsReply, RespFields

LEMMA NoRespName == NoResp.name # Target /\ NoResp.name # Asked /\ IsReply(NoResp)
  BY DEF NoResp, IsReply, Target, Asked

LEMMA SameField ==
  ASSUME NEW f, f = [x \in DOMAIN f |-> f[x]], NEW k \in DOMAIN f, NEW v, f[k] = v
  PROVE  [f EXCEPT ![k] = v] = f
  OBVIOUS

LEMMA NoCnameToRemove == [NoResp EXCEPT !.cname = FALSE] = NoResp
  <1>1. NoResp = [x \in DOMAIN NoResp |-> NoResp[x]]
    BY DEF NoResp
  <1>2. NoResp.cname = FALSE /\ "cname" \in DOMAIN NoResp
    BY DEF NoResp
  <1> QED BY <1>1, <1>2, SameField

(* The matchers change nothing of the Context but the set. *)
LEMMA CtxIs ==
  ASSUME DOMAIN qCtx = CtxFields
  PROVE  /\ DOMAIN Ctx = CtxFields /\ Ctx.name = qCtx.name /\ Ctx.resp = qCtx.resp
         /\ Ctx.query = qCtx.query
  BY DEF Ctx, CtxFields

LEMMA AnsweredIs ==
  ASSUME DOMAIN qCtx = CtxFields, NEW r
  PROVE  /\ DOMAIN Answered(r) = CtxFields /\ Answered(r).name = qCtx.name /\ Answered(r).resp = r
         /\ Answered(r).query = qCtx.query
  <1>1. DOMAIN Ctx = CtxFields /\ Ctx.name = qCtx.name /\ Ctx.query = qCtx.query
    BY CtxIs
  <1> QED BY <1>1 DEF Answered, CtxFields

(* A node that runs leaves the name and the reply, or gives the query a    *)
(* reply of its own to the name it goes by.                                *)
Replied1(name, r) == r = NoResp \/ (IsReply(r) /\ r.name = name)
Harmless ==
    /\ DOMAIN qCtx' = CtxFields /\ qCtx'.name = qCtx.name /\ qCtx'.query \in Nat
    /\ qCtx'.resp = qCtx.resp \/ Replied1(qCtx.name, qCtx'.resp)

LEMMA KeepHarmless == ASSUME WalkInv, Keep PROVE Harmless
  BY CtxIs DEF WalkInv, Keep, Harmless

LEMMA AnswerHarmless ==
  ASSUME WalkInv, NEW r, qCtx' = Answered(r), Replied1(qCtx.name, r)
  PROVE  Harmless
  BY AnsweredIs DEF WalkInv, Harmless

LEMMA ServerHarmless == ASSUME WalkInv, ServerReplies \/ ApiReplies PROVE Harmless
  <1>0. DOMAIN qCtx = CtxFields /\ qCtx.name \in {Asked, Target} /\ qCtx.query \in Nat
    BY DEF WalkInv
  <1> DEFINE With(rcode, cname, ip, ecs) ==
        [Ctx EXCEPT !.resp = Reply(qCtx.name, rcode, cname, ip), !.upstreamEcs = ecs]
  <1>1. ASSUME ServerReplies PROVE \E rcode, cname, ip, ecs : qCtx' = With(rcode, cname, ip, ecs)
    <2>1. PICK rcode \in {"success", "nxdomain"} : \E cname \in BOOLEAN :
              qCtx' = With(rcode, cname, rcode = "success", qCtx.ecs)
      BY <1>1, Zenon DEF ServerReplies
    <2>2. PICK cname \in BOOLEAN : qCtx' = With(rcode, cname, rcode = "success", qCtx.ecs)
      BY <2>1, Zenon
    <2> HIDE DEF With
    <2> QED BY <2>2, Zenon
  <1>2. ASSUME ApiReplies PROVE \E rcode, cname, ip, ecs : qCtx' = With(rcode, cname, ip, ecs)
    <2> DEFINE kept(answers, status) ==
          {getDNSRecord(a[2]) : a \in {a \in answers : status = "success" /\ a[1] = qCtx.name}}
    <2>1. PICK status \in {"success", "nxdomain"} :
            \E answers \in SUBSET ({qCtx.name, "alias"} \X {"CNAME", "A", "malformed"}) :
              qCtx' = With(status, "CNAME" \in kept(answers, status), "A" \in kept(answers, status), FALSE)
      BY <1>2, Zenon DEF ApiReplies
    <2>2. PICK answers \in SUBSET ({qCtx.name, "alias"} \X {"CNAME", "A", "malformed"}) :
              qCtx' = With(status, "CNAME" \in kept(answers, status), "A" \in kept(answers, status), FALSE)
      BY <2>1, Zenon
    <2> HIDE DEF With, kept
    <2> QED BY <2>2, Zenon
  <1>3. PICK rcode, cname, ip, ecs : qCtx' = With(rcode, cname, ip, ecs)
    BY <1>1, <1>2
  <1>4. /\ DOMAIN qCtx' = CtxFields /\ qCtx'.name = qCtx.name /\ qCtx'.query = qCtx.query
        /\ qCtx'.resp = Reply(qCtx.name, rcode, cname, ip)
    BY <1>0, <1>3, CtxIs DEF CtxFields
  <1> QED BY <1>0, <1>4, ReplyNames DEF Harmless, Replied1

LEMMA WalkStep == ASSUME WalkInv, [WalkNext]_walkVars PROVE WalkInv'
  <1> USE DEF Runs
  <1>0. /\ DOMAIN qCtx = CtxFields /\ qCtx.query \in Nat /\ qCtx.name \in {Asked, Target}
        /\ clientEcs \in BOOLEAN /\ calls \in Seq(Frames) /\ IsReply(qCtx.resp)
        /\ walk = "run" /\ qCtx.name = Target => Redirecting(calls)
        /\ qCtx.resp.name = Target => Redirecting(calls)
    BY DEF WalkInv
  <1>r. ASSUME NEW r, Replied1(qCtx.name, r) PROVE IsReply(r) /\ (r.name = Target => qCtx.name = Target)
    BY <1>r, NoRespName DEF Replied1
  (* A node that goes on, stops or moves the walker. *)
  <1>h. ASSUME walk = "run", Harmless, UNCHANGED <<clientEcs, calls>>, walk' # "done" PROVE WalkInv'
    BY <1>0, <1>h, <1>r DEF WalkInv, Harmless, ReplyNamesQuestion
  (* A node that wraps the rest of the walk. *)
  <1>w. ASSUME NEW f \in Frames, walk = "run", Wrap(f), UNCHANGED clientEcs,
               DOMAIN qCtx' = CtxFields, qCtx'.query \in Nat, qCtx'.resp = qCtx.resp,
               qCtx'.name = qCtx.name \/ (f.x = "redirect" /\ qCtx'.name = Target)
        PROVE  WalkInv'
    <2>1. calls' = Append(calls, f) /\ walk' = "run"
      BY <1>w DEF Wrap
    <2>2. calls' \in Seq(Frames) /\ DOMAIN calls' = 1 .. Len(calls) + 1 /\ DOMAIN calls = 1 .. Len(calls)
          /\ Len(calls) \in Nat
      BY <1>0, <2>1
    <2>3. calls'[Len(calls) + 1] = f /\ \A i \in 1 .. Len(calls) : calls'[i] = calls[i]
      BY <1>0, <2>1
    <2>4. Redirecting(calls) => Redirecting(calls')
      BY <2>2, <2>3 DEF Redirecting
    <2>5. f.x = "redirect" => Redirecting(calls')
      BY <2>2, <2>3 DEF Redirecting
    <2> QED BY <1>0, <1>w, <2>1, <2>2, <2>4, <2>5 DEF WalkInv, ReplyNamesQuestion
  <1>1. CASE Skip
    <2>1. Harmless
      BY <1>0, <1>1 DEF Skip, Harmless, CtxFields
    <2> QED BY <1>1, <1>h, <2>1 DEF Skip
  <1>e. CASE MatchFails
    BY <1>e, <1>h, KeepHarmless DEF MatchFails, Stop
  <1>2. CASE EndOfChain
    BY <1>0, <1>2, <1>h DEF EndOfChain, JumpBack, Stop, Harmless
  <1>3. CASE ActionAccept \/ ActionReturn \/ ActionJump \/ ActionGoto
    BY <1>3, <1>h, KeepHarmless DEF ActionAccept, ActionReturn, ActionJump, ActionGoto, JumpBack, Stop
  <1>4. CASE ActionReject
    <2>1. qCtx' = Answered(Reply(qCtx.name, "refused", FALSE, FALSE))
      BY <1>4 DEF ActionReject, Answered
    <2>2. Replied1(qCtx.name, Reply(qCtx.name, "refused", FALSE, FALSE))
      BY <1>0, ReplyNames DEF Replied1
    <2>3. Harmless
      BY <2>1, <2>2, AnswerHarmless
    <2> QED BY <1>4, <1>h, <2>3 DEF ActionReject, Stop
  <1>5. CASE Forward \/ AliAPI
    BY <1>5, <1>h, KeepHarmless, ServerHarmless DEF Forward, AliAPI, GoOn, Stop
  <1>6. CASE FallbackExec
    <2>1. CASE Keep
      BY <1>6, <1>h, <2>1, KeepHarmless DEF FallbackExec, GoOn, Stop
    <2>2. CASE ~Keep
      <3> DEFINE r == Reply(qCtx.name, "success", FALSE, TRUE)
      <3>1. qCtx' = [Answered(r) EXCEPT !.query = @ + 1] /\ UNCHANGED <<calls, walk, clientEcs>> /\ walk = "run"
        BY <1>6, <2>2 DEF FallbackExec, GoOn
      <3> HIDE DEF r
      <3>2. DOMAIN qCtx' = CtxFields /\ qCtx'.name = qCtx.name /\ qCtx'.resp = r /\ qCtx'.query \in Nat
        <4>1. /\ DOMAIN Answered(r) = CtxFields /\ Answered(r).name = qCtx.name
              /\ Answered(r).resp = r /\ Answered(r).query = qCtx.query
          BY <1>0, AnsweredIs
        <4> QED BY <1>0, <3>1, <4>1 DEF CtxFields
      <3> USE DEF r
      <3>3. Replied1(qCtx.name, r)
        BY <1>0, ReplyNames DEF Replied1
      <3> HIDE DEF r
      <3>4. Harmless
        BY <3>2, <3>3 DEF Harmless
      <3> QED BY <1>h, <3>1, <3>4
    <2> QED BY <2>1, <2>2
  <1>7. ASSUME NEW x, LocalReply(x) PROVE WalkInv'
    <2>1. Keep \/ qCtx' = Answered(Reply(qCtx.name, "success", FALSE, TRUE))
      BY <1>7 DEF LocalReply
    <2>2. Harmless
      BY <1>0, <2>1, KeepHarmless, AnswerHarmless, ReplyNames DEF Replied1
    <2> QED BY <1>7, <1>h, <2>2 DEF LocalReply, GoOn
  <1>8. CASE Hosts
    <2>1. CASE qCtx' = Answered(Reply(qCtx.name, "success", FALSE, FALSE))
      BY <1>0, <1>8, <1>h, <1>7, <2>1, AnswerHarmless, ReplyNames DEF Hosts, GoOn, Replied1
    <2> QED BY <1>7, <1>8, <2>1 DEF Hosts
  <1>9. CASE DropResp
    BY <1>9, <1>h, AnswerHarmless DEF DropResp, GoOn, Replied1
  <1>10. CASE TTL
    <2>1. CASE qCtx.resp = NoResp
      BY <1>10, <1>h, <2>1, KeepHarmless DEF TTL, GoOn, Keep
    <2>2. CASE qCtx.resp # NoResp
      <3>1. qCtx' = [Ctx EXCEPT !.resp.name = qCtx.name, !.resp.rcode = "success"]
        BY <1>10, <2>2 DEF TTL
      <3>2. DOMAIN qCtx.resp = RespFields
        BY <1>0, <2>2 DEF IsReply
      <3>3. /\ DOMAIN qCtx' = CtxFields /\ qCtx'.name = qCtx.name /\ qCtx'.query = qCtx.query
            /\ qCtx'.resp = [[qCtx.resp EXCEPT !.name = qCtx.name] EXCEPT !.rcode = "success"]
        BY <1>0, <3>1, CtxIs DEF CtxFields
      <3>4. DOMAIN qCtx'.resp = RespFields /\ qCtx'.resp.name = qCtx.name
        BY <3>2, <3>3 DEF RespFields
      <3>5. Harmless
        BY <1>0, <3>3, <3>4 DEF Harmless, Replied1, IsReply
      <3> QED BY <1>10, <1>h, <3>5 DEF TTL, GoOn
    <2> QED BY <2>1, <2>2
  <1>11. CASE CnameRemover
    <2> DEFINE r == [qCtx.resp EXCEPT !.cname = FALSE]
    <2>1. /\ DOMAIN qCtx' = CtxFields /\ qCtx'.name = qCtx.name /\ qCtx'.query = qCtx.query
          /\ qCtx'.resp = r
      BY <1>0, <1>11, CtxIs DEF CnameRemover, CtxFields
    <2>2. qCtx.resp = NoResp => r = NoResp
      BY NoCnameToRemove
    <2>3. qCtx.resp # NoResp => DOMAIN r = RespFields /\ r.name = qCtx.resp.name
      BY <1>0 DEF IsReply, RespFields
    <2>4. IsReply(r) /\ (r.name = Target => qCtx.resp.name = Target)
      BY <1>0, <2>2, <2>3, NoRespName DEF IsReply
    <2>5. walk = "run" /\ UNCHANGED <<walk, calls, clientEcs>>
      BY <1>11 DEF CnameRemover, GoOn
    <2> HIDE DEF r
    <2> QED BY <1>0, <2>1, <2>4, <2>5 DEF WalkInv, ReplyNamesQuestion
  <1>12. CASE SetMark
    <2>1. DOMAIN qCtx' = CtxFields /\ qCtx'.name = qCtx.name /\ qCtx'.query = qCtx.query
          /\ qCtx'.resp = qCtx.resp
      BY <1>0, <1>12, CtxIs DEF SetMark, CtxFields
    <2> QED BY <1>0, <1>12, <1>h, <2>1 DEF SetMark, GoOn, Harmless
  <1>13. CASE Redirect
    <2>1. CASE qCtx.name # Asked
      BY <1>13, <1>h, <2>1, KeepHarmless DEF Redirect, GoOn
    <2>2. CASE qCtx.name = Asked
      <3> DEFINE f == [x |-> "redirect", query |-> qCtx.query, forwarded |-> FALSE]
      <3>1. Wrap(f) /\ qCtx' = [Ctx EXCEPT !.name = Target] /\ walk = "run" /\ UNCHANGED clientEcs
        BY <1>13, <2>2 DEF Redirect
      <3>2. f \in Frames /\ f.x = "redirect"
        BY <1>0 DEF Frames
      <3>3. /\ DOMAIN qCtx' = CtxFields /\ qCtx'.name = Target /\ qCtx'.query = qCtx.query
            /\ qCtx'.resp = qCtx.resp
        BY <1>0, <3>1, CtxIs DEF CtxFields
      <3> HIDE DEF f
      <3> QED BY <1>0, <1>w, <3>1, <3>2, <3>3
    <2> QED BY <2>1, <2>2
  <1>14. CASE EcsHandler
    <2> DEFINE f == [x |-> "ecs_handler", query |-> qCtx.query, forwarded |-> ~qCtx.ecs /\ clientEcs]
    <2>1. Wrap(f) /\ qCtx' = [Ctx EXCEPT !.ecs = TRUE] /\ walk = "run" /\ UNCHANGED clientEcs
      BY <1>14 DEF EcsHandler
    <2>2. f \in Frames
      BY <1>0 DEF Frames
    <2>3. /\ DOMAIN qCtx' = CtxFields /\ qCtx'.name = qCtx.name /\ qCtx'.query = qCtx.query
          /\ qCtx'.resp = qCtx.resp
      BY <1>0, <2>1, CtxIs DEF CtxFields
    <2> HIDE DEF f
    <2> QED BY <1>0, <1>w, <2>1, <2>2, <2>3
  <1>15. CASE EdnsForwarder
    <2> DEFINE f == [x |-> "forward_edns0opt", query |-> qCtx.query, forwarded |-> clientEcs]
    <2>1. Wrap(f) /\ qCtx' = [Ctx EXCEPT !.ecs = @ \/ clientEcs] /\ walk = "run" /\ UNCHANGED clientEcs
      BY <1>15 DEF EdnsForwarder
    <2>2. f \in Frames
      BY <1>0 DEF Frames
    <2>3. /\ DOMAIN qCtx' = CtxFields /\ qCtx'.name = qCtx.name /\ qCtx'.query = qCtx.query
          /\ qCtx'.resp = qCtx.resp
      BY <1>0, <2>1, CtxIs DEF CtxFields
    <2> HIDE DEF f
    <2> QED BY <1>0, <1>w, <2>1, <2>2, <2>3
  <1>16. ASSUME NEW k \in {"reverse_lookup", "prefer"}, walk = "run", UNCHANGED clientEcs,
                Wrap([x |-> k, query |-> qCtx.query, forwarded |-> FALSE]),
                Keep \/ qCtx' = [Ctx EXCEPT !.query = @ + 1]
         PROVE  WalkInv'
    <2> DEFINE f == [x |-> k, query |-> qCtx.query, forwarded |-> FALSE]
    <2>1. f \in Frames
      BY <1>0 DEF Frames
    <2>2. /\ DOMAIN qCtx' = CtxFields /\ qCtx'.name = qCtx.name /\ qCtx'.query \in Nat
          /\ qCtx'.resp = qCtx.resp
      BY <1>0, <1>16, CtxIs DEF CtxFields, Keep
    <2>3. Wrap(f)
      BY <1>16
    <2> HIDE DEF f
    <2> QED BY <1>w, <1>16, <2>1, <2>2, <2>3
  <1>17. CASE ReverseLookup \/ SelectorExec
    <2>1. CASE qCtx' = Answered(Reply(qCtx.name, "success", FALSE, FALSE)) /\ Stop(FALSE)
      <3>1. Replied1(qCtx.name, Reply(qCtx.name, "success", FALSE, FALSE))
        BY <1>0, ReplyNames DEF Replied1
      <3>2. Harmless
        BY <2>1, <3>1, AnswerHarmless
      <3> QED BY <1>17, <1>h, <2>1, <3>2 DEF ReverseLookup, SelectorExec, Stop
    <2> QED BY <1>16, <1>17, <2>1 DEF ReverseLookup, SelectorExec
  <1>18. CASE RewriteExec
    <2>1. CASE Keep
      BY <1>18, <1>h, <2>1, KeepHarmless DEF RewriteExec, GoOn, Stop
    <2>2. CASE ~Keep
      <3>1. PICK r \in Rewritten : qCtx' = Answered(r)
        BY <1>18, <2>2 DEF RewriteExec
      <3>2. Replied1(qCtx.name, r)
        <4> DEFINE R == {Reply(qCtx.name, "success", cname, ip) : cname \in BOOLEAN, ip \in BOOLEAN}
        <4>1. ASSUME r \in R PROVE Replied1(qCtx.name, r)
          <5>1. PICK cname \in BOOLEAN, ip \in BOOLEAN : r = Reply(qCtx.name, "success", cname, ip)
            BY <4>1
          <5> QED BY <1>0, <5>1, ReplyNames DEF Replied1
        <4>2. ASSUME r = Reply(qCtx.name, "servfail", FALSE, FALSE) PROVE Replied1(qCtx.name, r)
          BY <1>0, <4>2, ReplyNames DEF Replied1
        <4>3. Rewritten = R \cup {Reply(qCtx.name, "servfail", FALSE, FALSE)}
          BY DEF Rewritten
        <4> HIDE DEF R
        <4> QED BY <4>1, <4>2, <4>3
      <3> QED BY <1>18, <1>h, <2>2, <3>1, <3>2, AnswerHarmless DEF RewriteExec, Stop
    <2> QED BY <2>1, <2>2
  <1>19. CASE Unwind
    <2> DEFINE f == Last(calls)
    <2>0. /\ walk = "unwind" /\ calls # <<>> /\ calls' = Front(calls)
          /\ UNCHANGED <<walk, clientEcs>>
      BY <1>19 DEF Unwind
    <2>1. /\ calls' \in Seq(Frames) /\ f = calls[Len(calls)] /\ Len(calls) \in DOMAIN calls
          /\ DOMAIN calls' = 1 .. Len(calls) - 1 /\ DOMAIN calls = 1 .. Len(calls) /\ Len(calls) \in Nat
          /\ \A i \in DOMAIN calls' : calls'[i] = calls[i]
      BY <1>0, <2>0 DEF Front, Last
    <2>2. f.x # "redirect" /\ Redirecting(calls) => Redirecting(calls')
      BY <2>1 DEF Redirecting
    <2>3. CASE f.x = "redirect" /\ RedirectReturns(f)
      <3> DEFINE r == IF qCtx.resp = NoResp THEN NoResp ELSE Renamed(qCtx.resp)
      <3>1. DOMAIN qCtx' = CtxFields /\ qCtx'.resp = r /\ qCtx'.query = qCtx.query
            /\ qCtx'.name \in {qCtx.name, Asked}
        BY <1>0, <2>3 DEF RedirectReturns, CtxFields
      <3>2. qCtx.resp = NoResp => r = NoResp
        OBVIOUS
      <3>3. ASSUME qCtx.resp # NoResp PROVE DOMAIN r = RespFields /\ r.name = Asked
        <4>1. DOMAIN qCtx.resp = RespFields /\ qCtx.resp.name \in {Asked, Target}
          BY <1>0, <3>3 DEF IsReply
        <4> QED BY <3>3, <4>1 DEF Renamed, RespFields
      <3>4. IsReply(r) /\ r.name # Target
        <4>1. Asked # Target
          BY DEF Asked, Target
        <4> QED BY <3>2, <3>3, <4>1, NoRespName DEF IsReply
      <3> HIDE DEF r
      <3> QED BY <1>0, <2>0, <2>1, <3>1, <3>4 DEF WalkInv, ReplyNamesQuestion
    <2>4. CASE EcsReturns(f) \/ EdnsReturns(f) \/ UNCHANGED qCtx
      <3>1. DOMAIN qCtx' = CtxFields /\ qCtx'.name = qCtx.name /\ qCtx'.query = qCtx.query
            /\ qCtx'.resp = qCtx.resp
        BY <1>0, <2>4 DEF EcsReturns, EdnsReturns, CtxFields
      <3>2. CASE f.x # "redirect"
        BY <1>0, <2>0, <2>1, <2>2, <3>1, <3>2 DEF WalkInv, ReplyNamesQuestion
      <3>3. CASE f.x = "redirect"
        BY <1>19, <2>3, <3>3 DEF Unwind
      <3> QED BY <3>2, <3>3
    <2> QED BY <1>19, <2>3, <2>4 DEF Unwind
  <1>20. CASE Handle
    <2>1. UNCHANGED <<qCtx, calls, clientEcs>> /\ walk' = "done" /\ calls = <<>>
      BY <1>20 DEF Handle
    <2>2. ~Redirecting(calls)
      BY <2>1 DEF Redirecting
    <2>3. qCtx.resp # NoResp => qCtx.resp.name = Asked
      BY <1>0, <2>2 DEF IsReply
    <2>4. clientReply'.name = Asked
      BY <1>20, <2>3, ReplyNames DEF Handle
    <2> QED BY <1>0, <2>1, <2>4 DEF WalkInv, ReplyNamesQuestion
  <1>21. CASE UNCHANGED walkVars
    BY <1>21 DEF walkVars, WalkInv, IsReply, Redirecting, ReplyNamesQuestion
  <1> QED BY <1>1, <1>2, <1>3, <1>4, <1>5, <1>6, <1>7, <1>8, <1>9, <1>10, <1>11, <1>12, <1>13, <1>e,
             <1>14, <1>15, <1>17, <1>18, <1>19, <1>20, <1>21
          DEF WalkNext, BlackHole, Arbitrary

(* A client's reply has the question the client asked, for any programs:   *)
(* however a redirect is nested with the executables that copy the query,  *)
(* wrap the walk or answer it.                                             *)
THEOREM ReplyNamesQuestionCorrect == WalkSpec => []ReplyNamesQuestion
  <1>1. WalkInit => WalkInv
    <2> SUFFICES ASSUME WalkInit PROVE WalkInv
      OBVIOUS
    <2>1. /\ DOMAIN qCtx = CtxFields /\ qCtx.query = 0 /\ qCtx.name = Asked /\ qCtx.resp = NoResp
          /\ clientEcs \in BOOLEAN /\ calls = <<>> /\ walk = "run"
      BY DEF WalkInit, CtxFields
    <2>2. Asked # Target
      BY DEF Asked, Target
    <2> QED BY <2>1, <2>2, NoRespName DEF WalkInv, ReplyNamesQuestion
  <1>2. WalkInv /\ [WalkNext]_walkVars => WalkInv'
    BY WalkStep
  <1>3. WalkInv => ReplyNamesQuestion
    BY DEF WalkInv
  <1> QED BY <1>1, <1>2, <1>3, PTL DEF WalkSpec

-----------------------------------------------------------------------------
(* The walk and the order in which the program is written.  A walker is at  *)
(* a path, one node number for each jump or goto it is inside of; what is   *)
(* due is a node of the program that was not come to and may be reached,    *)
(* given what ran.  The invariant says where the walker is: behind what was *)
(* come to, with nothing due before it, and with its jumps to go back to.   *)

(* The order in which nodes are written, position by position.             *)
Paths == Seq(Nat \ {0}) \ {<<>>}
Agree(p, q, n) == \A i \in 1 .. n : p[i] = q[i]
Inside(p, q) == Len(p) < Len(q) /\ Agree(p, q, Len(p))   \* q is inside of p
Differ(p, q, n) == n <= Len(q) /\ p[n] < q[n] /\ Agree(p, q, n - 1)

LEMMA PathIs ==
  ASSUME NEW p \in Paths
  PROVE  /\ p \in Seq(Nat \ {0}) /\ Len(p) \in Nat /\ Len(p) >= 1 /\ DOMAIN p = 1 .. Len(p)
         /\ \A i \in 1 .. Len(p) : p[i] \in Nat /\ p[i] >= 1
         /\ Last(p) = p[Len(p)] /\ Front(p) = SubSeq(p, 1, Len(p) - 1)
BY DEF Paths, Last, Front

LEMMA SamePath ==
  ASSUME NEW p \in Paths, NEW q \in Paths, Len(p) = Len(q), Agree(p, q, Len(p))
  PROVE  p = q
<1>1. p \in Seq(Nat \ {0}) /\ q \in Seq(Nat \ {0}) BY DEF Paths
<1> QED BY <1>1 DEF Agree

LEMMA PrefixIs ==
  ASSUME NEW p \in Paths, NEW n \in 1 .. Len(p)
  PROVE  /\ SubSeq(p, 1, n) \in Paths /\ Len(SubSeq(p, 1, n)) = n
         /\ \A i \in 1 .. n : SubSeq(p, 1, n)[i] = p[i]
<1>1. p \in Seq(Nat \ {0}) /\ n \in 0 .. Len(p) /\ n >= 1 BY PathIs
<1>2. /\ SubSeq(p, 1, n) \in Seq(Nat \ {0}) /\ Len(SubSeq(p, 1, n)) = n
      /\ \A i \in 1 .. n : SubSeq(p, 1, n)[i] = p[i]
  BY <1>1, Upto
<1> QED BY <1>1, <1>2 DEF Paths

LEMMA SamePrefix ==
  ASSUME NEW p \in Paths, NEW q \in Paths, NEW n \in Nat, n <= Len(p), n <= Len(q)
  PROVE  SubSeq(p, 1, n) = SubSeq(q, 1, n) <=> Agree(p, q, n)
<1>1. n \in 0 .. Len(p) /\ n \in 0 .. Len(q) /\ p \in Seq(Nat \ {0}) /\ q \in Seq(Nat \ {0}) BY PathIs
<1>2. /\ SubSeq(p, 1, n) \in Seq(Nat \ {0}) /\ Len(SubSeq(p, 1, n)) = n
      /\ \A i \in 1 .. n : SubSeq(p, 1, n)[i] = p[i]
  BY <1>1, Upto
<1>3. /\ SubSeq(q, 1, n) \in Seq(Nat \ {0}) /\ Len(SubSeq(q, 1, n)) = n
      /\ \A i \in 1 .. n : SubSeq(q, 1, n)[i] = q[i]
  BY <1>1, Upto
<1>4. PICK s, t : s = SubSeq(p, 1, n) /\ t = SubSeq(q, 1, n) OBVIOUS
<1>5. s = t <=> \A i \in 1 .. n : s[i] = t[i] BY <1>2, <1>3, <1>4
<1> QED BY <1>2, <1>3, <1>4, <1>5 DEF Agree

LEMMA WholePrefix ==
  ASSUME NEW p \in Paths, NEW q \in Paths, Len(p) <= Len(q)
  PROVE  SubSeq(q, 1, Len(p)) = p <=> Agree(p, q, Len(p))
<1>1. Len(p) \in Nat /\ Len(p) <= Len(p) /\ Len(p) >= 1 BY PathIs
<1>2. SubSeq(p, 1, Len(p)) = p
  <2>1. PICK s : s = SubSeq(p, 1, Len(p)) OBVIOUS
  <2>2. s \in Paths /\ Len(s) = Len(p) /\ \A i \in 1 .. Len(p) : s[i] = p[i] BY <1>1, <2>1, PrefixIs
  <2>3. s \in Seq(Nat \ {0}) /\ p \in Seq(Nat \ {0}) BY <2>2 DEF Paths
  <2>4. s = p BY <2>2, <2>3
  <2> QED BY <2>1, <2>4
<1> QED BY <1>1, <1>2, SamePrefix

LEMMA BeforeIs ==
  ASSUME NEW p \in Paths, NEW q \in Paths
  PROVE  Before(p, q) <=> Inside(p, q) \/ \E n \in 1 .. Len(p) : Differ(p, q, n)
<1>1. Len(p) \in Nat /\ Len(q) \in Nat BY PathIs
<1>2. (Len(p) < Len(q) /\ SubSeq(q, 1, Len(p)) = p) <=> Inside(p, q)
  BY <1>1, WholePrefix DEF Inside
<1>3. ASSUME NEW n \in 1 .. Len(p), n <= Len(q)
      PROVE  SubSeq(p, 1, n - 1) = SubSeq(q, 1, n - 1) <=> Agree(p, q, n - 1)
  <2>1. n - 1 \in Nat /\ n - 1 <= Len(p) /\ n - 1 <= Len(q) BY <1>1, <1>3
  <2> QED BY <2>1, SamePrefix
<1> QED BY <1>2, <1>3 DEF Before, Differ

LEMMA NotBeforeItself == ASSUME NEW p \in Paths PROVE ~Before(p, p)
BY BeforeIs, PathIs DEF Inside, Differ

LEMMA BeforeTrans ==
  ASSUME NEW p \in Paths, NEW q \in Paths, NEW r \in Paths, Before(p, q), Before(q, r)
  PROVE  Before(p, r)
<1>1. /\ Len(p) \in Nat /\ Len(q) \in Nat /\ Len(r) \in Nat
      /\ \A i \in 1 .. Len(p) : p[i] \in Nat
      /\ \A i \in 1 .. Len(q) : q[i] \in Nat
      /\ \A i \in 1 .. Len(r) : r[i] \in Nat
  BY PathIs
<1>2. Inside(p, q) \/ \E n \in 1 .. Len(p) : Differ(p, q, n) BY BeforeIs
<1>3. Inside(q, r) \/ \E m \in 1 .. Len(q) : Differ(q, r, m) BY BeforeIs
<1>4. CASE Inside(p, q) /\ Inside(q, r) 
  <2>1. Inside(p, r) BY <1>1, <1>4 DEF Inside, Agree
  <2> QED BY <2>1, BeforeIs
<1>5. ASSUME Inside(p, q), NEW m \in 1 .. Len(q), Differ(q, r, m) PROVE Before(p, r)
  <2>1. CASE m <= Len(p)
    <3>1. m \in 1 .. Len(p) /\ Differ(p, r, m) BY <1>1, <1>5, <2>1 DEF Inside, Agree, Differ
    <3> QED BY <3>1, BeforeIs
  <2>2. CASE m > Len(p)
    <3>1. Inside(p, r) BY <1>1, <1>5, <2>2 DEF Inside, Agree, Differ
    <3> QED BY <3>1, BeforeIs
  <2> QED BY <1>1, <2>1, <2>2
<1>6. ASSUME NEW n \in 1 .. Len(p), Differ(p, q, n), Inside(q, r) PROVE Before(p, r)
  <2>1. Differ(p, r, n) BY <1>1, <1>6 DEF Inside, Agree, Differ
  <2> QED BY <2>1, BeforeIs
<1>7. ASSUME NEW n \in 1 .. Len(p), Differ(p, q, n), NEW m \in 1 .. Len(q), Differ(q, r, m)
      PROVE  Before(p, r)
  <2>1. CASE n <= m
    <3>1. q[n] <= r[n] /\ n <= Len(r)
      BY <1>1, <1>7, <2>1 DEF Agree, Differ
    <3>2. Differ(p, r, n) BY <1>1, <1>7, <2>1, <3>1 DEF Agree, Differ
    <3> QED BY <3>2, BeforeIs
  <2>2. CASE n > m
    <3>1. m \in 1 .. Len(p) /\ Differ(p, r, m) BY <1>1, <1>7, <2>2 DEF Agree, Differ
    <3> QED BY <3>1, BeforeIs
  <2> QED BY <1>1, <2>1, <2>2
<1> QED BY <1>2, <1>3, <1>4, <1>5, <1>6, <1>7

(* Where a walk goes next: on, into a chain, back behind the jump it is    *)
(* inside of.                                                              *)
Cut(a) == SubSeq(a, 1, Len(a) - 1)
LEMMA Next1Is ==
  ASSUME NEW a \in Paths
  PROVE  /\ Next1(a) \in Paths /\ Len(Next1(a)) = Len(a) /\ Next1(a)[Len(a)] = a[Len(a)] + 1
         /\ Agree(a, Next1(a), Len(a) - 1)
<1>1. /\ Len(a) \in Nat /\ Len(a) >= 1 /\ a \in Seq(Nat \ {0}) /\ Last(a) = a[Len(a)]
      /\ Front(a) = SubSeq(a, 1, Len(a) - 1) /\ a[Len(a)] + 1 \in Nat \ {0}
  BY PathIs
<1>2. PICK k \in 0 .. Len(a) : k = Len(a) - 1 BY <1>1
<1>3. /\ Front(a) \in Seq(Nat \ {0}) /\ Len(Front(a)) = Len(a) - 1
      /\ \A i \in 1 .. Len(a) - 1 : Front(a)[i] = a[i]
  <2>1. /\ SubSeq(a, 1, k) \in Seq(Nat \ {0}) /\ Len(SubSeq(a, 1, k)) = k
        /\ \A i \in 1 .. k : SubSeq(a, 1, k)[i] = a[i]
    BY <1>1, Upto
  <2> QED BY <1>1, <1>2, <2>1
<1>4. PICK f, x : f = Front(a) /\ x = a[Len(a)] + 1 OBVIOUS
<1>5. Append(f, x) \in Seq(Nat \ {0}) /\ Len(Append(f, x)) = Len(a) /\ Append(f, x)[Len(a)] = x
      /\ \A i \in 1 .. Len(a) - 1 : Append(f, x)[i] = a[i]
  BY <1>1, <1>3, <1>4
<1>6. Append(f, x) # <<>> BY <1>1, <1>5
<1>7. Next1(a) = Append(f, x) BY <1>1, <1>4 DEF Next1
<1> QED BY <1>4, <1>5, <1>6, <1>7 DEF Paths, Agree

LEMMA InIs ==
  ASSUME NEW a \in Paths
  PROVE  /\ Append(a, 1) \in Paths /\ Len(Append(a, 1)) = Len(a) + 1 /\ Append(a, 1)[Len(a) + 1] = 1
         /\ Agree(a, Append(a, 1), Len(a))
BY DEF Paths, Agree

LEMMA CutIs ==
  ASSUME NEW a \in Paths, Len(a) > 1
  PROVE  Cut(a) \in Paths /\ Len(Cut(a)) = Len(a) - 1 /\ Agree(a, Cut(a), Len(a) - 1)
<1>1. Len(a) - 1 \in 1 .. Len(a) BY PathIs
<1> QED BY <1>1, PrefixIs DEF Cut, Agree

LEMMA GoesOn ==
  ASSUME NEW a \in Paths
  PROVE  /\ Before(a, Next1(a)) /\ Before(a, Append(a, 1))
         /\ Len(a) > 1 => Before(a, Next1(Cut(a)))
<1>1. Len(a) \in Nat /\ Len(a) >= 1 /\ \A i \in 1 .. Len(a) : a[i] \in Nat BY PathIs
<1>2. Before(a, Next1(a))
  <2>1. Len(a) \in 1 .. Len(a) /\ Differ(a, Next1(a), Len(a)) BY <1>1, Next1Is DEF Differ
  <2> QED BY <2>1, Next1Is, BeforeIs
<1>3. Before(a, Append(a, 1))
  <2>1. Inside(a, Append(a, 1)) BY <1>1, InIs DEF Inside
  <2> QED BY <2>1, InIs, BeforeIs
<1>4. ASSUME Len(a) > 1 PROVE Before(a, Next1(Cut(a)))
  <2>1. PICK u : u = Cut(a) OBVIOUS
  <2>2. u \in Paths /\ Len(u) = Len(a) - 1 /\ Agree(a, u, Len(a) - 1) BY <1>4, <2>1, CutIs
  <2>3. /\ Next1(u) \in Paths /\ Len(Next1(u)) = Len(u) /\ Next1(u)[Len(u)] = u[Len(u)] + 1
        /\ Agree(u, Next1(u), Len(u) - 1)
    BY <2>2, Next1Is
  <2>4. Len(u) \in 1 .. Len(a) /\ Differ(a, Next1(u), Len(u))
    BY <1>1, <1>4, <2>2, <2>3 DEF Differ, Agree
  <2> QED BY <2>1, <2>3, <2>4, BeforeIs
<1> QED BY <1>2, <1>3, <1>4

(* What is written behind a is behind the next position, or at it. *)
LEMMA LeavesOut ==
  ASSUME NEW a \in Paths, NEW p \in Paths, Before(a, p), ~Inside(a, p)
  PROVE  p = Next1(a) \/ Before(Next1(a), p)
<1>1. /\ Len(a) \in Nat /\ Len(a) >= 1 /\ \A i \in 1 .. Len(a) : a[i] \in Nat
      /\ Len(p) \in Nat /\ \A i \in 1 .. Len(p) : p[i] \in Nat
  BY PathIs
<1>2. PICK n \in 1 .. Len(a) : Differ(a, p, n) BY BeforeIs
<1>3. PICK b : b = Next1(a) OBVIOUS
<1>4. b \in Paths /\ Len(b) = Len(a) /\ b[Len(a)] = a[Len(a)] + 1 /\ Agree(a, b, Len(a) - 1)
  BY <1>3, Next1Is
<1>5. CASE n < Len(a)
  <2>1. n \in 1 .. Len(b) /\ Differ(b, p, n) BY <1>1, <1>2, <1>4, <1>5 DEF Differ, Agree
  <2> QED BY <1>3, <1>4, <2>1, BeforeIs
<1>6. CASE n = Len(a)
  <2>1. n <= Len(p) /\ p[n] >= b[n] /\ Agree(b, p, n - 1) /\ b[n] \in Nat /\ n \in 1 .. Len(p)
    BY <1>1, <1>2, <1>4, <1>6 DEF Differ, Agree
  <2>2. CASE p[n] > b[n]
    <3>1. n \in 1 .. Len(b) /\ Differ(b, p, n) BY <2>1, <2>2, <1>1, <1>4, <1>6 DEF Differ
    <3> QED BY <1>3, <1>4, <3>1, BeforeIs
  <2>3. CASE p[n] = b[n]
    <3>1. Agree(b, p, n) BY <2>1, <2>3 DEF Agree
    <3>2. CASE Len(p) > n
      <4>1. Inside(b, p) BY <3>1, <3>2, <1>4, <1>6 DEF Inside
      <4> QED BY <1>3, <1>4, <4>1, BeforeIs
    <3>3. CASE Len(p) = n
      <4>1. b \in Seq(Nat \ {0}) /\ p \in Seq(Nat \ {0}) BY <1>4 DEF Paths
      <4>2. p = b BY <3>1, <3>3, <4>1, <1>4, <1>6 DEF Agree
      <4> QED BY <1>3, <4>2
    <3> QED BY <2>1, <3>2, <3>3, <1>1
  <2> QED BY <2>1, <2>2, <2>3, <1>1
<1> QED BY <1>1, <1>5, <1>6

LEMMA LeavesOutInside ==
  ASSUME NEW a \in Paths, NEW p \in Paths, Before(a, p)
  PROVE  p = Append(a, 1) \/ Before(Append(a, 1), p)
<1>1. /\ Len(a) \in Nat /\ Len(a) >= 1 /\ \A i \in 1 .. Len(a) : a[i] \in Nat
      /\ Len(p) \in Nat /\ \A i \in 1 .. Len(p) : p[i] \in Nat /\ p[i] >= 1
  BY PathIs
<1>2. PICK b : b = Append(a, 1) OBVIOUS
<1>3. b \in Paths /\ Len(b) = Len(a) + 1 /\ b[Len(a) + 1] = 1 /\ Agree(a, b, Len(a))
  BY <1>2, InIs
<1>4. ASSUME NEW n \in 1 .. Len(a), Differ(a, p, n) PROVE Before(b, p)
  <2>1. n \in 1 .. Len(b) /\ Differ(b, p, n) BY <1>1, <1>3, <1>4 DEF Differ, Agree
  <2> QED BY <1>3, <2>1, BeforeIs
<1>5. CASE Inside(a, p)
  <2> DEFINE n == Len(a) + 1
  <2>1. n <= Len(p) /\ n \in 1 .. Len(p) /\ n \in 1 .. Len(b) /\ Agree(b, p, n - 1) /\ b[n] = 1 /\ p[n] >= 1 /\ p[n] \in Nat
    BY <1>1, <1>3, <1>5 DEF Inside, Agree
  <2>2. CASE p[n] > 1
    <3>1. Differ(b, p, n) BY <2>1, <2>2 DEF Differ
    <3> QED BY <1>2, <1>3, <2>1, <3>1, BeforeIs
  <2>3. CASE p[n] = 1
    <3>1. Agree(b, p, n) BY <2>1, <2>3, <1>1 DEF Agree
    <3>2. CASE Len(p) > n
      <4>1. Inside(b, p) BY <3>1, <3>2, <1>3 DEF Inside
      <4> QED BY <1>2, <1>3, <4>1, BeforeIs
    <3>3. CASE Len(p) = n
      <4>1. b \in Seq(Nat \ {0}) /\ p \in Seq(Nat \ {0}) BY <1>3 DEF Paths
      <4>2. p = b BY <3>1, <3>3, <4>1, <1>3 DEF Agree
      <4> QED BY <1>2, <4>2
    <3> QED BY <2>1, <3>2, <3>3, <1>1
  <2> QED BY <2>1, <2>2, <2>3
<1> QED BY <1>2, <1>4, <1>5, BeforeIs

(* The chain a path is in: what it differs in is not its own chain.        *)
Beside(r, p) == Len(r) <= Len(p) /\ Agree(r, p, Len(r) - 1)
LEMMA LeavesChain ==
  ASSUME NEW a \in Paths, NEW p \in Paths, Before(a, p), ~Inside(a, p), ~Beside(a, p)
  PROVE  Len(a) > 1 /\ Before(Cut(a), p) /\ ~Inside(Cut(a), p)
<1>1. /\ Len(a) \in Nat /\ Len(a) >= 1 /\ \A i \in 1 .. Len(a) : a[i] \in Nat
      /\ Len(p) \in Nat /\ \A i \in 1 .. Len(p) : p[i] \in Nat
  BY PathIs
<1>2. PICK n \in 1 .. Len(a) : Differ(a, p, n) BY BeforeIs
<1>3. n < Len(a) BY <1>1, <1>2 DEF Differ, Beside
<1>4. Len(a) > 1 BY <1>1, <1>3
<1>5. PICK u : u = Cut(a) OBVIOUS
<1>6. u \in Paths /\ Len(u) = Len(a) - 1 /\ Agree(a, u, Len(a) - 1) BY <1>4, <1>5, CutIs
<1>7. n \in 1 .. Len(u) /\ Differ(u, p, n) BY <1>1, <1>2, <1>3, <1>6 DEF Differ, Agree
<1>8. ~Inside(u, p) BY <1>1, <1>6, <1>7 DEF Differ, Inside, Agree
<1> QED BY <1>4, <1>5, <1>6, <1>7, <1>8, BeforeIs
(* The nodes of a program P, whatever the walker's state.                  *)
ChainIn(P, path) ==
    IF Len(path) = 1 THEN 1
    ELSE LET chainAt[n \in 1 .. Len(path)] ==
               IF n = 1 THEN 1 ELSE P[chainAt[n - 1]][path[n - 1]].to
         IN chainAt[Len(path)]
Exec(P, p) == P[ChainIn(P, p)][Last(p)].x
Within(P, p) == Last(p) <= Len(P[ChainIn(P, p)])

(* The chains a path goes through, one per jump or goto. *)
Through(P, p, c) ==
    /\ c \in [1 .. Len(p) -> DOMAIN P] /\ c[1] = 1
    /\ \A n \in 1 .. Len(p) - 1 : c[n + 1] = P[c[n]][p[n]].to

LEMMA ChainIs ==
  ASSUME NEW P, NEW p \in Paths, NEW c, Through(P, p, c)
  PROVE  ChainIn(P, p) = c[Len(p)]
<1> DEFINE L == Len(p)
           Eq(f) == f = [n \in 1 .. L |-> IF n = 1 THEN 1 ELSE P[f[n - 1]][p[n - 1]].to]
           f == CHOOSE f : Eq(f)
<1>1. L \in Nat /\ L >= 1 BY PathIs
<1>2. /\ c \in [1 .. L -> DOMAIN P] /\ c[1] = 1 /\ \A n \in 1 .. L - 1 : c[n + 1] = P[c[n]][p[n]].to
  BY DEF Through
<1> HIDE DEF L
<1>3. Eq(c)
  <2>1. \A n \in 1 .. L : n = 1 \/ (n - 1 \in 1 .. L - 1 /\ (n - 1) + 1 = n) BY <1>1
  <2>2. \A n \in 1 .. L : c[n] = IF n = 1 THEN 1 ELSE P[c[n - 1]][p[n - 1]].to BY <1>2, <2>1
  <2>3. c = [n \in 1 .. L |-> c[n]] BY <1>2
  <2> QED BY <2>2, <2>3
<1>4. Eq(f) BY <1>3
<1> HIDE DEF f
<1>5. \A n \in 1 .. L : f[n] = IF n = 1 THEN 1 ELSE P[f[n - 1]][p[n - 1]].to BY <1>4
<1> DEFINE S == {n \in Nat : n + 1 <= L => f[n + 1] = c[n + 1]}
<1>6. 0 \in S
  <2>1. 1 \in 1 .. L BY <1>1
  <2> QED BY <1>2, <1>5, <2>1
<1>7. ASSUME NEW n \in Nat, n \in S PROVE n + 1 \in S
  <2> SUFFICES ASSUME (n + 1) + 1 <= L PROVE f[(n + 1) + 1] = c[(n + 1) + 1] OBVIOUS
  <2>1. n + 1 \in 1 .. L - 1 /\ (n + 1) + 1 \in 1 .. L /\ (n + 1) + 1 # 1 /\ ((n + 1) + 1) - 1 = n + 1 BY <1>1
  <2>2. f[n + 1] = c[n + 1] BY <1>1, <1>7
  <2>3. f[(n + 1) + 1] = P[f[n + 1]][p[n + 1]].to BY <1>5, <2>1
  <2>4. c[(n + 1) + 1] = P[c[n + 1]][p[n + 1]].to BY <1>2, <2>1
  <2> QED BY <2>2, <2>3, <2>4
<1> HIDE DEF S
<1>8. Nat \subseteq S BY <1>6, <1>7, SetInduction
<1>9. f[L] = c[L]
  <2>1. L - 1 \in S /\ (L - 1) + 1 = L BY <1>1, <1>8
  <2> QED BY <2>1 DEF S
<1>10. ChainIn(P, p) = IF L = 1 THEN 1 ELSE f[L] BY DEF ChainIn, L, f
<1> QED BY <1>2, <1>9, <1>10 DEF L

(* Paths into the same chain have it as theirs. *)
LEMMA SameChain ==
  ASSUME NEW P, NEW p \in Paths, NEW q \in Paths, NEW c, Through(P, p, c),
         Len(q) = Len(p), Agree(p, q, Len(p) - 1)
  PROVE  Through(P, q, c) /\ ChainIn(P, q) = ChainIn(P, p)
<1>1. Through(P, q, c) BY DEF Through, Agree
<1> QED BY <1>1, ChainIs

LEMMA ShorterThrough ==
  ASSUME NEW P, NEW p \in Paths, NEW c, Through(P, p, c), Len(p) > 1
  PROVE  \E d : Through(P, Cut(p), d)
<1>1. Cut(p) \in Paths /\ Len(Cut(p)) = Len(p) - 1 /\ Agree(p, Cut(p), Len(p) - 1) /\ Len(p) \in Nat
  BY CutIs, PathIs
<1> DEFINE d == [n \in 1 .. Len(p) - 1 |-> c[n]]
<1>2. \A n \in 1 .. Len(p) - 1 : n \in 1 .. Len(p) BY <1>1
<1>3. d \in [1 .. Len(Cut(p)) -> DOMAIN P] /\ d[1] = 1
  <2>1. 1 \in 1 .. Len(p) - 1 BY <1>1
  <2> QED BY <1>1, <1>2, <2>1 DEF Through
<1>4. ASSUME NEW n \in 1 .. Len(Cut(p)) - 1 PROVE d[n + 1] = P[d[n]][Cut(p)[n]].to
  <2>1. n \in 1 .. Len(p) - 1 /\ n + 1 \in 1 .. Len(p) - 1 BY <1>1
  <2>2. d[n + 1] = c[n + 1] /\ d[n] = c[n] /\ Cut(p)[n] = p[n] BY <1>1, <2>1 DEF Agree
  <2> QED BY <2>1, <2>2 DEF Through
<1> HIDE DEF d
<1>5. Through(P, Cut(p), d) BY <1>3, <1>4 DEF Through
<1> QED BY <1>5

LEMMA DeeperThrough ==
  ASSUME NEW P, IsProgram(P), NEW p \in Paths, NEW c, Through(P, p, c),
         Within(P, p), Exec(P, p) \in Moves
  PROVE  \E d : Through(P, Append(p, 1), d)
<1> DEFINE q == Append(p, 1)
           L == Len(p)
           t == P[c[L]][p[L]].to
           d == [n \in 1 .. L + 1 |-> IF n = L + 1 THEN t ELSE c[n]]
<1>1. /\ q \in Paths /\ Len(q) = L + 1 /\ Agree(p, q, L) /\ L \in Nat /\ L >= 1
      /\ Last(p) = p[L] /\ p[L] \in Nat /\ p[L] >= 1
  BY InIs, PathIs
<1>2. ChainIn(P, p) = c[L] /\ c[L] \in DOMAIN P BY <1>1, ChainIs DEF Through
<1>3. t \in DOMAIN P
  <2>1. p[L] <= Len(P[c[L]]) /\ P[c[L]][p[L]].x \in Moves BY <1>1, <1>2 DEF Within, Exec
  <2>2. Len(P[c[L]]) \in Nat /\ DOMAIN P[c[L]] = 1 .. Len(P[c[L]]) BY <1>2 DEF IsProgram
  <2>3. p[L] \in DOMAIN P[c[L]] BY <1>1, <2>1, <2>2
  <2> QED BY <1>2, <2>1, <2>3 DEF IsProgram
<1> HIDE DEF q, t, L
<1>4. \A n \in 1 .. L : n \in 1 .. L + 1 /\ n # L + 1 /\ d[n] = c[n] BY <1>1
<1>5. L + 1 \in 1 .. L + 1 /\ 1 \in 1 .. L /\ L \in 1 .. L BY <1>1
<1>6. c \in [1 .. L -> DOMAIN P] /\ c[1] = 1 /\ \A n \in 1 .. L - 1 : c[n + 1] = P[c[n]][p[n]].to
  BY DEF Through, L
<1>7. d \in [1 .. L + 1 -> DOMAIN P]
  <2>1. \A n \in 1 .. L + 1 : n = L + 1 \/ n \in 1 .. L BY <1>1
  <2> QED BY <1>3, <1>6, <2>1
<1>8. d[L + 1] = t /\ d[1] = 1 BY <1>4, <1>5, <1>6
<1> HIDE DEF d
<1>9. ASSUME NEW n \in 1 .. (L + 1) - 1 PROVE d[n + 1] = P[d[n]][q[n]].to
  <2>1. n \in 1 .. L /\ q[n] = p[n] BY <1>1 DEF Agree
  <2>2. CASE n = L BY <2>1, <2>2, <1>4, <1>8 DEF t
  <2>3. CASE n # L
    <3>1. n \in 1 .. L - 1 /\ n + 1 \in 1 .. L BY <2>1, <2>3, <1>1
    <3> QED BY <2>1, <3>1, <1>4, <1>6
  <2> QED BY <2>2, <2>3
<1>10. Through(P, q, d) BY <1>1, <1>7, <1>8, <1>9 DEF Through
<1> QED BY <1>10 DEF q
With(S, x) == S \cup {x}
LEMMA WithHas == \A S, x, y : y \in With(S, x) <=> y = x \/ y \in S
BY DEF With

(* What may be come to, given the nodes R that ran, position by position.  *)
ReachIn(P, R, p) ==
    /\ \A n \in 1 .. Len(p) - 1 : SubSeq(p, 1, n) \in R
    /\ \A r \in R : Before(r, p) =>
          /\ Exec(P, r) \notin {"accept", "reject"}
          /\ Exec(P, r) = "goto" => Inside(r, p)
          /\ Exec(P, r) = "return" => ~Beside(r, p)
OccursIn(P, p) ==
    /\ \A n \in 1 .. Len(p) - 1 : Within(P, SubSeq(p, 1, n)) /\ Exec(P, SubSeq(p, 1, n)) \in Moves
    /\ Within(P, p)

LEMMA PrefixOfNext ==
  ASSUME NEW a \in Paths, NEW n \in 1 .. Len(a) - 1
  PROVE  SubSeq(Next1(a), 1, n) = SubSeq(a, 1, n)
<1>1. PICK b : b = Next1(a) OBVIOUS
<1>2. b \in Paths /\ Len(b) = Len(a) /\ Agree(a, b, Len(a) - 1) /\ Len(a) \in Nat BY <1>1, Next1Is, PathIs
<1>3. n \in Nat /\ n <= Len(a) /\ n <= Len(b) /\ Agree(b, a, n) BY <1>2 DEF Agree
<1>4. SubSeq(b, 1, n) = SubSeq(a, 1, n) BY <1>2, <1>3, SamePrefix
<1> QED BY <1>1, <1>4

LEMMA PrefixOfInto ==
  ASSUME NEW a \in Paths, NEW n \in 1 .. Len(a)
  PROVE  SubSeq(Append(a, 1), 1, n) = SubSeq(a, 1, n)
<1>1. PICK b : b = Append(a, 1) OBVIOUS
<1>2. b \in Paths /\ Len(b) = Len(a) + 1 /\ Agree(a, b, Len(a)) /\ Len(a) \in Nat BY <1>1, InIs, PathIs
<1>3. n \in Nat /\ n <= Len(a) /\ n <= Len(b) /\ Agree(b, a, n) BY <1>2 DEF Agree
<1>4. SubSeq(b, 1, n) = SubSeq(a, 1, n) BY <1>2, <1>3, SamePrefix
<1> QED BY <1>1, <1>4

LEMMA PrefixOfCut ==
  ASSUME NEW a \in Paths, Len(a) > 1, NEW n \in 1 .. Len(a) - 1
  PROVE  SubSeq(Cut(a), 1, n) = SubSeq(a, 1, n)
<1>1. PICK b : b = Cut(a) OBVIOUS
<1>2. b \in Paths /\ Len(b) = Len(a) - 1 /\ Agree(a, b, Len(a) - 1) /\ Len(a) \in Nat BY <1>1, CutIs, PathIs
<1>3. n \in Nat /\ n <= Len(a) /\ n <= Len(b) /\ Agree(b, a, n) BY <1>2 DEF Agree
<1>4. SubSeq(b, 1, n) = SubSeq(a, 1, n) BY <1>2, <1>3, SamePrefix
<1> QED BY <1>1, <1>4

LEMMA WholeIs == ASSUME NEW a \in Paths PROVE SubSeq(a, 1, Len(a)) = a
<1>1. Len(a) \in Nat /\ Len(a) <= Len(a) BY PathIs
<1> QED BY <1>1, WholePrefix DEF Agree

(* The walk's next position may be come to when this one may. *)
GoesToNext(P, a) == Exec(P, a) \notin {"accept", "reject", "return", "jump", "goto"}
LEMMA ReachNext ==
  ASSUME NEW P, NEW R \in SUBSET Paths, NEW a \in Paths, \A r \in R : Before(r, a), ReachIn(P, R, a),
         NEW T, T = R \/ (T = With(R, a) /\ GoesToNext(P, a))
  PROVE  ReachIn(P, T, Next1(a))
<1> USE DEF With
<1>1. PICK b : b = Next1(a) OBVIOUS
<1>2. b \in Paths /\ Len(b) = Len(a) /\ Agree(a, b, Len(a) - 1) /\ Len(a) \in Nat BY <1>1, Next1Is, PathIs
<1>3. ASSUME NEW n \in 1 .. Len(b) - 1 PROVE SubSeq(b, 1, n) \in T
  <2>1. SubSeq(b, 1, n) = SubSeq(a, 1, n) /\ n \in 1 .. Len(a) - 1 BY <1>1, <1>2, PrefixOfNext
  <2> QED BY <2>1 DEF ReachIn
<1>4. ASSUME NEW r \in T
      PROVE  /\ Exec(P, r) \notin {"accept", "reject"}
             /\ Exec(P, r) = "goto" => Inside(r, b)
             /\ Exec(P, r) = "return" => ~Beside(r, b)
  <2>1. CASE r \in R
    <3>1. Before(r, a) /\ r \in Paths /\ Len(r) \in Nat BY <2>1, PathIs
    <3>2. Inside(r, a) => Inside(r, b) BY <1>2, <3>1 DEF Inside, Agree
    <3>3. Beside(r, b) => Beside(r, a) BY <1>2, <3>1 DEF Beside, Agree
    <3> QED BY <2>1, <3>1, <3>2, <3>3 DEF ReachIn
  <2>2. CASE r \notin R BY <2>2 DEF GoesToNext
  <2> QED BY <2>1, <2>2
<1>5. ReachIn(P, T, b) BY <1>3, <1>4 DEF ReachIn
<1> QED BY <1>1, <1>5

LEMMA ReachInto ==
  ASSUME NEW P, NEW R \in SUBSET Paths, NEW a \in Paths, \A r \in R : Before(r, a), ReachIn(P, R, a),
         Exec(P, a) \in Moves
  PROVE  ReachIn(P, With(R, a), Append(a, 1))
<1> USE DEF With
<1>1. PICK b : b = Append(a, 1) OBVIOUS
<1>2. b \in Paths /\ Len(b) = Len(a) + 1 /\ Agree(a, b, Len(a)) /\ Len(a) \in Nat BY <1>1, InIs, PathIs
<1>3. ASSUME NEW n \in 1 .. Len(b) - 1 PROVE SubSeq(b, 1, n) \in With(R, a)
  <2>1. SubSeq(b, 1, n) = SubSeq(a, 1, n) /\ n \in 1 .. Len(a) BY <1>1, <1>2, PrefixOfInto
  <2>2. CASE n = Len(a) BY <2>1, <2>2, WholeIs
  <2>3. CASE n # Len(a)
    <3>1. n \in 1 .. Len(a) - 1 BY <2>1, <2>3, <1>2
    <3> QED BY <2>1, <3>1 DEF ReachIn
  <2> QED BY <2>2, <2>3
<1>4. ASSUME NEW r \in With(R, a)
      PROVE  /\ Exec(P, r) \notin {"accept", "reject"}
             /\ Exec(P, r) = "goto" => Inside(r, b)
             /\ Exec(P, r) = "return" => ~Beside(r, b)
  <2>1. CASE r \in R
    <3>1. Before(r, a) /\ r \in Paths /\ Len(r) \in Nat BY <2>1, PathIs
    <3>2. Inside(r, a) => Inside(r, b) BY <1>2, <3>1 DEF Inside, Agree
    <3>3. ASSUME Beside(r, b) PROVE Beside(r, a)
      <4>1. CASE Len(r) <= Len(a) BY <4>1, <1>2, <3>1, <3>3 DEF Beside, Agree
      <4>2. CASE Len(r) > Len(a)
        <5>1. Inside(a, r) BY <4>2, <1>2, <3>1, <3>3 DEF Beside, Inside, Agree
        <5>2. Before(a, a) BY <3>1, <5>1, BeforeIs, BeforeTrans
        <5> QED BY <5>2, NotBeforeItself
      <4> QED BY <4>1, <4>2, <1>2, <3>1
    <3> QED BY <2>1, <3>1, <3>2, <3>3 DEF ReachIn
  <2>2. CASE r = a
    <3>1. Inside(a, b) BY <1>2 DEF Inside
    <3> QED BY <2>2, <3>1 DEF Moves
  <2> QED BY <2>1, <2>2
<1>5. ReachIn(P, With(R, a), b) BY <1>3, <1>4 DEF ReachIn
<1> QED BY <1>1, <1>5

LEMMA ReachBack ==
  ASSUME NEW P, NEW R \in SUBSET Paths, NEW a \in Paths, \A r \in R : Before(r, a), ReachIn(P, R, a),
         Len(a) > 1, Exec(P, Cut(a)) = "jump",
         NEW T, T = R \/ (T = With(R, a) /\ Exec(P, a) = "return")
  PROVE  ReachIn(P, T, Next1(Cut(a)))
<1> USE DEF With
<1>1. PICK u, b : u = Cut(a) /\ b = Next1(u) OBVIOUS
<1>2. /\ u \in Paths /\ Len(u) = Len(a) - 1 /\ Agree(a, u, Len(a) - 1) /\ Len(a) \in Nat
      /\ b \in Paths /\ Len(b) = Len(u) /\ Agree(u, b, Len(u) - 1)
  BY <1>1, CutIs, Next1Is, PathIs
<1>3. ASSUME NEW n \in 1 .. Len(b) - 1 PROVE SubSeq(b, 1, n) \in T
  <2>1. n \in 1 .. Len(u) - 1 /\ n \in 1 .. Len(a) - 1 BY <1>2
  <2>2. SubSeq(b, 1, n) = SubSeq(a, 1, n) BY <1>1, <1>2, <2>1, PrefixOfNext, PrefixOfCut
  <2> QED BY <2>1, <2>2 DEF ReachIn
<1>4. ASSUME NEW r \in T
      PROVE  /\ Exec(P, r) \notin {"accept", "reject"}
             /\ Exec(P, r) = "goto" => Inside(r, b)
             /\ Exec(P, r) = "return" => ~Beside(r, b)
  <2>1. CASE r \in R
    <3>1. Before(r, a) /\ r \in Paths /\ Len(r) \in Nat BY <2>1, PathIs
    <3>2. ASSUME Exec(P, r) = "goto", Inside(r, a) PROVE Inside(r, b)
      <4>1. CASE Len(r) = Len(u)
        <5>1. Agree(r, u, Len(r)) BY <4>1, <3>2, <1>2 DEF Inside, Agree
        <5>2. r = u BY <4>1, <5>1, <3>1, <1>2, SamePath
        <5> QED BY <5>2, <3>2, <1>1
      <4>2. CASE Len(r) # Len(u)
        <5>1. Len(r) < Len(u) BY <4>2, <3>1, <3>2, <1>2 DEF Inside
        <5> QED BY <5>1, <3>1, <3>2, <1>2 DEF Inside, Agree
      <4> QED BY <4>1, <4>2
    <3>3. Beside(r, b) => Beside(r, a) BY <1>2, <3>1 DEF Beside, Agree
    <3> QED BY <2>1, <3>1, <3>2, <3>3 DEF ReachIn
  <2>2. CASE r \notin R
    <3>1. r = a /\ Exec(P, a) = "return" BY <2>2
    <3>2. ~Beside(a, b) BY <1>2 DEF Beside
    <3> QED BY <3>1, <3>2
  <2> QED BY <2>1, <2>2
<1>5. ReachIn(P, T, b) BY <1>3, <1>4 DEF ReachIn
<1> QED BY <1>1, <1>5

(* What has been come to stays so when a later node runs. *)
LEMMA ReachStays ==
  ASSUME NEW P, NEW R, NEW a \in Paths, NEW p \in Paths, p = a \/ Before(p, a), ReachIn(P, R, p),
         NEW T, T = R \/ T = With(R, a)
  PROVE  ReachIn(P, T, p)
<1>1. ~Before(a, p)
  <2> SUFFICES ASSUME Before(a, p) PROVE FALSE OBVIOUS
  <2>1. Before(a, a) BY BeforeTrans
  <2> QED BY <2>1, NotBeforeItself
<1> QED BY <1>1 DEF ReachIn, With

(* What is still to come: reachable nodes that were not visited. *)
DueIn(P, R, V) == {p \in Paths : OccursIn(P, p) /\ p \notin V /\ ReachIn(P, R, p)}

LEMMA DueInside ==
  ASSUME NEW P, NEW T, NEW a \in Paths, NEW p \in Paths, Inside(a, p)
  PROVE  /\ ReachIn(P, T, p) => a \in T
         /\ OccursIn(P, p) => Within(P, a) /\ Exec(P, a) \in Moves
<1>1. /\ Len(a) \in Nat /\ Len(a) >= 1 /\ Len(p) \in Nat /\ Len(a) < Len(p) /\ Agree(a, p, Len(a))
  BY PathIs DEF Inside
<1>2. Len(a) \in 1 .. Len(p) - 1 BY <1>1
<1>3. SubSeq(p, 1, Len(a)) = a BY <1>1, WholePrefix
<1>4. ReachIn(P, T, p) => SubSeq(p, 1, Len(a)) \in T BY <1>2 DEF ReachIn
<1>5. OccursIn(P, p) => Within(P, SubSeq(p, 1, Len(a))) /\ Exec(P, SubSeq(p, 1, Len(a))) \in Moves
  BY <1>2 DEF OccursIn
<1> QED BY <1>3, <1>4, <1>5

LEMMA DueAfter ==
  ASSUME NEW P, NEW R, NEW V, NEW a \in Paths,
         \A p \in DueIn(P, R, V) : p = a \/ Before(a, p),
         NEW T, T = R \/ T = With(R, a),
         NEW p \in DueIn(P, T, With(V, a))
  PROVE  Before(a, p)
<1> USE DEF With
<1>1. p \in Paths /\ OccursIn(P, p) /\ p \notin V /\ p # a /\ ReachIn(P, T, p) BY DEF DueIn
<1>2. CASE Inside(a, p) BY <1>1, <1>2, BeforeIs
<1>3. CASE ~Inside(a, p)
  <2>1. ASSUME NEW n \in 1 .. Len(p) - 1 PROVE SubSeq(p, 1, n) \in R
    <3>1. SubSeq(p, 1, n) \in T BY <1>1 DEF ReachIn
    <3>2. SubSeq(p, 1, n) # a
      <4> SUFFICES ASSUME SubSeq(p, 1, n) = a PROVE FALSE OBVIOUS
      <4>1. n \in 1 .. Len(p) /\ n < Len(p) BY <1>1, PathIs
      <4>2. Len(a) = n /\ \A i \in 1 .. n : a[i] = p[i] BY <1>1, <4>1, PrefixIs
      <4> QED BY <1>3, <4>1, <4>2 DEF Inside, Agree
    <3> QED BY <3>1, <3>2
  <2>2. ReachIn(P, R, p) BY <1>1, <2>1 DEF ReachIn
  <2> QED BY <1>1, <2>2 DEF DueIn
<1> QED BY <1>2, <1>3

(* Past its end a chain has nothing that is due. *)
LEMMA DueBeside ==
  ASSUME NEW P, IsProgram(P), NEW a \in Paths, NEW c, Through(P, a, c), ~Within(P, a),
         NEW p \in Paths, OccursIn(P, p), Before(a, p)
  PROVE  ~Beside(a, p)
<1> SUFFICES ASSUME Beside(a, p) PROVE FALSE OBVIOUS
<1>1. /\ Len(a) \in Nat /\ Len(a) >= 1 /\ Len(p) \in Nat /\ Len(a) <= Len(p) /\ Agree(a, p, Len(a) - 1)
      /\ \A i \in 1 .. Len(a) : a[i] \in Nat
      /\ \A i \in 1 .. Len(p) : p[i] \in Nat
      /\ Last(a) = a[Len(a)]
  BY PathIs DEF Beside
<1>2. PICK L : L = Len(a) OBVIOUS
<1>3. L \in 1 .. Len(p) /\ a[L] <= p[L]
  <2>1. CASE Inside(a, p) BY <1>1, <1>2, <2>1 DEF Inside, Agree
  <2>2. ASSUME NEW n \in 1 .. Len(a), Differ(a, p, n) PROVE a[L] <= p[L]
    BY <1>1, <1>2, <2>2 DEF Differ, Agree
  <2> QED BY <1>1, <1>2, <2>1, <2>2, BeforeIs
<1>4. PICK q : q = SubSeq(p, 1, L) OBVIOUS
<1>5. q \in Paths /\ Len(q) = L /\ Agree(a, q, L - 1) /\ q[L] = p[L] /\ Last(q) = q[L]
  <2>1. q \in Paths /\ Len(q) = L /\ \A i \in 1 .. L : q[i] = p[i] BY <1>3, <1>4, PrefixIs
  <2> QED BY <1>1, <1>2, <2>1, PathIs DEF Agree
<1>6. Within(P, q)
  <2>1. CASE L = Len(p) BY <2>1, <1>4, WholeIs DEF OccursIn
  <2>2. CASE L # Len(p)
    <3>1. L \in 1 .. Len(p) - 1 BY <2>2, <1>1, <1>3
    <3> QED BY <3>1, <1>4 DEF OccursIn
  <2> QED BY <2>1, <2>2
<1>7. ChainIn(P, q) = ChainIn(P, a) BY <1>2, <1>5, SameChain
<1>8. Len(P[ChainIn(P, a)]) \in Nat
  <2>1. ChainIn(P, a) = c[Len(a)] BY ChainIs
  <2>2. Len(a) \in 1 .. Len(a) /\ c \in [1 .. Len(a) -> DOMAIN P] BY <1>1 DEF Through
  <2>3. c[Len(a)] \in DOMAIN P BY <2>2
  <2> QED BY <2>1, <2>3 DEF IsProgram
<1>9. q[L] <= Len(P[ChainIn(P, a)]) BY <1>5, <1>6, <1>7 DEF Within
<1>10. a[L] <= Len(P[ChainIn(P, a)]) /\ a[L] \in Nat BY <1>1, <1>2, <1>3, <1>5, <1>8, <1>9
<1> QED BY <1>1, <1>2, <1>10 DEF Within

(* When no jump leads back, the goto the walk is inside of is the end.     *)
LEMMA NoneDue ==
  ASSUME NEW P, NEW T, NEW a \in Paths, NEW p \in Paths,
         Before(a, p), ~Inside(a, p), ~Beside(a, p), ReachIn(P, T, p),
         Len(a) > 1 => Exec(P, Cut(a)) = "goto" /\ Cut(a) \in T
  PROVE  FALSE
BY LeavesChain DEF ReachIn
(* Where the jumps lead back to: behind each jump the walk is inside of,   *)
(* out to the goto it is inside of.                                        *)
JumpsIn(P, a, jb) ==
    /\ jb \in Seq(Paths) /\ Len(jb) <= Len(a) - 1
    /\ \A i \in 1 .. Len(jb) :
          LET u == SubSeq(a, 1, Len(a) - 1 - Len(jb) + i)
          IN jb[i] = Next1(u) /\ Exec(P, u) = "jump"
    /\ Len(jb) < Len(a) - 1 => Exec(P, SubSeq(a, 1, Len(a) - 1 - Len(jb))) = "goto"

LEMMA JumpsOn ==
  ASSUME NEW P, NEW a \in Paths, NEW jb, JumpsIn(P, a, jb)
  PROVE  JumpsIn(P, Next1(a), jb)
<1>1. PICK b : b = Next1(a) OBVIOUS
<1>2. b \in Paths /\ Len(b) = Len(a) /\ Len(a) \in Nat /\ Len(jb) \in Nat BY <1>1, Next1Is, PathIs DEF JumpsIn
<1>3. \A n \in 1 .. Len(a) - 1 : SubSeq(b, 1, n) = SubSeq(a, 1, n) BY <1>1, PrefixOfNext
<1>4. ASSUME NEW i \in 1 .. Len(jb)
      PROVE  LET u == SubSeq(b, 1, Len(b) - 1 - Len(jb) + i) IN jb[i] = Next1(u) /\ Exec(P, u) = "jump"
  <2>1. Len(a) - 1 - Len(jb) + i \in 1 .. Len(a) - 1 BY <1>2 DEF JumpsIn
  <2> QED BY <2>1, <1>2, <1>3 DEF JumpsIn
<1>5. ASSUME Len(jb) < Len(b) - 1 PROVE Exec(P, SubSeq(b, 1, Len(b) - 1 - Len(jb))) = "goto"
  <2>1. Len(a) - 1 - Len(jb) \in 1 .. Len(a) - 1 BY <1>2, <1>5
  <2> QED BY <2>1, <1>2, <1>3, <1>5 DEF JumpsIn
<1>6. JumpsIn(P, b, jb) BY <1>2, <1>4, <1>5 DEF JumpsIn
<1> QED BY <1>1, <1>6

LEMMA JumpsDown ==
  ASSUME NEW P, NEW a \in Paths, NEW jb, JumpsIn(P, a, jb), Exec(P, a) = "jump"
  PROVE  JumpsIn(P, Append(a, 1), Append(jb, Next1(a)))
<1>1. PICK b, x : b = Append(a, 1) /\ x = Next1(a) OBVIOUS
<1>2. /\ b \in Paths /\ Len(b) = Len(a) + 1 /\ Len(a) \in Nat /\ Len(jb) \in Nat
      /\ jb \in Seq(Paths) /\ x \in Paths
  BY <1>1, InIs, Next1Is, PathIs DEF JumpsIn
<1>3. \A n \in 1 .. Len(a) : SubSeq(b, 1, n) = SubSeq(a, 1, n) BY <1>1, PrefixOfInto
<1>4. PICK k : k = Append(jb, x) OBVIOUS
<1>5. /\ k \in Seq(Paths) /\ Len(k) = Len(jb) + 1 /\ k[Len(jb) + 1] = x
      /\ \A i \in 1 .. Len(jb) : k[i] = jb[i]
  BY <1>2, <1>4
<1>6. ASSUME NEW i \in 1 .. Len(k)
      PROVE  LET u == SubSeq(b, 1, Len(b) - 1 - Len(k) + i) IN k[i] = Next1(u) /\ Exec(P, u) = "jump"
  <2>1. CASE i = Len(jb) + 1
    <3>1. Len(b) - 1 - Len(k) + i = Len(a) BY <2>1, <1>2, <1>5
    <3>2. SubSeq(b, 1, Len(a)) = a
      <4>1. Len(a) \in 1 .. Len(a) BY PathIs
      <4> QED BY <4>1, <1>3, WholeIs
    <3> QED BY <2>1, <3>1, <3>2, <1>1, <1>5
  <2>2. CASE i # Len(jb) + 1
    <3>1. i \in 1 .. Len(jb) BY <2>2, <1>2, <1>5
    <3>2. Len(b) - 1 - Len(k) + i = Len(a) - 1 - Len(jb) + i BY <3>1, <1>2, <1>5
    <3>3. Len(a) - 1 - Len(jb) + i \in 1 .. Len(a) BY <3>1, <1>2 DEF JumpsIn
    <3> QED BY <3>1, <3>2, <3>3, <1>3, <1>5 DEF JumpsIn
  <2> QED BY <2>1, <2>2
<1>7. ASSUME Len(k) < Len(b) - 1 PROVE Exec(P, SubSeq(b, 1, Len(b) - 1 - Len(k))) = "goto"
  <2>1. Len(b) - 1 - Len(k) = Len(a) - 1 - Len(jb) BY <1>2, <1>5
  <2>2. Len(a) - 1 - Len(jb) \in 1 .. Len(a) /\ Len(jb) < Len(a) - 1 BY <2>1, <1>2, <1>5, <1>7
  <2> QED BY <2>1, <2>2, <1>3 DEF JumpsIn
<1>8. JumpsIn(P, b, k)
  <2>1. Len(k) <= Len(b) - 1 BY <1>2, <1>5 DEF JumpsIn
  <2> QED BY <2>1, <1>5, <1>6, <1>7 DEF JumpsIn
<1> QED BY <1>1, <1>4, <1>8

LEMMA JumpsLeft ==
  ASSUME NEW P, NEW a \in Paths, Exec(P, a) = "goto"
  PROVE  JumpsIn(P, Append(a, 1), <<>>)
<1>1. PICK b : b = Append(a, 1) OBVIOUS
<1>2. b \in Paths /\ Len(b) = Len(a) + 1 /\ Len(a) \in Nat /\ Len(a) >= 1 BY <1>1, InIs, PathIs
<1>3. SubSeq(b, 1, Len(a)) = a
  <2>1. Len(a) \in 1 .. Len(a) BY PathIs
  <2> QED BY <2>1, <1>1, PrefixOfInto, WholeIs
<1>4. Len(b) - 1 - 0 = Len(a) BY <1>2
<1>5. <<>> \in Seq(Paths) /\ Len(<<>>) = 0 OBVIOUS
<1>6. PICK k : k = <<>> OBVIOUS
<1>7. k \in Seq(Paths) /\ Len(k) = 0 /\ Len(k) <= Len(b) - 1 /\ 1 .. Len(k) = {} BY <1>2, <1>5, <1>6
<1>8. Exec(P, SubSeq(b, 1, Len(b) - 1 - Len(k))) = "goto" BY <1>3, <1>4, <1>7
<1>9. JumpsIn(P, b, k) BY <1>7, <1>8 DEF JumpsIn
<1> QED BY <1>1, <1>6, <1>9

LEMMA JumpsUp ==
  ASSUME NEW P, NEW a \in Paths, NEW jb, JumpsIn(P, a, jb), jb # <<>>
  PROVE  /\ Len(a) > 1 /\ Last(jb) = Next1(Cut(a)) /\ Exec(P, Cut(a)) = "jump"
         /\ JumpsIn(P, Last(jb), Front(jb))
<1>1. /\ jb \in Seq(Paths) /\ Len(jb) \in Nat /\ Len(jb) >= 1 /\ Len(jb) <= Len(a) - 1
      /\ Len(a) \in Nat /\ Len(a) > 1 /\ Last(jb) = jb[Len(jb)]
  BY PathIs DEF JumpsIn, Last
<1>2. Len(a) - 1 - Len(jb) + Len(jb) = Len(a) - 1 /\ Len(jb) \in 1 .. Len(jb) BY <1>1
<1>3. PICK u : u = Cut(a) OBVIOUS
<1>4. Last(jb) = Next1(u) /\ Exec(P, u) = "jump" BY <1>1, <1>2, <1>3 DEF JumpsIn, Cut
<1>5. PICK b, k : b = Next1(u) /\ k = Front(jb) OBVIOUS
<1>6. u \in Paths /\ Len(u) = Len(a) - 1 /\ b \in Paths /\ Len(b) = Len(a) - 1 BY <1>1, <1>3, <1>5, CutIs, Next1Is
<1>7. k \in Seq(Paths) /\ Len(k) = Len(jb) - 1 /\ \A i \in 1 .. Len(jb) - 1 : k[i] = jb[i]
  <2>1. PICK m : m = Len(jb) - 1 OBVIOUS
  <2>0. m \in 0 .. Len(jb) BY <1>1, <2>1
  <2>2. /\ SubSeq(jb, 1, m) \in Seq(Paths) /\ Len(SubSeq(jb, 1, m)) = m
        /\ \A i \in 1 .. m : SubSeq(jb, 1, m)[i] = jb[i]
    BY <1>1, <2>0, Upto
  <2> QED BY <1>5, <2>1, <2>2 DEF Front
<1>8. ASSUME NEW n \in 1 .. Len(b) - 1 PROVE SubSeq(b, 1, n) = SubSeq(a, 1, n)
  <2>1. n \in 1 .. Len(u) - 1 /\ n \in 1 .. Len(a) - 1 BY <1>1, <1>6
  <2> QED BY <2>1, <1>1, <1>3, <1>5, <1>6, PrefixOfNext, PrefixOfCut
<1>9. ASSUME NEW i \in 1 .. Len(k)
      PROVE  LET v == SubSeq(b, 1, Len(b) - 1 - Len(k) + i) IN k[i] = Next1(v) /\ Exec(P, v) = "jump"
  <2>1. i \in 1 .. Len(jb) /\ k[i] = jb[i] BY <1>1, <1>7
  <2>2. Len(b) - 1 - Len(k) + i = Len(a) - 1 - Len(jb) + i BY <2>1, <1>1, <1>6, <1>7
  <2>3. Len(a) - 1 - Len(jb) + i \in 1 .. Len(b) - 1 BY <2>1, <1>1, <1>6, <1>7
  <2> QED BY <2>1, <2>2, <2>3, <1>8 DEF JumpsIn
<1>10. ASSUME Len(k) < Len(b) - 1 PROVE Exec(P, SubSeq(b, 1, Len(b) - 1 - Len(k))) = "goto"
  <2>1. Len(b) - 1 - Len(k) = Len(a) - 1 - Len(jb) BY <1>1, <1>6, <1>7
  <2>2. Len(a) - 1 - Len(jb) \in 1 .. Len(b) - 1 /\ Len(jb) < Len(a) - 1 BY <2>1, <1>1, <1>6, <1>7, <1>10
  <2> QED BY <2>1, <2>2, <1>8 DEF JumpsIn
<1>11. JumpsIn(P, b, k)
  <2>1. Len(k) <= Len(b) - 1 BY <1>1, <1>6, <1>7
  <2> QED BY <2>1, <1>7, <1>9, <1>10 DEF JumpsIn
<1> QED BY <1>1, <1>3, <1>4, <1>5, <1>11

(* The history. *)
Visits == [path : Paths, ran : BOOLEAN]
PathsOf(vis) == {vis[i].path : i \in DOMAIN vis}
RanOf(vis) == {vis[i].path : i \in {i \in DOMAIN vis : vis[i].ran}}

(* The walk so far: the nodes come to are in the order they are written    *)
(* and were all reachable; while it goes on the next position is behind    *)
(* them, reachable, and nothing that is due is before it; when it is over  *)
(* nothing is due unless it has stopped early.                             *)
StoppedEarly(P, vis, f) == f = TRUE \/ (vis # <<>> /\ Exec(P, vis[Len(vis)].path) \in Repliers)
InOrder(vis) == \A i, j \in DOMAIN vis : i < j => Before(vis[i].path, vis[j].path)
VisitsInOrder(P, vis) ==
    /\ vis \in Seq(Visits)
    /\ InOrder(vis)
    /\ \A p \in PathsOf(vis) : ReachIn(P, RanOf(vis), p)
DueBehind(P, vis, a) == \A p \in DueIn(P, RanOf(vis), PathsOf(vis)) : Before(a, p)
WalkingAt(P, vis, a, jb) ==
    /\ a \in Paths /\ \E c : Through(P, a, c)
    /\ JumpsIn(P, a, jb)
    /\ ReachIn(P, RanOf(vis), a)
    /\ \A q \in PathsOf(vis) : Before(q, a)
    /\ \A p \in DueIn(P, RanOf(vis), PathsOf(vis)) : p = a \/ Before(a, p)
WalkOver(P, vis, f) ==
    \A p \in DueIn(P, RanOf(vis), PathsOf(vis)) :
       StoppedEarly(P, vis, f) /\ \A q \in PathsOf(vis) : Before(q, p)

(* A node a is come to: what the history w is after vis. *)
ComesTo(vis, a, w) ==
    /\ w \in Seq(Visits) /\ w # <<>> /\ w[Len(w)].path = a
    /\ InOrder(vis) /\ (\A q \in PathsOf(vis) : Before(q, a)) => InOrder(w)
    /\ PathsOf(w) = With(PathsOf(vis), a)
RunsAt(vis, a, w) == ComesTo(vis, a, w) /\ RanOf(w) = With(RanOf(vis), a)
SkipsAt(vis, a, w) == ComesTo(vis, a, w) /\ RanOf(w) = RanOf(vis)

LEMMA VisitMore ==
  ASSUME NEW vis \in Seq(Visits), NEW a \in Paths, NEW b \in BOOLEAN
  PROVE  LET w == Append(vis, [path |-> a, ran |-> b])
         IN (b = TRUE => RunsAt(vis, a, w)) /\ (b = FALSE => SkipsAt(vis, a, w))
<1> USE DEF With
<1>1. PICK e, w : e = [path |-> a, ran |-> b] /\ w = Append(vis, e) OBVIOUS
<1>2. e \in Visits /\ e.path = a /\ e.ran = b BY <1>1 DEF Visits
<1>3. PICK n : n = Len(vis) + 1 OBVIOUS
<1>4. /\ w \in Seq(Visits) /\ DOMAIN w = DOMAIN vis \cup {n} /\ w[n] = e /\ Len(w) = n /\ n \in Nat /\ n >= 1
      /\ \A i \in DOMAIN vis : w[i] = vis[i]
      /\ n \notin DOMAIN vis
  BY <1>1, <1>2, <1>3, Appended
<1>5. w[Len(w)].path = a /\ w # <<>> BY <1>2, <1>4
<1>6. PathsOf(w) = With(PathsOf(vis), a) BY <1>2, <1>4 DEF PathsOf
<1>7. (b = TRUE => RanOf(w) = With(RanOf(vis), a)) /\ (b = FALSE => RanOf(w) = RanOf(vis))
  <2> DEFINE A == {i \in DOMAIN vis : vis[i].ran}
             B == {i \in DOMAIN w : w[i].ran}
  <2>1. B = IF b = TRUE THEN A \cup {n} ELSE A BY <1>2, <1>4
  <2>2. \A i \in A : w[i] = vis[i] BY <1>4
  <2>3. RanOf(w) = {w[i].path : i \in B} /\ RanOf(vis) = {vis[i].path : i \in A} BY DEF RanOf
  <2> HIDE DEF A, B
  <2>4. {w[i].path : i \in A} = {vis[i].path : i \in A} BY <2>2
  <2>5. {w[i].path : i \in A \cup {n}} = {w[i].path : i \in A} \cup {w[n].path} OBVIOUS
  <2>6. w[n].path = a BY <1>2, <1>4
  <2>7. CASE b = TRUE BY <2>1, <2>3, <2>4, <2>5, <2>6, <2>7
  <2>8. CASE b = FALSE BY <2>1, <2>3, <2>4, <2>8
  <2> QED BY <2>7, <2>8
<1>8. ASSUME InOrder(vis), \A q \in PathsOf(vis) : Before(q, a) PROVE InOrder(w)
  <2> SUFFICES ASSUME NEW i \in DOMAIN w, NEW j \in DOMAIN w, i < j
               PROVE  Before(w[i].path, w[j].path)
    BY DEF InOrder
  <2>1. DOMAIN vis = 1 .. Len(vis) /\ Len(vis) \in Nat OBVIOUS
  <2>2. i \in DOMAIN vis BY <1>3, <1>4, <2>1
  <2>3. CASE j \in DOMAIN vis BY <1>4, <1>8, <2>2, <2>3 DEF InOrder
  <2>4. CASE j = n
    <3>1. w[i].path \in PathsOf(vis) BY <1>4, <2>2 DEF PathsOf
    <3> QED BY <1>2, <1>4, <1>8, <2>4, <3>1
  <2> QED BY <1>4, <2>3, <2>4
<1>9. ComesTo(vis, a, w) BY <1>4, <1>5, <1>6, <1>8 DEF ComesTo
<1> QED BY <1>1, <1>7, <1>9 DEF RunsAt, SkipsAt

LEMMA VisitTypes ==
  ASSUME NEW vis \in Seq(Visits)
  PROVE  PathsOf(vis) \in SUBSET Paths /\ RanOf(vis) \subseteq PathsOf(vis)
<1>1. \A i \in DOMAIN vis : vis[i] \in Visits OBVIOUS
<1>2. \A e \in Visits : e.path \in Paths BY DEF Visits
<1> QED BY <1>1, <1>2 DEF PathsOf, RanOf

LEMMA Come ==
  ASSUME NEW P, NEW vis, NEW a, NEW jb, VisitsInOrder(P, vis), WalkingAt(P, vis, a, jb),
         NEW w, RunsAt(vis, a, w) \/ SkipsAt(vis, a, w)
  PROVE  VisitsInOrder(P, w) /\ DueBehind(P, w, a)
<1>1. /\ vis \in Seq(Visits) /\ a \in Paths /\ PathsOf(vis) \in SUBSET Paths
      /\ RanOf(vis) \in SUBSET Paths
      /\ \A q \in PathsOf(vis) : Before(q, a)
  BY VisitTypes DEF VisitsInOrder, WalkingAt
<1>2. w \in Seq(Visits) /\ InOrder(w) /\ PathsOf(w) = With(PathsOf(vis), a)
  BY <1>1 DEF VisitsInOrder, RunsAt, SkipsAt, ComesTo
<1>3. RanOf(w) = RanOf(vis) \/ RanOf(w) = With(RanOf(vis), a) BY DEF RunsAt, SkipsAt
<1>5. ASSUME NEW p \in PathsOf(w) PROVE ReachIn(P, RanOf(w), p)
  <2>1. p \in Paths /\ (p = a \/ Before(p, a)) /\ ReachIn(P, RanOf(vis), p)
    BY <1>1, <1>2, WithHas DEF VisitsInOrder, WalkingAt
  <2> QED BY <1>1, <1>3, <2>1, ReachStays
<1>6. ASSUME NEW p \in DueIn(P, RanOf(w), PathsOf(w)) PROVE Before(a, p)
  <2>1. \A q \in DueIn(P, RanOf(vis), PathsOf(vis)) : q = a \/ Before(a, q) BY DEF WalkingAt
  <2>2. p \in DueIn(P, RanOf(w), With(PathsOf(vis), a)) BY <1>2
  <2> QED BY <1>1, <1>3, <2>1, <2>2, DueAfter
<1> QED BY <1>2, <1>5, <1>6 DEF VisitsInOrder, DueBehind

(* The walker at its next position. *)
LEMMA ComeOn ==
  ASSUME NEW P, NEW vis, NEW a, NEW jb, VisitsInOrder(P, vis), WalkingAt(P, vis, a, jb),
         NEW w, PathsOf(w) = PathsOf(vis) \/ PathsOf(w) = With(PathsOf(vis), a),
         NEW b \in Paths, NEW k, Before(a, b), \E c : Through(P, b, c), JumpsIn(P, b, k),
         ReachIn(P, RanOf(w), b),
         \A p \in DueIn(P, RanOf(w), PathsOf(w)) : p = b \/ Before(b, p)
  PROVE  WalkingAt(P, w, b, k)
<1>1. a \in Paths /\ PathsOf(vis) \in SUBSET Paths BY VisitTypes DEF VisitsInOrder, WalkingAt
<1>2. ASSUME NEW q \in PathsOf(w) PROVE Before(q, b)
  <2>1. q \in Paths /\ (q = a \/ Before(q, a)) BY <1>1, WithHas DEF WalkingAt
  <2> QED BY <1>1, <2>1, BeforeTrans
<1> QED BY <1>2 DEF WalkingAt

LEMMA StepOn ==
  ASSUME NEW P, NEW vis, NEW a, NEW jb, VisitsInOrder(P, vis), WalkingAt(P, vis, a, jb),
         NEW w, SkipsAt(vis, a, w) \/ (RunsAt(vis, a, w) /\ GoesToNext(P, a))
  PROVE  VisitsInOrder(P, w) /\ WalkingAt(P, w, Next1(a), jb)
<1>1. /\ vis \in Seq(Visits) /\ a \in Paths /\ JumpsIn(P, a, jb) /\ ReachIn(P, RanOf(vis), a)
      /\ RanOf(vis) \in SUBSET Paths /\ \A r \in RanOf(vis) : Before(r, a)
  BY VisitTypes DEF VisitsInOrder, WalkingAt
<1>2. /\ VisitsInOrder(P, w) /\ PathsOf(w) = With(PathsOf(vis), a)
      /\ RanOf(w) = RanOf(vis) \/ (RanOf(w) = With(RanOf(vis), a) /\ GoesToNext(P, a))
      /\ \A p \in DueIn(P, RanOf(w), PathsOf(w)) : Before(a, p)
  <2>1. VisitsInOrder(P, w) /\ DueBehind(P, w, a) BY Come
  <2> QED BY <2>1 DEF DueBehind, SkipsAt, RunsAt, ComesTo
<1>3. PICK b : b = Next1(a) OBVIOUS
<1>4. b \in Paths /\ Len(b) = Len(a) /\ Agree(a, b, Len(a) - 1) /\ Before(a, b) /\ JumpsIn(P, b, jb)
  BY <1>1, <1>3, Next1Is, GoesOn, JumpsOn
<1>5. \E c : Through(P, b, c)
  <2>1. PICK c : Through(P, a, c) BY DEF WalkingAt
  <2>2. Through(P, b, c) BY <1>1, <1>4, <2>1, SameChain
  <2> QED BY <2>2
<1>6. ReachIn(P, RanOf(w), b)
  <2>1. CASE RanOf(w) = RanOf(vis) BY <1>1, <1>3, <2>1, ReachNext
  <2>2. CASE RanOf(w) = With(RanOf(vis), a) /\ GoesToNext(P, a) BY <1>1, <1>3, <2>2, ReachNext
  <2> QED BY <1>2, <2>1, <2>2
<1>7. ASSUME NEW p \in DueIn(P, RanOf(w), PathsOf(w)) PROVE p = b \/ Before(b, p)
  <2>1. p \in Paths /\ OccursIn(P, p) /\ ReachIn(P, RanOf(w), p) /\ Before(a, p) BY <1>2 DEF DueIn
  <2>2. a \in RanOf(w) => Exec(P, a) \notin Moves
    <3>1. a \notin RanOf(vis) BY <1>1, NotBeforeItself
    <3> QED BY <1>2, <3>1 DEF GoesToNext, Moves
  <2>3. ~Inside(a, p) BY <1>1, <2>1, <2>2, DueInside
  <2> QED BY <1>1, <1>3, <2>1, <2>3, LeavesOut
<1>8. WalkingAt(P, w, b, jb) BY <1>2, <1>4, <1>5, <1>6, <1>7, ComeOn
<1> QED BY <1>2, <1>3, <1>8

LEMMA StepInto ==
  ASSUME NEW P, IsProgram(P), NEW vis, NEW a, NEW jb, VisitsInOrder(P, vis), WalkingAt(P, vis, a, jb),
         NEW w, RunsAt(vis, a, w), Within(P, a), Exec(P, a) \in Moves,
         NEW k, IF Exec(P, a) = "jump" THEN k = Append(jb, Next1(a)) ELSE k = <<>>
  PROVE  VisitsInOrder(P, w) /\ WalkingAt(P, w, Append(a, 1), k)
<1>1. /\ vis \in Seq(Visits) /\ a \in Paths /\ JumpsIn(P, a, jb) /\ ReachIn(P, RanOf(vis), a)
      /\ RanOf(vis) \in SUBSET Paths /\ \A r \in RanOf(vis) : Before(r, a)
  BY VisitTypes DEF VisitsInOrder, WalkingAt
<1>2. /\ VisitsInOrder(P, w) /\ PathsOf(w) = With(PathsOf(vis), a) /\ RanOf(w) = With(RanOf(vis), a)
      /\ \A p \in DueIn(P, RanOf(w), PathsOf(w)) : Before(a, p)
  <2>1. VisitsInOrder(P, w) /\ DueBehind(P, w, a) BY Come
  <2> QED BY <2>1 DEF DueBehind, RunsAt, ComesTo
<1>3. PICK b : b = Append(a, 1) OBVIOUS
<1>4. b \in Paths /\ Before(a, b) BY <1>1, <1>3, InIs, GoesOn
<1>5. \E c : Through(P, b, c)
  <2>1. PICK c : Through(P, a, c) BY DEF WalkingAt
  <2> QED BY <1>1, <1>3, <2>1, DeeperThrough
<1>6. ReachIn(P, RanOf(w), b) BY <1>1, <1>2, <1>3, ReachInto
<1>7. JumpsIn(P, b, k)
  <2>1. CASE Exec(P, a) = "jump" BY <1>1, <1>3, <2>1, JumpsDown
  <2>2. CASE Exec(P, a) # "jump"
    <3>1. Exec(P, a) = "goto" BY <2>2 DEF Moves
    <3> QED BY <1>1, <1>3, <2>2, <3>1, JumpsLeft
  <2> QED BY <2>1, <2>2
<1>8. ASSUME NEW p \in DueIn(P, RanOf(w), PathsOf(w)) PROVE p = b \/ Before(b, p)
  <2>1. p \in Paths /\ Before(a, p) BY <1>2 DEF DueIn
  <2> QED BY <1>1, <1>3, <2>1, LeavesOutInside
<1>9. WalkingAt(P, w, b, k) BY <1>2, <1>4, <1>5, <1>6, <1>7, <1>8, ComeOn
<1> QED BY <1>2, <1>3, <1>9

(* The end of a chain, or a return: T ran, w is what was come to, and what *)
(* is due is out of the chain.                                             *)
Leaves(P, vis, a, w) == (w = vis /\ ~Within(P, a)) \/ (RunsAt(vis, a, w) /\ Exec(P, a) = "return")
IsOutside(P, vis, a, w) ==
    /\ VisitsInOrder(P, w)
    /\ PathsOf(w) = PathsOf(vis) \/ PathsOf(w) = With(PathsOf(vis), a)
    /\ RanOf(w) = RanOf(vis) \/ (RanOf(w) = With(RanOf(vis), a) /\ Exec(P, a) = "return")
    /\ \A p \in DueIn(P, RanOf(w), PathsOf(w)) :
          /\ p \in Paths /\ OccursIn(P, p) /\ ReachIn(P, RanOf(w), p)
          /\ Before(a, p) /\ ~Inside(a, p) /\ ~Beside(a, p)
LEMMA DueOutside ==
  ASSUME NEW P, IsProgram(P), NEW vis, NEW a, NEW jb, VisitsInOrder(P, vis), WalkingAt(P, vis, a, jb),
         NEW w, Leaves(P, vis, a, w)
  PROVE  IsOutside(P, vis, a, w)
<1>1. a \in Paths /\ \A p \in DueIn(P, RanOf(vis), PathsOf(vis)) : p = a \/ Before(a, p) BY DEF WalkingAt
<1>2. CASE w = vis /\ ~Within(P, a)
  <2>0. ASSUME NEW p \in DueIn(P, RanOf(w), PathsOf(w))
        PROVE  /\ p \in Paths /\ OccursIn(P, p) /\ ReachIn(P, RanOf(w), p)
               /\ Before(a, p) /\ ~Inside(a, p) /\ ~Beside(a, p)
    <3>1. p \in Paths /\ OccursIn(P, p) /\ ReachIn(P, RanOf(w), p) BY DEF DueIn
    <3>2. p # a BY <1>2, <3>1 DEF OccursIn
    <3>3. Before(a, p) BY <1>1, <1>2, <3>2
    <3>4. ~Inside(a, p) BY <1>1, <1>2, <3>1, DueInside
    <3>5. PICK c : Through(P, a, c) BY DEF WalkingAt
    <3>6. ~Beside(a, p) BY <1>1, <1>2, <3>1, <3>3, <3>5, DueBeside
    <3> QED BY <3>1, <3>3, <3>4, <3>6
  <2>1. VisitsInOrder(P, w) /\ PathsOf(w) = PathsOf(vis) /\ RanOf(w) = RanOf(vis) BY <1>2
  <2> QED BY <2>0, <2>1 DEF IsOutside
<1>3. CASE RunsAt(vis, a, w) /\ Exec(P, a) = "return"
  <2>1. /\ VisitsInOrder(P, w) /\ PathsOf(w) = With(PathsOf(vis), a) /\ RanOf(w) = With(RanOf(vis), a)
        /\ \A p \in DueIn(P, RanOf(w), PathsOf(w)) : Before(a, p)
    <3>1. VisitsInOrder(P, w) /\ DueBehind(P, w, a) BY <1>3, Come
    <3> QED BY <1>3, <3>1 DEF DueBehind, RunsAt, ComesTo
  <2>2. ASSUME NEW p \in DueIn(P, RanOf(w), PathsOf(w))
        PROVE  /\ p \in Paths /\ OccursIn(P, p) /\ ReachIn(P, RanOf(w), p)
               /\ Before(a, p) /\ ~Inside(a, p) /\ ~Beside(a, p)
    <3>1. p \in Paths /\ OccursIn(P, p) /\ ReachIn(P, RanOf(w), p) /\ Before(a, p) BY <2>1 DEF DueIn
    <3>2. ~Inside(a, p)
      <4>1. Exec(P, a) \notin Moves BY <1>3 DEF Moves
      <4> QED BY <1>1, <3>1, <4>1, DueInside
    <3>3. ~Beside(a, p) BY <1>3, <2>1, <3>1, WithHas DEF ReachIn
    <3> QED BY <3>1, <3>2, <3>3
  <2> QED BY <1>3, <2>1, <2>2 DEF IsOutside
<1> QED BY <1>2, <1>3 DEF Leaves

LEMMA StepBack ==
  ASSUME NEW P, IsProgram(P), NEW vis, NEW a, NEW jb, VisitsInOrder(P, vis), WalkingAt(P, vis, a, jb),
         NEW w, Leaves(P, vis, a, w),
         jb # <<>>
  PROVE  VisitsInOrder(P, w) /\ WalkingAt(P, w, Last(jb), Front(jb))
<1>1. /\ vis \in Seq(Visits) /\ a \in Paths /\ JumpsIn(P, a, jb) /\ ReachIn(P, RanOf(vis), a)
      /\ RanOf(vis) \in SUBSET Paths /\ \A r \in RanOf(vis) : Before(r, a)
  BY VisitTypes DEF VisitsInOrder, WalkingAt
<1>2. /\ VisitsInOrder(P, w)
      /\ PathsOf(w) = PathsOf(vis) \/ PathsOf(w) = With(PathsOf(vis), a)
      /\ RanOf(w) = RanOf(vis) \/ (RanOf(w) = With(RanOf(vis), a) /\ Exec(P, a) = "return")
      /\ \A p \in DueIn(P, RanOf(w), PathsOf(w)) :
            /\ p \in Paths /\ OccursIn(P, p) /\ ReachIn(P, RanOf(w), p)
            /\ Before(a, p) /\ ~Inside(a, p) /\ ~Beside(a, p)
  <2>1. IsOutside(P, vis, a, w) BY DueOutside
  <2> QED BY <2>1 DEF IsOutside
<1>3. /\ Len(a) > 1 /\ Last(jb) = Next1(Cut(a)) /\ Exec(P, Cut(a)) = "jump"
      /\ JumpsIn(P, Last(jb), Front(jb))
  BY <1>1, JumpsUp
<1>4. PICK u, b, k : u = Cut(a) /\ b = Next1(u) /\ k = Front(jb) OBVIOUS
<1>5. b = Last(jb) BY <1>3, <1>4
<1>6. u \in Paths /\ Len(b) = Len(u) /\ Agree(u, b, Len(u) - 1) /\ b \in Paths /\ Before(a, b)
  BY <1>1, <1>3, <1>4, CutIs, Next1Is, GoesOn
<1>7. \E c : Through(P, b, c)
  <2>1. PICK c : Through(P, a, c) BY DEF WalkingAt
  <2>2. PICK d : Through(P, u, d) BY <1>1, <1>3, <1>4, <2>1, ShorterThrough
  <2>3. Through(P, b, d) BY <1>6, <2>2, SameChain
  <2> QED BY <2>3
<1>8. ReachIn(P, RanOf(w), b) BY <1>1, <1>2, <1>3, <1>4, ReachBack
<1>9. ASSUME NEW p \in DueIn(P, RanOf(w), PathsOf(w)) PROVE p = b \/ Before(b, p)
  <2>1. p \in Paths /\ Before(a, p) /\ ~Inside(a, p) /\ ~Beside(a, p) BY <1>2
  <2>2. Before(u, p) /\ ~Inside(u, p) BY <1>1, <1>4, <2>1, LeavesChain
  <2> QED BY <1>4, <1>6, <2>1, <2>2, LeavesOut
<1>10. JumpsIn(P, b, k) BY <1>3, <1>4, <1>5
<1>11. WalkingAt(P, w, b, k) BY <1>2, <1>6, <1>7, <1>8, <1>9, <1>10, ComeOn
<1> QED BY <1>2, <1>4, <1>5, <1>11

LEMMA StepOut ==
  ASSUME NEW P, IsProgram(P), NEW vis, NEW a, NEW jb, VisitsInOrder(P, vis), WalkingAt(P, vis, a, jb),
         NEW w, Leaves(P, vis, a, w),
         jb = <<>>, NEW f
  PROVE  VisitsInOrder(P, w) /\ WalkOver(P, w, f)
<1>1. a \in Paths /\ JumpsIn(P, a, jb) /\ ReachIn(P, RanOf(vis), a) BY DEF WalkingAt
<1>2. /\ VisitsInOrder(P, w)
      /\ RanOf(w) = RanOf(vis) \/ (RanOf(w) = With(RanOf(vis), a) /\ Exec(P, a) = "return")
      /\ \A p \in DueIn(P, RanOf(w), PathsOf(w)) :
            /\ p \in Paths /\ OccursIn(P, p) /\ ReachIn(P, RanOf(w), p)
            /\ Before(a, p) /\ ~Inside(a, p) /\ ~Beside(a, p)
  <2>1. IsOutside(P, vis, a, w) BY DueOutside
  <2> QED BY <2>1 DEF IsOutside
<1>3. Len(a) > 1 => Exec(P, Cut(a)) = "goto" /\ Cut(a) \in RanOf(w)
  <2> SUFFICES ASSUME Len(a) > 1 PROVE Exec(P, Cut(a)) = "goto" /\ Cut(a) \in RanOf(w) OBVIOUS
  <2>1. Len(jb) = 0 /\ Len(a) \in Nat BY <1>1, PathIs
  <2>2. Len(jb) < Len(a) - 1 /\ Len(a) - 1 - Len(jb) = Len(a) - 1 /\ Len(a) - 1 \in 1 .. Len(a) - 1 BY <2>1
  <2>3. Exec(P, Cut(a)) = "goto" BY <1>1, <2>2 DEF JumpsIn, Cut
  <2>4. Cut(a) \in RanOf(vis) BY <1>1, <2>2 DEF ReachIn, Cut
  <2> QED BY <1>2, <2>3, <2>4, WithHas
<1>4. ASSUME NEW p \in DueIn(P, RanOf(w), PathsOf(w)) PROVE FALSE BY <1>1, <1>2, <1>3, NoneDue
<1> QED BY <1>2, <1>4 DEF WalkOver

LEMMA StepStops ==
  ASSUME NEW P, NEW vis, NEW a, NEW jb, VisitsInOrder(P, vis), WalkingAt(P, vis, a, jb),
         NEW w, NEW f,
         \/ RunsAt(vis, a, w) /\ (f = TRUE \/ Exec(P, a) \in {"accept", "reject"} \cup Repliers)
         \/ SkipsAt(vis, a, w) /\ f = TRUE
  PROVE  VisitsInOrder(P, w) /\ WalkOver(P, w, f)
<1>1. a \in Paths /\ PathsOf(vis) \in SUBSET Paths /\ \A q \in PathsOf(vis) : Before(q, a)
  BY VisitTypes DEF VisitsInOrder, WalkingAt
<1>2. /\ VisitsInOrder(P, w) /\ PathsOf(w) = With(PathsOf(vis), a)
      /\ f = TRUE \/ (RanOf(w) = With(RanOf(vis), a) /\ Exec(P, a) \in {"accept", "reject"} \cup Repliers)
      /\ w[Len(w)].path = a /\ w # <<>>
      /\ \A p \in DueIn(P, RanOf(w), PathsOf(w)) : Before(a, p)
  <2>1. VisitsInOrder(P, w) /\ DueBehind(P, w, a) BY Come
  <2> QED BY <2>1 DEF DueBehind, RunsAt, SkipsAt, ComesTo
<1>3. ASSUME NEW p \in DueIn(P, RanOf(w), PathsOf(w))
      PROVE  StoppedEarly(P, w, f) /\ \A q \in PathsOf(w) : Before(q, p)
  <2>1. p \in Paths /\ ReachIn(P, RanOf(w), p) /\ Before(a, p) BY <1>2 DEF DueIn
  <2>2. f = TRUE \/ Exec(P, a) \in Repliers
    <3> SUFFICES ASSUME f # TRUE PROVE Exec(P, a) \in Repliers OBVIOUS
    <3>0. RanOf(w) = With(RanOf(vis), a) BY <1>2
    <3>1. a \in RanOf(w)
      <4>1. a \in With(RanOf(vis), a) BY WithHas
      <4> QED BY <3>0, <4>1
    <3>2. Exec(P, a) \notin {"accept", "reject"} BY <2>1, <3>1 DEF ReachIn
    <3> QED BY <1>2, <3>2
  <2>4. StoppedEarly(P, w, f) BY <1>2, <2>2 DEF StoppedEarly
  <2>5. \A q \in PathsOf(w) : q \in Paths /\ (q = a \/ Before(q, a)) BY <1>1, <1>2, WithHas
  <2>6. \A q \in PathsOf(w) : Before(q, p) BY <1>1, <2>1, <2>5, BeforeTrans
  <2> QED BY <2>4, <2>6
<1> QED BY <1>2, <1>3 DEF WalkOver

-----------------------------------------------------------------------------
(* The invariant of the walk, and that every action keeps it.               *)
WalkGood ==
    /\ program \in Programs /\ walk \in {"run", "unwind", "done"}
    /\ VisitsInOrder(program, visited)
    /\ walk = "run" => WalkingAt(program, visited, at, jumpBack)
    /\ walk # "run" => WalkOver(program, visited, failed)

LEMMA NodesAre == \A p : Node(p).x = Exec(program, p) /\ (InChain(p) <=> Within(program, p))
BY DEF Node, Exec, InChain, Within, ChainOf, ChainIn

LEMMA FirstVisits ==
  /\ <<>> \in Seq(Visits) /\ InOrder(<<>>) /\ PathsOf(<<>>) = {} /\ RanOf(<<>>) = {}
BY DEF InOrder, PathsOf, RanOf

LEMMA FirstNode ==
  /\ <<1>> \in Paths /\ Len(<<1>>) = 1 /\ <<>> \in Seq(Paths)
  /\ \A p \in Paths : p = <<1>> \/ Before(<<1>>, p)
<1>1. PICK a : a = <<1>> OBVIOUS
<1>2. a \in Paths /\ Len(a) = 1 /\ a[1] = 1 BY <1>1 DEF Paths
<1>3. ASSUME NEW p \in Paths, p # a PROVE Before(a, p)
  <2>1. Len(p) \in Nat /\ Len(p) >= 1 /\ p[1] \in Nat /\ p[1] >= 1
    <3>1. Len(p) \in Nat /\ Len(p) >= 1 /\ \A i \in 1 .. Len(p) : p[i] \in Nat /\ p[i] >= 1 BY PathIs
    <3> QED BY <3>1
  <2>2. CASE p[1] > 1
    <3>1. 1 \in 1 .. Len(a) /\ Differ(a, p, 1) BY <1>2, <2>1, <2>2 DEF Differ, Agree
    <3> QED BY <1>2, <3>1, BeforeIs
  <2>3. CASE p[1] = 1
    <3>1. Agree(a, p, 1) BY <1>2, <2>3 DEF Agree
    <3>2. Len(p) # 1 BY <1>2, <1>3, <3>1, SamePath
    <3>3. Inside(a, p) BY <1>2, <2>1, <3>1, <3>2 DEF Inside
    <3> QED BY <1>2, <3>3, BeforeIs
  <2> QED BY <2>1, <2>2, <2>3
<1> QED BY <1>1, <1>2, <1>3

LEMMA FirstThrough ==
  ASSUME NEW P, IsProgram(P)
  PROVE  \E c : Through(P, <<1>>, c)
<1>1. PICK a : a = <<1>> OBVIOUS
<1>2. Len(a) = 1 BY <1>1
<1> DEFINE c == [n \in 1 .. 1 |-> 1]
<1>3. c \in [1 .. 1 -> DOMAIN P] /\ c[1] = 1 BY DEF IsProgram
<1> HIDE DEF c
<1>4. Through(P, a, c) BY <1>2, <1>3 DEF Through
<1> QED BY <1>1, <1>4

LEMMA WalkStarts == ASSUME WalkInit PROVE WalkGood
<1>1. /\ program \in Programs /\ at = <<1>> /\ jumpBack = <<>> /\ visited = <<>> /\ walk = "run"
  BY DEF WalkInit
<1>2. IsProgram(program) BY <1>1, ProgramsAssumption
<1>3. PICK a, vis : a = <<1>> /\ vis = <<>> OBVIOUS
<1>4. /\ a \in Paths /\ Len(a) = 1 /\ \A p \in Paths : p = a \/ Before(a, p)
      /\ vis \in Seq(Visits) /\ InOrder(vis) /\ PathsOf(vis) = {} /\ RanOf(vis) = {}
      /\ \E c : Through(program, a, c)
  BY <1>2, <1>3, FirstNode, FirstVisits, FirstThrough
<1>5. VisitsInOrder(program, vis) BY <1>4 DEF VisitsInOrder
<1>6. JumpsIn(program, a, <<>>)
  <2>1. PICK k : k = <<>> OBVIOUS
  <2>2. k \in Seq(Paths) /\ Len(k) = 0 BY <2>1
  <2>3. JumpsIn(program, a, k) BY <2>2, <1>4 DEF JumpsIn
  <2> QED BY <2>1, <2>3
<1>7. WalkingAt(program, vis, a, <<>>)
  <2>1. ReachIn(program, {}, a) BY <1>4 DEF ReachIn
  <2> QED BY <2>1, <1>4, <1>6 DEF WalkingAt, DueIn
<1> QED BY <1>1, <1>3, <1>5, <1>7 DEF WalkGood

(* The shapes of a step. *)
LEMMA RunsIs ==
  ASSUME WalkGood, NEW x, Runs(x)
  PROVE  /\ program' = program /\ RunsAt(visited, at, visited') /\ Exec(program, at) = x
         /\ Within(program, at) /\ IsProgram(program)
         /\ VisitsInOrder(program, visited) /\ WalkingAt(program, visited, at, jumpBack)
<1>1. /\ program' = program /\ visited' = Append(visited, [path |-> at, ran |-> TRUE])
      /\ walk = "run" /\ InChain(at) /\ Node(at).x = x
  BY DEF Runs, Visit
<1>2. IsProgram(program) /\ VisitsInOrder(program, visited) /\ WalkingAt(program, visited, at, jumpBack)
  BY <1>1, ProgramsAssumption DEF WalkGood
<1>3. visited \in Seq(Visits) /\ at \in Paths BY <1>2 DEF VisitsInOrder, WalkingAt
<1>4. RunsAt(visited, at, Append(visited, [path |-> at, ran |-> TRUE])) BY <1>3, VisitMore
<1> QED BY <1>1, <1>2, <1>4, NodesAre

Leaving == {"accept", "reject", "return", "jump", "goto"}
LEMMA GoesOnRight ==
  ASSUME WalkGood, NEW x, x \notin Leaving, Runs(x), at' = Next1(at), jumpBack' = jumpBack, walk' = walk
  PROVE  WalkGood'
<1>1. /\ program' = program /\ RunsAt(visited, at, visited') /\ Exec(program, at) = x
      /\ VisitsInOrder(program, visited) /\ WalkingAt(program, visited, at, jumpBack)
  BY RunsIs
<1>2. GoesToNext(program, at) BY <1>1 DEF GoesToNext, Leaving
<1>3. VisitsInOrder(program, visited') /\ WalkingAt(program, visited', Next1(at), jumpBack)
  BY <1>1, <1>2, StepOn
<1>4. walk = "run" /\ program \in Programs BY DEF Runs, WalkGood
<1> QED BY <1>1, <1>3, <1>4 DEF WalkGood

LEMMA SkipRight == ASSUME WalkGood, Skip PROVE WalkGood'
<1>1. /\ program' = program /\ visited' = Append(visited, [path |-> at, ran |-> FALSE])
      /\ walk = "run" /\ walk' = walk /\ at' = Next1(at) /\ jumpBack' = jumpBack
  BY DEF Skip, Visit
<1>2. /\ VisitsInOrder(program, visited) /\ WalkingAt(program, visited, at, jumpBack)
      /\ program \in Programs
  BY <1>1 DEF WalkGood
<1>3. visited \in Seq(Visits) /\ at \in Paths BY <1>2 DEF VisitsInOrder, WalkingAt
<1>4. SkipsAt(visited, at, visited') BY <1>1, <1>3, VisitMore
<1>5. VisitsInOrder(program, visited') /\ WalkingAt(program, visited', Next1(at), jumpBack)
  BY <1>2, <1>4, StepOn
<1> QED BY <1>1, <1>2, <1>5 DEF WalkGood

LEMMA MatchFailsRight == ASSUME WalkGood, MatchFails PROVE WalkGood'
<1>1. /\ program' = program /\ visited' = Append(visited, [path |-> at, ran |-> FALSE])
      /\ walk = "run" /\ walk' = "unwind" /\ failed' = TRUE
  BY DEF MatchFails, Visit, Stop
<1>2. /\ VisitsInOrder(program, visited) /\ WalkingAt(program, visited, at, jumpBack)
      /\ program \in Programs
  BY <1>1 DEF WalkGood
<1>3. visited \in Seq(Visits) /\ at \in Paths BY <1>2 DEF VisitsInOrder, WalkingAt
<1>4. SkipsAt(visited, at, visited') BY <1>1, <1>3, VisitMore
<1>5. VisitsInOrder(program, visited') /\ WalkOver(program, visited', failed')
  BY <1>1, <1>2, <1>4, StepStops
<1> QED BY <1>1, <1>2, <1>5 DEF WalkGood

LEMMA StopsRight ==
  ASSUME WalkGood, NEW x, Runs(x), walk' = "unwind",
         failed' = TRUE \/ x \in {"accept", "reject"} \cup Repliers
  PROVE  WalkGood'
<1>1. /\ program' = program /\ RunsAt(visited, at, visited') /\ Exec(program, at) = x
      /\ VisitsInOrder(program, visited) /\ WalkingAt(program, visited, at, jumpBack)
  BY RunsIs
<1>2. VisitsInOrder(program, visited') /\ WalkOver(program, visited', failed') BY <1>1, StepStops
<1>3. program \in Programs BY DEF WalkGood
<1> QED BY <1>1, <1>2, <1>3 DEF WalkGood

LEMMA MovesRight ==
  ASSUME WalkGood, ActionJump \/ ActionGoto
  PROVE  WalkGood'
<1>1. PICK x \in Moves : /\ Runs(x) /\ at' = Append(at, 1) /\ walk' = walk
                         /\ IF x = "jump" THEN jumpBack' = Append(jumpBack, Next1(at)) ELSE jumpBack' = <<>>
  BY DEF ActionJump, ActionGoto, Moves
<1>2. /\ program' = program /\ RunsAt(visited, at, visited') /\ Exec(program, at) = x
      /\ Within(program, at) /\ IsProgram(program)
      /\ VisitsInOrder(program, visited) /\ WalkingAt(program, visited, at, jumpBack)
  BY <1>1, RunsIs
<1>3. VisitsInOrder(program, visited') /\ WalkingAt(program, visited', Append(at, 1), jumpBack')
  BY <1>1, <1>2, StepInto
<1>4. walk = "run" /\ program \in Programs BY <1>1 DEF Runs, WalkGood
<1> QED BY <1>1, <1>2, <1>3, <1>4 DEF WalkGood

LEMMA LeavesRight ==
  ASSUME WalkGood, EndOfChain \/ ActionReturn
  PROVE  WalkGood'
<1>1. JumpBack /\ program' = program /\ walk = "run" BY DEF EndOfChain, ActionReturn, Runs
<1>2. /\ IsProgram(program) /\ program \in Programs
      /\ VisitsInOrder(program, visited) /\ WalkingAt(program, visited, at, jumpBack)
  BY <1>1, ProgramsAssumption DEF WalkGood
<1>3. Leaves(program, visited, at, visited')
  <2>1. CASE EndOfChain
    <3>1. visited' = visited /\ ~InChain(at) BY <2>1 DEF EndOfChain
    <3> QED BY <3>1, NodesAre DEF Leaves
  <2>2. CASE ActionReturn
    <3>1. Runs("return") BY <2>2 DEF ActionReturn
    <3>2. RunsAt(visited, at, visited') /\ Exec(program, at) = "return" BY <3>1, RunsIs
    <3> QED BY <3>2 DEF Leaves
  <2> QED BY <2>1, <2>2
<1>4. CASE jumpBack # <<>>
  <2>1. at' = Last(jumpBack) /\ jumpBack' = Front(jumpBack) /\ walk' = walk BY <1>1, <1>4 DEF JumpBack
  <2>2. /\ VisitsInOrder(program, visited')
        /\ WalkingAt(program, visited', Last(jumpBack), Front(jumpBack))
    BY <1>2, <1>3, <1>4, StepBack
  <2> QED BY <1>1, <1>2, <2>1, <2>2 DEF WalkGood
<1>5. CASE jumpBack = <<>>
  <2>1. walk' = "unwind" BY <1>1, <1>5 DEF JumpBack, Stop
  <2>2. VisitsInOrder(program, visited') /\ WalkOver(program, visited', failed')
    BY <1>2, <1>3, <1>5, StepOut
  <2> QED BY <1>1, <1>2, <2>1, <2>2 DEF WalkGood
<1> QED BY <1>4, <1>5

LEMMA WalkStays ==
  ASSUME WalkGood, UNCHANGED <<program, visited, failed>>,
         walk' \in {"unwind", "done"}, walk # "run"
  PROVE  WalkGood'
BY DEF WalkGood

LEMMA WalkNextRight == ASSUME WalkGood, WalkNext PROVE WalkGood'
<1> DEFINE On(x) == Runs(x) /\ at' = Next1(at) /\ jumpBack' = jumpBack /\ walk' = walk
           Out(x) == Runs(x) /\ walk' = "unwind" /\ (failed' = TRUE \/ x \in {"accept", "reject"} \cup Repliers)
           Goers == {"forward", "aliapi", "fallback", "black_hole", "arbitrary", "hosts", "drop_resp", "ttl",
                     "cname_remover", "mark", "redirect", "ecs_handler", "forward_edns0opt",
                     "reverse_lookup", "rewrite", "prefer"}
<1> USE DEF GoOn, Stop, Wrap
<1>1. CASE Skip \/ MatchFails BY <1>1, SkipRight, MatchFailsRight
<1>2. CASE EndOfChain \/ ActionReturn BY <1>2, LeavesRight
<1>3. CASE ActionJump \/ ActionGoto BY <1>3, MovesRight
<1>4. CASE Unwind
  <2>1. UNCHANGED <<program, visited, failed>> /\ walk' = walk /\ walk = "unwind" BY <1>4 DEF Unwind
  <2> QED BY <2>1, WalkStays
<1>5. CASE Handle
  <2>1. UNCHANGED <<program, visited, failed>> /\ walk' = "done" /\ walk = "unwind" BY <1>5 DEF Handle
  <2> QED BY <2>1, WalkStays
<1>6. \A x \in Goers : On(x) => WalkGood'
  <2> SUFFICES ASSUME NEW x \in Goers, On(x) PROVE WalkGood' OBVIOUS
  <2>1. x \notin Leaving BY DEF Leaving
  <2> QED BY <2>1, GoesOnRight
<1>7. \A x : Out(x) => WalkGood' BY StopsRight
<1>8. CASE ActionAccept \/ ActionReject
  <2>1. \E x : Out(x) BY <1>8 DEF ActionAccept, ActionReject
  <2> QED BY <1>7, <2>1
<1>9. CASE Forward \/ AliAPI \/ FallbackExec
  <2>1. \E x \in Goers : Runs(x) /\ (On(x) \/ Out(x)) BY <1>9 DEF Forward, AliAPI, FallbackExec
  <2> QED BY <1>6, <1>7, <2>1
<1>10. CASE BlackHole \/ Arbitrary \/ Hosts \/ DropResp \/ TTL \/ CnameRemover \/ SetMark
  <2>1. \E x \in Goers : On(x)
    BY <1>10 DEF BlackHole, Arbitrary, Hosts, LocalReply, DropResp, TTL, CnameRemover, SetMark
  <2> QED BY <1>6, <2>1
<1>11. CASE Redirect \/ EcsHandler \/ EdnsForwarder
  <2>1. \E x \in Goers : On(x) BY <1>11 DEF Redirect, EcsHandler, EdnsForwarder
  <2> QED BY <1>6, <2>1
<1>12. CASE ReverseLookup \/ RewriteExec \/ SelectorExec
  <2>1. \E x \in Goers : On(x) \/ Out(x) BY <1>12 DEF ReverseLookup, RewriteExec, SelectorExec, Repliers
  <2> QED BY <1>6, <1>7, <2>1
<1> QED BY <1>1, <1>2, <1>3, <1>4, <1>5, <1>8, <1>9, <1>10, <1>11, <1>12 DEF WalkNext

LEMMA WalkStutters == ASSUME WalkGood, UNCHANGED walkVars PROVE WalkGood'
BY DEF WalkGood, walkVars

(* What the invariant is for. *)
LEMMA ReachableIs ==
  ASSUME NEW p \in Paths, VisitsInOrder(program, visited)
  PROVE  Reachable(p) <=> ReachIn(program, RanOf(visited), p)
<1>1. Ran = RanOf(visited) BY DEF Ran, RanOf
<1>2. \A r \in Ran : r \in Paths BY <1>1, VisitTypes DEF VisitsInOrder
<1>3. ASSUME NEW r \in Ran
      PROVE  /\ (Len(r) < Len(p) /\ SubSeq(p, 1, Len(r)) = r) <=> Inside(r, p)
             /\ (Len(r) <= Len(p) /\ Front(r) = SubSeq(p, 1, Len(r) - 1)) <=> Beside(r, p)
             /\ Node(r).x = Exec(program, r)
  <2>1. r \in Paths /\ Len(r) \in Nat /\ Len(r) >= 1 /\ Len(p) \in Nat /\ Front(r) = SubSeq(r, 1, Len(r) - 1)
    BY <1>2, PathIs
  <2>2. (Len(r) < Len(p) /\ SubSeq(p, 1, Len(r)) = r) <=> Inside(r, p)
    BY <2>1, WholePrefix DEF Inside
  <2>3. Len(r) <= Len(p) => (SubSeq(r, 1, Len(r) - 1) = SubSeq(p, 1, Len(r) - 1) <=> Agree(r, p, Len(r) - 1))
    <3> SUFFICES ASSUME Len(r) <= Len(p)
                 PROVE  SubSeq(r, 1, Len(r) - 1) = SubSeq(p, 1, Len(r) - 1) <=> Agree(r, p, Len(r) - 1)
      OBVIOUS
    <3>1. PICK n \in Nat : n = Len(r) - 1 BY <2>1
    <3>2. n <= Len(r) /\ n <= Len(p) BY <2>1, <3>1
    <3> QED BY <2>1, <3>1, <3>2, SamePrefix
  <2> QED BY <2>1, <2>2, <2>3, NodesAre DEF Beside
<1> QED BY <1>1, <1>3 DEF Reachable, ReachIn

(* Chains are numbered on: a path is through as many of them as it is long. *)
LEMMA OccursThrough ==
  ASSUME NEW P, IsProgram(P), NEW p \in Paths, OccursIn(P, p)
  PROVE  \A n \in 1 .. Len(p) : \E c : Through(P, SubSeq(p, 1, n), c) /\ c[n] >= n
<1>1. Len(p) \in Nat /\ Len(p) >= 1 BY PathIs
<1> DEFINE Deep(n) == \E c : Through(P, SubSeq(p, 1, n), c) /\ c[n] >= n
           S == {n \in Nat : n + 1 <= Len(p) => Deep(n + 1)}
<1>2. 0 \in S
  <2>1. PICK q : q = SubSeq(p, 1, 1) OBVIOUS
  <2>2. q \in Paths /\ Len(q) = 1
    <3>1. 1 \in 1 .. Len(p) BY <1>1
    <3> QED BY <2>1, <3>1, PrefixIs
  <2> DEFINE c == [n \in 1 .. 1 |-> 1]
  <2>3. c \in [1 .. 1 -> DOMAIN P] /\ c[1] = 1 BY DEF IsProgram
  <2> HIDE DEF c
  <2>4. Through(P, q, c) /\ c[1] >= 1 BY <2>2, <2>3 DEF Through
  <2>5. Deep(1) BY <2>1, <2>4
  <2> QED BY <2>5
<1>3. ASSUME NEW n \in Nat, n \in S PROVE n + 1 \in S
  <2> SUFFICES ASSUME (n + 1) + 1 <= Len(p) PROVE Deep((n + 1) + 1) OBVIOUS
  <2>1. PICK L : L = n + 1 OBVIOUS
  <2>2. L \in 1 .. Len(p) - 1 /\ L \in 1 .. Len(p) /\ L + 1 \in 1 .. Len(p) BY <1>1, <2>1
  <2>3. PICK q, r : q = SubSeq(p, 1, L) /\ r = SubSeq(p, 1, L + 1) OBVIOUS
  <2>4. /\ q \in Paths /\ Len(q) = L /\ r \in Paths /\ Len(r) = L + 1
        /\ \A i \in 1 .. L : q[i] = r[i]
    <3>1. q \in Paths /\ Len(q) = L /\ \A i \in 1 .. L : q[i] = p[i] BY <2>2, <2>3, PrefixIs
    <3>2. r \in Paths /\ Len(r) = L + 1 /\ \A i \in 1 .. L + 1 : r[i] = p[i] BY <2>2, <2>3, PrefixIs
    <3> QED BY <2>2, <3>1, <3>2
  <2>5. PICK c : Through(P, q, c) /\ c[L] >= L
    <3>1. Deep(n + 1) BY <1>1, <1>3, <2>1, <2>2
    <3> QED BY <2>1, <2>3, <3>1
  <2>6. Within(P, q) /\ Exec(P, q) \in Moves BY <2>2, <2>3 DEF OccursIn
  <2>7. ChainIn(P, q) = c[L] /\ Last(q) = q[L] /\ q[L] \in Nat /\ q[L] >= 1
    BY <2>2, <2>4, <2>5, ChainIs, PathIs
  <2>8. /\ c \in [1 .. L -> DOMAIN P] /\ c[1] = 1 /\ c[L] \in DOMAIN P
        /\ \A m \in 1 .. L - 1 : c[m + 1] = P[c[m]][q[m]].to
    BY <2>2, <2>4, <2>5 DEF Through
  <2>9. PICK t : t = P[c[L]][q[L]].to OBVIOUS
  <2>10. t \in c[L] + 1 .. Len(P) /\ t \in DOMAIN P /\ c[L] \in Nat
    <3>1. q[L] <= Len(P[c[L]]) /\ P[c[L]][q[L]].x \in Moves BY <2>6, <2>7 DEF Within, Exec
    <3>2. /\ Len(P) \in Nat /\ DOMAIN P = 1 .. Len(P)
          /\ Len(P[c[L]]) \in Nat /\ DOMAIN P[c[L]] = 1 .. Len(P[c[L]])
      BY <2>8 DEF IsProgram
    <3>3. q[L] \in DOMAIN P[c[L]] BY <2>7, <3>1, <3>2
    <3>4. t \in c[L] + 1 .. Len(P) BY <2>8, <2>9, <3>1, <3>3 DEF IsProgram
    <3> QED BY <2>8, <3>2, <3>4
  <2> DEFINE d == [m \in 1 .. L + 1 |-> IF m = L + 1 THEN t ELSE c[m]]
  <2>11. /\ d \in [1 .. L + 1 -> DOMAIN P] /\ d[1] = 1 /\ d[L + 1] = t
         /\ \A m \in 1 .. L : d[m] = c[m]
    BY <2>2, <2>8, <2>10
  <2> HIDE DEF d
  <2>12. ASSUME NEW m \in 1 .. (L + 1) - 1 PROVE d[m + 1] = P[d[m]][r[m]].to
    <3>1. CASE m = L BY <2>2, <2>4, <2>9, <2>11, <3>1
    <3>2. CASE m # L
      <4>1. m \in 1 .. L - 1 /\ m + 1 \in 1 .. L BY <2>2, <3>2
      <4> QED BY <2>4, <2>8, <2>11, <4>1
    <3> QED BY <3>1, <3>2
  <2>13. Through(P, r, d) BY <2>4, <2>11, <2>12 DEF Through
  <2>14. d[L + 1] >= L + 1 BY <2>2, <2>5, <2>10, <2>11
  <2>15. Deep(L + 1) BY <2>3, <2>13, <2>14
  <2> QED BY <2>1, <2>15
<1> HIDE DEF S
<1>4. Nat \subseteq S BY <1>2, <1>3, SetInduction
<1>5. ASSUME NEW n \in 1 .. Len(p) PROVE Deep(n)
  <2>1. n - 1 \in S /\ (n - 1) + 1 = n BY <1>1, <1>4
  <2> QED BY <1>1, <2>1 DEF S
<1> QED BY <1>5

(* Occurrences leaves no occurrence of a node out, however long the chains. *)
LEMMA OccurrencesAreAll ==
  ASSUME IsProgram(program)
  PROVE  Occurrences = {p \in Paths : OccursIn(program, p)}
<1> DEFINE steps == UNION {DOMAIN program[c] : c \in DOMAIN program}
<1>0. /\ Len(program) \in Nat /\ DOMAIN program = 1 .. Len(program)
      /\ \A c \in DOMAIN program : Len(program[c]) \in Nat /\ DOMAIN program[c] = 1 .. Len(program[c])
  BY DEF IsProgram
<1>s. steps \subseteq Nat \ {0} BY <1>0
<1> HIDE DEF steps
<1>o. \A p : p \in Occurrences <=>
        /\ \E n \in DOMAIN program : p \in [1 .. n -> steps]
        /\ \A n \in 1 .. Len(p) - 1 : InChain(SubSeq(p, 1, n)) /\ Node(SubSeq(p, 1, n)).x \in Moves
        /\ InChain(p)
  BY DEF Occurrences, steps
<1>1. ASSUME NEW p \in Occurrences PROVE p \in Paths /\ OccursIn(program, p)
  <2>1. PICK n \in DOMAIN program : p \in [1 .. n -> steps] BY <1>o
  <2>2. n \in Nat /\ n >= 1 BY <1>0, <2>1
  <2>3. p \in Seq(Nat \ {0}) /\ Len(p) = n
    <3>1. p \in Seq(steps) /\ Len(p) = n BY <2>1, <2>2
    <3>2. \A i \in 1 .. n : p[i] \in Nat \ {0} BY <1>s, <2>1
    <3> QED BY <3>1, <3>2
  <2>4. p \in Paths BY <2>2, <2>3 DEF Paths
  <2> QED BY <1>o, <2>4, NodesAre DEF OccursIn
<1>2. ASSUME NEW p \in Paths, OccursIn(program, p) PROVE p \in Occurrences
  <2>1. p \in Seq(Nat \ {0}) /\ Len(p) \in Nat /\ Len(p) >= 1 /\ DOMAIN p = 1 .. Len(p) BY PathIs
  <2>2. ASSUME NEW n \in 1 .. Len(p) PROVE n \in DOMAIN program /\ p[n] \in steps
    <3>1. PICK q : q = SubSeq(p, 1, n) OBVIOUS
    <3>2. q \in Paths /\ Len(q) = n /\ q[n] = p[n] /\ Last(q) = p[n] /\ p[n] \in Nat /\ p[n] >= 1
      <4>1. q \in Paths /\ Len(q) = n /\ q[n] = p[n] BY <3>1, PrefixIs
      <4> QED BY <2>1, <4>1, PathIs
    <3>3. PICK c : Through(program, q, c) /\ c[n] >= n
      <4>1. \E c : Through(program, SubSeq(p, 1, n), c) /\ c[n] >= n BY <1>2, OccursThrough
      <4> QED BY <3>1, <4>1
    <3>4. c[n] \in DOMAIN program /\ ChainIn(program, q) = c[n]
      <4>1. c \in [1 .. n -> DOMAIN program] BY <3>2, <3>3 DEF Through
      <4> QED BY <3>2, <3>3, <4>1, ChainIs
    <3>5. n \in DOMAIN program BY <1>0, <2>1, <3>3, <3>4
    <3>6. Within(program, q)
      <4>1. CASE n = Len(p)
        <5>1. q = p BY <3>1, <4>1, WholeIs
        <5>2. Within(program, p) BY <1>2 DEF OccursIn
        <5> QED BY <5>1, <5>2
      <4>2. CASE n # Len(p)
        <5>1. n \in 1 .. Len(p) - 1
          <6>1. PICK L : L = Len(p) OBVIOUS
          <6>2. L \in Nat /\ n \in 1 .. L /\ n # L BY <2>1, <4>2, <6>1
          <6> QED BY <6>1, <6>2
        <5>2. Within(program, SubSeq(p, 1, n)) BY <1>2, <5>1 DEF OccursIn
        <5> QED BY <3>1, <5>2
      <4> QED BY <4>1, <4>2
    <3>7. p[n] \in DOMAIN program[c[n]] BY <1>0, <3>2, <3>4, <3>6 DEF Within
    <3> QED BY <3>4, <3>5, <3>7 DEF steps
  <2>3. Len(p) \in DOMAIN program /\ p \in [1 .. Len(p) -> steps]
    <3>1. Len(p) \in 1 .. Len(p) BY <2>1
    <3> QED BY <2>1, <2>2, <3>1
  <2>4. /\ \A n \in 1 .. Len(p) - 1 : InChain(SubSeq(p, 1, n)) /\ Node(SubSeq(p, 1, n)).x \in Moves
        /\ InChain(p)
    BY <1>2, NodesAre DEF OccursIn
  <2> QED BY <1>o, <2>3, <2>4
<1> QED BY <1>1, <1>2

LEMMA GoodIsWritten == ASSUME WalkGood PROVE WalksAsWritten
<1>1. IsProgram(program) /\ VisitsInOrder(program, visited) /\ visited \in Seq(Visits)
  BY ProgramsAssumption DEF WalkGood, VisitsInOrder
<1>2. {visited[i].path : i \in DOMAIN visited} = PathsOf(visited) BY DEF PathsOf
<1>3. \A q \in PathsOf(visited) : q \in Paths BY <1>1, VisitTypes
<1>4. \A i, j \in DOMAIN visited : i < j => Before(visited[i].path, visited[j].path)
  BY <1>1 DEF VisitsInOrder, InOrder
<1>5. ASSUME NEW i \in DOMAIN visited PROVE Reachable(visited[i].path)
  <2>1. visited[i].path \in PathsOf(visited) BY DEF PathsOf
  <2> QED BY <1>1, <1>3, <2>1, ReachableIs DEF VisitsInOrder
<1>6. ASSUME NEW p \in Occurrences, p \notin PathsOf(visited), Reachable(p)
      PROVE  /\ walk = "run" \/ stoppedEarly
             /\ \A q \in PathsOf(visited) : Before(q, p)
  <2>1. p \in Paths /\ OccursIn(program, p) BY <1>1, OccurrencesAreAll
  <2>2. p \in DueIn(program, RanOf(visited), PathsOf(visited)) BY <1>1, <1>6, <2>1, ReachableIs DEF DueIn
  <2>3. CASE walk = "run"
    <3>1. WalkingAt(program, visited, at, jumpBack) BY <2>3 DEF WalkGood
    <3>2. at \in Paths /\ (p = at \/ Before(at, p)) /\ \A q \in PathsOf(visited) : Before(q, at)
      BY <2>2, <3>1 DEF WalkingAt
    <3> QED BY <1>3, <2>1, <2>3, <3>2, BeforeTrans
  <2>4. CASE walk # "run"
    <3>1. StoppedEarly(program, visited, failed) /\ \A q \in PathsOf(visited) : Before(q, p)
      BY <2>2, <2>4 DEF WalkGood, WalkOver
    <3>2. stoppedEarly
      <4>1. Last(visited) = visited[Len(visited)] BY DEF Last
      <4> QED BY <3>1, <4>1, NodesAre DEF StoppedEarly, stoppedEarly
    <3> QED BY <3>1, <3>2
  <2> QED BY <2>3, <2>4
<1> QED BY <1>2, <1>4, <1>5, <1>6 DEF WalksAsWritten

(* A query is walked as its program is written, for programs of any number  *)
(* and length of chains: every node it comes to, in the order written, was  *)
(* reachable, and a walk that is over and was not cut short by an error or  *)
(* a reply has left out no node that was (Occurrences has them all:         *)
(* OccurrencesAreAll).                                                      *)
THEOREM WalksAsWrittenCorrect == WalkSpec => []WalksAsWritten
<1>1. WalkInit => WalkGood BY WalkStarts
<1>2. WalkGood /\ [WalkNext]_walkVars => WalkGood' BY WalkNextRight, WalkStutters
<1>3. WalkGood => WalksAsWritten BY GoodIsWritten
<1> QED BY <1>1, <1>2, <1>3, PTL DEF WalkSpec
-----------------------------------------------------------------------------
(* Upstream, for any finite set of calls and any schemes.                   *)
Checking == {c \in UpCalls : worker[c] = "check"}

(* What a worker's channel and a call's result may hold.                    *)
Answers(c) == [of : {c}, id : {c, Nobody}, tc : BOOLEAN]
Whole(c) == [of |-> c, id |-> c, tc |-> FALSE]

AnswerInv ==
    /\ DOMAIN sent = UpCalls /\ DOMAIN out = UpCalls
    /\ \A c \in UpCalls : sent[c] \in Answers(c) \cup {Empty, Error}
    /\ \A c \in UpCalls : caller[c] = "done" => out[c] \in {Whole(c), Error}

(* A caller and its worker take turns: a worker that has sent has ended,    *)
(* and one that has dialed for a caller waits until the query is written.   *)
TurnInv ==
    \A c \in UpCalls :
        /\ sent[c] # Empty => worker[c] \in {"left", "end"}
        /\ caller[c] = "write" => worker[c] = "dialed"

-----------------------------------------------------------------------------
(* Types                                                                    *)

LEMMA UpTypeInit == ASSUME UpInit PROVE UpTypeOK
BY DEF UpInit, UpTypeOK

LEMMA UpTypeStep == ASSUME UpTypeOK, [UpNext]_upVars PROVE UpTypeOK'
<1> USE DEF UpTypeOK, Works, WorkerSends, UpReturn, boot
<1>1. CASE UpdaterStep \/ UpdateIsDue
  BY <1>1 DEF UpdaterStep, UpdateAddr, SetNextUpdate, EndUpdate, UpdateIsDue
<1>2. ASSUME NEW c \in UpCalls, WorkerStep(c) PROVE UpTypeOK'
  BY <1>2 DEF WorkerStep, TryUpdate, CheckDue, AddrReady, WorkerFails, AfterTimeout, LeftDialEnds, Dialed,
     RoundTrip, ReadStream, DialedForNobody
<1>3. ASSUME NEW c \in UpCalls, UpCallerStep(c) PROVE UpTypeOK'
  <2>1. CASE UpAnswered(c) BY <2>1 DEF UpAnswered
  <2>2. CASE GivesUp(c) BY <2>2 DEF GivesUp
  <2>3. CASE ReserveNewQuery(c) BY <2>3 DEF ReserveNewQuery
  <2>4. CASE WriteQuery(c)
    <3>1. stream' \in [UpCalls -> SUBSET {"read", "write"}]
      <4>1. \E S \in {{}, {"read"}} : stream' = [stream EXCEPT ![c] = S]
        BY <2>4 DEF WriteQuery, WriteFailed
      <4>2. QED BY <4>1
    <3>2. caller' \in [UpCalls -> {"exchange", "write", "read", "tcp", "done"}]
      BY <2>4 DEF WriteQuery
    <3>3. worker' \in [UpCalls -> {"tryUpdate", "check", "wait", "dial", "dialed",
                                  "roundTrip", "read", "left", "end"}]
      BY <2>4 DEF WriteQuery
    <3>4. QED BY <2>4, <3>1, <3>2, <3>3 DEF WriteQuery
  <2>5. QED BY <1>3, <2>1, <2>2, <2>3, <2>4 DEF UpCallerStep
<1>4. ASSUME NEW c \in UpCalls, CtxOver(c) PROVE UpTypeOK'
  BY <1>4 DEF CtxOver
<1>5. CASE UNCHANGED upVars BY <1>5 DEF upVars
<1>6. QED BY <1>1, <1>2, <1>3, <1>4, <1>5 DEF UpNext

(* Type correctness.                                                        *)
THEOREM UpTypeCorrect == UpSpec => []UpTypeOK
<1>1. UpInit => UpTypeOK BY UpTypeInit
<1>2. UpTypeOK /\ [UpNext]_upVars => UpTypeOK' BY UpTypeStep
<1>3. QED BY <1>1, <1>2, PTL DEF UpSpec

-----------------------------------------------------------------------------
(* The turns of callers and workers                                         *)

LEMMA TurnStep ==
  ASSUME UpTypeOK, AnswerInv, TurnInv, [UpNext]_upVars PROVE TurnInv'
<1> USE DEF UpTypeOK, AnswerInv, Works, WorkerSends, UpReturn, TurnInv
<1>1. CASE UpdaterStep \/ UpdateIsDue
  BY <1>1 DEF UpdaterStep, UpdateAddr, SetNextUpdate, EndUpdate, UpdateIsDue
<1>2. ASSUME NEW c \in UpCalls, WorkerStep(c) PROVE TurnInv'
  <2>1. CASE TryUpdate(c) \/ CheckDue(c) \/ AddrReady(c)
    BY <2>1 DEF TryUpdate, CheckDue, AddrReady
  <2>2. CASE WorkerFails(c)
    <3>1. AfterTimeout(c) \in {"left", "end"} BY DEF AfterTimeout
    <3> QED BY <2>2, <3>1 DEF WorkerFails
  <2>3. CASE LeftDialEnds(c) BY <2>3 DEF LeftDialEnds
  <2>4. CASE Dialed(c) \/ RoundTrip(c) BY <2>4 DEF Dialed, RoundTrip
  <2>5. CASE ReadStream(c) \/ DialedForNobody(c) BY <2>5 DEF ReadStream, DialedForNobody
  <2> QED BY <1>2, <2>1, <2>2, <2>3, <2>4, <2>5 DEF WorkerStep
<1>3. ASSUME NEW c \in UpCalls, UpCallerStep(c) PROVE TurnInv'
  BY <1>3 DEF UpCallerStep, UpAnswered, GivesUp, ReserveNewQuery, WriteQuery
<1>4. ASSUME NEW c \in UpCalls, CtxOver(c) PROVE TurnInv'
  BY <1>4 DEF CtxOver
<1>5. CASE UNCHANGED upVars BY <1>5 DEF upVars
<1>6. QED BY <1>1, <1>2, <1>3, <1>4, <1>5 DEF UpNext

(* What workers send and callers return.                                    *)
LEMMA AnswerStep ==
  ASSUME UpTypeOK, AnswerInv, [UpNext]_upVars PROVE AnswerInv'
<1> USE DEF UpTypeOK, Works, WorkerSends, UpReturn, AnswerInv
<1>1. CASE UpdaterStep \/ UpdateIsDue
  BY <1>1 DEF UpdaterStep, UpdateAddr, SetNextUpdate, EndUpdate, UpdateIsDue
<1>2. ASSUME NEW c \in UpCalls, WorkerStep(c) PROVE AnswerInv'
  <2>1. UNCHANGED <<caller, out>>
    BY <1>2 DEF WorkerStep, TryUpdate, CheckDue, AddrReady, WorkerFails, AfterTimeout, LeftDialEnds, Dialed,
       RoundTrip, ReadStream, DialedForNobody
  <2>2. sent' = sent \/ \E r \in Answers(c) \cup {Error} : sent' = [sent EXCEPT ![c] = r]
    <3>1. CASE RoundTrip(c)
      <4>1. PICK tc \in BOOLEAN :
              sent' = [sent EXCEPT ![c] = [of |-> c, id |-> WireId(c), tc |-> tc]]
        BY <3>1 DEF RoundTrip
      <4>2. [of |-> c, id |-> WireId(c), tc |-> tc] \in Answers(c)
        BY DEF WireId, Answers
      <4>3. QED BY <4>1, <4>2
    <3>2. CASE ReadStream(c)
      <4>1. [of |-> c, id |-> Nobody, tc |-> FALSE] \in Answers(c) BY DEF Answers
      <4>2. QED BY <3>2, <4>1 DEF ReadStream
    <3>3. CASE ~RoundTrip(c) /\ ~ReadStream(c)
      BY <1>2, <3>3 DEF WorkerStep, TryUpdate, CheckDue, AddrReady, WorkerFails, AfterTimeout, LeftDialEnds, Dialed,
         DialedForNobody
    <3>4. QED BY <3>1, <3>2, <3>3
  <2>3. QED BY <2>1, <2>2
<1>3. ASSUME NEW c \in UpCalls, UpCallerStep(c) PROVE AnswerInv'
  <2>1. sent' = sent \/ sent' = [sent EXCEPT ![c] = Empty]
    BY <1>3 DEF UpCallerStep, UpAnswered, GivesUp, ReserveNewQuery, WriteQuery
  <2>2. \/ out' = out /\ \E l \in {"tcp", "write", "read"} : caller' = [caller EXCEPT ![c] = l]
        \/ \E r \in {Whole(c), Error} :
              out' = [out EXCEPT ![c] = r] /\ caller' = [caller EXCEPT ![c] = "done"]
    <3>1. CASE UpAnswered(c)
      <4>1. CASE msgTruncated(sent[c]) BY <3>1, <4>1 DEF UpAnswered
      <4>2. CASE ~msgTruncated(sent[c])
        <5>1. sent[c] \in Answers(c) \cup {Error} /\ ~sent[c].tc
          BY <3>1, <4>2 DEF UpAnswered, msgTruncated
        <5>2. CASE sent[c] = Error
          <6>1. Error.id # Nobody BY DEF Error, Nobody
          <6>2. RestoreId(c, sent[c]) = Error BY <5>2, <6>1 DEF RestoreId
          <6>3. QED BY <3>1, <4>2, <6>2 DEF UpAnswered
        <5>3. CASE sent[c] \in Answers(c)
          <6>1. /\ sent[c] = [of |-> sent[c].of, id |-> sent[c].id, tc |-> sent[c].tc]
                /\ sent[c].of = c /\ sent[c].id \in {c, Nobody} /\ sent[c].tc = FALSE
            BY <5>1, <5>3 DEF Answers
          <6>2. RestoreId(c, sent[c]) = Whole(c)
            BY <6>1 DEF RestoreId, Whole
          <6>3. QED BY <3>1, <4>2, <6>2 DEF UpAnswered
        <5>4. QED BY <5>1, <5>2, <5>3
      <4>3. QED BY <4>1, <4>2
    <3>2. CASE GivesUp(c) BY <3>2 DEF GivesUp
    <3>3. CASE ReserveNewQuery(c) BY <3>3 DEF ReserveNewQuery
    <3>4. CASE WriteQuery(c) BY <3>4 DEF WriteQuery
    <3>5. QED BY <1>3, <3>1, <3>2, <3>3, <3>4 DEF UpCallerStep
  <2>3. QED BY <2>1, <2>2
<1>4. ASSUME NEW c \in UpCalls, CtxOver(c) PROVE AnswerInv'
  BY <1>4 DEF CtxOver
<1>5. CASE UNCHANGED upVars BY <1>5 DEF upVars
<1>6. QED BY <1>1, <1>2, <1>3, <1>4, <1>5 DEF UpNext

LEMMA AnswerInit == ASSUME UpInit PROVE AnswerInv /\ TurnInv
<1>1. /\ sent = [c \in UpCalls |-> Empty]
      /\ caller = [c \in UpCalls |-> IF up = Refused THEN "done" ELSE "exchange"]
      /\ out = [c \in UpCalls |-> IF up = Refused THEN Error ELSE Empty]
  BY DEF UpInit
<1>2. QED BY <1>1 DEF AnswerInv, TurnInv

LEMMA AnswersInvariant == UpSpec => [](UpTypeOK /\ AnswerInv /\ TurnInv)
<1>1. UpInit => UpTypeOK /\ AnswerInv /\ TurnInv BY UpTypeInit, AnswerInit
<1>2. UpTypeOK /\ AnswerInv /\ TurnInv /\ [UpNext]_upVars
        => (UpTypeOK /\ AnswerInv /\ TurnInv)'
  BY UpTypeStep, AnswerStep, TurnStep
<1>3. QED BY <1>1, <1>2, PTL DEF UpSpec

(* A call returns the reply to its own query, with its own id and whole, or *)
(* an error: over every transport, for every order of worker and caller.    *)
THEOREM WholeReplyCorrect == UpSpec => []WholeReply
<1>1. AnswerInv => WholeReply BY DEF AnswerInv, WholeReply, Whole
<1>2. QED BY <1>1, AnswersInvariant, PTL

-----------------------------------------------------------------------------
(* The lock of Bootstrap                                                    *)

Lock == IF updating THEN 1 ELSE 0
Running == IF updater = "idle" THEN 0 ELSE 1

LEMMA CheckingFinite == IsFiniteSet(Checking) /\ Cardinality(Checking) \in Nat
BY UpCallsAssumption, FS_Subset, FS_CardinalityType DEF Checking

LEMMA OneUpdaterMeans ==
  OneUpdater <=> /\ Cardinality(Checking) + Running = Lock
                 /\ updater \in {"resolve", "failed", "stored"} => due
BY DEF OneUpdater, Checking, Running, Lock

(* A goroutine that checks holds the lock, and no update runs.              *)
LEMMA CheckerAlone ==
  ASSUME OneUpdater, NEW c \in UpCalls, worker[c] = "check"
  PROVE  Lock = 1 /\ updater = "idle" /\ Cardinality(Checking) = 1
<1>1. Checking # {} BY DEF Checking
<1>2. Cardinality(Checking) # 0 BY <1>1, CheckingFinite, FS_EmptySet
<1>3. Cardinality(Checking) + Running = Lock BY OneUpdaterMeans
<1>4. Lock \in {0, 1} BY DEF Lock
<1>5. QED BY <1>2, <1>3, <1>4, CheckingFinite DEF Running

(* A step that moves no goroutine into or out of the check, and leaves the  *)
(* lock and the update alone.                                               *)
LEMMA SameUpdater ==
  ASSUME OneUpdater, updating' = updating, updater' = updater, due => due',
         \A c \in UpCalls : worker'[c] = "check" <=> worker[c] = "check"
  PROVE  OneUpdater'
<1>1. Checking' = Checking BY DEF Checking
<1>2. QED BY <1>1 DEF OneUpdater, Checking

LEMMA OneUpdaterStep ==
  ASSUME UpTypeOK, AnswerInv, TurnInv, OneUpdater, [UpNext]_upVars PROVE OneUpdater'
<1> USE DEF Works, WorkerSends, UpReturn
<1>0. /\ Cardinality(Checking) + Running = Lock
      /\ updater \in {"resolve", "failed", "stored"} => due
  BY OneUpdaterMeans
<1>1. OneUpdater' <=> /\ Cardinality(Checking') + Running' = Lock'
                      /\ updater' \in {"resolve", "failed", "stored"} => due'
  BY OneUpdaterMeans DEF OneUpdater, Checking, Running, Lock
<1>2. ASSUME NEW c \in UpCalls, TryUpdate(c), ~updating PROVE OneUpdater'
  <2>1. Checking' = Checking \cup {c} /\ c \notin Checking
    BY <1>2 DEF TryUpdate, Swaps, Checking, UpTypeOK
  <2>2. Cardinality(Checking') = Cardinality(Checking) + 1
    BY <2>1, CheckingFinite, FS_AddElement
  <2>3. updater' = updater /\ due' = due /\ Running' = Running
    BY <1>2 DEF TryUpdate, Running
  <2>4. Lock = 0 /\ Lock' = 1 BY <1>2 DEF Lock, TryUpdate
  <2>5. Running \in Nat BY DEF Running
  <2>6. QED BY <1>0, <1>1, <2>2, <2>3, <2>4, <2>5, CheckingFinite
<1>3. ASSUME NEW c \in UpCalls, TryUpdate(c), updating PROVE OneUpdater'
  <2>1. \A d \in UpCalls : worker'[d] = "check" <=> worker[d] = "check"
    BY <1>3 DEF TryUpdate, Swaps, UpTypeOK
  <2>2. updating' = updating /\ UNCHANGED <<updater, due>>
    BY <1>3 DEF TryUpdate, UpTypeOK
  <2>3. QED BY <2>1, <2>2, SameUpdater
<1>4. ASSUME NEW c \in UpCalls, CheckDue(c) PROVE OneUpdater'
  <2>1. Checking' = Checking \ {c} /\ c \in Checking
    BY <1>4 DEF CheckDue, Checking, UpTypeOK
  <2>2. Cardinality(Checking') = Cardinality(Checking) - 1
    BY <2>1, CheckingFinite, FS_RemoveElement
  <2>3. Lock = 1 /\ updater = "idle" /\ Cardinality(Checking) = 1
    BY <1>4, CheckerAlone DEF CheckDue
  <2>4. CASE due
    <3>1. updater' = "resolve" /\ updating' = updating /\ due' = due
      BY <1>4, <2>4 DEF CheckDue
    <3>2. Running' = 1 /\ Lock' = Lock BY <3>1 DEF Running, Lock
    <3>3. QED BY <1>1, <2>2, <2>3, <2>4, <3>1, <3>2
  <2>5. CASE ~due
    <3>1. updater' = updater /\ updating' = FALSE BY <1>4, <2>5 DEF CheckDue
    <3>2. Running' = 0 /\ Lock' = 0 BY <2>3, <3>1 DEF Running, Lock
    <3>3. QED BY <1>1, <2>2, <2>3, <3>1, <3>2
  <2>6. QED BY <2>4, <2>5
<1>5. ASSUME UpdaterStep PROVE OneUpdater'
  <2>1. Checking' = Checking
    BY <1>5 DEF UpdaterStep, UpdateAddr, SetNextUpdate, EndUpdate, Checking
  <2>2. CASE UpdateAddr \/ SetNextUpdate
    <3>1. updater # "idle" /\ updater' # "idle" /\ updating' = updating
      BY <2>2 DEF UpdateAddr, SetNextUpdate
    <3>2. updater' \in {"resolve", "failed", "stored"} => due'
      BY <2>2, <1>0 DEF UpdateAddr, SetNextUpdate
    <3>3. Running' = Running /\ Lock' = Lock BY <3>1 DEF Running, Lock
    <3>4. QED BY <1>0, <1>1, <2>1, <3>2, <3>3
  <2>3. CASE EndUpdate
    <3>1. updater # "idle" /\ updater' = "idle" /\ updating' = FALSE
      BY <2>3 DEF EndUpdate
    <3>2. Running = 1 /\ Running' = 0 /\ Lock' = 0 /\ Lock \in {0, 1}
      BY <3>1 DEF Running, Lock
    <3>3. Cardinality(Checking) = 0 BY <1>0, <3>2, CheckingFinite
    <3>4. QED BY <1>1, <2>1, <3>1, <3>2, <3>3
  <2>4. QED BY <1>5, <2>2, <2>3 DEF UpdaterStep
<1>6. ASSUME NEW c \in UpCalls, WorkerStep(c), ~TryUpdate(c), ~CheckDue(c) PROVE OneUpdater'
  <2>1. UNCHANGED <<updating, updater, due>>
    BY <1>6 DEF WorkerStep, AddrReady, WorkerFails, AfterTimeout, LeftDialEnds, Dialed, RoundTrip, ReadStream,
       DialedForNobody, boot
  <2>2. \A d \in UpCalls : worker'[d] = "check" <=> worker[d] = "check"
    BY <1>6 DEF WorkerStep, AddrReady, WorkerFails, AfterTimeout, LeftDialEnds, Dialed, RoundTrip, ReadStream,
       DialedForNobody, UpTypeOK
  <2>3. QED BY <2>1, <2>2, SameUpdater
<1>7. ASSUME NEW c \in UpCalls, UpCallerStep(c) \/ CtxOver(c) PROVE OneUpdater'
  <2>1. UNCHANGED <<updating, updater, due>>
    BY <1>7 DEF UpCallerStep, UpAnswered, GivesUp, ReserveNewQuery, WriteQuery, CtxOver, boot
  <2>2. \/ worker' = worker
        \/ worker[c] # "check" /\ \E l \in {"end", "dial", "read"} : worker' = [worker EXCEPT ![c] = l]
    BY <1>7 DEF UpCallerStep, UpAnswered, GivesUp, ReserveNewQuery, WriteQuery, CtxOver,
       TurnInv
  <2>3. \A d \in UpCalls : worker'[d] = "check" <=> worker[d] = "check"
    BY <2>2 DEF UpTypeOK
  <2>4. QED BY <2>1, <2>3, SameUpdater
<1>8. CASE UpdateIsDue
  BY <1>8, SameUpdater DEF UpdateIsDue
<1>9. CASE UNCHANGED upVars
  BY <1>9, SameUpdater DEF upVars, boot
<1>10. QED BY <1>2, <1>3, <1>4, <1>5, <1>6, <1>7, <1>8, <1>9 DEF UpNext

LEMMA OneUpdaterInit == ASSUME UpInit PROVE OneUpdater
<1>1. Checking = {} BY DEF UpInit, Checking
<1>2. Cardinality(Checking) = 0 BY <1>1, FS_EmptySet
<1>3. Running = 0 /\ Lock = 0 BY DEF UpInit, Running, Lock
<1>4. updater = "idle" BY DEF UpInit
<1>5. QED BY <1>2, <1>3, <1>4, OneUpdaterMeans

(* nextUpdate is in the hands of one goroutine at a time, and an update     *)
(* runs only when one is due.                                               *)
THEOREM OneUpdaterCorrect == UpSpec => []OneUpdater
<1>1. UpInit => OneUpdater BY OneUpdaterInit
<1>2. UpTypeOK /\ AnswerInv /\ TurnInv /\ OneUpdater /\ [UpNext]_upVars => OneUpdater'
  BY OneUpdaterStep
<1>3. QED BY <1>1, <1>2, AnswersInvariant, PTL DEF UpSpec

-----------------------------------------------------------------------------
(* TraditionalConn, for any finite set of callers, any number of qids and   *)
(* any limit.  None of the properties is inductive: the qids need the       *)
(* history of the numbers they were made from, and the count of             *)
(* reservations bounds the queue.                                           *)
(* A call has no qid before addQueueC gives it one; the qid is the number   *)
(* taken from nextQid, and no number is taken twice.                        *)
StampInv ==
    /\ \A c \in Calls :
          pc[c] \in {"new", "reserve", "reserved", "add"} => qid[c] = -1
    /\ \A c \in Calls : qid[c] \in Qids =>
          /\ stamp[c] \in Nat /\ stamp[c] < issued
          /\ qid[c] = stamp[c] % NumQids
    /\ \A c, d \in Calls :
          qid[c] \in Qids /\ qid[d] \in Qids /\ stamp[c] = stamp[d] => c = d

(* Of the calls a qid was given to, the one in the queue is the last.       *)
LatestInv ==
    \A c, d \in Calls : InQueue(c) /\ qid[d] = qid[c] => stamp[d] <= stamp[c]

(* Replies are to calls that were sent; the read loop hands one to a call   *)
(* that has the same qid and got it at the same time or later.              *)
SameQid(a, c) ==
    /\ qid[a] \in Qids /\ qid[a] = qid[c]
    /\ stamp[a] <= stamp[c]

ReplyInv ==
    /\ \A c \in inflight : qid[c] \in Qids
    /\ loop \in {"lookup", "send"} => msg \in Calls /\ qid[msg] \in Qids
    /\ loop = "send" /\ target # NoCall => SameQid(msg, target)
    /\ \A c \in Calls : reply[c] # NoReply => reply[c] \in Calls /\ SameQid(reply[c], c)

(* The limit holds for the reservations.                                    *)
LimitInv == reserved <= maxCq

IInv == TypeOK /\ ReservedExact /\ QidOwned /\ StampInv /\ LatestInv /\ ReplyInv /\ LimitInv

-----------------------------------------------------------------------------
(* Two numbers with one remainder are a whole round of qids apart.          *)
LEMMA SameRemainder ==
  ASSUME NEW n \in Nat \ {0}, NEW a \in Nat, NEW b \in Nat, a % n = b % n, a < b
  PROVE  b - a >= n
OBVIOUS

LEMMA NthType ==
  ASSUME TypeOK, NEW i \in Nat PROVE Nth(i) \in Qids
BY QidAssumption DEF Nth, Qids, TypeOK

LEMMA ReservingFinite == IsFiniteSet({c \in Calls : Reserving(c)})
BY CallsAssumption, FS_Subset

(* The queue's length is a number.                                          *)
LEMMA QueueLenType == QueueLen \in Nat
<1>1. IsFiniteSet(Qids)
  BY QidAssumption, FS_Interval DEF Qids
<1>2. {i \in Qids : queue[i] # NoCall} \in SUBSET Qids OBVIOUS
<1>3. QED BY <1>1, <1>2, FS_Subset, FS_CardinalityType DEF QueueLen

-----------------------------------------------------------------------------
(* The count of the reservations follows every step.                        *)

(* A step after which the same calls hold a reservation.                    *)
LEMMA SameReserving ==
  ASSUME ReservedExact, reserved' = reserved,
         \A c \in Calls : Reserving(c)' <=> Reserving(c)
  PROVE  ReservedExact'
<1>1. {c \in Calls : Reserving(c)}' = {c \in Calls : Reserving(c)} OBVIOUS
<1>2. QED BY <1>1 DEF ReservedExact

LEMMA CountStep ==
  ASSUME TypeOK, ReservedExact, LimitInv, [Next]_vars
  PROVE  ReservedExact' /\ LimitInv' /\ reserved' \in Nat
<1> DEFINE R == {c \in Calls : Reserving(c)}
<1> USE DEF Goto
<1>1. ASSUME NEW c \in Calls, Reserve(c) PROVE ReservedExact' /\ LimitInv' /\ reserved' \in Nat
  <2>1. c \notin R /\ R' = R \cup {c}
    BY <1>1 DEF Reserve, Reserving, InQueue, TypeOK
  <2>2. Cardinality(R') = Cardinality(R) + 1
    BY <2>1, ReservingFinite, FS_AddElement
  <2>3. reserved' <= maxCq
    <3>1. QueueLen + reserved < maxCq BY <1>1 DEF Reserve, HasRoom
    <3>2. reserved + 1 <= maxCq
      BY <3>1, QueueLenType, CqAssumption DEF TypeOK
    <3>3. QED BY <1>1, <3>2 DEF Reserve
  <2>4. reserved' = Cardinality(R') BY <1>1, <2>2 DEF Reserve, ReservedExact
  <2>5. maxCq' = maxCq BY <1>1 DEF Reserve, connVars
  <2>6. QED BY <1>1, <2>3, <2>4, <2>5 DEF ReservedExact, LimitInv, TypeOK, Reserve
<1>2. ASSUME NEW c \in Calls, Withdraw(c) PROVE ReservedExact' /\ LimitInv' /\ reserved' \in Nat
  <2>1. c \in R /\ R' = R \ {c}
    BY <1>2 DEF Withdraw, Reserving, InQueue, TypeOK
  <2>2. Cardinality(R') = Cardinality(R) - 1
    BY <2>1, ReservingFinite, FS_RemoveElement
  <2>3. IsFiniteSet(R') BY <2>1, ReservingFinite, FS_RemoveElement
  <2>4. Cardinality(R') \in Nat BY <2>3, FS_CardinalityType
  <2>5. reserved' = Cardinality(R') BY <1>2, <2>2 DEF Withdraw, Withdrawn, ReservedExact
  <2>6. maxCq' = maxCq BY <1>2 DEF Withdraw, connVars
  <2>7. reserved' <= maxCq
    BY <1>2, CqAssumption DEF Withdraw, Withdrawn, LimitInv, TypeOK
  <2>8. QED BY <2>4, <2>5, <2>6, <2>7 DEF ReservedExact, LimitInv
<1>3. ASSUME NEW c \in Calls, CallStep(c) \/ Tick(c) \/ Cancel(c) \/ ReadReply(c),
             ~Reserve(c), ~Withdraw(c)
      PROVE  ReservedExact' /\ LimitInv' /\ reserved' \in Nat
  <2>1. reserved' = reserved /\ maxCq' = maxCq
    BY <1>3 DEF CallStep, CheckClosed, Refuse, GiveUp, BeginExchange, AddQueue,
       AddQueueFails, WriteOk, WriteFails, WaitFails, Unqueue, CallCloses, EnterOnce,
       CallClosed, Tick, Cancel, ReadReply, countVars, connVars
  <2>2. \A d \in Calls : Reserving(d)' <=> Reserving(d)
    BY <1>3 DEF CallStep, CheckClosed, Refuse, GiveUp, BeginExchange, AddQueue,
       AddQueueFails, WriteOk, WriteFails, WaitFails, Unqueue, CallCloses,
       CallClosed, Tick, Cancel, ReadReply, callVars, Reserving, InQueue, TypeOK
  <2>3. QED BY <2>1, <2>2, SameReserving DEF LimitInv, TypeOK
<1>4. ASSUME LoopStep \/ ReadFails \/ Close \/ Notify \/ UNCHANGED vars
      PROVE  ReservedExact' /\ LimitInv' /\ reserved' \in Nat
  <2>1. reserved' = reserved /\ maxCq' = maxCq
    BY <1>4 DEF LoopStep, LoopCloses, LoopClosed, Lookup, Deliver, Drop, ReadFails,
       Close, EnterOnce, Notify, vars, countVars, connVars
  <2>2. \A d \in Calls : Reserving(d)' <=> Reserving(d)
    BY <1>4 DEF LoopStep, LoopCloses, LoopClosed, Lookup, Deliver, Drop, ReadFails,
       Close, Notify, vars, callVars, Reserving, InQueue, TypeOK
  <2>3. QED BY <2>1, <2>2, SameReserving DEF LimitInv, TypeOK
<1>5. QED BY <1>1, <1>2, <1>3, <1>4 DEF Next

-----------------------------------------------------------------------------
(* The types.                                                               *)
LEMMA TypeStep ==
  ASSUME TypeOK, ReservedExact, QidOwned, ReplyInv, LimitInv, [Next]_vars
  PROVE  TypeOK'
<1> USE DEF TypeOK, Goto, callVars, countVars, connVars, loopVars
<1>0. reserved' \in Nat BY CountStep
<1>1. ASSUME NEW c \in Calls, AddQueue(c) PROVE TypeOK'
  <2>1. PICK i \in 0 .. MaxTries - 1 :
          /\ qid' = [qid EXCEPT ![c] = Nth(i)]
          /\ stamp' = [stamp EXCEPT ![c] = issued + i]
          /\ queue' = [queue EXCEPT ![Nth(i)] = c]
          /\ issued' = issued + i + 1
    BY <1>1 DEF AddQueue
  <2>2. i \in Nat BY QidAssumption
  <2>3. Nth(i) \in Qids BY <2>2, NthType
  <2>4. /\ issued + i \in Int /\ issued + i + 1 \in Nat BY <2>2
  <2>5. QED BY <1>0, <1>1, <2>1, <2>3, <2>4 DEF AddQueue
<1>2. ASSUME NEW c \in Calls, AddQueueFails(c) PROVE TypeOK'
  <2>1. issued + MaxTries \in Nat BY QidAssumption
  <2>2. QED BY <1>2, <2>1 DEF AddQueueFails
<1>3. ASSUME NEW c \in Calls, Unqueue(c) PROVE TypeOK'
  BY <1>3 DEF Unqueue
<1>4. ASSUME NEW c \in Calls, CallStep(c) \/ Tick(c) \/ Cancel(c) \/ ReadReply(c),
             ~AddQueue(c), ~AddQueueFails(c), ~Unqueue(c)
      PROVE  TypeOK'
  BY <1>0, <1>4 DEF CallStep, CheckClosed, Reserve, Refuse, GiveUp, BeginExchange,
     WriteOk, WriteFails, WaitFails, Withdraw, CallCloses, EnterOnce, CallClosed,
     Tick, Cancel, ReadReply
<1>5. ASSUME Lookup PROVE TypeOK'
  BY <1>5 DEF Lookup, ReplyInv
<1>6. ASSUME Deliver PROVE TypeOK'
  BY <1>6 DEF Deliver, ReplyInv
<1>7. ASSUME LoopCloses \/ LoopClosed \/ Drop \/ ReadFails \/ Close \/ Notify
      PROVE  TypeOK'
  BY <1>7 DEF LoopCloses, LoopClosed, Drop, ReadFails, Close, EnterOnce, Notify
<1>8. CASE UNCHANGED vars BY <1>8 DEF vars
<1>9. QED BY <1>1, <1>2, <1>3, <1>4, <1>5, <1>6, <1>7, <1>8 DEF Next, LoopStep

-----------------------------------------------------------------------------
(* The queue and the history of the qids.                                   *)

(* A step that leaves the queue and the qids alone, and moves no call into  *)
(* or out of an exchange.                                                   *)
LEMMA SameQueue ==
  ASSUME QidOwned, LatestInv, UNCHANGED <<queue, qid, stamp>>,
         \A c \in Calls : InQueue(c)' <=> InQueue(c),
         queue \in [Qids -> Calls \cup {NoCall}]
  PROVE  QidOwned' /\ LatestInv'
BY DEF QidOwned, LatestInv

(* A step that takes no number from nextQid, and starts no call.            *)
LEMMA SameStamps ==
  ASSUME StampInv, UNCHANGED <<qid, stamp>>, issued' \in Nat, issued \in Nat, 
         issued <= issued', stamp \in [Calls -> Int],
         \A c \in Calls :
            pc'[c] \in {"new", "reserve", "reserved", "add"} =>
               pc[c] \in {"new", "reserve", "reserved", "add"}
  PROVE  StampInv'
BY DEF StampInv

LEMMA AddQueueStep ==
  ASSUME TypeOK, QidOwned, StampInv, LatestInv, NEW c \in Calls, AddQueue(c)
  PROVE  QidOwned' /\ StampInv' /\ LatestInv'
<1> USE DEF TypeOK
<1>1. PICK i \in 0 .. MaxTries - 1 :
        /\ Free(i)
        /\ qid' = [qid EXCEPT ![c] = Nth(i)]
        /\ stamp' = [stamp EXCEPT ![c] = issued + i]
        /\ queue' = [queue EXCEPT ![Nth(i)] = c]
        /\ issued' = issued + i + 1
  BY DEF AddQueue
<1>2. i \in Nat BY QidAssumption
<1>3. Nth(i) \in Qids BY <1>2, NthType
<1>4. queue[Nth(i)] = NoCall BY <1>1 DEF Free
<1>5. pc[c] = "add" /\ pc' = [pc EXCEPT ![c] = "write"]
  BY DEF AddQueue, Goto
<1>6. ~InQueue(c) /\ InQueue(c)' /\ \A d \in Calls \ {c} : InQueue(d)' <=> InQueue(d)
  BY <1>5 DEF InQueue
<1>7. \A d \in Calls : InQueue(d) => d # c /\ qid[d] # Nth(i)
  BY <1>4, <1>6, NoCallAssumption DEF QidOwned
<1>8. QidOwned'
  <2>1. \A d \in Calls : InQueue(d)' => qid'[d] \in Qids /\ queue'[qid'[d]] = d
    BY <1>1, <1>3, <1>6, <1>7 DEF QidOwned
  <2>2. \A k \in Qids : queue'[k] # NoCall => InQueue(queue[k])' \/ k = Nth(i)
    BY <1>1, <1>3, <1>6, <1>7 DEF QidOwned
  <2>3. \A k \in Qids : queue'[k] # NoCall =>
          pc'[queue'[k]] \in {"write", "wait", "resend", "closing", "unqueue"}
          /\ qid'[queue'[k]] = k
    BY <1>1, <1>3, <1>5, <1>6, <1>7 DEF QidOwned, InQueue
  <2>4. QED BY <2>1, <2>3 DEF QidOwned, InQueue
<1>9. \A d \in Calls : qid[d] \in Qids => stamp[d] \in Nat /\ stamp[d] < issued + i
  BY <1>2 DEF StampInv
<1>10. StampInv'
  <2>1. Nth(i) = (issued + i) % NumQids BY DEF Nth
  <2>2. issued + i \in Nat /\ issued + i < issued' BY <1>1, <1>2
  <2>3. \A d \in Calls : qid'[d] \in Qids =>
          stamp'[d] \in Nat /\ stamp'[d] < issued' /\ qid'[d] = stamp'[d] % NumQids
    BY <1>1, <1>2, <1>9, <2>1, <2>2 DEF StampInv
  <2>4. \A d, e \in Calls :
          qid'[d] \in Qids /\ qid'[e] \in Qids /\ stamp'[d] = stamp'[e] => d = e
    BY <1>1, <1>2, <1>9 DEF StampInv
  <2>5. \A d \in Calls :
          pc'[d] \in {"new", "reserve", "reserved", "add"} => qid'[d] = -1
    BY <1>1, <1>5 DEF StampInv
  <2>6. QED BY <2>3, <2>4, <2>5 DEF StampInv
<1>11. LatestInv'
  <2> SUFFICES ASSUME NEW d \in Calls, NEW e \in Calls, InQueue(d)', qid'[e] = qid'[d]
               PROVE  stamp'[e] <= stamp'[d]
    BY DEF LatestInv
  <2>1. CASE d = c
    <3>1. stamp'[d] = issued + i /\ qid'[d] = Nth(i) BY <1>1, <2>1
    <3>2. CASE e = c BY <2>1, <3>1, <3>2, <1>2
    <3>3. CASE e # c
      <4>1. qid[e] \in Qids /\ stamp'[e] = stamp[e] BY <1>1, <1>3, <3>1, <3>3
      <4>2. QED BY <1>2, <1>9, <3>1, <4>1
    <3>4. QED BY <3>2, <3>3
  <2>2. CASE d # c
    <3>1. InQueue(d) /\ qid'[d] = qid[d] /\ stamp'[d] = stamp[d] BY <1>1, <1>6, <2>2
    <3>2. e # c BY <1>1, <1>7, <3>1
    <3>3. qid[e] = qid[d] /\ stamp'[e] = stamp[e] BY <1>1, <3>1, <3>2
    <3>4. QED BY <3>1, <3>3 DEF LatestInv
  <2>3. QED BY <2>1, <2>2
<1>12. QED BY <1>8, <1>10, <1>11

LEMMA QueueStep ==
  ASSUME TypeOK, TypeOK', QidOwned, StampInv, LatestInv, [Next]_vars
  PROVE  QidOwned' /\ StampInv' /\ LatestInv'
<1> USE DEF TypeOK, Goto
<1>1. ASSUME NEW c \in Calls, AddQueue(c) PROVE QidOwned' /\ StampInv' /\ LatestInv'
  BY <1>1, AddQueueStep
<1>2. ASSUME NEW c \in Calls, Unqueue(c) PROVE QidOwned' /\ StampInv' /\ LatestInv'
  <2>1. InQueue(c) /\ ~InQueue(c)' /\ \A d \in Calls \ {c} : InQueue(d)' <=> InQueue(d)
    BY <1>2 DEF Unqueue, InQueue
  <2>2. qid[c] \in Qids /\ queue' = [queue EXCEPT ![qid[c]] = NoCall]
    BY <1>2, <2>1 DEF Unqueue, QidOwned
  <2>3. UNCHANGED <<qid, stamp, issued>> BY <1>2 DEF Unqueue
  <2>4. \A d \in Calls \ {c} : InQueue(d) => qid[d] # qid[c]
    BY <2>1 DEF QidOwned
  <2>5. \A d \in Calls : InQueue(d)' => qid'[d] \in Qids /\ queue'[qid'[d]] = d
    BY <2>1, <2>2, <2>3, <2>4 DEF QidOwned
  <2>6. \A k \in Qids : queue'[k] # NoCall => k # qid[c] /\ queue'[k] = queue[k] /\ queue[k] # c
    BY <2>1, <2>2, NoCallAssumption DEF QidOwned
  <2>7. \A k \in Qids : queue'[k] # NoCall =>
          pc'[queue'[k]] \in {"write", "wait", "resend", "closing", "unqueue"}
          /\ qid'[queue'[k]] = k
    BY <1>2, <2>3, <2>6 DEF QidOwned, InQueue, Unqueue
  <2>8. QidOwned' BY <2>5, <2>7 DEF QidOwned, InQueue
  <2>9. LatestInv' BY <2>1, <2>3 DEF LatestInv
  <2>10. \A d \in Calls :
           pc'[d] \in {"new", "reserve", "reserved", "add"} =>
              pc[d] \in {"new", "reserve", "reserved", "add"}
    BY <1>2 DEF Unqueue
  <2>11. StampInv' BY <2>3, <2>10, SameStamps
  <2>12. QED BY <2>8, <2>9, <2>11
<1>3. ASSUME NEW c \in Calls, CallStep(c) \/ Tick(c) \/ Cancel(c) \/ ReadReply(c),
             ~AddQueue(c), ~Unqueue(c)
      PROVE  QidOwned' /\ StampInv' /\ LatestInv'
  <2>1. UNCHANGED <<queue, qid, stamp>>
    BY <1>3 DEF CallStep, CheckClosed, Reserve, Refuse, GiveUp, BeginExchange,
       AddQueueFails, WriteOk, WriteFails, WaitFails, Withdraw, CallCloses, EnterOnce,
       CallClosed, Tick, Cancel, ReadReply, countVars, callVars
  <2>2. issued <= issued'
    BY <1>3, QidAssumption DEF CallStep, CheckClosed, Reserve, Refuse, GiveUp,
       BeginExchange, AddQueueFails, WriteOk, WriteFails, WaitFails, Withdraw,
       CallCloses, EnterOnce, CallClosed, Tick, Cancel, ReadReply, countVars
  <2>3. \A d \in Calls : InQueue(d)' <=> InQueue(d)
    BY <1>3 DEF CallStep, CheckClosed, Reserve, Refuse, GiveUp, BeginExchange,
       AddQueueFails, WriteOk, WriteFails, WaitFails, Withdraw, CallCloses,
       CallClosed, Tick, Cancel, ReadReply, callVars, InQueue
  <2>4. \A d \in Calls :
          pc'[d] \in {"new", "reserve", "reserved", "add"} =>
             pc[d] \in {"new", "reserve", "reserved", "add"}
    BY <1>3 DEF CallStep, CheckClosed, Reserve, Refuse, GiveUp, BeginExchange,
       AddQueueFails, WriteOk, WriteFails, WaitFails, Withdraw, CallCloses,
       CallClosed, Tick, Cancel, ReadReply, callVars
  <2>5. QED BY <2>1, <2>2, <2>3, <2>4, SameQueue, SameStamps
<1>4. ASSUME LoopStep \/ ReadFails \/ Close \/ Notify \/ UNCHANGED vars
      PROVE  QidOwned' /\ StampInv' /\ LatestInv'
  <2>1. UNCHANGED <<queue, qid, stamp, issued>>
    BY <1>4 DEF LoopStep, LoopCloses, LoopClosed, Lookup, Deliver, Drop, ReadFails,
       Close, Notify, vars, countVars, callVars
  <2>2. \A d \in Calls : InQueue(d)' <=> InQueue(d)
    BY <1>4 DEF LoopStep, LoopCloses, LoopClosed, Lookup, Deliver, Drop, ReadFails,
       Close, Notify, vars, callVars, InQueue
  <2>3. \A d \in Calls :
          pc'[d] \in {"new", "reserve", "reserved", "add"} =>
             pc[d] \in {"new", "reserve", "reserved", "add"}
    BY <1>4 DEF LoopStep, LoopCloses, LoopClosed, Lookup, Deliver, Drop, ReadFails,
       Close, Notify, vars, callVars
  <2>4. QED BY <2>1, <2>2, <2>3, SameQueue, SameStamps
<1>5. QED BY <1>1, <1>2, <1>3, <1>4 DEF Next

-----------------------------------------------------------------------------
(* The replies.                                                             *)

(* The qid and the number of a call that has one do not change.             *)
LEMMA QidKept ==
  ASSUME TypeOK, StampInv, [Next]_vars
  PROVE  \A c \in Calls : qid[c] \in Qids => qid'[c] = qid[c] /\ stamp'[c] = stamp[c]
<1> USE DEF TypeOK
<1>1. ASSUME NEW c \in Calls, AddQueue(c)
      PROVE  \A d \in Calls : qid[d] \in Qids => qid'[d] = qid[d] /\ stamp'[d] = stamp[d]
  <2>1. qid[c] \notin Qids BY <1>1, QidAssumption DEF AddQueue, StampInv, Qids
  <2>2. \A d \in Calls \ {c} : qid'[d] = qid[d] /\ stamp'[d] = stamp[d]
    BY <1>1 DEF AddQueue
  <2>3. QED BY <2>1, <2>2
<1>2. ASSUME NEW c \in Calls, CallStep(c) \/ Tick(c) \/ Cancel(c) \/ ReadReply(c),
             ~AddQueue(c)
      PROVE  UNCHANGED <<qid, stamp>>
  BY <1>2 DEF CallStep, CheckClosed, Reserve, Refuse, GiveUp, BeginExchange,
     AddQueueFails, WriteOk, WriteFails, WaitFails, Unqueue, Withdraw, CallCloses,
     CallClosed, Tick, Cancel, ReadReply, callVars
<1>3. ASSUME LoopStep \/ ReadFails \/ Close \/ Notify \/ UNCHANGED vars
      PROVE  UNCHANGED <<qid, stamp>>
  BY <1>3 DEF LoopStep, LoopCloses, LoopClosed, Lookup, Deliver, Drop, ReadFails,
     Close, Notify, vars, callVars
<1>4. QED BY <1>1, <1>2, <1>3 DEF Next

(* What the two calls of a pair have in common they keep.                   *)
LEMMA SameQidKept ==
  ASSUME TypeOK, StampInv, [Next]_vars, NEW a \in Calls, NEW c \in Calls, SameQid(a, c)
  PROVE  SameQid(a, c)'
BY QidKept DEF SameQid

LEMMA ReplyStep ==
  ASSUME TypeOK, TypeOK', QidOwned, StampInv, LatestInv, ReplyInv, [Next]_vars
  PROVE  ReplyInv'
<1> USE DEF TypeOK
<1>1. \A c \in Calls : qid[c] \in Qids => qid'[c] \in Qids BY QidKept
<1>2. \A a, c \in Calls : SameQid(a, c) => SameQid(a, c)' BY SameQidKept
<1>3. \A c \in inflight' : qid'[c] \in Qids
  <2>1. ASSUME NEW c \in Calls, WriteOk(c) PROVE \A d \in inflight' : qid[d] \in Qids
    BY <2>1 DEF WriteOk, QidOwned, InQueue, ReplyInv
  <2>2. ASSUME NEW c \in Calls, CallStep(c) \/ Tick(c) \/ Cancel(c) \/ ReadReply(c),
               ~WriteOk(c)
        PROVE  inflight' \subseteq inflight
    BY <2>2 DEF CallStep, CheckClosed, Reserve, Refuse, GiveUp, BeginExchange,
       AddQueue, AddQueueFails, WriteFails, WaitFails, Unqueue, Withdraw, CallCloses,
       CallClosed, Tick, Cancel, ReadReply
  <2>3. ASSUME LoopStep \/ ReadFails \/ Close \/ Notify \/ UNCHANGED vars
        PROVE  inflight' = inflight
    BY <2>3 DEF LoopStep, LoopCloses, LoopClosed, Lookup, Deliver, Drop, ReadFails,
       Close, Notify, vars
  <2>4. QED BY <1>1, <2>1, <2>2, <2>3 DEF Next, ReplyInv
<1>4. loop' \in {"lookup", "send"} => msg' \in Calls /\ qid'[msg'] \in Qids
  <2>1. ASSUME NEW c \in Calls, ReadReply(c) PROVE msg' \in Calls /\ qid'[msg'] \in Qids
    BY <2>1, <1>1 DEF ReadReply, ReplyInv
  <2>2. ASSUME NEW c \in Calls, CallStep(c) \/ Tick(c) \/ Cancel(c)
        PROVE  UNCHANGED <<loop, msg>>
    BY <2>2 DEF CallStep, CheckClosed, Reserve, Refuse, GiveUp, BeginExchange,
       AddQueue, AddQueueFails, WriteOk, WriteFails, WaitFails, Unqueue, Withdraw,
       CallCloses, CallClosed, Tick, Cancel, loopVars
  <2>3. ASSUME LoopStep \/ ReadFails \/ Close \/ Notify \/ UNCHANGED vars
        PROVE  loop' \in {"lookup", "send"} => msg' = msg /\ loop \in {"lookup", "send"}
    BY <2>3 DEF LoopStep, LoopCloses, LoopClosed, Lookup, Deliver, Drop, ReadFails,
       Close, Notify, vars, loopVars
  <2>4. QED BY <1>1, <2>1, <2>2, <2>3 DEF Next, ReplyInv
<1>5. loop' = "send" /\ target' # NoCall => SameQid(msg, target)'
  <2>1. CASE Lookup
    <3>1. msg \in Calls /\ qid[msg] \in Qids BY <2>1 DEF Lookup, ReplyInv
    <3>2. target' = queue[qid[msg]] /\ msg' = msg BY <2>1 DEF Lookup
    <3>3. ASSUME target' # NoCall PROVE target' \in Calls /\ SameQid(msg, target')
      BY <3>1, <3>2, <3>3 DEF QidOwned, LatestInv, SameQid
    <3>4. \A a, c \in Calls : SameQid(a, c) <=> (SameQid(a, c))'
      BY <2>1 DEF Lookup, callVars, SameQid
    <3>5. QED BY <3>1, <3>2, <3>3, <2>1 DEF Lookup, callVars, SameQid
  <2>2. CASE ~Lookup
    <3>1. loop' = "send" => loop = "send" /\ msg' = msg /\ target' = target
      BY <2>2 DEF Next, CallStep, CheckClosed, Reserve, Refuse, GiveUp, BeginExchange,
         AddQueue, AddQueueFails, WriteOk, WriteFails, WaitFails, Unqueue, Withdraw,
         CallCloses, CallClosed, Tick, Cancel, ReadReply, LoopStep, LoopCloses,
         LoopClosed, Deliver, Drop, ReadFails, Close, Notify, vars, loopVars
    <3>2. loop' = "send" /\ target' # NoCall => msg \in Calls /\ target \in Calls /\ SameQid(msg, target)
      BY <3>1 DEF ReplyInv
    <3>3. QED BY <3>1, <3>2, QidKept DEF SameQid
  <2>3. QED BY <2>1, <2>2
<1>6. \A c \in Calls : reply'[c] # NoReply => reply'[c] \in Calls /\ SameQid(reply[c], c)'
  <2>1. CASE Deliver
    <3>1. msg \in Calls /\ target \in Calls /\ SameQid(msg, target)
      BY <2>1 DEF Deliver, ReplyInv
    <3>2. reply' = [reply EXCEPT ![target] = msg] /\ UNCHANGED <<qid, stamp>>
      BY <2>1 DEF Deliver
    <3>3. QED BY <3>1, <3>2 DEF ReplyInv, SameQid
  <2>2. CASE ~Deliver
    <3>1. reply' = reply
      BY <2>2 DEF Next, CallStep, CheckClosed, Reserve, Refuse, GiveUp, BeginExchange,
         AddQueue, AddQueueFails, WriteOk, WriteFails, WaitFails, Unqueue, Withdraw,
         CallCloses, CallClosed, Tick, Cancel, ReadReply, LoopStep, LoopCloses,
         LoopClosed, Lookup, Drop, ReadFails, Close, Notify, vars, callVars
    <3>2. QED BY <3>1, QidKept DEF ReplyInv, SameQid
  <2>3. QED BY <2>1, <2>2
<1>7. QED BY <1>3, <1>4, <1>5, <1>6 DEF ReplyInv

-----------------------------------------------------------------------------
LEMMA InitInv == ASSUME Init PROVE IInv
<1> USE DEF Init, InQueue, Reserving
<1>1. -1 \notin Qids BY QidAssumption DEF Qids
<1>2. TypeOK
  <2>1. /\ qid \in [Calls -> Qids \cup {-1}] /\ stamp \in [Calls -> Int]
        /\ reserved \in Nat /\ issued \in Nat
    OBVIOUS
  <2>2. /\ pc \in [Calls -> {"new", "reserve", "refused", "reserved", "add", "tooMany",
                           "write", "wait", "resend", "closing", "unqueue",
                           "withdraw", "done"}]
        /\ reply \in [Calls -> Calls \cup {NoReply}]
        /\ queue \in [Qids -> Calls \cup {NoCall}]
    OBVIOUS
  <2>3. QED BY <2>1, <2>2 DEF TypeOK
<1>3. {c \in Calls : Reserving(c)} = {} OBVIOUS
<1>4. ReservedExact BY <1>3, FS_EmptySet DEF ReservedExact
<1>5. QidOwned /\ LatestInv BY DEF QidOwned, LatestInv
<1>6. StampInv BY <1>1 DEF StampInv
<1>7. ReplyInv BY DEF ReplyInv
<1>8. LimitInv BY CqAssumption DEF LimitInv
<1>9. QED BY <1>2, <1>4, <1>5, <1>6, <1>7, <1>8 DEF IInv

LEMMA StepInv == ASSUME IInv, [Next]_vars PROVE IInv'
<1>1. TypeOK' BY TypeStep DEF IInv
<1>2. ReservedExact' /\ LimitInv' BY CountStep DEF IInv
<1>3. QidOwned' /\ StampInv' /\ LatestInv' BY <1>1, QueueStep DEF IInv
<1>4. ReplyInv' BY <1>1, ReplyStep DEF IInv
<1>5. QED BY <1>1, <1>2, <1>3, <1>4 DEF IInv

(* The strengthened invariant holds in every reachable state.               *)
THEOREM Invariance == Spec => []IInv
<1>1. Init => IInv BY InitInv
<1>2. IInv /\ [Next]_vars => IInv' BY StepInv
<1>3. QED BY <1>1, <1>2, PTL DEF Spec

(* Type correctness, for the counts too: reservedQuery never goes below     *)
(* zero because every withdrawal is of a reservation that was counted.      *)
THEOREM TypeCorrect == Spec => []TypeOK
<1>1. IInv => TypeOK BY DEF IInv
<1>2. QED BY <1>1, Invariance, PTL

(* reservedQuery and the queue are exact on every path out of an exchange.  *)
THEOREM AccountingCorrect == Spec => []Accounting
<1>1. IInv => Accounting BY DEF IInv, Accounting
<1>2. QED BY <1>1, Invariance, PTL

(* A caller gets another call's reply only after all the qids were given    *)
(* out between the two calls.                                               *)
LEMMA OwnReplyFromInv == ASSUME IInv PROVE OwnReplyUnlessWrapped
<1> SUFFICES ASSUME NEW c \in Calls, reply[c] \notin {NoReply, c}
             PROVE  stamp[c] - stamp[reply[c]] >= NumQids
  BY DEF OwnReplyUnlessWrapped
<1>1. PICK a \in Calls : a = reply[c] /\ a # c /\ SameQid(a, c)
  BY DEF IInv, ReplyInv
<1>2. qid[a] \in Qids /\ qid[c] \in Qids /\ qid[a] = qid[c] /\ stamp[a] <= stamp[c]
  BY <1>1 DEF SameQid
<1>3. /\ stamp[a] \in Nat /\ stamp[c] \in Nat /\ stamp[a] # stamp[c]
      /\ stamp[a] % NumQids = stamp[c] % NumQids
  BY <1>1, <1>2 DEF IInv, StampInv
<1>4. stamp[a] < stamp[c] BY <1>2, <1>3
<1>5. stamp[c] - stamp[a] >= NumQids BY <1>3, <1>4, SameRemainder, QidAssumption
<1>6. QED BY <1>1, <1>5

THEOREM OwnReplyCorrect == Spec => []OwnReplyUnlessWrapped
<1>1. IInv => OwnReplyUnlessWrapped BY OwnReplyFromInv
<1>2. QED BY <1>1, Invariance, PTL

-----------------------------------------------------------------------------
(* A call whose MaxTries qids are all taken: the calls that have them hold  *)
(* MaxTries reservations besides its own, one more than the limit allows.   *)
LEMMA Pigeons ==
  ASSUME IInv, NEW c \in Calls, AddQueueFails(c) PROVE maxCq > MaxTries
<1> DEFINE W == 0 .. MaxTries - 1
           Q == {d \in Calls : InQueue(d)}
           R == {d \in Calls : Reserving(d)}
           f == [i \in W |-> queue[Nth(i)]]
<1> USE DEF IInv
<1>1. IsFiniteSet(W) /\ Cardinality(W) = MaxTries
  BY QidAssumption, FS_Interval
<1>2. \A i \in W : Nth(i) \in Qids /\ queue[Nth(i)] # NoCall
  BY QidAssumption, NthType DEF AddQueueFails
<1>3. \A i \in W : f[i] \in Q /\ qid[f[i]] = Nth(i)
  BY <1>2 DEF QidOwned, TypeOK
<1>4. ASSUME NEW i \in W, NEW j \in W, i < j PROVE Nth(i) # Nth(j)
  <2>1. (issued + j) - (issued + i) < NumQids BY QidAssumption DEF TypeOK
  <2>2. /\ issued + i \in Nat /\ issued + j \in Nat /\ issued + i < issued + j
    BY <1>4 DEF TypeOK
  <2>3. QED BY <2>1, <2>2, SameRemainder, QidAssumption DEF Nth
<1>5. \A i, j \in W : f[i] = f[j] => i = j
  BY <1>3, <1>4, QidAssumption
<1>6. f \in Injection(W, Q)
  BY <1>3, <1>5 DEF Injection, IsInjective
<1>7. IsFiniteSet(R) BY ReservingFinite
<1>8. c \in R /\ c \notin Q /\ Q \subseteq R
  BY DEF AddQueueFails, Reserving, InQueue
<1>9. IsFiniteSet(Q) /\ Cardinality(Q) <= Cardinality(R) /\ Cardinality(Q) # Cardinality(R)
  BY <1>7, <1>8, FS_Subset
<1>10. MaxTries <= Cardinality(Q) BY <1>1, <1>6, <1>9, FS_Injection
<1>11. Cardinality(Q) \in Nat /\ Cardinality(R) \in Nat
  BY <1>7, <1>9, FS_CardinalityType
<1>12. Cardinality(R) <= maxCq BY DEF ReservedExact, LimitInv
<1>13. QED BY <1>9, <1>10, <1>11, <1>12, QidAssumption, CqAssumption DEF TypeOK

LEMMA SufficesStep ==
  ASSUME IInv, ReservationSuffices, [Next]_vars PROVE ReservationSuffices'
<1> USE DEF IInv, TypeOK, Goto
<1>1. ASSUME NEW c \in Calls, AddQueueFails(c) PROVE ReservationSuffices'
  <2>1. maxCq' = maxCq /\ maxCq \in Nat
    BY <1>1, CqAssumption DEF AddQueueFails, connVars
  <2>2. maxCq > MaxTries BY <1>1, Pigeons
  <2>3. QED BY <2>1, <2>2, QidAssumption DEF ReservationSuffices
<1>2. ASSUME NEW c \in Calls, CallStep(c) \/ Tick(c) \/ Cancel(c) \/ ReadReply(c),
             ~AddQueueFails(c)
      PROVE  ReservationSuffices'
  BY <1>2 DEF CallStep, CheckClosed, Reserve, Refuse, GiveUp, BeginExchange,
     AddQueue, WriteOk, WriteFails, WaitFails, Unqueue, Withdraw, CallCloses, EnterOnce,
     CallClosed, Tick, Cancel, ReadReply, connVars, callVars, ReservationSuffices
<1>3. ASSUME LoopStep \/ ReadFails \/ Close \/ Notify \/ UNCHANGED vars
      PROVE  ReservationSuffices'
  BY <1>3 DEF LoopStep, LoopCloses, LoopClosed, Lookup, Deliver, Drop, ReadFails,
     Close, EnterOnce, Notify, vars, connVars, callVars, ReservationSuffices
<1>4. QED BY <1>1, <1>2, <1>3 DEF Next

(* A reservation is worth a qid: addQueueC does not fail on a connection    *)
(* whose limit is at most the number of qids it tries, as on TCP and TLS.   *)
THEOREM ReservationWorth == Spec => []ReservationSuffices
<1>1. Init => ReservationSuffices BY DEF Init, ReservationSuffices
<1>2. IInv /\ ReservationSuffices /\ [Next]_vars => ReservationSuffices' BY SufficesStep
<1>3. QED BY <1>1, <1>2, Invariance, PTL DEF Spec

=============================================================================

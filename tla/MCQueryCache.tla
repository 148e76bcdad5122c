---------------------------- MODULE MCQueryCache ----------------------------
(* Instances of QueryCache for TLC.  One part has several questions, records *)
(* of no TTL and a short time, the other one question and the TTLs and time  *)
(* it takes for what is left of a TTL to matter.                             *)
EXTENDS QueryCache, TLC

CONSTANT RoomTime   \* bound on the clock of the first part

VARIABLE part

OneQuestion == CHOOSE qn \in Questions : TRUE
Fits(r) ==
    r # None => IF part = "room" THEN r.ttl = 0 /\ r.kind # "empty" ELSE r.kind # "truncated"

CacheInit ==
    /\ Init
    /\ part \in {"room", "ages"}
    /\ \A k \in Keys : store[k] # None => Fits(store[k].reply)
    /\ part = "ages" => /\ asks = [q \in Queries |-> OneQuestion]
                        /\ \A k \in Keys \ {Key(OneQuestion)} : store[k] = None

CacheNext ==
    /\ Next /\ UNCHANGED part
    /\ \A q \in Queries : Fits(reply'[q]) /\ Fits(jobReply'[q])
    /\ part = "room" => now' <= RoomTime

CacheSpec ==
    /\ CacheInit /\ [][CacheNext]_<<part, vars>>
    /\ \A q \in Queries : WF_vars(CallStep(q)) /\ WF_vars(JobStep(q))
=============================================================================

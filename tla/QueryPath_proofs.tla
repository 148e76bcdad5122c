-------------------------- MODULE QueryPath_proofs --------------------------
(***************************************************************************)
(* Theorems about QueryPath for any arguments: fallback, forward and       *)
(* aliapi implement Chooser, and forward and aliapi choose the best reply. *)
(***************************************************************************)
EXTENDS QueryPath, FiniteSetTheorems, TLAPS

Places == {"none", "wait", "exec", "returned", "send", "standby", "end"}
Outcomes == Branch \cup {"pending", "ctx", "failed", "blocked"}

TypeInv ==
    /\ exec \in Execs /\ branches \subseteq Branch
    /\ bpc \in [Branch -> Places]
    /\ got \in [Branch -> Ends \cup {None}]
    /\ respChan \in Seq(Branch \cup {None})
    /\ heard \in Seq(Branch)
    /\ nils \in Nat
    /\ mainPc \in {"start", "select", "wait", "end"}
    /\ outcome \in Outcomes

(* What a branch has come to, by its place: a secondary that was not       *)
(* needed ends with nothing, after the primary's reply.                    *)
GotInv ==
    \A b \in Branch :
        /\ bpc[b] \in {"none", "wait", "exec"} => got[b] = None
        /\ bpc[b] \in {"returned", "send", "standby"} => got[b] \in Ends
        /\ bpc[b] = "end" /\ got[b] = None =>
              exec = "fallback" /\ b = Secondary /\ Replied(Primary)
        /\ ~Prefer => (b \in branches <=> bpc[b] # "none")
        /\ bpc[b] \in {"wait", "send", "standby"} => Fallback
        /\ bpc[b] = "standby" => Replied(b)
FallbackHasBoth == Fallback => branches = {Primary, Secondary}

(* The outcome is there when the main goroutine has left its loop.         *)
EndInv ==
    /\ outcome = "pending" <=> mainPc # "end"
    /\ outcome = "blocked" => Prefer
    /\ mainPc = "start" => heard = <<>> /\ respChan = <<>> /\ \A b \in Branch : got[b] = None
    /\ ~Prefer /\ outcome \in Branch => Replied(outcome)

-----------------------------------------------------------------------------
LEMMA BranchNames == Branch = {"b1", "b2", "b3"}
  <1>1. DOMAIN Names = {1, 2, 3}
    BY DEF Names
  <1>2. Names[1] = "b1" /\ Names[2] = "b2" /\ Names[3] = "b3"
    BY DEF Names
  <1> QED BY <1>1, <1>2 DEF Branch, Range

LEMMA ThreeBranches ==
  ASSUME NEW B, B \subseteq Branch
  PROVE  IsFiniteSet(B) /\ Cardinality(B) \in 0 .. 3
  <1>1. IsFiniteSet({}) /\ Cardinality({}) = 0
    BY FS_EmptySet
  <1>2. IsFiniteSet({"b1"}) /\ Cardinality({"b1"}) = 1
    BY <1>1, FS_AddElement, {} \cup {"b1"} = {"b1"}
  <1>3. IsFiniteSet({"b1", "b2"}) /\ Cardinality({"b1", "b2"}) = 2
    BY <1>2, FS_AddElement, {"b1"} \cup {"b2"} = {"b1", "b2"}
  <1>4. IsFiniteSet({"b1", "b2", "b3"}) /\ Cardinality({"b1", "b2", "b3"}) = 3
    BY <1>3, FS_AddElement, {"b1", "b2"} \cup {"b3"} = {"b1", "b2", "b3"}
  <1>5. IsFiniteSet(B) /\ Cardinality(B) <= 3
    BY <1>4, BranchNames, FS_Subset
  <1> QED BY <1>5, FS_CardinalityType

(* NumConcurrent is 1 to 3 for every argument. *)
LEMMA Clamped ==
  /\ \A arg \in Concurrents : NumConcurrent(arg) \in 1 .. 3
  /\ \A arg \in Concurrents : \A us \in 1 .. MaxConcurrent : NumToQuery(arg, us) \in 1 .. 3
  <1>1. ASSUME NEW arg \in Concurrents PROVE NumConcurrent(arg) \in 1 .. 3
    BY ConcurrentsAssumption DEF NumConcurrent, MaxConcurrent
  <1>2. ASSUME NEW a \in 1 .. 3, NEW u \in 1 .. 3 PROVE Min({a, u}) \in 1 .. 3
    <2>1. \E x \in {a, u} : \A y \in {a, u} : x =< y
      BY a <= u \/ u <= a
    <2>2. Min({a, u}) \in {a, u}
      BY <2>1 DEF Min
    <2> QED BY <2>2
  <1> QED BY <1>1, <1>2 DEF NumToQuery, MaxConcurrent

LEMMA InitTypes == PathInit => TypeInv /\ GotInv /\ FallbackHasBoth /\ EndInv
  <1> SUFFICES ASSUME PathInit PROVE TypeInv /\ GotInv /\ FallbackHasBoth /\ EndInv
    OBVIOUS
  <1>1. PICK n \in 1 .. 3 : branches = {Names[i] : i \in 1 .. n}
                            /\ (Fallback \/ exec = "prefer" => n = 2)
    <2>1. PICK arg \in Concurrents, us \in 1 .. MaxConcurrent :
             branches = {Names[i] : i \in 1 .. (CASE exec = "forward" -> NumConcurrent(arg)
                     [] exec = "aliapi" -> NumToQuery(arg, us)
                     [] exec = "preferred" -> 1
                     [] OTHER -> 2)}
      BY DEF PathInit
    <2> DEFINE n == CASE exec = "forward" -> NumConcurrent(arg)
                     [] exec = "aliapi" -> NumToQuery(arg, us)
                     [] exec = "preferred" -> 1
                     [] OTHER -> 2
    <2>2. NumConcurrent(arg) \in 1 .. 3 /\ NumToQuery(arg, us) \in 1 .. 3
      BY Clamped
    <2>3. n \in 1 .. 3
      BY <2>2
    <2>4. exec \in {"fallback", "standby", "prefer"} => n = 2
      OBVIOUS
    <2> QED BY <2>1, <2>3, <2>4 DEF Fallback
  <1>2. branches \subseteq Branch
    BY <1>1 DEF Branch, Range, Names
  <1>3. Fallback => branches = {Primary, Secondary}
    <2>1. n = 2 => branches = {Names[1], Names[2]}
      BY <1>1
    <2> QED BY <1>1, <2>1 DEF Primary, Secondary, Names
  <1>4. bpc \in [Branch -> Places] /\ \A b \in Branch : bpc[b] \in {"none", "wait", "exec"}
    BY DEF PathInit, Places
  <1>5. TypeInv
    BY <1>2, <1>4 DEF PathInit, TypeInv, Outcomes, Ends
  <1>6. \A b \in Branch : got[b] = None /\ (b \in branches <=> bpc[b] # "none")
                          /\ (bpc[b] = "wait" => Fallback)
    BY DEF PathInit, Fallback
  <1>7. GotInv
    BY <1>4, <1>6 DEF GotInv
  <1>8. EndInv
    BY BranchNames DEF PathInit, EndInv
  <1> QED BY <1>3, <1>5, <1>7, <1>8 DEF FallbackHasBoth

-----------------------------------------------------------------------------
(* Sequences of branches without repetition, and what Best takes from one. *)

Distinct(seq) == \A i, j \in DOMAIN seq : seq[i] = seq[j] => i = j

LEMMA DistinctLen ==
  ASSUME NEW B, B \subseteq Branch, NEW seq \in Seq(B), Distinct(seq)
  PROVE  /\ Len(seq) \in 0 .. 3
         /\ Len(seq) = Cardinality(B) => \A b \in B : \E i \in DOMAIN seq : seq[i] = b
  <1> DEFINE I == 1 .. Len(seq)
  <1>1. DOMAIN seq = I /\ Len(seq) \in Nat /\ seq \in [I -> B]
    OBVIOUS
  <1>2. IsFiniteSet(B) /\ Cardinality(B) \in 0 .. 3
    BY ThreeBranches
  <1>3. seq \in Injection(I, B)
    BY <1>1 DEF Injection, IsInjective, Distinct
  <1>4. /\ Cardinality(I) <= Cardinality(B)
        /\ Cardinality(I) = Cardinality(B) => seq \in Surjection(I, B)
    BY <1>2, <1>3, FS_Injection
  <1>5. Cardinality(I) = Len(seq)
    BY <1>1, FS_Interval
  <1>6. seq \in Surjection(I, B) => \A b \in B : \E i \in I : seq[i] = b
    BY DEF Surjection
  <1> QED BY <1>1, <1>2, <1>4, <1>5, <1>6

LEMMA DistinctAppend ==
  ASSUME NEW B, NEW seq \in Seq(B), Distinct(seq), NEW b, \A i \in DOMAIN seq : seq[i] # b
  PROVE  Distinct(Append(seq, b))
  BY DEF Distinct

(* Up to three, the first of a set of replies is found. *)
LEMMA FirstFound ==
  ASSUME NEW seq \in Seq(Branch), Len(seq) \in 0 .. 3, NEW S, Has(S, seq)
  PROVE  \E i \in DOMAIN seq : First(S, seq) = seq[i] /\ got[seq[i]] \in S
  <1> DEFINE P(i) == i \in DOMAIN seq /\ got[seq[i]] \in S /\ \A j \in 1 .. i - 1 : got[seq[j]] \notin S
  <1>1. DOMAIN seq = 1 .. Len(seq)
    OBVIOUS
  <1>2. \E i \in 1 .. Len(seq) : got[seq[i]] \in S
    BY <1>1 DEF Has
  <1>3. \E i \in DOMAIN seq : P(i)
    <2>1. CASE 1 \in DOMAIN seq /\ got[seq[1]] \in S
      BY <2>1
    <2>2. CASE ~(1 \in DOMAIN seq /\ got[seq[1]] \in S) /\ 2 \in DOMAIN seq /\ got[seq[2]] \in S
      <3>1. 1 \in DOMAIN seq
        BY <1>1, <2>2
      <3>2. \A j \in 1 .. 2 - 1 : j = 1
        OBVIOUS
      <3> QED BY <2>2, <3>1, <3>2
    <2>3. CASE ~(1 \in DOMAIN seq /\ got[seq[1]] \in S) /\ ~(2 \in DOMAIN seq /\ got[seq[2]] \in S)
      <3>1. 3 \in DOMAIN seq /\ 2 \in DOMAIN seq /\ 1 \in DOMAIN seq /\ got[seq[3]] \in S
        BY <1>1, <1>2, <2>3
      <3>2. \A j \in 1 .. 3 - 1 : j = 1 \/ j = 2
        OBVIOUS
      <3> QED BY <2>3, <3>1, <3>2
    <2> QED BY <2>1, <2>2, <2>3
  <1> DEFINE k == CHOOSE i \in DOMAIN seq :
                        /\ got[seq[i]] \in S
                        /\ \A j \in 1 .. i - 1 : got[seq[j]] \notin S
  <1>4. k \in DOMAIN seq /\ got[seq[k]] \in S
    BY <1>3
  <1>5. First(S, seq) = seq[k]
    BY DEF First
  <1> QED BY <1>4, <1>5

(* The reply to take when no address has come: a definitive one if any.    *)
Takes(o, seq) ==
    /\ \E i \in DOMAIN seq : o = seq[i]
    /\ got[o] \in {"definitive", "other"}
    /\ \A i \in DOMAIN seq : got[seq[i]] = "definitive" => got[o] = "definitive"

LEMMA BestIs ==
  ASSUME NEW seq \in Seq(Branch), Len(seq) \in 0 .. 3
  PROVE  \/ Takes(Best(seq), seq)
         \/ Best(seq) = "failed" /\ \A i \in DOMAIN seq : got[seq[i]] \notin {"definitive", "other"}
  <1>1. CASE Has({"definitive"}, seq)
    <2>1. PICK i \in DOMAIN seq : First({"definitive"}, seq) = seq[i] /\ got[seq[i]] \in {"definitive"}
      BY <1>1, FirstFound
    <2>2. Best(seq) = seq[i]
      BY <1>1, <2>1 DEF Best
    <2> QED BY <2>1, <2>2 DEF Takes
  <1>2. CASE ~Has({"definitive"}, seq) /\ Has({"other"}, seq)
    <2>1. PICK i \in DOMAIN seq : First({"other"}, seq) = seq[i] /\ got[seq[i]] \in {"other"}
      BY <1>2, FirstFound
    <2>2. Best(seq) = seq[i]
      BY <1>2, <2>1 DEF Best
    <2>3. \A j \in DOMAIN seq : got[seq[j]] # "definitive"
      BY <1>2 DEF Has
    <2> QED BY <2>1, <2>2, <2>3 DEF Takes
  <1>3. CASE ~Has({"definitive"}, seq) /\ ~Has({"other"}, seq)
    <2>1. Best(seq) = "failed"
      BY <1>3 DEF Best
    <2> QED BY <1>3, <2>1 DEF Has
  <1> QED BY <1>1, <1>2, <1>3

-----------------------------------------------------------------------------
(* forward and aliapi hear every branch once, after it has ended, and go   *)
(* on only as long as no address has come; what aliapi has in its channel  *)
(* is still to be heard.                                                   *)
ToBeHeard(b) == b \in branches /\ bpc[b] = "end" /\ \A i \in DOMAIN heard : heard[i] # b
HeardInv ==
    /\ Distinct(heard)
    /\ \A i \in DOMAIN heard :
          heard[i] \in branches /\ bpc[heard[i]] = "end" /\ got[heard[i]] \in Ends
    /\ mainPc # "end" => \A i \in DOMAIN heard : got[heard[i]] # "ip"
    /\ exec = "aliapi" => Distinct(respChan) /\ \A i \in DOMAIN respChan : ToBeHeard(respChan[i])

(* fallback counts the results without a reply: every branch sends one     *)
(* result at most, and both have failed when there are two without.        *)
One(P) == IF P THEN 1 ELSE 0
NilAt(i) == One(i <= Len(respChan) /\ respChan[i] = None)
Sent(b) == One(bpc[b] = "end")
NilOf(b) == One(bpc[b] = "end" /\ ~Replied(b))
CountInv ==
    Fallback =>
        /\ Len(respChan) <= Sent(Primary) + Sent(Secondary)
        /\ nils + NilAt(1) + NilAt(2) = NilOf(Primary) + NilOf(Secondary)
        /\ \A i \in DOMAIN respChan : respChan[i] # None => Replied(respChan[i])

IInv == TypeInv /\ GotInv /\ FallbackHasBoth /\ EndInv /\ HeardInv /\ CountInv /\ BestReply

LEMMA HeardSeq ==
  ASSUME TypeInv, HeardInv
  PROVE  heard \in Seq(branches) /\ Len(heard) \in 0 .. 3
  <1>1. heard \in Seq(branches)
    BY DEF TypeInv, HeardInv
  <1> QED BY <1>1, DistinctLen DEF TypeInv, HeardInv

(* What the loop does with the result of one more branch. *)
LEMMA HearCases ==
  ASSUME TypeInv, HeardInv, mainPc = "select", NEW b \in branches, got[b] \in Ends,
         \A i \in DOMAIN heard : heard[i] # b, Hear(b)
  PROVE  /\ heard' = Append(heard, b) /\ heard' \in Seq(branches) /\ Distinct(heard')
         /\ \A i \in DOMAIN heard' : heard'[i] = b \/ \E j \in DOMAIN heard : heard'[i] = heard[j]
         /\ \/ got[b] = "ip" /\ outcome' = b /\ mainPc' = "end"
            \/ /\ mainPc' = "end" /\ got[b] # "ip"
               /\ \A x \in branches : \E i \in DOMAIN heard' : heard'[i] = x
               /\ \/ Takes(outcome', heard')
                  \/ outcome' = "failed" /\ \A x \in branches : got[x] = "error"
            \/ UNCHANGED main /\ got[b] # "ip"
  <1> DEFINE seq == Append(heard, b)
  <1>1. heard \in Seq(branches) /\ Len(heard) \in 0 .. 3 /\ branches \subseteq Branch
    BY HeardSeq DEF TypeInv
  <1>2. seq \in Seq(branches) /\ seq \in Seq(Branch) /\ Distinct(seq) /\ heard' = seq
    BY <1>1, DistinctAppend DEF HeardInv, Hear
  <1>3. \A i \in DOMAIN seq : seq[i] = b \/ \E j \in DOMAIN heard : seq[i] = heard[j]
    BY <1>1
  <1>4. Len(seq) \in 0 .. 3 /\ (Len(seq) = Cardinality(branches) => \A x \in branches : \E i \in DOMAIN seq : seq[i] = x)
    BY <1>1, <1>2, DistinctLen
  <1>5. got[b] # "ip" => \A i \in DOMAIN seq : got[seq[i]] \in Ends \ {"ip"}
    BY <1>3 DEF HeardInv
  <1>6. CASE got[b] = "ip"
    BY <1>2, <1>3, <1>6 DEF Hear, Return
  <1>7. CASE got[b] # "ip" /\ Len(seq) = Cardinality(branches)
    <2>1. outcome' = Best(seq) /\ mainPc' = "end"
      BY <1>7 DEF Hear, Return
    <2>2. Takes(Best(seq), seq) \/ (Best(seq) = "failed" /\ \A i \in DOMAIN seq : got[seq[i]] \notin {"definitive", "other"})
      BY <1>2, <1>4, BestIs
    <2>3. ASSUME \A i \in DOMAIN seq : got[seq[i]] \notin {"definitive", "other"}, NEW x \in branches
          PROVE  got[x] = "error"
      BY <1>4, <1>5, <1>7, <2>3 DEF Ends, Replies
    <2>4. heard' = Append(heard, b) /\ heard' \in Seq(branches) /\ Distinct(heard')
      BY <1>2
    <2>5. \A i \in DOMAIN heard' : heard'[i] = b \/ \E j \in DOMAIN heard : heard'[i] = heard[j]
      BY <1>2, <1>3
    <2>6. \A x \in branches : \E i \in DOMAIN heard' : heard'[i] = x
      BY <1>2, <1>4, <1>7
    <2>7. Takes(outcome', heard') \/ (outcome' = "failed" /\ \A x \in branches : got[x] = "error")
      BY <1>2, <2>1, <2>2, <2>3
    <2> HIDE DEF seq
    <2> QED BY <1>7, <2>1, <2>4, <2>5, <2>6, <2>7
  <1>8. CASE got[b] # "ip" /\ Len(seq) # Cardinality(branches)
    BY <1>2, <1>3, <1>8 DEF Hear
  <1> QED BY <1>6, <1>7, <1>8

(* Both ways to hear meet its conditions. *)
LEMMA ForwardHears ==
  ASSUME IInv, NEW b \in Branch, ForwardReceives(b)
  PROVE  b \in branches /\ got[b] \in Ends /\ (\A i \in DOMAIN heard : heard[i] # b) /\ mainPc = "select" /\ Hear(b)
  BY DEF IInv, GotInv, HeardInv, ForwardReceives, Prefer

LEMMA AliHears ==
  ASSUME IInv, AliReceives
  PROVE  /\ Head(respChan) \in branches /\ got[Head(respChan)] \in Ends
         /\ \A i \in DOMAIN heard : heard[i] # Head(respChan)
         /\ mainPc = "select" /\ Hear(Head(respChan))
  <1>1. respChan \in Seq(Branch \cup {None}) /\ respChan # <<>> /\ exec = "aliapi"
    BY DEF AliReceives, IInv, TypeInv
  <1>2. Head(respChan) = respChan[1] /\ 1 \in DOMAIN respChan
    BY <1>1
  <1>3. ToBeHeard(Head(respChan))
    BY <1>1, <1>2 DEF IInv, HeardInv
  <1>4. got[Head(respChan)] \in Ends
    <2>1. Head(respChan) \in Branch /\ bpc[Head(respChan)] = "end"
      BY <1>3 DEF ToBeHeard, IInv, TypeInv
    <2> QED BY <1>1, <2>1 DEF IInv, GotInv, TypeInv
  <1> QED BY <1>3, <1>4 DEF ToBeHeard, AliReceives

-----------------------------------------------------------------------------
(* One more result heard, of forward or of aliapi. *)
Hears(b) == (b \in Branch /\ ForwardReceives(b)) \/ (AliReceives /\ b = Head(respChan))

LEMMA HearsStep ==
  ASSUME IInv, NEW b, Hears(b)
  PROVE  /\ b \in branches /\ got[b] \in Ends /\ mainPc = "select" /\ exec \in {"forward", "aliapi"}
         /\ \A i \in DOMAIN heard : heard[i] # b
         /\ UNCHANGED <<exec, branches, got, nils, ctx, prefs>>
         /\ heard' = Append(heard, b) /\ heard' \in Seq(branches) /\ Distinct(heard')
         /\ \A i \in DOMAIN heard' : heard'[i] = b \/ \E j \in DOMAIN heard : heard'[i] = heard[j]
         /\ \/ got[b] = "ip" /\ outcome' = b /\ mainPc' = "end"
            \/ /\ mainPc' = "end" /\ got[b] # "ip"
               /\ \A x \in branches : \E i \in DOMAIN heard' : heard'[i] = x
               /\ \/ Takes(outcome', heard')
                  \/ outcome' = "failed" /\ \A x \in branches : got[x] = "error"
            \/ UNCHANGED main /\ got[b] # "ip"
  <1>1. /\ b \in branches /\ got[b] \in Ends /\ mainPc = "select" /\ Hear(b)
        /\ \A i \in DOMAIN heard : heard[i] # b
    <2>1. CASE b \in Branch /\ ForwardReceives(b)
      BY <2>1, ForwardHears
    <2>2. CASE AliReceives /\ b = Head(respChan)
      BY <2>2, AliHears
    <2> QED BY <2>1, <2>2 DEF Hears
  <1>2. UNCHANGED <<exec, branches, got, nils, ctx, prefs>> /\ exec \in {"forward", "aliapi"}
    BY DEF Hears, ForwardReceives, AliReceives, query
  <1>3. TypeInv /\ HeardInv
    BY DEF IInv
  <1> QED BY <1>1, <1>2, <1>3, HearCases

LEMMA Named == {Primary, Secondary, Reference, Original} \subseteq Branch /\ Primary # Secondary
  BY BranchNames DEF Primary, Secondary, Reference, Original

LEMMA BestType == ASSUME TypeInv, HeardInv PROVE Best(heard) \in Branch \cup {"failed"}
  <1>1. heard \in Seq(Branch) /\ Len(heard) \in 0 .. 3
    BY HeardSeq DEF TypeInv
  <1> QED BY <1>1, BestIs DEF Takes

LEMMA TypeStep == ASSUME IInv, [PathNext]_pathVars PROVE TypeInv'
  <1> USE DEF TypeInv, Places, Outcomes, Ends, Replies, PathGoto, Send, Return,
              query, ctx, main, counts, chan, prefs
  <1>0. TypeInv /\ HeardInv
    BY DEF IInv
  <1>1. ASSUME NEW b \in Branch, BranchReturns(b) PROVE TypeInv'
    BY <1>0, <1>1 DEF BranchReturns
  <1>2. ASSUME NEW b \in Branch, ForwardDone(b) PROVE TypeInv'
    BY <1>0, <1>2 DEF ForwardDone
  <1>3. ASSUME NEW b \in Branch, AliSends(b) PROVE TypeInv'
    BY <1>0, <1>3 DEF AliSends
  <1>4. CASE PrimaryCloses
    BY <1>0, <1>4 DEF PrimaryCloses
  <1>5. CASE PrimarySends
    BY <1>0, <1>5, Named DEF PrimarySends
  <1>6. CASE SecondaryWaits
    <2>1. respChan' \in Seq(Branch \cup {None})
      BY <1>0, <1>6 DEF SecondaryWaits
    <2>2. bpc' \in [Branch -> Places]
      BY <1>0, <1>6 DEF SecondaryWaits
    <2> QED BY <1>0, <1>6, <2>1, <2>2 DEF SecondaryWaits
  <1>7. CASE SecondaryReturns
    <2> DEFINE x == IF Replied(Secondary) THEN Secondary ELSE None
    <2>1. respChan' \in Seq(Branch \cup {None})
      <3>1. UNCHANGED respChan \/ respChan' = Append(respChan, x)
        BY <1>7 DEF SecondaryReturns
      <3>2. x \in Branch \cup {None}
        BY Named
      <3> HIDE DEF x
      <3> QED BY <1>0, <3>1, <3>2
    <2>2. bpc' \in [Branch -> Places]
      BY <1>0, <1>7 DEF SecondaryReturns
    <2> QED BY <1>0, <1>7, <2>1, <2>2 DEF SecondaryReturns
  <1>8. CASE SecondaryStandsBy
    BY <1>0, <1>8, Named DEF SecondaryStandsBy
  <1>9. CASE ReferenceEnds
    BY <1>0, <1>9 DEF ReferenceEnds
  <1>10. CASE OriginalSends
    BY <1>0, <1>10, Named DEF OriginalSends
  <1>11. CASE Start
    BY <1>0, <1>11 DEF Start
  <1>12. CASE FallbackReceives
    <2>1. Head(respChan) \in Branch \cup {None} /\ Tail(respChan) \in Seq(Branch \cup {None})
      BY <1>0, <1>12 DEF FallbackReceives
    <2> QED BY <1>0, <1>12, <2>1 DEF FallbackReceives
  <1>13. CASE PreferSelects
    <2>1. OriginalOutcome \in Branch \cup {"failed"}
      BY Named DEF OriginalOutcome
    <2>2. respChan' \in Seq(Branch \cup {None})
      BY <1>0, <1>13 DEF PreferSelects
    <2> QED BY <1>0, <1>13, <2>1, <2>2 DEF PreferSelects
  <1>14. CASE PreferredReturns
    BY <1>0, <1>14, Named DEF PreferredReturns
  <1>15. CASE MainCtxDone
    BY <1>0, <1>15 DEF MainCtxDone
  <1>16. ASSUME NEW b, Hears(b) PROVE TypeInv'
    <2>1. /\ UNCHANGED <<exec, branches, got, nils>> /\ heard' \in Seq(Branch)
          /\ mainPc' \in {"select", "end"} /\ outcome' \in Branch \cup {"failed", outcome}
      BY <1>0, <1>16, HearsStep DEF Takes
    <2>2. bpc' \in [Branch -> Places] /\ respChan' \in Seq(Branch \cup {None})
      BY <1>0, <1>16 DEF Hears, ForwardReceives, AliReceives
    <2> QED BY <1>0, <2>1, <2>2
  <1>17. CASE AliGivesUp
    BY <1>0, <1>17, BestType DEF AliGivesUp
  <1>18. CASE Timer \/ CtxEnds \/ UNCHANGED pathVars
    BY <1>0, <1>18 DEF Timer, CtxEnds, pathVars
  <1> QED BY <1>1, <1>2, <1>3, <1>4, <1>5, <1>6, <1>7, <1>8, <1>9, <1>10, <1>11, <1>12, <1>13,
             <1>14, <1>15, <1>16, <1>17, <1>18 DEF PathNext, BranchStep, MainStep, Hears

LEMMA GotStep == ASSUME IInv, [PathNext]_pathVars PROVE (GotInv /\ FallbackHasBoth /\ EndInv)'
  <1> USE DEF TypeInv, Places, Ends, Replies, None, PathGoto, Return, Fallback, Prefer, Replied,
              query, ctx, main, counts, chan, prefs
  <1>0. TypeInv /\ HeardInv /\ CountInv /\ GotInv /\ FallbackHasBoth /\ EndInv
    BY DEF IInv
  <1>01. \A b \in Branch : got[b] \in Ends => mainPc # "start" /\ bpc[b] # "none"
    BY <1>0 DEF GotInv, EndInv
  (* A goroutine with a result goes on; the main one stays or goes on.      *)
  <1>g. ASSUME NEW b \in Branch, NEW p \in {"send", "standby", "end"}, UNCHANGED <<query, got>>,
               bpc' = [bpc EXCEPT ![b] = p], got[b] \in Ends,
               p \in {"send", "standby"} => Fallback,
               p = "standby" => Replied(b)
        PROVE  GotInv' /\ FallbackHasBoth'
    <2>1. ASSUME NEW c \in Branch, c # b PROVE bpc'[c] = bpc[c]
      BY <1>0, <1>g, <2>1
    <2>2. bpc'[b] = p /\ bpc[b] # "none"
      BY <1>0, <1>01, <1>g
    <2>3. GotInv'
      BY <1>0, <1>g, <2>1, <2>2 DEF GotInv
    <2> QED BY <1>0, <1>g, <2>3 DEF FallbackHasBoth
  <1>u. ASSUME UNCHANGED <<query, got, bpc>> PROVE GotInv' /\ FallbackHasBoth'
    BY <1>0, <1>u DEF GotInv, FallbackHasBoth
  <1>m. ASSUME UNCHANGED <<exec, got>>, mainPc' # "start",
               outcome' = "pending" <=> mainPc' # "end",
               outcome' = "blocked" => Prefer,
               ~Prefer /\ outcome' \in Branch => Replied(outcome')
        PROVE  EndInv'
    BY <1>m DEF EndInv
  <1>s. ASSUME UNCHANGED <<exec, got, main>>, mainPc # "start" PROVE EndInv'
    BY <1>0, <1>m, <1>s DEF EndInv
  <1> DEFINE Inv == GotInv /\ FallbackHasBoth /\ EndInv
  <1>1. ASSUME NEW b \in Branch, BranchReturns(b) PROVE Inv'
    <2>1. bpc[b] = "exec" /\ got[b] = None /\ mainPc # "start" /\ UNCHANGED <<query, main>>
      BY <1>0, <1>1 DEF BranchReturns, Running, GotInv
    <2>2. got'[b] \in Ends /\ bpc'[b] = "returned"
      BY <1>0, <1>1 DEF BranchReturns
    <2>3. ASSUME NEW c \in Branch, c # b PROVE got'[c] = got[c] /\ bpc'[c] = bpc[c]
      BY <1>0, <1>1, <2>3 DEF BranchReturns
    <2>4. GotInv'
      BY <1>0, <2>1, <2>2, <2>3, Named DEF GotInv
    <2>5. EndInv'
      BY <1>0, <2>1, <2>2, <2>3 DEF EndInv
    <2> QED BY <1>0, <2>1, <2>4, <2>5 DEF FallbackHasBoth
  <1>2. ASSUME NEW b \in Branch, ForwardDone(b) PROVE Inv'
    <2>1. got[b] \in Ends
      BY <1>0, <1>2 DEF GotInv, ForwardDone
    <2> QED BY <1>g, <1>s, <1>01, <1>2, <2>1 DEF ForwardDone
  <1>3. ASSUME NEW b \in Branch, AliSends(b) PROVE Inv'
    <2>1. got[b] \in Ends
      BY <1>0, <1>3 DEF GotInv, AliSends
    <2> QED BY <1>g, <1>s, <1>01, <1>3, <2>1 DEF AliSends
  <1>4. CASE PrimaryCloses
    <2>1. got[Primary] \in Ends /\ Primary \in Branch
      BY <1>0, <1>4, Named DEF GotInv, PrimaryCloses
    <2> QED BY <1>g, <1>s, <1>01, <1>4, <2>1 DEF PrimaryCloses
  <1>5. CASE PrimarySends
    <2>1. got[Primary] \in Ends /\ Primary \in Branch
      BY <1>0, <1>5, Named DEF GotInv, PrimarySends
    <2> QED BY <1>g, <1>s, <1>01, <1>5, <2>1 DEF PrimarySends
  <1>6. CASE SecondaryWaits
    <2>1. /\ exec = "fallback" /\ mainPc # "start" /\ UNCHANGED <<query, got, main>> /\ Secondary \in Branch
          /\ bpc[Secondary] = "wait" /\ got[Secondary] = None
      BY <1>0, <1>6, Named DEF SecondaryWaits, GotInv
    <2>2. \/ bpc'[Secondary] = "end" /\ Replied(Primary)
          \/ bpc'[Secondary] = "exec"
      BY <1>0, <1>6, <2>1 DEF SecondaryWaits, primDone
    <2>3. ASSUME NEW c \in Branch, c # Secondary PROVE bpc'[c] = bpc[c]
      BY <1>0, <1>6, <2>3 DEF SecondaryWaits
    <2>4. GotInv'
      BY <1>0, <2>1, <2>2, <2>3 DEF GotInv
    <2> QED BY <1>0, <1>s, <2>1, <2>4 DEF FallbackHasBoth
  <1>7. CASE SecondaryReturns
    <2>1. got[Secondary] \in Ends /\ Secondary \in Branch
      BY <1>0, <1>7, Named DEF GotInv, SecondaryReturns
    <2>2. CASE Replied(Secondary) /\ exec = "standby"
      BY <1>g, <1>s, <1>01, <1>7, <2>1, <2>2 DEF SecondaryReturns
    <2>3. CASE ~(Replied(Secondary) /\ exec = "standby")
      BY <1>g, <1>s, <1>01, <1>7, <2>1, <2>3 DEF SecondaryReturns
    <2> QED BY <2>2, <2>3
  <1>8. CASE SecondaryStandsBy
    <2>1. got[Secondary] \in Ends /\ Secondary \in Branch
      BY <1>0, <1>8, Named DEF GotInv, SecondaryStandsBy
    <2> QED BY <1>g, <1>s, <1>01, <1>8, <2>1 DEF SecondaryStandsBy
  <1>9. CASE ReferenceEnds
    <2>1. got[Reference] \in Ends /\ Reference \in Branch
      BY <1>0, <1>9, Named DEF GotInv, ReferenceEnds
    <2> QED BY <1>g, <1>s, <1>01, <1>9, <2>1 DEF ReferenceEnds
  <1>10. CASE OriginalSends
    <2>1. got[Original] \in Ends /\ Original \in Branch
      BY <1>0, <1>10, Named DEF GotInv, OriginalSends
    <2> QED BY <1>g, <1>s, <1>01, <1>10, <2>1 DEF OriginalSends
  <1>11. CASE Start
    <2>1. CASE preferOk /\ exec = "prefer"
      <3>1. UNCHANGED <<exec, got>> /\ bpc' = [b \in Branch |-> "none"] /\ mainPc = "start"
            /\ outcome' = "blocked" /\ mainPc' = "end"
        BY <1>11, <2>1 DEF Start
      <3>2. \A b \in Branch : got[b] = None
        BY <1>0, <3>1 DEF EndInv
      <3>3. GotInv'
        BY <2>1, <3>1, <3>2 DEF GotInv
      <3>4. FallbackHasBoth'
        BY <2>1, <3>1 DEF FallbackHasBoth
      <3> QED BY <1>m, <2>1, <3>1, <3>3, <3>4
    <2>2. CASE ~(preferOk /\ exec = "prefer")
      <3>1. UNCHANGED <<query, got, bpc, outcome>> /\ mainPc = "start" /\ mainPc' = "select"
        BY <1>11, <2>2 DEF Start
      <3> QED BY <1>0, <1>u, <1>m, <3>1 DEF EndInv
    <2> QED BY <2>1, <2>2
  <1>12. CASE FallbackReceives
    <2>1. UNCHANGED <<query, got, bpc>> /\ mainPc = "select" /\ Fallback /\ respChan # <<>>
      BY <1>12 DEF FallbackReceives
    <2>2. Head(respChan) # None => Head(respChan) \in Branch /\ Replied(Head(respChan))
      BY <1>0, <2>1 DEF CountInv
    <2>3. outcome = "pending"
      BY <1>0, <2>1 DEF EndInv
    <2>4. \/ outcome' \in Branch /\ Replied(outcome') /\ mainPc' = "end"
          \/ outcome' = "failed" /\ mainPc' = "end"
          \/ UNCHANGED main
      BY <1>12, <2>2 DEF FallbackReceives
    <2> QED BY <1>u, <1>m, <2>1, <2>3, <2>4, BranchNames
  <1>13. CASE PreferSelects
    <2>1. UNCHANGED <<query, got, bpc>> /\ Prefer /\ mainPc \in {"select", "wait"} /\ outcome = "pending"
      BY <1>0, <1>13 DEF PreferSelects, EndInv
    <2>2. \/ outcome' \in Branch \cup {"failed", "blocked"} /\ mainPc' = "end"
          \/ UNCHANGED outcome /\ mainPc' = "wait"
      BY <1>13, Named DEF PreferSelects, OriginalOutcome
    <2> QED BY <1>u, <1>m, <2>1, <2>2, BranchNames
  <1>14. CASE PreferredReturns
    <2>1. got[Reference] \in Ends /\ Reference \in Branch /\ Prefer
      BY <1>0, <1>14, Named DEF GotInv, PreferredReturns
    <2>2. outcome' \in Branch \cup {"failed"} /\ mainPc' = "end"
      BY <1>14, Named DEF PreferredReturns
    <2> QED BY <1>g, <1>m, <1>14, <2>1, <2>2, BranchNames DEF PreferredReturns
  <1>15. CASE MainCtxDone
    BY <1>u, <1>m, <1>15, BranchNames DEF MainCtxDone
  <1>16. ASSUME NEW b, Hears(b) PROVE Inv'
    <2>1. /\ b \in Branch /\ got[b] \in Ends /\ mainPc = "select" /\ UNCHANGED <<query, got>>
          /\ \/ got[b] = "ip" /\ outcome' = b /\ mainPc' = "end"
             \/ mainPc' = "end" /\ (outcome' = "failed" \/ Takes(outcome', heard'))
             \/ UNCHANGED main
          /\ \A i \in DOMAIN heard' : heard'[i] \in Branch
      BY <1>0, <1>16, HearsStep
    <2>2. outcome = "pending"
      BY <1>0, <2>1 DEF EndInv
    <2>3. Takes(outcome', heard') => outcome' \in Branch /\ Replied(outcome')
      BY <2>1 DEF Takes
    <2>4. EndInv'
      <3>1. CASE UNCHANGED main
        BY <1>s, <2>1, <3>1
      <3>2. CASE mainPc' = "end" /\ (outcome' = "failed" \/ (outcome' \in Branch /\ Replied(outcome')))
        BY <1>m, <2>1, <3>2, BranchNames
      <3>3. CASE got[b] = "ip" /\ outcome' = b /\ mainPc' = "end"
        BY <2>1, <3>2, <3>3
      <3>4. CASE mainPc' = "end" /\ outcome' = "failed"
        BY <1>m, <2>1, <3>4, BranchNames
      <3>5. CASE mainPc' = "end" /\ Takes(outcome', heard')
        <4>1. outcome' \in Branch /\ Replied(outcome')
          BY <2>3, <3>5
        <4> QED BY <3>2, <3>5, <4>1
      <3> QED BY <2>1, <3>1, <3>3, <3>4, <3>5
    <2>5. CASE ForwardReceives(b)
      BY <1>g, <2>1, <2>4, <2>5 DEF ForwardReceives
    <2>6. CASE AliReceives
      BY <1>u, <2>1, <2>4, <2>6 DEF AliReceives
    <2> QED BY <1>16, <2>5, <2>6 DEF Hears
  <1>17. CASE AliGivesUp
    <2>1. UNCHANGED <<query, got, bpc>> /\ mainPc' = "end" /\ mainPc = "select" /\ exec = "aliapi"
          /\ outcome' = IF Has(Replies, heard) THEN Best(heard) ELSE "ctx"
      BY <1>17 DEF AliGivesUp
    <2>2. heard \in Seq(Branch) /\ Len(heard) \in 0 .. 3
      BY <1>0, HeardSeq
    <2>3. Takes(Best(heard), heard) => Best(heard) \in Branch /\ Replied(Best(heard))
      BY <2>2 DEF Takes
    <2>4. \/ outcome' \in Branch /\ Replied(outcome')
          \/ outcome' \in {"failed", "ctx"}
      BY <2>1, <2>2, <2>3, BestIs
    <2> QED BY <1>u, <1>m, <2>1, <2>4, BranchNames
  <1>18. CASE Timer
    BY <1>u, <1>s, <1>18 DEF Timer
  <1>19. CASE CtxEnds
    BY <1>u, <1>s, <1>19 DEF CtxEnds
  <1>20. CASE UNCHANGED pathVars
    BY <1>0, <1>u, <1>20 DEF EndInv, pathVars
  <1> QED BY <1>1, <1>2, <1>3, <1>4, <1>5, <1>6, <1>7, <1>8, <1>9, <1>10, <1>11, <1>12, <1>13,
             <1>14, <1>15, <1>16, <1>17, <1>18, <1>19, <1>20 DEF PathNext, BranchStep, MainStep, Hears

LEMMA HeardStep == ASSUME IInv, [PathNext]_pathVars PROVE HeardInv'
  <1> USE DEF PathGoto, Return, Fallback, Prefer, query, ctx, main, counts, chan, prefs
  <1>0. TypeInv /\ HeardInv /\ GotInv /\ EndInv
    BY DEF IInv
  (* Nothing else is heard; branches that have ended stay as they are.      *)
  <1>s. ASSUME UNCHANGED <<exec, branches, heard>>, mainPc = "end" => mainPc' = "end",
               \A b \in Branch : bpc[b] = "end" => bpc'[b] = "end" /\ got'[b] = got[b],
               exec = "aliapi" => UNCHANGED respChan
        PROVE  HeardInv'
    <2>1. \A i \in DOMAIN heard : heard[i] \in Branch
      BY <1>0 DEF TypeInv
    <2>2. exec = "aliapi" => \A i \in DOMAIN respChan : respChan[i] \in branches /\ respChan[i] \in Branch
      BY <1>0 DEF TypeInv, HeardInv, ToBeHeard
    <2>3. Distinct(heard)'
      BY <1>0, <1>s DEF HeardInv, Distinct
    <2>4. exec' = "aliapi" => Distinct(respChan)'
      BY <1>0, <1>s DEF HeardInv, Distinct
    <2>5. exec' = "aliapi" => \A i \in DOMAIN respChan' : ToBeHeard(respChan[i])'
      BY <1>0, <1>s, <2>2 DEF HeardInv, ToBeHeard
    <2>6. \A i \in DOMAIN heard' :
             /\ heard'[i] \in branches' /\ bpc'[heard'[i]] = "end" /\ got'[heard'[i]] \in Ends
             /\ mainPc' # "end" => got'[heard'[i]] # "ip"
      BY <1>0, <1>s, <2>1 DEF HeardInv
    <2> QED BY <2>3, <2>4, <2>5, <2>6 DEF HeardInv
  <1>1. ASSUME NEW b \in Branch, BranchReturns(b) PROVE HeardInv'
    BY <1>0, <1>1, <1>s DEF BranchReturns, Running, TypeInv
  <1>2. ASSUME NEW b \in Branch, ForwardDone(b) PROVE HeardInv'
    BY <1>0, <1>2, <1>s DEF ForwardDone, TypeInv
  <1>3. ASSUME NEW b \in Branch, AliSends(b) PROVE HeardInv'
    <2>1. /\ UNCHANGED <<exec, branches, heard, main, got>> /\ bpc[b] = "returned"
          /\ bpc' = [bpc EXCEPT ![b] = "end"] /\ exec = "aliapi"
          /\ UNCHANGED respChan \/ respChan' = Append(respChan, b)
      BY <1>3 DEF AliSends, Send
    <2>2. bpc'[b] = "end" /\ \A c \in Branch : bpc[c] = "end" => bpc'[c] = "end"
      BY <1>0, <2>1 DEF TypeInv
    <2>3. CASE UNCHANGED respChan
      BY <1>s, <2>1, <2>2, <2>3
    <2>4. CASE respChan' = Append(respChan, b)
      <3>1. b \in branches /\ \A i \in DOMAIN respChan : respChan[i] \in Branch /\ ToBeHeard(respChan[i])
        BY <1>0, <2>1 DEF TypeInv, GotInv, HeardInv, ToBeHeard
      <3>2. \A i \in DOMAIN heard : heard[i] \in Branch /\ bpc[heard[i]] = "end" /\ heard[i] # b
        BY <1>0, <2>1 DEF TypeInv, HeardInv
      <3>3. Distinct(respChan')
        BY <1>0, <2>1, <2>4, <3>1, DistinctAppend DEF HeardInv, ToBeHeard, TypeInv
      <3>4. \A i \in DOMAIN respChan' : respChan'[i] = b \/ \E j \in DOMAIN respChan : respChan'[i] = respChan[j]
        BY <1>0, <2>4 DEF TypeInv
      <3>5. ASSUME NEW x \in Branch, x = b \/ ToBeHeard(x)
            PROVE  x \in branches' /\ bpc'[x] = "end" /\ \A i \in DOMAIN heard' : heard'[i] # x
        BY <2>1, <2>2, <3>1, <3>2, <3>5 DEF ToBeHeard
      <3>6. \A i \in DOMAIN respChan' : ToBeHeard(respChan[i])'
        BY <3>1, <3>4, <3>5 DEF ToBeHeard
      <3>7. Distinct(heard')
        BY <1>0, <2>1 DEF HeardInv
      <3> QED BY <1>0, <2>1, <2>2, <3>2, <3>3, <3>6, <3>7 DEF HeardInv
    <2> QED BY <2>1, <2>3, <2>4
  <1>4. CASE PrimaryCloses
    BY <1>0, <1>4, <1>s DEF PrimaryCloses, TypeInv
  <1>5. CASE PrimarySends
    BY <1>0, <1>5, <1>s DEF PrimarySends, TypeInv
  <1>6. CASE SecondaryWaits
    <2>1. \A b \in Branch : bpc[b] = "end" => bpc'[b] = "end"
      BY <1>0, <1>6 DEF SecondaryWaits, TypeInv
    <2> QED BY <1>6, <1>s, <2>1 DEF SecondaryWaits
  <1>7. CASE SecondaryReturns
    <2>1. \A b \in Branch : bpc[b] = "end" => bpc'[b] = "end"
      BY <1>0, <1>7 DEF SecondaryReturns, TypeInv
    <2> QED BY <1>7, <1>s, <2>1 DEF SecondaryReturns
  <1>8. CASE SecondaryStandsBy
    <2>1. bpc[Secondary] = "standby" /\ exec # "aliapi"
      BY <1>0, <1>8, Named DEF SecondaryStandsBy, GotInv
    <2> QED BY <1>0, <1>8, <1>s, <2>1 DEF SecondaryStandsBy, TypeInv
  <1>9. CASE ReferenceEnds
    BY <1>0, <1>9, <1>s DEF ReferenceEnds, TypeInv
  <1>10. CASE OriginalSends
    BY <1>0, <1>10, <1>s DEF OriginalSends, TypeInv
  <1>11. CASE Start
    <2>1. heard = <<>> /\ respChan = <<>> /\ heard' = <<>> /\ respChan' = <<>> /\ DOMAIN <<>> = {}
      BY <1>0, <1>11 DEF Start, EndInv
    <2> QED BY <2>1 DEF HeardInv, Distinct
  <1>12. CASE FallbackReceives
    BY <1>12, <1>s DEF FallbackReceives
  <1>13. CASE PreferSelects
    BY <1>13, <1>s DEF PreferSelects
  <1>14. CASE PreferredReturns
    BY <1>0, <1>14, <1>s DEF PreferredReturns, TypeInv
  <1>15. CASE MainCtxDone
    BY <1>15, <1>s DEF MainCtxDone
  <1>16. ASSUME NEW b, Hears(b) PROVE HeardInv'
    <2>1. /\ b \in branches /\ got[b] \in Ends /\ branches \subseteq Branch
          /\ UNCHANGED <<exec, branches, got>> /\ Distinct(heard')
          /\ \A i \in DOMAIN heard' : heard'[i] = b \/ \E j \in DOMAIN heard : heard'[i] = heard[j]
          /\ mainPc' # "end" => mainPc = "select" /\ got[b] # "ip"
      BY <1>0, <1>16, HearsStep DEF TypeInv
    <2>2. bpc'[b] = "end" /\ \A c \in Branch : bpc[c] = "end" => bpc'[c] = "end"
      <3>1. CASE ForwardReceives(b)
        BY <1>0, <2>1, <3>1 DEF ForwardReceives, TypeInv
      <3>2. CASE AliReceives /\ b = Head(respChan)
        <4>1. respChan \in Seq(Branch \cup {None}) /\ respChan # <<>> /\ exec = "aliapi" /\ UNCHANGED bpc
          BY <1>0, <3>2 DEF AliReceives, TypeInv
        <4>2. 1 \in DOMAIN respChan /\ respChan[1] = b
          BY <3>2, <4>1
        <4> QED BY <1>0, <4>1, <4>2 DEF HeardInv, ToBeHeard
      <3> QED BY <1>16, <3>1, <3>2 DEF Hears
    <2>3. ASSUME NEW i \in DOMAIN heard'
          PROVE  /\ heard'[i] \in branches /\ bpc'[heard'[i]] = "end" /\ got[heard'[i]] \in Ends
                 /\ mainPc' # "end" => got[heard'[i]] # "ip"
      <3>1. CASE heard'[i] = b
        BY <2>1, <2>2, <3>1
      <3>2. ASSUME NEW j \in DOMAIN heard, heard'[i] = heard[j]
            PROVE  /\ heard'[i] \in branches /\ bpc'[heard'[i]] = "end" /\ got[heard'[i]] \in Ends
                   /\ mainPc' # "end" => got[heard'[i]] # "ip"
        BY <1>0, <2>1, <2>2, <3>2 DEF HeardInv
      <3> QED BY <2>1, <3>1, <3>2
    <2>4. exec' = "aliapi" => Distinct(respChan') /\ \A i \in DOMAIN respChan' : ToBeHeard(respChan[i])'
      <3> SUFFICES ASSUME exec = "aliapi" 
                   PROVE  Distinct(respChan') /\ \A i \in DOMAIN respChan' : ToBeHeard(respChan[i])'
        BY <2>1
      <3>1. respChan \in Seq(Branch \cup {None}) /\ respChan # <<>> /\ respChan' = Tail(respChan) /\ b = Head(respChan)
        BY <1>0, <1>16 DEF Hears, ForwardReceives, AliReceives, TypeInv
      <3>2. b = respChan[1] /\ 1 \in DOMAIN respChan
        BY <3>1
      <3>3. \A i \in DOMAIN respChan' : i + 1 \in DOMAIN respChan /\ respChan'[i] = respChan[i + 1] /\ i \in Nat \ {0}
        BY <3>1
      <3>4. Distinct(respChan) /\ \A i \in DOMAIN respChan : ToBeHeard(respChan[i])
        BY <1>0 DEF HeardInv
      <3>5. Distinct(respChan')
        BY <3>3, <3>4 DEF Distinct
      <3>6. ASSUME NEW i \in DOMAIN respChan' PROVE ToBeHeard(respChan[i])'
        <4>1. respChan'[i] # b /\ ToBeHeard(respChan'[i])
          BY <3>2, <3>3, <3>4 DEF Distinct
        <4> QED BY <2>1, <2>2, <4>1 DEF ToBeHeard
      <3> QED BY <3>5, <3>6
    <2> QED BY <2>1, <2>3, <2>4 DEF HeardInv
  <1>17. CASE AliGivesUp
    BY <1>17, <1>s DEF AliGivesUp
  <1>18. CASE Timer \/ CtxEnds \/ UNCHANGED pathVars
    BY <1>18, <1>s DEF Timer, CtxEnds, pathVars
  <1> QED BY <1>1, <1>2, <1>3, <1>4, <1>5, <1>6, <1>7, <1>8, <1>9, <1>10, <1>11, <1>12, <1>13,
             <1>14, <1>15, <1>16, <1>17, <1>18 DEF PathNext, BranchStep, MainStep, Hears

LEMMA ExecStays == ASSUME [PathNext]_pathVars PROVE UNCHANGED exec
  BY DEF PathNext, BranchStep, MainStep, BranchReturns, ForwardDone, AliSends, PrimaryCloses,
     PrimarySends, SecondaryWaits, SecondaryReturns, SecondaryStandsBy, ReferenceEnds,
     OriginalSends, Start, FallbackReceives, PreferSelects, PreferredReturns, MainCtxDone,
     AliReceives, AliGivesUp, ForwardReceives, Timer, CtxEnds, pathVars, query

LEMMA AppendOne ==
  ASSUME NEW S, NEW seq \in Seq(S), NEW x \in S
  PROVE  /\ Len(Append(seq, x)) = Len(seq) + 1
         /\ Append(seq, x)[Len(seq) + 1] = x
         /\ \A i \in 1 .. Len(seq) : Append(seq, x)[i] = seq[i]
  OBVIOUS

LEMMA CountStep == ASSUME IInv, [PathNext]_pathVars PROVE CountInv'
  <1> USE DEF PathGoto, Return, Prefer, query, ctx, main, counts, chan, prefs
  <1>0. TypeInv /\ CountInv /\ GotInv /\ EndInv /\ FallbackHasBoth /\ None \notin Branch
    BY BranchNames DEF IInv, None
  <1>01. UNCHANGED exec
    BY ExecStays
  <1>1. CASE ~Fallback
    BY <1>01, <1>1 DEF CountInv, Fallback
  <1>2. CASE Fallback
    <2>0. /\ Len(respChan) <= Sent(Primary) + Sent(Secondary)
          /\ nils + NilAt(1) + NilAt(2) = NilOf(Primary) + NilOf(Secondary)
          /\ \A i \in DOMAIN respChan : respChan[i] # None => respChan[i] \in Branch /\ Replied(respChan[i])
          /\ respChan \in Seq(Branch \cup {None}) /\ nils \in Nat
          /\ exec \in {"fallback", "standby"}
      BY <1>0, <1>2 DEF CountInv, TypeInv, Fallback
    <2>00. /\ \A P : One(P) \in {0, 1}
           /\ One(TRUE) = 1 /\ One(FALSE) = 0
      BY DEF One
    (* No result is sent or received, and no branch that has ended changes. *)
    <2>n. ASSUME UNCHANGED <<respChan, nils>>,
                 \A b \in {Primary, Secondary} : UNCHANGED <<Sent(b), NilOf(b)>>,
                 \A b \in Branch : Replied(b) => got'[b] \in Replies
          PROVE  CountInv'
      <3>1. UNCHANGED <<NilAt(1), NilAt(2)>>
        BY <2>n DEF NilAt
      <3> QED BY <2>0, <2>n, <3>1 DEF CountInv, Replied
    (* A branch sends its result and ends.                                  *)
    <2>a. ASSUME NEW b \in {Primary, Secondary}, NEW x \in Branch \cup {None},
                 UNCHANGED <<got, nils>>, bpc[b] # "end",
                 bpc' = [bpc EXCEPT ![b] = "end"],
                 respChan' = Append(respChan, x),
                 x = IF Replied(b) THEN b ELSE None
          PROVE  CountInv'
      <3> DEFINE o == IF b = Primary THEN Secondary ELSE Primary
      <3>1. o # b /\ {b, o} = {Primary, Secondary} /\ b \in Branch /\ o \in Branch
        BY Named
      <3>2. bpc'[b] = "end" /\ bpc'[o] = bpc[o]
        BY <1>0, <2>a, <3>1 DEF TypeInv
      <3> HIDE DEF o
      <3>3. Sent(b) = 0 /\ Sent(b)' = 1 /\ Sent(o)' = Sent(o) /\ Sent(o) \in {0, 1}
        BY <2>a, <3>2 DEF Sent, One
      <3>4. NilOf(b) = 0 /\ NilOf(b)' = One(x = None) /\ NilOf(o)' = NilOf(o) /\ NilOf(o) \in {0, 1}
        BY <1>0, <2>a, <3>1, <3>2 DEF NilOf, One, Replied
      <3>00. respChan \in Seq(Branch \cup {None}) /\ respChan' = Append(respChan, x) /\ Len(respChan) \in Nat
        BY <2>0, <2>a
      <3>5. Len(respChan) \in {0, 1}
        <4>1. /\ Sent(Primary) \in {0, 1} /\ Sent(Secondary) \in {0, 1}
              /\ Sent(Primary) = 0 \/ Sent(Secondary) = 0
          BY <3>1, <3>3 DEF Sent, One
        <4>2. Len(respChan) <= Sent(Primary) + Sent(Secondary)
          BY <2>0
        <4>3. ASSUME NEW l \in Nat, NEW p \in {0, 1}, NEW s \in {0, 1}, l <= p + s, p = 0 \/ s = 0
              PROVE  l \in {0, 1}
          BY <4>3
        <4>4. Len(respChan) \in Nat
          BY <3>00
        <4> QED BY <4>1, <4>2, <4>3, <4>4
      <3>6. NilAt(1)' + NilAt(2)' = NilAt(1) + NilAt(2) + One(x = None)
        <4>1. CASE Len(respChan) = 0
          <5>1. Len(respChan') = 1 /\ respChan'[1] = x
            BY <3>00, <4>1
          <5> QED BY <4>1, <5>1 DEF NilAt, One
        <4>2. CASE Len(respChan) = 1
          <5>1. Len(respChan') = 2 /\ respChan'[2] = x /\ respChan'[1] = respChan[1]
            <6>1. 1 \in 1 .. Len(respChan) /\ Len(respChan) + 1 = 2
              BY <4>2
            <6> QED BY <3>00, <6>1, AppendOne
          <5> QED BY <4>2, <5>1 DEF NilAt, One
        <4> QED BY <3>5, <4>1, <4>2
      <3>7. /\ Len(respChan') = Len(respChan) + 1
            /\ \A i \in DOMAIN respChan' : respChan'[i] = x \/ \E j \in DOMAIN respChan : respChan'[i] = respChan[j]
        BY <2>0, <2>a
      <3>8. \A y, z \in Nat : y + z = z + y
        OBVIOUS
      <3>9. /\ Sent(Primary) + Sent(Secondary) = Sent(b) + Sent(o)
            /\ Sent(Primary)' + Sent(Secondary)' = Sent(b)' + Sent(o)'
            /\ NilOf(Primary) + NilOf(Secondary) = NilOf(b) + NilOf(o)
            /\ NilOf(Primary)' + NilOf(Secondary)' = NilOf(b)' + NilOf(o)'
        <4>1. CASE b = Primary /\ o = Secondary
          BY <4>1
        <4>2. CASE b = Secondary /\ o = Primary
          BY <3>3, <3>4, <2>00, <4>2
        <4> QED BY <3>1, <4>1, <4>2
      <3>10. Len(respChan') <= Sent(Primary)' + Sent(Secondary)'
        BY <2>0, <3>3, <3>5, <3>7, <3>9
      <3>11. nils' + NilAt(1)' + NilAt(2)' = NilOf(Primary)' + NilOf(Secondary)'
        <4>1. NilAt(1) \in {0, 1} /\ NilAt(2) \in {0, 1} /\ NilAt(1)' \in {0, 1} /\ NilAt(2)' \in {0, 1}
          BY DEF NilAt, One
        <4> QED BY <2>0, <2>a, <2>00, <3>4, <3>6, <3>9, <4>1
      <3>12. \A i \in DOMAIN respChan' : respChan'[i] # None => got'[respChan'[i]] \in Replies
        BY <2>0, <2>a, <3>7 DEF Replied
      <3> QED BY <3>10, <3>11, <3>12 DEF CountInv, Replied
    <2>1. ASSUME NEW b \in Branch, BranchReturns(b) PROVE CountInv'
      <3>1. bpc[b] = "exec" /\ bpc'[b] = "returned" /\ got[b] = None /\ UNCHANGED <<respChan, nils>>
        BY <1>0, <2>1 DEF BranchReturns, Running, GotInv, TypeInv
      <3>2. \A c \in Branch \ {b} : bpc'[c] = bpc[c] /\ got'[c] = got[c]
        BY <1>0, <2>1 DEF BranchReturns, TypeInv
      <3>3. \A c \in Branch : UNCHANGED <<Sent(c), NilOf(c)>>
        BY <3>1, <3>2 DEF Sent, NilOf, Replied, One
      <3>4. \A c \in Branch : Replied(c) => got'[c] \in Replies
        BY <3>1, <3>2 DEF Replied, None, Replies
      <3> QED BY <2>n, <3>1, <3>3, <3>4, Named
    <2>2. CASE PrimaryCloses
      <3>1. bpc[Primary] = "returned" /\ bpc'[Primary] = "send" /\ UNCHANGED <<respChan, nils, got>>
            /\ \A c \in Branch \ {Primary} : bpc'[c] = bpc[c]
        BY <1>0, <2>2, Named DEF PrimaryCloses, TypeInv
      <3>2. \A c \in Branch : UNCHANGED <<Sent(c), NilOf(c)>>
        BY <3>1 DEF Sent, NilOf, Replied, One
      <3> QED BY <2>n, <3>1, <3>2, Named DEF Replied
    <2>3. CASE PrimarySends
      BY <2>3, <2>a, Named DEF PrimarySends, Send
    <2>4. CASE SecondaryWaits
      <3>1. CASE primDone /\ Send(None) /\ PathGoto(Secondary, "end")
        <4>1. got[Secondary] = None
          BY <1>0, <2>4, Named DEF SecondaryWaits, GotInv
        <4>2. ~Replied(Secondary)
          BY <4>1 DEF Replied, Replies, None
        <4> QED BY <2>4, <2>a, <3>1, <4>2, Named DEF SecondaryWaits, Send
      <3>2. CASE PathGoto(Secondary, "exec") /\ UNCHANGED respChan
        <4>1. bpc[Secondary] = "wait" /\ bpc'[Secondary] = "exec" /\ UNCHANGED <<respChan, nils, got>>
              /\ \A c \in Branch \ {Secondary} : bpc'[c] = bpc[c]
          BY <1>0, <2>4, <3>2, Named DEF SecondaryWaits, TypeInv
        <4>2. \A c \in Branch : UNCHANGED <<Sent(c), NilOf(c)>>
          BY <4>1 DEF Sent, NilOf, Replied, One
        <4> QED BY <2>n, <4>1, <4>2, Named DEF Replied
      <3> QED BY <2>4, <3>1, <3>2 DEF SecondaryWaits
    <2>5. CASE SecondaryReturns
      <3>1. CASE Replied(Secondary) /\ exec = "standby"
        <4>1. bpc[Secondary] = "returned" /\ bpc'[Secondary] = "standby" /\ UNCHANGED <<respChan, nils, got>>
              /\ \A c \in Branch \ {Secondary} : bpc'[c] = bpc[c]
          BY <1>0, <2>5, <3>1, Named DEF SecondaryReturns, TypeInv
        <4>2. \A c \in Branch : UNCHANGED <<Sent(c), NilOf(c)>>
          BY <4>1 DEF Sent, NilOf, Replied, One
        <4> QED BY <2>n, <4>1, <4>2, Named DEF Replied
      <3>2. CASE ~(Replied(Secondary) /\ exec = "standby")
        BY <2>5, <2>a, <3>2, Named DEF SecondaryReturns, Send
      <3> QED BY <3>1, <3>2
    <2>6. CASE SecondaryStandsBy
      <3>1. Replied(Secondary) /\ bpc[Secondary] = "standby"
        BY <1>0, <2>6, Named DEF SecondaryStandsBy, GotInv
      <3>2. CASE Send(Secondary)
        BY <2>6, <2>a, <3>1, <3>2, Named DEF SecondaryStandsBy, Send
      (* It is not needed: one result fewer comes, and none without reply.  *)
      <3>3. CASE UNCHANGED respChan
        <4>1. bpc'[Secondary] = "end" /\ bpc'[Primary] = bpc[Primary] /\ UNCHANGED <<respChan, nils, got>>
          BY <1>0, <2>6, <3>3, Named DEF SecondaryStandsBy, TypeInv
        <4>2. /\ Sent(Secondary) = 0 /\ Sent(Secondary)' = 1 /\ UNCHANGED Sent(Primary)
              /\ UNCHANGED <<NilOf(Secondary), NilOf(Primary), NilAt(1), NilAt(2)>>
          BY <3>1, <4>1 DEF Sent, NilOf, NilAt, One, Replied
        <4>3. Sent(Primary) \in {0, 1} /\ Len(respChan) \in Nat
          BY <2>0 DEF Sent, One
        <4>4. Len(respChan') <= Sent(Primary)' + Sent(Secondary)'
          BY <2>0, <4>1, <4>2, <4>3
        <4> QED BY <2>0, <4>1, <4>2, <4>4 DEF CountInv, Replied
      <3> QED BY <2>6, <3>2, <3>3 DEF SecondaryStandsBy
    <2>7. CASE FallbackReceives
      <3>1. /\ respChan # <<>> /\ respChan' = Tail(respChan) /\ UNCHANGED <<bpc, got>>
            /\ nils' = IF Head(respChan) # None THEN nils ELSE nils + 1
        BY <2>7 DEF FallbackReceives
      <3>2. /\ Head(respChan) = respChan[1] /\ Len(respChan) \in Nat /\ Len(respChan) >= 1
            /\ Len(respChan') = Len(respChan) - 1
            /\ \A i \in DOMAIN respChan' : i + 1 \in DOMAIN respChan /\ respChan'[i] = respChan[i + 1]
        BY <2>0, <3>1
      <3>3. /\ Sent(Primary) \in {0, 1} /\ Sent(Secondary) \in {0, 1}
            /\ UNCHANGED <<Sent(Primary), Sent(Secondary), NilOf(Primary), NilOf(Secondary)>>
        BY <3>1 DEF Sent, NilOf, One, Replied
      <3>4. Len(respChan) \in {1, 2}
        <4>1. ASSUME NEW l \in Nat, NEW p \in {0, 1}, NEW s \in {0, 1}, l <= p + s, l >= 1
              PROVE  l \in {1, 2}
          BY <4>1
        <4> QED BY <2>0, <3>2, <3>3, <4>1
      <3>5. nils' = nils + NilAt(1) /\ NilAt(1)' = NilAt(2) /\ NilAt(2)' = 0
        <4>1. CASE Len(respChan) = 1
          BY <2>0, <3>1, <3>2, <4>1 DEF NilAt, One
        <4>2. CASE Len(respChan) = 2
          <5>1. respChan'[1] = respChan[2]
            BY <2>0, <3>1, <4>2
          <5> QED BY <2>0, <3>1, <3>2, <4>2, <5>1 DEF NilAt, One
        <4> QED BY <3>4, <4>1, <4>2
      <3>6. NilAt(1) \in {0, 1} /\ NilAt(2) \in {0, 1}
        BY DEF NilAt, One
      <3>7. nils' + NilAt(1)' + NilAt(2)' = NilOf(Primary)' + NilOf(Secondary)'
        BY <2>0, <3>3, <3>5, <3>6
      <3>8. Len(respChan') <= Sent(Primary)' + Sent(Secondary)'
        <4>1. ASSUME NEW l \in Nat, NEW p \in {0, 1}, NEW s \in {0, 1}, l <= p + s
              PROVE  l - 1 <= p + s
          BY <4>1
        <4> QED BY <2>0, <3>2, <3>3, <4>1
      <3>9. \A i \in DOMAIN respChan' : respChan'[i] # None => got'[respChan'[i]] \in Replies
        BY <2>0, <3>1, <3>2 DEF Replied
      <3> QED BY <3>7, <3>8, <3>9 DEF CountInv, Replied
    <2>8. ASSUME UNCHANGED <<respChan, nils, bpc, got>> PROVE CountInv'
      BY <2>n, <2>8 DEF Sent, NilOf, Replied
    <2>9. CASE Start
      BY <2>0, <2>8, <2>9 DEF Start
    <2>10. CASE MainCtxDone \/ Timer \/ CtxEnds \/ UNCHANGED pathVars
      BY <2>8, <2>10 DEF MainCtxDone, Timer, CtxEnds, pathVars
    <2> QED BY <2>0, <2>1, <2>2, <2>3, <2>4, <2>5, <2>6, <2>7, <2>9, <2>10
       DEF PathNext, BranchStep, MainStep, ForwardDone, AliSends, ReferenceEnds, OriginalSends,
           PreferSelects, PreferredReturns, AliReceives, AliGivesUp, ForwardReceives
  <1> QED BY <1>1, <1>2

(* The reply that is taken is the best of those heard, when it is taken;   *)
(* afterwards nothing is heard any more, and what was heard stays.         *)
LEMMA BestStep == ASSUME IInv, [PathNext]_pathVars PROVE BestReply'
  <1> USE DEF Return, query, ctx, main, counts, chan, prefs
  <1>0. TypeInv /\ HeardInv /\ GotInv /\ EndInv /\ BestReply
    BY DEF IInv
  <1>n. ASSUME outcome' \notin Branch PROVE BestReply'
    BY <1>n DEF BestReply
  <1>p. ASSUME exec' \notin {"forward", "aliapi"} PROVE BestReply'
    BY <1>p DEF BestReply
  (* The outcome was there. *)
  <1>s. ASSUME UNCHANGED <<exec, branches, outcome, heard>>, exec \in {"forward", "aliapi"},
               CtxDone => CtxDone',
               \A b \in Branch : got[b] # None => got'[b] = got[b]
        PROVE  BestReply'
    <2> SUFFICES ASSUME outcome \in Branch, got'[outcome] # "ip"
                 PROVE  /\ Range(heard) = branches \/ (exec = "aliapi" /\ CtxDone')
                        /\ \A b \in Range(heard) :
                              /\ got'[b] \in Ends \ {"ip"}
                              /\ got'[b] = "definitive" => got'[outcome] = "definitive"
      BY <1>s DEF BestReply
    <2>1. got'[outcome] = got[outcome]
      BY <1>0, <1>s DEF EndInv, Prefer, Replied, Replies, None
    <2>2. \A b \in Range(heard) : b \in Branch /\ got'[b] = got[b]
      BY <1>0, <1>s DEF HeardInv, TypeInv, Range, Ends, Replies, None
    <2> QED BY <1>0, <1>s, <2>1, <2>2 DEF BestReply
  <1>q. ASSUME UNCHANGED <<query, ctx, got, outcome, heard>> PROVE BestReply'
    BY <1>q, <1>p, <1>s DEF CtxDone
  <1>1. ASSUME NEW b \in Branch, BranchReturns(b) PROVE BestReply'
    <2>1. got[b] = None /\ \A c \in Branch \ {b} : got'[c] = got[c]
      BY <1>0, <1>1 DEF BranchReturns, Running, GotInv, TypeInv
    <2> QED BY <1>1, <1>p, <1>s, <2>1 DEF BranchReturns, CtxDone
  <1>2. ASSUME NEW b \in Branch, ForwardDone(b) \/ AliSends(b) PROVE BestReply'
    BY <1>2, <1>q DEF ForwardDone, AliSends
  <1>3. CASE PrimaryCloses \/ PrimarySends \/ SecondaryWaits \/ SecondaryReturns \/ SecondaryStandsBy
    BY <1>3, <1>q DEF PrimaryCloses, PrimarySends, SecondaryWaits, SecondaryReturns, SecondaryStandsBy
  <1>4. CASE ReferenceEnds \/ OriginalSends \/ PreferSelects \/ PreferredReturns
    BY <1>4, <1>p DEF ReferenceEnds, OriginalSends, PreferSelects, PreferredReturns
  <1>5. CASE Start
    <2>1. outcome' \in {outcome, "blocked"} /\ outcome = "pending"
      BY <1>0, <1>5 DEF Start, EndInv
    <2> QED BY <1>n, <2>1, BranchNames
  <1>6. CASE FallbackReceives
    BY <1>6, <1>p DEF FallbackReceives, Fallback
  <1>7. CASE MainCtxDone
    BY <1>7, <1>n, BranchNames DEF MainCtxDone
  <1>8. CASE AliGivesUp
    <2>1. /\ UNCHANGED <<query, ctx, got, heard>> /\ exec = "aliapi" /\ mainPc = "select" /\ CtxDone
          /\ outcome' = IF Has(Replies, heard) THEN Best(heard) ELSE "ctx"
      BY <1>8 DEF AliGivesUp
    <2>2. heard \in Seq(Branch) /\ Len(heard) \in 0 .. 3
      BY <1>0, HeardSeq DEF TypeInv
    <2>3. Takes(Best(heard), heard) \/ Best(heard) = "failed"
      BY <2>2, BestIs
    <2>4. CASE Takes(Best(heard), heard) /\ outcome' = Best(heard)
      <3>1. \A i \in DOMAIN heard : got[heard[i]] \in Ends \ {"ip"}
        BY <1>0, <2>1 DEF HeardInv
      <3>2. \A i \in DOMAIN heard : got[heard[i]] = "definitive" => got[outcome'] = "definitive"
        BY <2>4 DEF Takes
      <3>3. \A b \in Range(heard) : got[b] \in Ends \ {"ip"} /\ (got[b] = "definitive" => got[outcome'] = "definitive")
        BY <3>1, <3>2 DEF Range
      <3> QED BY <2>1, <3>3 DEF BestReply, CtxDone
    <2>5. CASE outcome' \in {"ctx", "failed"}
      BY <1>n, <2>5, BranchNames
    <2> QED BY <2>1, <2>3, <2>4, <2>5
  <1>9. ASSUME NEW b, Hears(b) PROVE BestReply'
    <2>1. /\ b \in branches /\ got[b] \in Ends /\ mainPc = "select"
          /\ UNCHANGED <<exec, branches, got>>
          /\ \A i \in DOMAIN heard' : heard'[i] = b \/ \E j \in DOMAIN heard : heard'[i] = heard[j]
          /\ heard' \in Seq(branches)
      BY <1>9, HearsStep
    <2>2. \/ got[b] = "ip" /\ outcome' = b
          \/ /\ got[b] # "ip"
             /\ \A x \in branches : \E i \in DOMAIN heard' : heard'[i] = x
             /\ Takes(outcome', heard')
          \/ outcome' \in {"failed", "pending"}
      BY <1>0, <1>9, HearsStep DEF EndInv
    <2>3. CASE got[b] = "ip" /\ outcome' = b
      BY <2>1, <2>3 DEF BestReply
    <2>4. CASE /\ got[b] # "ip"
               /\ \A x \in branches : \E i \in DOMAIN heard' : heard'[i] = x
               /\ Takes(outcome', heard')
      <3>1. \A i \in DOMAIN heard' : got[heard'[i]] \in Ends \ {"ip"}
        BY <1>0, <2>1, <2>4 DEF HeardInv
      <3>2. \A i \in DOMAIN heard' : got[heard'[i]] = "definitive" => got[outcome'] = "definitive"
        BY <2>4 DEF Takes
      <3>3. \A x \in Range(heard') : got[x] \in Ends \ {"ip"} /\ (got[x] = "definitive" => got[outcome'] = "definitive")
        BY <3>1, <3>2 DEF Range
      <3>4. Range(heard') = branches
        BY <2>1, <2>4 DEF Range
      <3> QED BY <2>1, <3>3, <3>4 DEF BestReply
    <2>5. CASE outcome' \in {"failed", "pending"}
      BY <1>n, <2>5, BranchNames
    <2> QED BY <2>2, <2>3, <2>4, <2>5
  <1>10. CASE Timer
    BY <1>10, <1>p, <1>s DEF Timer, CtxDone
  <1>11. CASE CtxEnds
    BY <1>11, <1>p, <1>s DEF CtxEnds, CtxDone
  <1>12. CASE UNCHANGED pathVars
    BY <1>12, <1>q DEF pathVars
  <1> QED BY <1>1, <1>2, <1>3, <1>4, <1>5, <1>6, <1>7, <1>8, <1>9, <1>10, <1>11, <1>12
     DEF PathNext, BranchStep, MainStep, Hears

LEMMA InitOK == PathInit => IInv
  <1> SUFFICES ASSUME PathInit PROVE IInv
    OBVIOUS
  <1>1. heard = <<>> /\ respChan = <<>> /\ nils = 0 /\ outcome = "pending" /\ DOMAIN <<>> = {} /\ Len(<<>>) = 0
    BY DEF PathInit
  <1>2. HeardInv
    BY <1>1 DEF HeardInv, Distinct
  <1>3. \A b \in Branch : bpc[b] # "end"
    BY DEF PathInit
  <1>4. CountInv
    <2>1. /\ Sent(Primary) = 0 /\ Sent(Secondary) = 0 /\ NilOf(Primary) = 0 /\ NilOf(Secondary) = 0
          /\ NilAt(1) = 0 /\ NilAt(2) = 0
      BY <1>1, <1>3, Named DEF Sent, NilOf, NilAt, One
    <2> QED BY <1>1, <2>1 DEF CountInv
  <1>5. BestReply
    BY <1>1, BranchNames DEF BestReply
  <1> QED BY <1>2, <1>4, <1>5, InitTypes DEF IInv

-----------------------------------------------------------------------------
(* The strengthened invariant: where the branches are, what they have come *)
(* to, what is in the channel and what the loop has counted agree.         *)
THEOREM Invariance == PathSpec => []IInv
  <1>1. IInv /\ [PathNext]_pathVars => IInv'
    BY TypeStep, GotStep, HeardStep, CountStep, BestStep DEF IInv
  <1> QED BY InitOK, <1>1, PTL DEF PathSpec

(* forward and aliapi return the best reply in whatever order replies      *)
(* come, for every argument `concurrent`.                                  *)
THEOREM BestReplyCorrect == PathSpec => []BestReply
  <1>1. IInv => BestReply
    BY DEF IInv
  <1> QED BY <1>1, Invariance, PTL

-----------------------------------------------------------------------------
(* A secondary that runs, has run or is to be used was needed: the primary *)
(* has failed or the threshold has passed, and neither is taken back.      *)
Reason == got[Primary] = "error" \/ timer
SecondaryInv ==
    Fallback =>
        /\ exec = "fallback" /\ (bpc[Secondary] \in {"exec", "returned"} \/ got[Secondary] # None) => Reason
        /\ \A i \in DOMAIN respChan : respChan[i] = Secondary => Reason
        /\ outcome = Secondary => Reason

LEMMA ReasonStays == ASSUME IInv, [PathNext]_pathVars, Reason PROVE Reason'
  <1> USE DEF Reason, query, ctx, main, counts, chan, prefs
  <1>1. ASSUME NEW b \in Branch, BranchReturns(b) PROVE Reason'
    <2>1. got[b] = None /\ timer' = timer /\ \E e \in Ends : got' = [got EXCEPT ![b] = e]
      BY <1>1 DEF BranchReturns, Running, IInv, GotInv
    <2>2. got[Primary] = "error" => got'[Primary] = "error"
      BY <2>1, Named DEF IInv, TypeInv, None
    <2> QED BY <2>1, <2>2
  <1>2. CASE Timer
    BY <1>2 DEF Timer
  <1>3. ASSUME NEW b \in Branch, ForwardDone(b) \/ AliSends(b) \/ ForwardReceives(b) PROVE Reason'
    BY <1>3 DEF ForwardDone, AliSends, ForwardReceives
  <1>4. CASE \/ PrimaryCloses \/ PrimarySends \/ SecondaryWaits \/ SecondaryReturns
             \/ SecondaryStandsBy \/ ReferenceEnds \/ OriginalSends
    BY <1>4 DEF PrimaryCloses, PrimarySends, SecondaryWaits, SecondaryReturns,
                SecondaryStandsBy, ReferenceEnds, OriginalSends
  <1>5. CASE \/ Start \/ FallbackReceives \/ PreferSelects \/ PreferredReturns \/ MainCtxDone
             \/ AliReceives \/ AliGivesUp \/ CtxEnds \/ UNCHANGED pathVars
    BY <1>5 DEF Start, FallbackReceives, PreferSelects, PreferredReturns, MainCtxDone,
                AliReceives, AliGivesUp, CtxEnds, pathVars
  <1> QED BY <1>1, <1>2, <1>3, <1>4, <1>5 DEF PathNext, BranchStep, MainStep

LEMMA SecondaryStep == ASSUME IInv, SecondaryInv, [PathNext]_pathVars PROVE SecondaryInv'
  <1> USE DEF PathGoto, Return, query, ctx, main, counts, chan, prefs
  <1>0. /\ TypeInv /\ GotInv /\ EndInv /\ None \notin Branch
        /\ Named!1 /\ Named!2
    BY BranchNames, Named DEF IInv, None
  <1>01. UNCHANGED exec /\ (Reason => Reason')
    BY ExecStays, ReasonStays
  <1> SUFFICES ASSUME Fallback PROVE SecondaryInv'
    BY <1>01 DEF SecondaryInv, Fallback
  <1>02. /\ exec = "fallback" /\ (bpc[Secondary] \in {"exec", "returned"} \/ got[Secondary] # None) => Reason
         /\ \A i \in DOMAIN respChan : respChan[i] = Secondary => Reason
         /\ outcome = Secondary => Reason
         /\ respChan \in Seq(Branch \cup {None})
    BY <1>0 DEF SecondaryInv, TypeInv
  (* The three ways on: a place, a result and an outcome.                  *)
  <1>p. ASSUME NEW b \in Branch, NEW p \in Places, bpc' = [bpc EXCEPT ![b] = p],
               exec = "fallback" /\ b = Secondary /\ p \in {"exec", "returned"} => Reason,
               UNCHANGED got
        PROVE  exec = "fallback" /\ (bpc'[Secondary] \in {"exec", "returned"} \/ got'[Secondary] # None) => Reason
    BY <1>0, <1>02, <1>p DEF TypeInv
  <1>s. ASSUME NEW x \in Branch \cup {None}, respChan' = Append(respChan, x), x = Secondary => Reason
        PROVE  \A i \in DOMAIN respChan' : respChan'[i] = Secondary => Reason
    <2>1. DOMAIN respChan' = 1 .. Len(respChan) + 1 /\ DOMAIN respChan = 1 .. Len(respChan)
          /\ Len(respChan) \in Nat
      BY <1>02, <1>s, AppendOne
    <2>2. respChan'[Len(respChan) + 1] = x /\ \A i \in 1 .. Len(respChan) : respChan'[i] = respChan[i]
      BY <1>02, <1>s, AppendOne
    <2> QED BY <1>02, <1>s, <2>1, <2>2
  <1>q. ASSUME \/ ~(exec = "fallback")
               \/ bpc'[Secondary] \notin {"exec", "returned"} /\ got'[Secondary] = None
               \/ Reason,
               \A i \in DOMAIN respChan' : respChan'[i] = Secondary => Reason,
               outcome' = Secondary => Reason
        PROVE  SecondaryInv'
    BY <1>01, <1>q DEF SecondaryInv
  <1>1. ASSUME NEW b \in Branch, BranchReturns(b) PROVE SecondaryInv'
    <2>1. bpc[b] = "exec" /\ UNCHANGED <<respChan, outcome>>
      BY <1>1 DEF BranchReturns, Running
    <2>2. exec = "fallback" /\ b = Secondary => Reason
      BY <1>02, <2>1
    <2>3. b # Secondary => bpc'[Secondary] = bpc[Secondary] /\ got'[Secondary] = got[Secondary]
      BY <1>0, <1>1 DEF BranchReturns, TypeInv
    <2> QED BY <1>02, <1>q, <2>1, <2>2, <2>3
  <1>2. CASE PrimaryCloses
    BY <1>0, <1>02, <1>2, <1>p, <1>q DEF PrimaryCloses, Places
  <1>3. CASE PrimarySends
    <2>1. /\ bpc' = [bpc EXCEPT ![Primary] = "end"] /\ UNCHANGED <<got, outcome>>
          /\ respChan' = Append(respChan, IF Replied(Primary) THEN Primary ELSE None)
      BY <1>3 DEF PrimarySends, Send
    <2>2. (IF Replied(Primary) THEN Primary ELSE None) \in (Branch \cup {None}) \ {Secondary}
      BY <1>0
    <2>3. \A i \in DOMAIN respChan' : respChan'[i] = Secondary => Reason
      BY <1>s, <2>1, <2>2
    <2> QED BY <1>0, <1>02, <1>p, <1>q, <2>1, <2>3 DEF Places
  <1>4. CASE SecondaryWaits
    <2>1. UNCHANGED <<got, outcome>>
      BY <1>4 DEF SecondaryWaits
    <2>2. CASE (primFailed \/ timer) /\ bpc' = [bpc EXCEPT ![Secondary] = "exec"] /\ UNCHANGED respChan
      BY <1>02, <1>q, <2>1, <2>2 DEF primFailed, Reason
    <2>3. CASE respChan' = Append(respChan, None) /\ bpc' = [bpc EXCEPT ![Secondary] = "end"]
      <3>1. \A i \in DOMAIN respChan' : respChan'[i] = Secondary => Reason
        BY <1>0, <1>s, <2>3
      <3> QED BY <1>0, <1>02, <1>p, <1>q, <2>1, <2>3, <3>1 DEF Places
    <2> QED BY <1>4, <2>2, <2>3 DEF SecondaryWaits, Send
  <1>5. CASE SecondaryReturns
    <2>1. UNCHANGED <<got, outcome>> /\ bpc[Secondary] = "returned"
      BY <1>5 DEF SecondaryReturns
    <2>2. CASE bpc' = [bpc EXCEPT ![Secondary] = "standby"] /\ UNCHANGED respChan
      BY <1>0, <1>02, <1>p, <1>q, <2>1, <2>2 DEF Places
    <2>3. CASE /\ ~(Replied(Secondary) /\ exec = "standby") /\ bpc' = [bpc EXCEPT ![Secondary] = "end"]
               /\ respChan' = Append(respChan, IF Replied(Secondary) THEN Secondary ELSE None)
      <3>1. Replied(Secondary) => Reason
        BY <1>02, <2>1, <2>3 DEF Fallback
      <3>2. (IF Replied(Secondary) THEN Secondary ELSE None) \in Branch \cup {None}
            /\ ((IF Replied(Secondary) THEN Secondary ELSE None) = Secondary => Reason)
        BY <1>0, <3>1
      <3>3. \A i \in DOMAIN respChan' : respChan'[i] = Secondary => Reason
        BY <1>s, <2>3, <3>2
      <3> QED BY <1>0, <1>02, <1>p, <1>q, <2>1, <2>3, <3>3 DEF Places
    <2> QED BY <1>5, <2>2, <2>3 DEF SecondaryReturns, Send
  <1>6. CASE SecondaryStandsBy
    <2>1. UNCHANGED <<got, outcome>> /\ bpc' = [bpc EXCEPT ![Secondary] = "end"]
      BY <1>6 DEF SecondaryStandsBy
    <2>2. UNCHANGED respChan \/ (Needed /\ respChan' = Append(respChan, Secondary))
      BY <1>6 DEF SecondaryStandsBy, Send
    <2>3. Needed => Reason
      BY DEF Needed, primFailed, Reason
    <2>4. \A i \in DOMAIN respChan' : respChan'[i] = Secondary => Reason
      BY <1>0, <1>02, <1>s, <2>2, <2>3
    <2> QED BY <1>0, <1>02, <1>p, <1>q, <2>1, <2>4 DEF Places
  <1>7. CASE FallbackReceives
    <2>1. UNCHANGED <<got, bpc>> /\ respChan # <<>> /\ respChan' = Tail(respChan)
          /\ outcome' \in {outcome, Head(respChan), "failed"}
      BY <1>7 DEF FallbackReceives
    <2>2. /\ 1 \in DOMAIN respChan /\ Head(respChan) = respChan[1]
          /\ \A i \in DOMAIN Tail(respChan) : i + 1 \in DOMAIN respChan /\ Tail(respChan)[i] = respChan[i + 1]
      BY <1>02, <2>1
    <2>3. \A i \in DOMAIN respChan' : respChan'[i] = Secondary => Reason
      BY <1>02, <2>1, <2>2
    <2>4. outcome' = Secondary => Reason
      BY <1>02, <2>1, <2>2 DEF Secondary
    <2> QED BY <1>02, <1>q, <2>1, <2>3, <2>4
  <1>8. CASE Start
    <2>1. bpc' = bpc /\ UNCHANGED <<got, respChan, outcome>>
      BY <1>8 DEF Start, Fallback
    <2> QED BY <1>02, <1>q, <2>1
  <1>9. CASE MainCtxDone \/ Timer \/ CtxEnds \/ UNCHANGED pathVars
    <2>1. UNCHANGED <<got, respChan, bpc>> /\ outcome' \in {outcome, "ctx"}
      BY <1>9 DEF MainCtxDone, Timer, CtxEnds, pathVars
    <2> QED BY <1>02, <1>q, <2>1 DEF Secondary
  <1>10. /\ ~ReferenceEnds /\ ~OriginalSends /\ ~PreferSelects /\ ~PreferredReturns
         /\ ~AliReceives /\ ~AliGivesUp
         /\ \A b \in Branch : ~ForwardDone(b) /\ ~AliSends(b) /\ ~ForwardReceives(b)
    BY DEF Fallback, ReferenceEnds, OriginalSends, PreferSelects, PreferredReturns,
           AliReceives, AliGivesUp, ForwardDone, AliSends, ForwardReceives
  <1> QED BY <1>1, <1>2, <1>3, <1>4, <1>5, <1>6, <1>7, <1>8, <1>9, <1>10
          DEF PathNext, BranchStep, MainStep

(* prefer: what is remembered of the name, and a blocked query, has been   *)
(* seen by a reference query.                                              *)
PreferInv ==
    /\ {preferOk, seenPrefer} \subseteq BOOLEAN
    /\ Prefer /\ got[Reference] = "ip" => seenPrefer = TRUE
    /\ preferOk = TRUE => seenPrefer = TRUE
    /\ outcome = "blocked" => seenPrefer = TRUE

LEMMA PreferStep == ASSUME IInv, PreferInv, [PathNext]_pathVars PROVE PreferInv'
  <1> USE DEF PathGoto, Return, query, ctx, main, counts, chan, prefs
  <1>0. /\ {preferOk, seenPrefer} \subseteq BOOLEAN
        /\ Prefer /\ got[Reference] = "ip" => seenPrefer = TRUE
        /\ preferOk = TRUE => seenPrefer = TRUE
        /\ outcome = "blocked" => seenPrefer = TRUE
        /\ TypeInv /\ Reference \in Branch
    BY Named DEF IInv, PreferInv
  <1>01. UNCHANGED exec
    BY ExecStays
  <1>s. ASSUME UNCHANGED <<got, prefs>>, outcome' # "blocked" \/ outcome' = outcome
        PROVE  PreferInv'
    BY <1>0, <1>01, <1>s DEF PreferInv, Prefer
  <1>1. ASSUME NEW b \in Branch, BranchReturns(b) PROVE PreferInv'
    <2>1. PICK e \in Ends : /\ got' = [got EXCEPT ![b] = e]
                            /\ seenPrefer' = (seenPrefer \/ (Prefer /\ b = Reference /\ e = "ip"))
      BY <1>1 DEF BranchReturns
    <2>2. UNCHANGED <<outcome, preferOk>>
      BY <1>1 DEF BranchReturns
    <2>3. seenPrefer' \in BOOLEAN /\ (seenPrefer = TRUE => seenPrefer' = TRUE)
          /\ (Prefer /\ b = Reference /\ e = "ip" => seenPrefer' = TRUE)
      BY <1>0, <2>1
    <2>4. b = Reference => got'[Reference] = e
      BY <1>0, <2>1 DEF TypeInv
    <2>5. b # Reference => got'[Reference] = got[Reference]
      BY <1>0, <2>1 DEF TypeInv
    <2> QED BY <1>0, <1>01, <2>2, <2>3, <2>4, <2>5 DEF PreferInv, Prefer
  <1>2. CASE ReferenceEnds \/ PreferredReturns
    <2>1. UNCHANGED <<got, seenPrefer>> /\ preferOk' = (preferOk \/ got[Reference] = "ip") /\ Prefer
      BY <1>2 DEF ReferenceEnds, PreferredReturns, Prefer
    <2>2. preferOk' \in BOOLEAN /\ (preferOk' = TRUE => preferOk = TRUE \/ got[Reference] = "ip")
      BY <1>0, <2>1
    <2>3. outcome' \in {outcome, Reference, "failed"}
      BY <1>2 DEF ReferenceEnds, PreferredReturns
    <2> QED BY <1>0, <1>01, <2>1, <2>2, <2>3 DEF PreferInv, Prefer, Reference
  <1>3. CASE PreferSelects
    <2>1. UNCHANGED <<got, prefs>> /\ Prefer
      BY <1>3 DEF PreferSelects, Prefer
    <2>2. outcome' \in {"blocked"} => ShouldBlock \/ outcome' = outcome \/ outcome' = OriginalOutcome
      BY <1>3 DEF PreferSelects
    <2>3. OriginalOutcome # "blocked"
      BY DEF OriginalOutcome, Original
    <2>4. ShouldBlock => seenPrefer = TRUE
      BY <1>0, <2>1 DEF ShouldBlock
    <2> QED BY <1>0, <1>01, <2>1, <2>2, <2>3, <2>4 DEF PreferInv, Prefer
  <1>4. CASE Start
    <2>1. UNCHANGED <<got, prefs>>
      BY <1>4 DEF Start
    <2>2. UNCHANGED outcome \/ preferOk = TRUE
      <3>1. CASE preferOk = TRUE
        BY <3>1
      <3>2. CASE preferOk = FALSE
        BY <1>4, <3>2 DEF Start
      <3> QED BY <1>0, <3>1, <3>2
    <2> QED BY <1>0, <1>01, <2>1, <2>2 DEF PreferInv, Prefer
  <1>5. CASE FallbackReceives
    <2>1. UNCHANGED <<got, prefs>> /\ outcome' \in {outcome, Head(respChan), "failed"}
          /\ (outcome' = Head(respChan) => Head(respChan) # None \/ outcome' = outcome \/ outcome' = "failed")
          /\ respChan # <<>>
      BY <1>5 DEF FallbackReceives
    <2>2. Head(respChan) \in Branch \cup {None}
      BY <1>0, <2>1 DEF TypeInv
    <2>3. "blocked" \notin Branch \cup {None}
      BY BranchNames DEF None
    <2> QED BY <1>s, <2>1, <2>2, <2>3
  <1>6. ASSUME NEW b, Hears(b) PROVE PreferInv'
    <2>1. UNCHANGED <<got, prefs>> /\ outcome' \in {outcome, "failed"} \cup branches
      BY <1>6, HearsStep, <1>0, HeardSeq DEF Takes
    <2>2. "blocked" \notin branches
      BY <1>0, BranchNames DEF TypeInv
    <2> QED BY <1>s, <2>1, <2>2
  <1>7. CASE AliGivesUp
    <2>1. UNCHANGED <<got, prefs>> /\ outcome' \in {Best(heard), "ctx"}
      BY <1>7 DEF AliGivesUp
    <2>2. Best(heard) # "blocked"
      BY BestType, BranchNames DEF IInv
    <2> QED BY <1>s, <2>1, <2>2
  <1>8. ASSUME NEW b \in Branch, ForwardDone(b) \/ AliSends(b) PROVE PreferInv'
    BY <1>8, <1>s DEF ForwardDone, AliSends
  <1>9. CASE PrimaryCloses \/ PrimarySends \/ SecondaryWaits \/ SecondaryReturns \/ SecondaryStandsBy \/ OriginalSends
    BY <1>9, <1>s DEF PrimaryCloses, PrimarySends, SecondaryWaits, SecondaryReturns, SecondaryStandsBy, OriginalSends
  <1>10. CASE MainCtxDone \/ Timer \/ CtxEnds \/ UNCHANGED pathVars
    BY <1>10, <1>s DEF MainCtxDone, Timer, CtxEnds, pathVars
  <1> QED BY <1>1, <1>2, <1>3, <1>4, <1>5, <1>6, <1>7, <1>8, <1>9, <1>10
          DEF PathNext, BranchStep, MainStep, Hears

(* The second-best is never taken without need: the secondary's reply only *)
(* after the primary has failed or the threshold has passed, an empty      *)
(* reply only for a name that has been seen with the preferred type.       *)
THEOREM OnlyForAReasonCorrect == PathSpec => []OnlyForAReason
  <1>1. PathInit => SecondaryInv /\ PreferInv
    <2> SUFFICES ASSUME PathInit PROVE SecondaryInv /\ PreferInv
      OBVIOUS
    <2>1. /\ respChan = <<>> /\ outcome = "pending" /\ got[Secondary] = None /\ got[Reference] = None
          /\ exec = "fallback" => bpc[Secondary] \in {"none", "wait"}
          /\ preferOk \in BOOLEAN /\ seenPrefer = preferOk
      BY Named DEF PathInit
    <2>2. SecondaryInv
      BY <2>1 DEF SecondaryInv, Secondary
    <2>3. PreferInv
      BY <2>1 DEF PreferInv, None
    <2> QED BY <2>2, <2>3
  <1>2. IInv /\ SecondaryInv /\ PreferInv /\ [PathNext]_pathVars => (SecondaryInv /\ PreferInv)'
    BY SecondaryStep, PreferStep
  <1>3. SecondaryInv => SecondaryOnlyIfNeeded
    BY DEF SecondaryInv, Reason, SecondaryOnlyIfNeeded, Fallback
  <1>4. PreferInv => BlockedOnlyIfPreferred
    BY DEF PreferInv, BlockedOnlyIfPreferred
  <1>5. SecondaryInv /\ PreferInv => OnlyForAReason
    BY <1>3, <1>4 DEF OnlyForAReason
  <1> QED BY <1>1, <1>2, <1>5, Invariance, PTL DEF PathSpec

-----------------------------------------------------------------------------
(* What is left of a state for Chooser.                                    *)
LEMMA EndedIs ==
  ASSUME TypeInv, NEW b \in Branch, ~Prefer
  PROVE  /\ got[b] = None /\ b \in branches => ended[b] = "running"
         /\ got[b] = "error" \/ b \notin branches => ended[b] = "failed"
         /\ got[b] \in Replies /\ b \in branches => ended[b] = "replied"
  BY DEF ended, asked, Replies, None

LEMMA ChosenIs ==
  ASSUME ~Prefer
  PROVE  /\ outcome \in Branch => chosen = "answered"
         /\ outcome \notin Branch => chosen = outcome
  BY DEF chosen

(* The call fails in one way only: fallback has counted both branches, or  *)
(* the loop has heard them all, or a ctx has ended.                        *)
LEMMA ReturnStep ==
  ASSUME IInv, [PathNext]_pathVars, ~Prefer
  PROVE  /\ UNCHANGED <<exec, branches>>
         /\ \/ UNCHANGED <<got, outcome>>
            \/ UNCHANGED outcome /\ \E b \in branches, e \in Ends :
                    got[b] = None /\ got' = [got EXCEPT ![b] = e]
            \/ /\ UNCHANGED got /\ outcome = "pending"
               /\ \/ outcome' \in branches /\ Replied(outcome')
                  \/ outcome' = "failed" /\ \A b \in branches : got[b] = "error"
                  \/ outcome' = "ctx"
  <1> USE DEF PathGoto, Return, query, ctx, main, counts, chan, prefs
  <1>0. TypeInv /\ HeardInv /\ CountInv /\ GotInv /\ FallbackHasBoth /\ EndInv
    BY DEF IInv
  <1>1. ASSUME NEW b \in Branch, BranchReturns(b)
        PROVE  UNCHANGED <<query, outcome>> /\ \E c \in branches, e \in Ends :
                    got[c] = None /\ got' = [got EXCEPT ![c] = e]
    BY <1>0, <1>1 DEF BranchReturns, Running, GotInv
  <1>2. ASSUME NEW b \in Branch, ForwardDone(b) \/ AliSends(b) PROVE UNCHANGED <<query, got, outcome>>
    BY <1>2 DEF ForwardDone, AliSends
  <1>3. CASE PrimaryCloses \/ PrimarySends \/ SecondaryWaits \/ SecondaryReturns \/ SecondaryStandsBy
    BY <1>3 DEF PrimaryCloses, PrimarySends, SecondaryWaits, SecondaryReturns, SecondaryStandsBy
  <1>4. CASE Timer \/ CtxEnds \/ UNCHANGED pathVars
    BY <1>4 DEF Timer, CtxEnds, pathVars
  <1>5. CASE Start
    BY <1>5 DEF Start, Prefer
  <1>6. CASE FallbackReceives
    <2>1. UNCHANGED <<query, got>> /\ Fallback /\ respChan # <<>> /\ mainPc = "select" /\ outcome = "pending"
      BY <1>0, <1>6 DEF FallbackReceives, EndInv
    <2>2. CASE Head(respChan) # None
      <3>1. outcome' = Head(respChan) /\ Head(respChan) = respChan[1] /\ 1 \in DOMAIN respChan
        BY <1>0, <1>6, <2>2 DEF FallbackReceives, TypeInv
      <3>2. outcome' \in Branch /\ Replied(outcome')
        BY <1>0, <2>1, <2>2, <3>1 DEF CountInv, TypeInv
      <3>3. outcome' \in branches
        BY <1>0, <3>2 DEF GotInv, Replied, Replies, None
      <3> QED BY <2>1, <3>2, <3>3
    <2>3. CASE Head(respChan) = None /\ nils = 1
      <3>1. outcome' = "failed"
        BY <1>6, <2>3 DEF FallbackReceives, LastNil
      <3>2. NilAt(1) = 1 /\ NilAt(2) \in {0, 1}
        BY <1>0, <2>1, <2>3 DEF NilAt, One, TypeInv
      <3>3. /\ nils + NilAt(1) + NilAt(2) = NilOf(Primary) + NilOf(Secondary)
            /\ NilOf(Primary) \in {0, 1} /\ NilOf(Secondary) \in {0, 1}
        BY <1>0, <2>1 DEF CountInv, NilOf, One
      <3>4. NilOf(Primary) = 1 /\ NilOf(Secondary) = 1
        BY <2>3, <3>2, <3>3
      <3>5. \A b \in {Primary, Secondary} : bpc[b] = "end" /\ ~Replied(b)
        BY <3>4 DEF NilOf, One
      <3>6. \A b \in {Primary, Secondary} : got[b] # None
        BY <1>0, <3>5, Named DEF GotInv
      <3>7. \A b \in {Primary, Secondary} : got[b] = "error"
        BY <1>0, <3>5, <3>6, Named DEF TypeInv, Replied, Ends
      <3> QED BY <1>0, <2>1, <3>1, <3>7 DEF FallbackHasBoth
    <2>4. CASE Head(respChan) = None /\ nils # 1
      BY <1>6, <2>1, <2>4 DEF FallbackReceives, LastNil
    <2> QED BY <2>2, <2>3, <2>4
  <1>7. CASE MainCtxDone
    BY <1>0, <1>7 DEF MainCtxDone, EndInv
  <1>8. CASE AliGivesUp
    <2>1. /\ UNCHANGED <<query, got>> /\ outcome = "pending"
          /\ outcome' = IF Has(Replies, heard) THEN Best(heard) ELSE "ctx"
      BY <1>0, <1>8 DEF AliGivesUp, EndInv
    <2>2. heard \in Seq(branches) /\ heard \in Seq(Branch) /\ Len(heard) \in 0 .. 3
      BY <1>0, HeardSeq DEF TypeInv
    <2>3. CASE Has(Replies, heard) /\ Takes(Best(heard), heard)
      BY <2>1, <2>2, <2>3 DEF Takes, Replied, Replies
    (* No address among them, since the loop would have ended with it.      *)
    <2>4. CASE Has(Replies, heard) /\ \A i \in DOMAIN heard : got[heard[i]] \notin {"definitive", "other"}
      <3>1. \A i \in DOMAIN heard : got[heard[i]] # "ip"
        BY <1>0, <1>8 DEF HeardInv, AliGivesUp
      <3> QED BY <2>4, <3>1 DEF Has, Replies
    <2>5. CASE ~Has(Replies, heard)
      BY <2>1, <2>5
    <2> QED BY <2>2, <2>3, <2>4, <2>5, BestIs
  <1>9. ASSUME NEW b, Hears(b)
        PROVE  /\ UNCHANGED <<query, got>> /\ outcome = "pending"
               /\ \/ UNCHANGED outcome
                  \/ outcome' \in branches /\ Replied(outcome')
                  \/ outcome' = "failed" /\ \A c \in branches : got[c] = "error"
    <2>1. UNCHANGED <<query, got>> /\ mainPc = "select" /\ b \in branches /\ heard' \in Seq(branches)
      BY <1>9, HearsStep
    <2>2. \/ got[b] = "ip" /\ outcome' = b
          \/ Takes(outcome', heard')
          \/ outcome' = "failed" /\ \A x \in branches : got[x] = "error"
          \/ UNCHANGED outcome
      BY <1>9, HearsStep
    <2>3. outcome = "pending"
      BY <1>0, <2>1 DEF EndInv
    <2>4. Takes(outcome', heard') => outcome' \in branches /\ Replied(outcome')
      BY <2>1 DEF Takes, Replied, Replies
    <2>5. got[b] = "ip" /\ outcome' = b => outcome' \in branches /\ Replied(outcome')
      BY <2>1 DEF Replied, Replies
    <2> QED BY <2>1, <2>2, <2>3, <2>4, <2>5
  <1>10. ~(ReferenceEnds \/ OriginalSends \/ PreferSelects \/ PreferredReturns)
    BY DEF Prefer, ReferenceEnds, OriginalSends, PreferSelects, PreferredReturns
  <1>11. CASE \E b \in Branch : BranchReturns(b)
    BY <1>1, <1>11
  <1>12. CASE \E b : Hears(b)
    BY <1>9, <1>12
  <1> QED BY <1>2, <1>3, <1>4, <1>5, <1>6, <1>7, <1>8, <1>10, <1>11, <1>12
     DEF PathNext, BranchStep, MainStep, Hears

(* fallback, forward and aliapi are Choosers: no result that a branch has  *)
(* is dropped or counted twice so that the call fails with a reply at      *)
(* hand, whatever timers, contexts and goroutines do.                      *)
THEOREM ImplementsChooser == PathSpec => IsChooser
  <1>1. PathInit => Choice!Init
    <2> SUFFICES ASSUME PathInit PROVE Choice!Init
      OBVIOUS
    <2>1. got = [b \in Branch |-> None] /\ outcome = "pending" /\ outcome \notin Branch
      BY BranchNames DEF PathInit
    <2>2. ended \in [Branch -> {"running", "failed"}]
      BY <2>1 DEF ended
    <2>3. chosen = "pending"
      BY <2>1 DEF chosen
    <2> QED BY <2>2, <2>3 DEF Choice!Init
  <1>2. ASSUME IInv, [PathNext]_pathVars PROVE [Choice!Next]_<<ended, chosen>>
    <2>0. TypeInv
      BY <1>2 DEF IInv
    <2>1. CASE Prefer
      <3>1. UNCHANGED exec
        BY <1>2, ExecStays
      <3> QED BY <2>1, <3>1 DEF Prefer, ended, asked, chosen
    <2>2. CASE ~Prefer
      <3>0. TypeInv' /\ ~Prefer'
        BY <1>2, <2>2, TypeStep, ExecStays DEF Prefer
      <3>1. UNCHANGED branches /\ UNCHANGED exec
        BY <1>2, <2>2, ReturnStep
      <3>2. CASE UNCHANGED <<got, outcome>>
        BY <3>1, <3>2 DEF Prefer, ended, asked, chosen
      <3>3. ASSUME UNCHANGED outcome, NEW b \in branches, NEW e \in Ends, got[b] = None,
                   got' = [got EXCEPT ![b] = e]
            PROVE  Choice!Next
        <4>1. b \in Branch /\ got'[b] = e
          BY <2>0, <3>3 DEF TypeInv
        <4>2. UNCHANGED chosen
          BY <3>1, <3>3 DEF chosen, Prefer
        <4>3. ended[b] = "running" /\ ended'[b] \in {"replied", "failed"}
          BY <2>2, <3>0, <3>1, <3>3, <4>1 DEF ended, asked, Ends, Replies, None
        <4>4. ended' = [ended EXCEPT ![b] = ended'[b]]
          BY <2>0, <2>2, <3>0, <3>1, <3>3, <4>1 DEF ended, asked, TypeInv
        <4> QED BY <4>1, <4>2, <4>3, <4>4 DEF Choice!Next, Choice!BranchEnds
      <3>4. CASE /\ UNCHANGED got /\ outcome = "pending"
                 /\ \/ outcome' \in branches /\ Replied(outcome')
                    \/ outcome' = "failed" /\ \A b \in branches : got[b] = "error"
                    \/ outcome' = "ctx"
        <4>1. UNCHANGED ended
          BY <3>1, <3>4 DEF ended, asked, Prefer
        <4>2. chosen = "pending"
          BY <2>2, <3>4, BranchNames DEF chosen
        <4>3. CASE outcome' \in branches /\ Replied(outcome')
          <5>1. outcome' \in Branch /\ chosen' = "answered"
            BY <2>0, <3>0, <4>3 DEF chosen, TypeInv
          <5>2. \E b \in Branch : ended[b] = "replied"
            BY <2>0, <2>2, <4>3, <5>1, EndedIs DEF Replied
          <5> QED BY <4>1, <4>2, <5>1, <5>2 DEF Choice!Next, Choice!Answer
        <4>4. CASE outcome' = "failed" /\ \A b \in branches : got[b] = "error"
          <5>1. chosen' = "failed"
            BY <3>0, <4>4, BranchNames DEF chosen
          <5>2. \A b \in Branch : ended[b] = "failed"
            BY <2>0, <2>2, <4>4, EndedIs
          <5> QED BY <4>1, <4>2, <5>1, <5>2 DEF Choice!Next, Choice!Fail
        <4>5. CASE outcome' = "ctx"
          <5>1. chosen' = "ctx"
            BY <3>0, <4>5, BranchNames DEF chosen
          <5> QED BY <4>1, <4>2, <5>1 DEF Choice!Next, Choice!GiveUp
        <4> QED BY <3>4, <4>3, <4>4, <4>5
      <3> QED BY <1>2, <2>2, <3>2, <3>3, <3>4, ReturnStep
    <2> QED BY <2>1, <2>2
  <1> QED BY <1>1, <1>2, Invariance, PTL DEF PathSpec, IsChooser, Choice!Spec
=============================================================================

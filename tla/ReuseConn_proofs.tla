-------------------------- MODULE ReuseConn_proofs --------------------------
(* Theorems about ReuseConn, for any number of callers and connections:    *)
(* TypeOK and IInv are inductive, and the safety properties follow.        *)
EXTENDS ReuseConn, TLAPS

(* How an exchange that failed leaves its caller. *)
LEMMA RetryType ==
  ASSUME NEW q \in Queries, CallType, RetryOrFail(q)
  PROVE  /\ pc' \in [Queries -> {"start", "dial", "holds", "write", "wait",
                                 "closing", "locking", "unlocked", "done"}]
         /\ retry' \in [Queries -> 0 .. MaxRetry + 1]
         /\ result' \in [Queries -> Messages \cup {Failed, Empty}]
<1>1. CASE MayRetry(q)
  <2>1. /\ retry' = [retry EXCEPT ![q] = @ + 1] /\ UNCHANGED result
        /\ pc' = [pc EXCEPT ![q] = "start"]
    BY <1>1 DEF RetryOrFail
  <2>2. retry[q] + 1 \in 0 .. MaxRetry + 1
    BY <1>1, RetryAssumption DEF CallType, MayRetry
  <2>3. QED BY <2>1, <2>2 DEF CallType
<1>2. CASE ~MayRetry(q)
  BY <1>2 DEF RetryOrFail, Return, CallType
<1>3. QED BY <1>1, <1>2

(* Every step keeps the types. *)
LEMMA TypeStep ==
  ASSUME TypeOK, [Next]_vars PROVE TypeOK'
<1> USE DEF TypeOK, PoolType, CloseType, DialType, LoopType, ConnType,
      poolVars, closeVars, callVars, dialVars, loopVars, serverVars
<1>1. ASSUME NEW q \in Queries, GetClosed(q) PROVE TypeOK'
  BY <1>1 DEF GetClosed, Return, CallType
<1>2. ASSUME NEW q \in Queries, NEW c \in Conns, GetIdle(q, c) PROVE TypeOK'
  BY <1>2 DEF GetIdle, TakeIdle, CallType
<1>3. ASSUME NEW q \in Queries, StartDial(q) PROVE TypeOK'
  BY <1>3 DEF StartDial, CallType
<1>4. ASSUME NEW q \in Queries, LeaveDial(q) PROVE TypeOK'
  BY <1>4 DEF LeaveDial, Return, CallType
<1>5. ASSUME NEW q \in Queries, Register(q) PROVE TypeOK'
  <2>1. Attempt(q) \in Attempts BY DEF Attempt, Attempts, CallType
  <2>2. QED BY <1>5, <2>1 DEF Register, CallType
<1>6. ASSUME NEW q \in Queries, WriteOk(q) PROVE TypeOK'
  <2>1. Attempt(q) \in Attempts BY DEF Attempt, Attempts, CallType
  <2>2. asked' \in [Conns -> SUBSET Attempts] BY <1>6, <2>1 DEF WriteOk
  <2>3. QED BY <1>6, <2>2 DEF WriteOk, CallType
<1>7. ASSUME NEW q \in Queries, WriteFails(q) PROVE TypeOK'
  BY <1>7 DEF WriteFails, CallType
<1>8. ASSUME NEW q \in Queries, ReceiveResp(q) PROVE TypeOK'
  <2>1. Attempt(q) \in Attempts BY DEF Attempt, Attempts, CallType
  <2>2. QED BY <1>8, <2>1 DEF ReceiveResp, Return, CallType
<1>9. ASSUME NEW q \in Queries, ReceiveFails(q) PROVE TypeOK'
  <2>1. CallType' BY <1>9, RetryType DEF ReceiveFails, CallType
  <2>2. QED BY <1>9, <2>1 DEF ReceiveFails
<1>10. ASSUME NEW q \in Queries, CallerEntersOnce(q) PROVE TypeOK'
  BY <1>10 DEF CallerEntersOnce, CallType
<1>10a. ASSUME NEW q \in Queries, CallerForgets(q) PROVE TypeOK'
  BY <1>10a DEF CallerForgets, Forget, CallType
<1>11. ASSUME NEW q \in Queries, CallerCloses(q) PROVE TypeOK'
  <2>1. CallType' BY <1>11, RetryType DEF CallerCloses, CallType
  <2>2. QED BY <1>11, <2>1 DEF CallerCloses
<1>12. ASSUME NEW q \in Queries, CallerFindsClosed(q) PROVE TypeOK'
  <2>1. CallType' BY <1>12, RetryType DEF CallerFindsClosed, CallType
  <2>2. QED BY <1>12, <2>1 DEF CallerFindsClosed
<1>13. ASSUME NEW q \in Queries, NEW c \in Conns, DialOk(q, c) PROVE TypeOK'
  BY <1>13 DEF DialOk, CallType
<1>14. ASSUME NEW q \in Queries, DialFails(q) PROVE TypeOK'
  BY <1>14 DEF DialFails, CallType
<1>15. ASSUME NEW q \in Queries, NewReusableConn(q) PROVE TypeOK'
  BY <1>15 DEF NewReusableConn, CallType
<1>16. ASSUME NEW q \in Queries, RefuseConn(q) PROVE TypeOK'
  BY <1>16 DEF RefuseConn, CallType
<1>17. ASSUME NEW q \in Queries, HandOverConn(q) PROVE TypeOK'
  BY <1>17 DEF HandOverConn, CallType
<1>18. ASSUME NEW q \in Queries, HandOverErr(q) PROVE TypeOK'
  BY <1>18 DEF HandOverErr, Return, CallType
<1>19. ASSUME NEW q \in Queries, PoolConn(q) PROVE TypeOK'
  BY <1>19 DEF PoolConn, SetIdle, CallType
<1>20. ASSUME NEW q \in Queries, DropErr(q) PROVE TypeOK'
  BY <1>20 DEF DropErr, CallType
<1>21. ASSUME NEW q \in Queries, Cancel(q) PROVE TypeOK'
  BY <1>21 DEF Cancel, CallType
<1>22. ASSUME NEW c \in Conns, NEW a \in Attempts, ReadAnswer(c, a) PROVE TypeOK'
  BY <1>22 DEF ReadAnswer, Messages, CallType
<1>23. ASSUME NEW c \in Conns, ReadJunk(c) PROVE TypeOK'
  BY <1>23, JunkAssumption DEF ReadJunk, Messages, CallType
<1>24. ASSUME NEW c \in Conns, ReadFails(c) PROVE TypeOK'
  BY <1>24 DEF ReadFails, CallType
<1>25. ASSUME NEW c \in Conns, TakeWaiting(c) PROVE TypeOK'
  BY <1>25 DEF TakeWaiting, CallType
<1>26. ASSUME NEW c \in Conns, LoopSetIdle(c) PROVE TypeOK'
  BY <1>26 DEF LoopSetIdle, SetIdle, CallType
<1>27. ASSUME NEW c \in Conns, Deliver(c) PROVE TypeOK'
  BY <1>27 DEF Deliver, CallType
<1>28. ASSUME NEW c \in Conns, LoopEntersOnce(c) PROVE TypeOK'
  BY <1>28 DEF LoopEntersOnce, CallType
<1>28a. ASSUME NEW c \in Conns, LoopForgets(c) PROVE TypeOK'
  BY <1>28a DEF LoopForgets, Forget, CallType
<1>29. ASSUME NEW c \in Conns, LoopCloses(c) PROVE TypeOK'
  BY <1>29 DEF LoopCloses, CallType
<1>30. ASSUME NEW c \in Conns, LoopFindsClosed(c) PROVE TypeOK'
  BY <1>30 DEF LoopFindsClosed, CallType
<1>31. ASSUME NEW c \in Conns, CloseTakes(c) PROVE TypeOK'
  BY <1>31 DEF CloseTakes, CallType
<1>32. ASSUME CloseStarts PROVE TypeOK'
  BY <1>32 DEF CloseStarts, CallType
<1>33. ASSUME CloseConn PROVE TypeOK'
  BY <1>33 DEF CloseConn, CallType
<1>34. ASSUME CloseReturns PROVE TypeOK'
  BY <1>34 DEF CloseReturns, CallType
<1>35. CASE UNCHANGED vars
  BY <1>35 DEF vars, CallType
<1>36. QED
  BY <1>1, <1>2, <1>3, <1>4, <1>5, <1>6, <1>7, <1>8, <1>9, <1>10, <1>10a, <1>11, <1>12,
     <1>13, <1>14, <1>15, <1>16, <1>17, <1>18, <1>19, <1>20, <1>21, <1>22, <1>23, <1>24,
     <1>25, <1>26, <1>27, <1>28, <1>28a, <1>29, <1>30, <1>31, <1>32, <1>33, <1>34, <1>35
  DEF Next, CallerStep, DialStep, ReadMsg, LoopStep, CloseStep

(* Every variable keeps its type.                                          *)
THEOREM Typing == Spec => []TypeOK
<1>1. Init => TypeOK
  <2> SUFFICES ASSUME Init PROVE TypeOK
    OBVIOUS
  <2>1. PoolType /\ CloseType BY DEF Init, PoolType, CloseType
  <2>2. CallType BY RetryAssumption DEF Init, CallType
  <2>3. DialType BY DEF Init, DialType
  <2>4. LoopType BY DEF Init, LoopType
  <2>5. ConnType BY JunkAssumption DEF Init, ConnType
  <2>6. QED BY <2>1, <2>2, <2>3, <2>4, <2>5 DEF TypeOK
<1>2. QED BY <1>1, TypeStep, PTL DEF Spec

(* An attempt is not nil, and names its caller. *)
LEMMA AttemptFacts ==
  ASSUME CallType
  PROVE  /\ \A q \in Queries : Attempt(q) \in Attempts /\ Attempt(q) # NoCall
         /\ \A p, q \in Queries : Attempt(p) = Attempt(q) => p = q
         /\ NoCall \notin Attempts
  BY DistinctAssumption DEF CallType, Attempt, Attempts

(* An attempt that reached exchange stays used when its caller retries. *)
LEMMA RetryKeepsUsed ==
  ASSUME CallType, NEW q \in Queries, RetryOrFail(q),
         pc[q] \in {"wait", "closing", "locking", "unlocked"}
  PROVE  \A a \in Attempts : Used(a) => Used(a)'
<1> SUFFICES ASSUME NEW p \in Queries, NEW n \in 0 .. MaxRetry + 1, Used(<<p, n>>)
             PROVE  Used(<<p, n>>)'
  BY DEF Attempts
<1>1. CASE UNCHANGED retry
  BY <1>1 DEF RetryOrFail, Return, Used, CallType
<1>2. CASE retry' = [retry EXCEPT ![q] = @ + 1] /\ pc' = [pc EXCEPT ![q] = "start"]
  BY <1>2, RetryAssumption DEF Used, CallType
<1>3. QED BY <1>1, <1>2 DEF RetryOrFail

(* Every step keeps OneHolder. *)
LEMMA HolderStep ==
  ASSUME TypeOK, ExchangeInv, [Next]_vars PROVE OneHolder'
<1> USE DEF TypeOK, PoolType, CloseType, CallType, DialType, LoopType, ConnType,
      poolVars, closeVars, callVars, dialVars, loopVars, serverVars,
      ExchangeInv, Holds, HoldsDialed, FreeConn
<1>1. ASSUME NEW q \in Queries, GetClosed(q) PROVE OneHolder'
  BY <1>1 DEF GetClosed, Return, OneHolder, HeldIsFree
<1>2. ASSUME NEW q \in Queries, NEW c \in Conns, GetIdle(q, c) PROVE OneHolder'
  BY <1>2 DEF GetIdle, TakeIdle, OneHolder, HeldIsFree
<1>3. ASSUME NEW q \in Queries, StartDial(q) PROVE OneHolder'
  BY <1>3 DEF StartDial, OneHolder, HeldIsFree
<1>4. ASSUME NEW q \in Queries, LeaveDial(q) PROVE OneHolder'
  BY <1>4 DEF LeaveDial, Return, OneHolder, HeldIsFree
<1>5. ASSUME NEW q \in Queries, Register(q) PROVE OneHolder'
  BY <1>5 DEF Register, OneHolder, HeldIsFree
<1>6. ASSUME NEW q \in Queries, WriteOk(q) PROVE OneHolder'
  BY <1>6 DEF WriteOk, OneHolder, HeldIsFree
<1>7. ASSUME NEW q \in Queries, WriteFails(q) PROVE OneHolder'
  BY <1>7 DEF WriteFails, OneHolder, HeldIsFree
<1>8. ASSUME NEW q \in Queries, ReceiveResp(q) PROVE OneHolder'
  BY <1>8 DEF ReceiveResp, Return, Attempt, OneHolder, HeldIsFree
<1>9. ASSUME NEW q \in Queries, ReceiveFails(q) PROVE OneHolder'
  BY <1>9 DEF ReceiveFails, RetryOrFail, Return, OneHolder, HeldIsFree
<1>10. ASSUME NEW q \in Queries, CallerEntersOnce(q) PROVE OneHolder'
  BY <1>10 DEF CallerEntersOnce, OneHolder, HeldIsFree
<1>10a. ASSUME NEW q \in Queries, CallerForgets(q) PROVE OneHolder'
  BY <1>10a DEF CallerForgets, Forget, OneHolder, HeldIsFree
<1>11. ASSUME NEW q \in Queries, CallerCloses(q) PROVE OneHolder'
  BY <1>11 DEF CallerCloses, RetryOrFail, Return, OneHolder, HeldIsFree
<1>12. ASSUME NEW q \in Queries, CallerFindsClosed(q) PROVE OneHolder'
  BY <1>12 DEF CallerFindsClosed, RetryOrFail, Return, OneHolder, HeldIsFree
<1>13. ASSUME NEW q \in Queries, NEW c \in Conns, DialOk(q, c) PROVE OneHolder'
  BY <1>13 DEF DialOk, OneHolder, HeldIsFree
<1>14. ASSUME NEW q \in Queries, DialFails(q) PROVE OneHolder'
  BY <1>14 DEF DialFails, OneHolder, HeldIsFree
<1>15. ASSUME NEW q \in Queries, NewReusableConn(q) PROVE OneHolder'
  BY <1>15 DEF NewReusableConn, OneHolder, HeldIsFree
<1>16. ASSUME NEW q \in Queries, RefuseConn(q) PROVE OneHolder'
  BY <1>16 DEF RefuseConn, OneHolder, HeldIsFree
<1>17. ASSUME NEW q \in Queries, HandOverConn(q) PROVE OneHolder'
  BY <1>17 DEF HandOverConn, OneHolder, HeldIsFree
<1>18. ASSUME NEW q \in Queries, HandOverErr(q) PROVE OneHolder'
  BY <1>18 DEF HandOverErr, Return, OneHolder, HeldIsFree
<1>19. ASSUME NEW q \in Queries, PoolConn(q) PROVE OneHolder'
  BY <1>19 DEF PoolConn, SetIdle, OneHolder, HeldIsFree
<1>20. ASSUME NEW q \in Queries, DropErr(q) PROVE OneHolder'
  BY <1>20 DEF DropErr, OneHolder, HeldIsFree
<1>21. ASSUME NEW q \in Queries, Cancel(q) PROVE OneHolder'
  BY <1>21 DEF Cancel, OneHolder, HeldIsFree
<1>22. ASSUME NEW c \in Conns, NEW a \in Attempts, ReadAnswer(c, a) PROVE OneHolder'
  BY <1>22 DEF ReadAnswer, OneHolder, HeldIsFree
<1>23. ASSUME NEW c \in Conns, ReadJunk(c) PROVE OneHolder'
  BY <1>23 DEF ReadJunk, OneHolder, HeldIsFree
<1>24. ASSUME NEW c \in Conns, ReadFails(c) PROVE OneHolder'
  BY <1>24 DEF ReadFails, OneHolder, HeldIsFree
<1>25. ASSUME NEW c \in Conns, TakeWaiting(c) PROVE OneHolder'
  BY <1>25 DEF TakeWaiting, OneHolder, HeldIsFree
<1>26. ASSUME NEW c \in Conns, LoopSetIdle(c) PROVE OneHolder'
  BY <1>26 DEF LoopSetIdle, SetIdle, OneHolder, HeldIsFree
<1>27. ASSUME NEW c \in Conns, Deliver(c) PROVE OneHolder'
  BY <1>27 DEF Deliver, OneHolder, HeldIsFree
<1>28. ASSUME NEW c \in Conns, LoopEntersOnce(c) PROVE OneHolder'
  BY <1>28 DEF LoopEntersOnce, OneHolder, HeldIsFree
<1>28a. ASSUME NEW c \in Conns, LoopForgets(c) PROVE OneHolder'
  BY <1>28a DEF LoopForgets, Forget, OneHolder, HeldIsFree
<1>29. ASSUME NEW c \in Conns, LoopCloses(c) PROVE OneHolder'
  BY <1>29 DEF LoopCloses, OneHolder, HeldIsFree
<1>30. ASSUME NEW c \in Conns, LoopFindsClosed(c) PROVE OneHolder'
  BY <1>30 DEF LoopFindsClosed, OneHolder, HeldIsFree
<1>31. ASSUME NEW c \in Conns, CloseTakes(c) PROVE OneHolder'
  BY <1>31 DEF CloseTakes, OneHolder, HeldIsFree
<1>32. ASSUME CloseStarts PROVE OneHolder'
  BY <1>32 DEF CloseStarts, OneHolder, HeldIsFree
<1>33. ASSUME CloseConn PROVE OneHolder'
  BY <1>33 DEF CloseConn, OneHolder, HeldIsFree
<1>34. ASSUME CloseReturns PROVE OneHolder'
  BY <1>34 DEF CloseReturns, OneHolder, HeldIsFree
<1>35. CASE UNCHANGED vars
  BY <1>35 DEF vars, OneHolder
<1>36. QED
  BY <1>1, <1>2, <1>3, <1>4, <1>5, <1>6, <1>7, <1>8, <1>9, <1>10, <1>10a, <1>11, <1>12,
     <1>13, <1>14, <1>15, <1>16, <1>17, <1>18, <1>19, <1>20, <1>21, <1>22, <1>23, <1>24,
     <1>25, <1>26, <1>27, <1>28, <1>28a, <1>29, <1>30, <1>31, <1>32, <1>33, <1>34, <1>35
  DEF Next, CallerStep, DialStep, ReadMsg, LoopStep, CloseStep

(* Every step keeps HeldIsFree. *)
LEMMA HeldStep ==
  ASSUME TypeOK, ExchangeInv, [Next]_vars PROVE HeldIsFree'
<1> USE DEF TypeOK, PoolType, CloseType, CallType, DialType, LoopType, ConnType,
      poolVars, closeVars, callVars, dialVars, loopVars, serverVars,
      ExchangeInv, Holds, HoldsDialed, FreeConn
<1>1. ASSUME NEW q \in Queries, GetClosed(q) PROVE HeldIsFree'
  BY <1>1 DEF GetClosed, Return, OneHolder, HeldIsFree
<1>2. ASSUME NEW q \in Queries, NEW c \in Conns, GetIdle(q, c) PROVE HeldIsFree'
  BY <1>2 DEF GetIdle, TakeIdle, OneHolder, HeldIsFree
<1>3. ASSUME NEW q \in Queries, StartDial(q) PROVE HeldIsFree'
  BY <1>3 DEF StartDial, OneHolder, HeldIsFree
<1>4. ASSUME NEW q \in Queries, LeaveDial(q) PROVE HeldIsFree'
  BY <1>4 DEF LeaveDial, Return, OneHolder, HeldIsFree
<1>5. ASSUME NEW q \in Queries, Register(q) PROVE HeldIsFree'
  BY <1>5 DEF Register, OneHolder, HeldIsFree
<1>6. ASSUME NEW q \in Queries, WriteOk(q) PROVE HeldIsFree'
  BY <1>6 DEF WriteOk, OneHolder, HeldIsFree
<1>7. ASSUME NEW q \in Queries, WriteFails(q) PROVE HeldIsFree'
  BY <1>7 DEF WriteFails, OneHolder, HeldIsFree
<1>8. ASSUME NEW q \in Queries, ReceiveResp(q) PROVE HeldIsFree'
  BY <1>8 DEF ReceiveResp, Return, Attempt, OneHolder, HeldIsFree
<1>9. ASSUME NEW q \in Queries, ReceiveFails(q) PROVE HeldIsFree'
  BY <1>9 DEF ReceiveFails, RetryOrFail, Return, OneHolder, HeldIsFree
<1>10. ASSUME NEW q \in Queries, CallerEntersOnce(q) PROVE HeldIsFree'
  BY <1>10 DEF CallerEntersOnce, OneHolder, HeldIsFree
<1>10a. ASSUME NEW q \in Queries, CallerForgets(q) PROVE HeldIsFree'
  BY <1>10a DEF CallerForgets, Forget, OneHolder, HeldIsFree
<1>11. ASSUME NEW q \in Queries, CallerCloses(q) PROVE HeldIsFree'
  BY <1>11 DEF CallerCloses, RetryOrFail, Return, OneHolder, HeldIsFree
<1>12. ASSUME NEW q \in Queries, CallerFindsClosed(q) PROVE HeldIsFree'
  BY <1>12 DEF CallerFindsClosed, RetryOrFail, Return, OneHolder, HeldIsFree
<1>13. ASSUME NEW q \in Queries, NEW c \in Conns, DialOk(q, c) PROVE HeldIsFree'
  BY <1>13 DEF DialOk, OneHolder, HeldIsFree
<1>14. ASSUME NEW q \in Queries, DialFails(q) PROVE HeldIsFree'
  BY <1>14 DEF DialFails, OneHolder, HeldIsFree
<1>15. ASSUME NEW q \in Queries, NewReusableConn(q) PROVE HeldIsFree'
  BY <1>15 DEF NewReusableConn, OneHolder, HeldIsFree
<1>16. ASSUME NEW q \in Queries, RefuseConn(q) PROVE HeldIsFree'
  BY <1>16 DEF RefuseConn, OneHolder, HeldIsFree
<1>17. ASSUME NEW q \in Queries, HandOverConn(q) PROVE HeldIsFree'
  BY <1>17 DEF HandOverConn, OneHolder, HeldIsFree
<1>18. ASSUME NEW q \in Queries, HandOverErr(q) PROVE HeldIsFree'
  BY <1>18 DEF HandOverErr, Return, OneHolder, HeldIsFree
<1>19. ASSUME NEW q \in Queries, PoolConn(q) PROVE HeldIsFree'
  BY <1>19 DEF PoolConn, SetIdle, OneHolder, HeldIsFree
<1>20. ASSUME NEW q \in Queries, DropErr(q) PROVE HeldIsFree'
  BY <1>20 DEF DropErr, OneHolder, HeldIsFree
<1>21. ASSUME NEW q \in Queries, Cancel(q) PROVE HeldIsFree'
  BY <1>21 DEF Cancel, OneHolder, HeldIsFree
<1>22. ASSUME NEW c \in Conns, NEW a \in Attempts, ReadAnswer(c, a) PROVE HeldIsFree'
  BY <1>22 DEF ReadAnswer, OneHolder, HeldIsFree
<1>23. ASSUME NEW c \in Conns, ReadJunk(c) PROVE HeldIsFree'
  BY <1>23 DEF ReadJunk, OneHolder, HeldIsFree
<1>24. ASSUME NEW c \in Conns, ReadFails(c) PROVE HeldIsFree'
  BY <1>24 DEF ReadFails, OneHolder, HeldIsFree
<1>25. ASSUME NEW c \in Conns, TakeWaiting(c) PROVE HeldIsFree'
  BY <1>25 DEF TakeWaiting, OneHolder, HeldIsFree
<1>26. ASSUME NEW c \in Conns, LoopSetIdle(c) PROVE HeldIsFree'
  BY <1>26 DEF LoopSetIdle, SetIdle, OneHolder, HeldIsFree
<1>27. ASSUME NEW c \in Conns, Deliver(c) PROVE HeldIsFree'
  BY <1>27 DEF Deliver, OneHolder, HeldIsFree
<1>28. ASSUME NEW c \in Conns, LoopEntersOnce(c) PROVE HeldIsFree'
  BY <1>28 DEF LoopEntersOnce, OneHolder, HeldIsFree
<1>28a. ASSUME NEW c \in Conns, LoopForgets(c) PROVE HeldIsFree'
  BY <1>28a DEF LoopForgets, Forget, OneHolder, HeldIsFree
<1>29. ASSUME NEW c \in Conns, LoopCloses(c) PROVE HeldIsFree'
  BY <1>29 DEF LoopCloses, OneHolder, HeldIsFree
<1>30. ASSUME NEW c \in Conns, LoopFindsClosed(c) PROVE HeldIsFree'
  BY <1>30 DEF LoopFindsClosed, OneHolder, HeldIsFree
<1>31. ASSUME NEW c \in Conns, CloseTakes(c) PROVE HeldIsFree'
  BY <1>31 DEF CloseTakes, OneHolder, HeldIsFree
<1>32. ASSUME CloseStarts PROVE HeldIsFree'
  BY <1>32 DEF CloseStarts, OneHolder, HeldIsFree
<1>33. ASSUME CloseConn PROVE HeldIsFree'
  BY <1>33 DEF CloseConn, OneHolder, HeldIsFree
<1>34. ASSUME CloseReturns PROVE HeldIsFree'
  BY <1>34 DEF CloseReturns, OneHolder, HeldIsFree
<1>35. CASE UNCHANGED vars
  BY <1>35 DEF vars, HeldIsFree
<1>36. QED
  BY <1>1, <1>2, <1>3, <1>4, <1>5, <1>6, <1>7, <1>8, <1>9, <1>10, <1>10a, <1>11, <1>12,
     <1>13, <1>14, <1>15, <1>16, <1>17, <1>18, <1>19, <1>20, <1>21, <1>22, <1>23, <1>24,
     <1>25, <1>26, <1>27, <1>28, <1>28a, <1>29, <1>30, <1>31, <1>32, <1>33, <1>34, <1>35
  DEF Next, CallerStep, DialStep, ReadMsg, LoopStep, CloseStep

(* Every step keeps OneUse. *)
LEMMA UseStep ==
  ASSUME TypeOK, ExchangeInv, [Next]_vars PROVE OneUse'
<1> USE DEF TypeOK, PoolType, CloseType, CallType, DialType, LoopType, ConnType,
      poolVars, closeVars, callVars, dialVars, loopVars, serverVars,
      ExchangeInv, Holds, HoldsDialed, FreeConn
<1>1. ASSUME NEW q \in Queries, GetClosed(q) PROVE OneUse'
  <2>1. \A a \in Attempts : Used(a) => Used(a)' BY <1>1 DEF GetClosed, Return, Used, Attempts
  <2>2. QED BY <1>1, <2>1 DEF GetClosed, OneUse
<1>2. ASSUME NEW q \in Queries, NEW c \in Conns, GetIdle(q, c) PROVE OneUse'
  <2>1. \A a \in Attempts : Used(a) => Used(a)' BY <1>2 DEF GetIdle, Used, Attempts
  <2>2. QED BY <1>2, <2>1 DEF GetIdle, OneUse
<1>3. ASSUME NEW q \in Queries, StartDial(q) PROVE OneUse'
  <2>1. \A a \in Attempts : Used(a) => Used(a)' BY <1>3 DEF StartDial, Used, Attempts
  <2>2. QED BY <1>3, <2>1 DEF StartDial, OneUse
<1>4. ASSUME NEW q \in Queries, LeaveDial(q) PROVE OneUse'
  BY <1>4 DEF LeaveDial, Return, OneUse, HeldIsFree, Used, Attempts
<1>5. ASSUME NEW q \in Queries, Register(q) PROVE OneUse'
  <2>0. PICK b \in Attempts : b = Attempt(q)
    BY AttemptFacts
  <2>1. ~Used(b) /\ Used(b)' /\ b # NoCall
    BY <1>5, <2>0, AttemptFacts DEF Register, Attempt, Used, Attempts
  <2>2. \A a \in Attempts : Used(a) => Used(a)'
    BY <1>5 DEF Register, Used, Attempts
  <2>3. chan[b] = Empty /\ \A c \in Conns : waitingResp[c] # b /\ respChan[c] # b
    BY <2>1 DEF OneUse
  <2>4. QED
    BY <1>5, <2>0, <2>1, <2>2, <2>3 DEF Register, OneUse
<1>6. ASSUME NEW q \in Queries, WriteOk(q) PROVE OneUse'
  BY <1>6 DEF WriteOk, OneUse, HeldIsFree, Used, Attempts
<1>7. ASSUME NEW q \in Queries, WriteFails(q) PROVE OneUse'
  BY <1>7 DEF WriteFails, OneUse, HeldIsFree, Used, Attempts
<1>8. ASSUME NEW q \in Queries, ReceiveResp(q) PROVE OneUse'
  <2>1. \A a \in Attempts : Used(a) => Used(a)' BY <1>8 DEF ReceiveResp, Return, Used, Attempts
  <2>2. QED BY <1>8, <2>1 DEF ReceiveResp, OneUse
<1>9. ASSUME NEW q \in Queries, ReceiveFails(q) PROVE OneUse'
  <2>1. /\ UNCHANGED <<waitingResp, respChan, rpc, chan>>
        /\ \A a \in Attempts : Used(a) => Used(a)'
    BY <1>9, RetryKeepsUsed DEF ReceiveFails
  <2>2. QED BY <2>1 DEF OneUse
<1>10. ASSUME NEW q \in Queries, CallerEntersOnce(q) PROVE OneUse'
  BY <1>10 DEF CallerEntersOnce, OneUse, HeldIsFree, Used, Attempts
<1>10a. ASSUME NEW q \in Queries, CallerForgets(q) PROVE OneUse'
  BY <1>10a DEF CallerForgets, Forget, OneUse, HeldIsFree, Used, Attempts
<1>11. ASSUME NEW q \in Queries, CallerCloses(q) PROVE OneUse'
  <2>1. /\ UNCHANGED <<waitingResp, respChan, rpc, chan>>
        /\ \A a \in Attempts : Used(a) => Used(a)'
    BY <1>11, RetryKeepsUsed DEF CallerCloses
  <2>2. QED BY <2>1 DEF OneUse
<1>12. ASSUME NEW q \in Queries, CallerFindsClosed(q) PROVE OneUse'
  <2>1. /\ UNCHANGED <<waitingResp, respChan, rpc, chan>>
        /\ \A a \in Attempts : Used(a) => Used(a)'
    BY <1>12, RetryKeepsUsed DEF CallerFindsClosed
  <2>2. QED BY <2>1 DEF OneUse
<1>13. ASSUME NEW q \in Queries, NEW c \in Conns, DialOk(q, c) PROVE OneUse'
  <2>1. \A a \in Attempts : Used(a) => Used(a)' BY <1>13 DEF DialOk, Used, Attempts
  <2>2. QED BY <1>13, <2>1 DEF DialOk, OneUse
<1>14. ASSUME NEW q \in Queries, DialFails(q) PROVE OneUse'
  BY <1>14 DEF DialFails, OneUse, HeldIsFree, Used, Attempts
<1>15. ASSUME NEW q \in Queries, NewReusableConn(q) PROVE OneUse'
  BY <1>15 DEF NewReusableConn, OneUse, HeldIsFree, Used, Attempts
<1>16. ASSUME NEW q \in Queries, RefuseConn(q) PROVE OneUse'
  BY <1>16 DEF RefuseConn, OneUse, HeldIsFree, Used, Attempts
<1>17. ASSUME NEW q \in Queries, HandOverConn(q) PROVE OneUse'
  <2>1. \A a \in Attempts : Used(a) => Used(a)' BY <1>17 DEF HandOverConn, Used, Attempts
  <2>2. QED BY <1>17, <2>1 DEF HandOverConn, OneUse
<1>18. ASSUME NEW q \in Queries, HandOverErr(q) PROVE OneUse'
  <2>1. \A a \in Attempts : Used(a) => Used(a)' BY <1>18 DEF HandOverErr, Return, Used, Attempts
  <2>2. QED BY <1>18, <2>1 DEF HandOverErr, OneUse
<1>19. ASSUME NEW q \in Queries, PoolConn(q) PROVE OneUse'
  BY <1>19 DEF PoolConn, SetIdle, OneUse, HeldIsFree, Used, Attempts
<1>20. ASSUME NEW q \in Queries, DropErr(q) PROVE OneUse'
  BY <1>20 DEF DropErr, OneUse, HeldIsFree, Used, Attempts
<1>21. ASSUME NEW q \in Queries, Cancel(q) PROVE OneUse'
  BY <1>21 DEF Cancel, OneUse, HeldIsFree, Used, Attempts
<1>22. ASSUME NEW c \in Conns, NEW a \in Attempts, ReadAnswer(c, a) PROVE OneUse'
  BY <1>22 DEF ReadAnswer, OneUse, HeldIsFree, Used, Attempts
<1>23. ASSUME NEW c \in Conns, ReadJunk(c) PROVE OneUse'
  BY <1>23 DEF ReadJunk, OneUse, HeldIsFree, Used, Attempts
<1>24. ASSUME NEW c \in Conns, ReadFails(c) PROVE OneUse'
  BY <1>24 DEF ReadFails, OneUse, HeldIsFree, Used, Attempts
<1>25. ASSUME NEW c \in Conns, TakeWaiting(c) PROVE OneUse'
  BY <1>25 DEF TakeWaiting, OneUse, HeldIsFree, Used, Attempts
<1>26. ASSUME NEW c \in Conns, LoopSetIdle(c) PROVE OneUse'
  BY <1>26 DEF LoopSetIdle, SetIdle, OneUse, HeldIsFree, Used, Attempts
<1>27. ASSUME NEW c \in Conns, Deliver(c) PROVE OneUse'
  BY <1>27 DEF Deliver, OneUse, HeldIsFree, Used, Attempts
<1>28. ASSUME NEW c \in Conns, LoopEntersOnce(c) PROVE OneUse'
  BY <1>28 DEF LoopEntersOnce, OneUse, HeldIsFree, Used, Attempts
<1>28a. ASSUME NEW c \in Conns, LoopForgets(c) PROVE OneUse'
  BY <1>28a DEF LoopForgets, Forget, OneUse, HeldIsFree, Used, Attempts
<1>29. ASSUME NEW c \in Conns, LoopCloses(c) PROVE OneUse'
  BY <1>29 DEF LoopCloses, OneUse, HeldIsFree, Used, Attempts
<1>30. ASSUME NEW c \in Conns, LoopFindsClosed(c) PROVE OneUse'
  BY <1>30 DEF LoopFindsClosed, OneUse, HeldIsFree, Used, Attempts
<1>31. ASSUME NEW c \in Conns, CloseTakes(c) PROVE OneUse'
  BY <1>31 DEF CloseTakes, OneUse, HeldIsFree, Used, Attempts
<1>32. ASSUME CloseStarts PROVE OneUse'
  BY <1>32 DEF CloseStarts, OneUse, HeldIsFree, Used, Attempts
<1>33. ASSUME CloseConn PROVE OneUse'
  BY <1>33 DEF CloseConn, OneUse, HeldIsFree, Used, Attempts
<1>34. ASSUME CloseReturns PROVE OneUse'
  BY <1>34 DEF CloseReturns, OneUse, HeldIsFree, Used, Attempts
<1>35. CASE UNCHANGED vars
  BY <1>35 DEF vars, OneUse, Used
<1>36. QED
  BY <1>1, <1>2, <1>3, <1>4, <1>5, <1>6, <1>7, <1>8, <1>9, <1>10, <1>10a, <1>11, <1>12,
     <1>13, <1>14, <1>15, <1>16, <1>17, <1>18, <1>19, <1>20, <1>21, <1>22, <1>23, <1>24,
     <1>25, <1>26, <1>27, <1>28, <1>28a, <1>29, <1>30, <1>31, <1>32, <1>33, <1>34, <1>35
  DEF Next, CallerStep, DialStep, ReadMsg, LoopStep, CloseStep

(* Every step keeps PoolInv. *)
LEMMA PoolStep ==
  ASSUME TypeOK, ExchangeInv, CallInv, PoolInv, [Next]_vars PROVE PoolInv'
<1> USE DEF TypeOK, PoolType, CloseType, CallType, DialType, LoopType, ConnType,
      poolVars, closeVars, callVars, dialVars, loopVars, serverVars,
      ExchangeInv, Holds, HoldsDialed, FreeConn, KeptFor
<1>1. ASSUME NEW q \in Queries, GetClosed(q) PROVE PoolInv'
  BY <1>1 DEF GetClosed, Return, PoolInv, BeingClosed, OneHolder, HeldIsFree
<1>2. ASSUME NEW q \in Queries, NEW c \in Conns, GetIdle(q, c) PROVE PoolInv'
  <2>1. KeptFor(c)' BY <1>2 DEF GetIdle
  <2>2. \A d \in Conns : KeptFor(d) => KeptFor(d)' BY <1>2 DEF GetIdle
  <2>3. \A d \in Conns : BeingClosed(d) <=> BeingClosed(d)' BY <1>2 DEF GetIdle, BeingClosed
  <2>4. rpc[c] # "none" BY <1>2 DEF GetIdle, HeldIsFree
  <2>5. QED BY <1>2, <2>1, <2>2, <2>3, <2>4 DEF GetIdle, TakeIdle, PoolInv
<1>3. ASSUME NEW q \in Queries, StartDial(q) PROVE PoolInv'
  <2>1. dpc[q] = "none" BY <1>3 DEF StartDial, CallInv
  <2>2. \A c \in Conns : KeptFor(c) => KeptFor(c)' BY <1>3, <2>1 DEF StartDial
  <2>3. QED BY <1>3, <2>1, <2>2 DEF StartDial, PoolInv, BeingClosed
<1>4. ASSUME NEW q \in Queries, LeaveDial(q) PROVE PoolInv'
  BY <1>4 DEF LeaveDial, Return, PoolInv, BeingClosed, OneHolder, HeldIsFree
<1>5. ASSUME NEW q \in Queries, Register(q) PROVE PoolInv'
  <2>1. conn[q] \in Conns /\ Attempt(q) # NoCall
    BY <1>5, AttemptFacts DEF Register, HeldIsFree
  <2>2. QED BY <1>5, <2>1 DEF Register, PoolInv, BeingClosed, OneHolder, HeldIsFree
<1>6. ASSUME NEW q \in Queries, WriteOk(q) PROVE PoolInv'
  BY <1>6 DEF WriteOk, PoolInv, BeingClosed, OneHolder, HeldIsFree
<1>7. ASSUME NEW q \in Queries, WriteFails(q) PROVE PoolInv'
  BY <1>7 DEF WriteFails, PoolInv, BeingClosed, OneHolder, HeldIsFree
<1>8. ASSUME NEW q \in Queries, ReceiveResp(q) PROVE PoolInv'
  BY <1>8 DEF ReceiveResp, Return, Attempt, PoolInv, BeingClosed, OneHolder, HeldIsFree
<1>9. ASSUME NEW q \in Queries, ReceiveFails(q) PROVE PoolInv'
  BY <1>9 DEF ReceiveFails, RetryOrFail, Return, PoolInv, BeingClosed, OneHolder, HeldIsFree
<1>10. ASSUME NEW q \in Queries, CallerEntersOnce(q) PROVE PoolInv'
  BY <1>10 DEF CallerEntersOnce, PoolInv, BeingClosed, OneHolder, HeldIsFree
<1>10a. ASSUME NEW q \in Queries, CallerForgets(q) PROVE PoolInv'
  BY <1>10a DEF CallerForgets, Forget, PoolInv, BeingClosed, OneHolder, HeldIsFree
<1>11. ASSUME NEW q \in Queries, CallerCloses(q) PROVE PoolInv'
  BY <1>11 DEF CallerCloses, RetryOrFail, Return, PoolInv, BeingClosed, OneHolder, HeldIsFree
<1>12. ASSUME NEW q \in Queries, CallerFindsClosed(q) PROVE PoolInv'
  BY <1>12 DEF CallerFindsClosed, RetryOrFail, Return, PoolInv, BeingClosed, OneHolder, HeldIsFree
<1>13. ASSUME NEW q \in Queries, NEW c \in Conns, DialOk(q, c) PROVE PoolInv'
  BY <1>13 DEF DialOk, PoolInv, BeingClosed, OneHolder, HeldIsFree
<1>14. ASSUME NEW q \in Queries, DialFails(q) PROVE PoolInv'
  BY <1>14 DEF DialFails, PoolInv, BeingClosed, OneHolder, HeldIsFree
<1>15. ASSUME NEW q \in Queries, NewReusableConn(q) PROVE PoolInv'
  BY <1>15 DEF NewReusableConn, PoolInv, BeingClosed, OneHolder, HeldIsFree
<1>16. ASSUME NEW q \in Queries, RefuseConn(q) PROVE PoolInv'
  BY <1>16 DEF RefuseConn, PoolInv, BeingClosed, OneHolder, HeldIsFree
<1>17. ASSUME NEW q \in Queries, HandOverConn(q) PROVE PoolInv'
  BY <1>17 DEF HandOverConn, PoolInv, BeingClosed, OneHolder, HeldIsFree
<1>18. ASSUME NEW q \in Queries, HandOverErr(q) PROVE PoolInv'
  <2>1. \A c \in Conns : KeptFor(c) => KeptFor(c)' BY <1>18 DEF HandOverErr, Return
  <2>2. QED BY <1>18, <2>1 DEF HandOverErr, Return, PoolInv, BeingClosed
<1>19. ASSUME NEW q \in Queries, PoolConn(q) PROVE PoolInv'
  BY <1>19 DEF PoolConn, SetIdle, PoolInv, BeingClosed, OneHolder, HeldIsFree
<1>20. ASSUME NEW q \in Queries, DropErr(q) PROVE PoolInv'
  BY <1>20 DEF DropErr, PoolInv, BeingClosed, OneHolder, HeldIsFree
<1>21. ASSUME NEW q \in Queries, Cancel(q) PROVE PoolInv'
  BY <1>21 DEF Cancel, PoolInv, BeingClosed, OneHolder, HeldIsFree
<1>22. ASSUME NEW c \in Conns, NEW a \in Attempts, ReadAnswer(c, a) PROVE PoolInv'
  BY <1>22 DEF ReadAnswer, PoolInv, BeingClosed, OneHolder, HeldIsFree
<1>23. ASSUME NEW c \in Conns, ReadJunk(c) PROVE PoolInv'
  BY <1>23 DEF ReadJunk, PoolInv, BeingClosed, OneHolder, HeldIsFree
<1>24. ASSUME NEW c \in Conns, ReadFails(c) PROVE PoolInv'
  BY <1>24 DEF ReadFails, PoolInv, BeingClosed, OneHolder, HeldIsFree
<1>25. ASSUME NEW c \in Conns, TakeWaiting(c) PROVE PoolInv'
  BY <1>25 DEF TakeWaiting, PoolInv, BeingClosed, OneHolder, HeldIsFree
<1>26. ASSUME NEW c \in Conns, LoopSetIdle(c) PROVE PoolInv'
  BY <1>26 DEF LoopSetIdle, SetIdle, PoolInv, BeingClosed, OneHolder, HeldIsFree
<1>27. ASSUME NEW c \in Conns, Deliver(c) PROVE PoolInv'
  BY <1>27 DEF Deliver, PoolInv, BeingClosed, OneHolder, HeldIsFree
<1>28. ASSUME NEW c \in Conns, LoopEntersOnce(c) PROVE PoolInv'
  BY <1>28 DEF LoopEntersOnce, PoolInv, BeingClosed, OneHolder, HeldIsFree
<1>28a. ASSUME NEW c \in Conns, LoopForgets(c) PROVE PoolInv'
  BY <1>28a DEF LoopForgets, Forget, PoolInv, BeingClosed, OneHolder, HeldIsFree
<1>29. ASSUME NEW c \in Conns, LoopCloses(c) PROVE PoolInv'
  BY <1>29 DEF LoopCloses, PoolInv, BeingClosed, OneHolder, HeldIsFree
<1>30. ASSUME NEW c \in Conns, LoopFindsClosed(c) PROVE PoolInv'
  BY <1>30 DEF LoopFindsClosed, PoolInv, BeingClosed, OneHolder, HeldIsFree
<1>31. ASSUME NEW c \in Conns, CloseTakes(c) PROVE PoolInv'
  BY <1>31 DEF CloseTakes, PoolInv, BeingClosed, OneHolder, HeldIsFree
<1>32. ASSUME CloseStarts PROVE PoolInv'
  BY <1>32 DEF CloseStarts, PoolInv, BeingClosed, OneHolder, HeldIsFree
<1>33. ASSUME CloseConn PROVE PoolInv'
  BY <1>33 DEF CloseConn, PoolInv, BeingClosed, OneHolder, HeldIsFree
<1>34. ASSUME CloseReturns PROVE PoolInv'
  BY <1>34 DEF CloseReturns, PoolInv, BeingClosed, OneHolder, HeldIsFree
<1>35. CASE UNCHANGED vars
  BY <1>35 DEF vars, PoolInv, BeingClosed
<1>36. QED
  BY <1>1, <1>2, <1>3, <1>4, <1>5, <1>6, <1>7, <1>8, <1>9, <1>10, <1>10a, <1>11, <1>12,
     <1>13, <1>14, <1>15, <1>16, <1>17, <1>18, <1>19, <1>20, <1>21, <1>22, <1>23, <1>24,
     <1>25, <1>26, <1>27, <1>28, <1>28a, <1>29, <1>30, <1>31, <1>32, <1>33, <1>34, <1>35
  DEF Next, CallerStep, DialStep, ReadMsg, LoopStep, CloseStep

(* A failed exchange changes no answer.                                     *)
LEMMA FailKeepsAnswers ==
  ASSUME TypeOK, AnswerInv, NEW q \in Queries, RetryOrFail(q),
         UNCHANGED <<junk, conn, asked, waitingResp, resp, rpc, respChan, chan>>
  PROVE  AnswerInv'
<1> USE DEF TypeOK, CallType
<1>1. \A p \in Queries : pc'[p] = "write" =>
        p # q /\ pc[p] = "write" /\ retry'[p] = retry[p]
  BY DEF RetryOrFail, Return
<1>2. \A p \in Queries : pc'[p] = "write" => Attempt(p)' = Attempt(p)
  BY <1>1 DEF Attempt
<1>3. \A p \in Queries : result'[p] = result[p] \/ result'[p] = Failed
  BY DEF RetryOrFail, Return
<1>4. QED BY <1>1, <1>2, <1>3 DEF AnswerInv

(* Every step keeps AnswerInv. *)
LEMMA AnswerStep ==
  ASSUME TypeOK, ExchangeInv, AnswerInv, [Next]_vars PROVE AnswerInv'
<1> USE DEF TypeOK, PoolType, CloseType, CallType, DialType, LoopType, ConnType,
      poolVars, closeVars, callVars, dialVars, loopVars, serverVars,
      ExchangeInv, Attempts, Messages
<1>1. ASSUME NEW q \in Queries, GetClosed(q) PROVE AnswerInv'
  BY <1>1 DEF GetClosed, Return, AnswerInv, HeldIsFree, Attempt
<1>2. ASSUME NEW q \in Queries, NEW c \in Conns, GetIdle(q, c) PROVE AnswerInv'
  BY <1>2 DEF GetIdle, TakeIdle, AnswerInv, HeldIsFree, Attempt
<1>3. ASSUME NEW q \in Queries, StartDial(q) PROVE AnswerInv'
  BY <1>3 DEF StartDial, AnswerInv, HeldIsFree, Attempt
<1>4. ASSUME NEW q \in Queries, LeaveDial(q) PROVE AnswerInv'
  BY <1>4 DEF LeaveDial, Return, AnswerInv, HeldIsFree, Attempt
<1>5. ASSUME NEW q \in Queries, Register(q) PROVE AnswerInv'
  <2>1. SUFFICES ASSUME junk = 0 PROVE AnswerInv'
    BY <1>5 DEF Register, AnswerInv
  <2>2. asked[conn[q]] = {} /\ rpc[conn[q]] # "got"
    BY <1>5, <2>1, AttemptFacts DEF Register, AnswerInv, HeldIsFree, Holds
  <2>3. \A p \in Queries : pc[p] = "write" => conn[p] # conn[q]
    BY <1>5, <2>1, AttemptFacts DEF Register, AnswerInv
  <2>4. QED BY <1>5, <2>1, <2>2, <2>3 DEF Register, Attempt, AnswerInv, HeldIsFree
<1>6. ASSUME NEW q \in Queries, WriteOk(q) PROVE AnswerInv'
  <2>1. SUFFICES ASSUME junk = 0 PROVE AnswerInv'
    BY <1>6 DEF WriteOk, AnswerInv
  <2>2. \A p \in Queries : pc[p] = "write" /\ conn[p] = conn[q] => p = q
    BY <1>6, <2>1, AttemptFacts DEF WriteOk, AnswerInv
  <2>3. conn[q] \in Conns /\ waitingResp[conn[q]] = Attempt(q) /\ asked[conn[q]] = {}
        /\ rpc[conn[q]] # "got"
    BY <1>6, <2>1 DEF WriteOk, AnswerInv, HeldIsFree
  <2>4. \A c \in Conns : asked'[c] = IF c = conn[q] THEN {Attempt(q)} ELSE asked[c]
    BY <1>6, <2>3 DEF WriteOk
  <2>5. \A p \in Queries : pc'[p] = "write" => p # q /\ pc[p] = "write" /\ conn[p] # conn[q]
    BY <1>6, <2>2 DEF WriteOk
  <2>6. \A p \in Queries : pc[p] = "write" => conn[p] \in Conns
    BY DEF HeldIsFree
  <2>7. UNCHANGED <<waitingResp, rpc, resp, respChan, chan, result, conn, retry>>
    BY <1>6 DEF WriteOk
  <2>8. \A c \in Conns :
          /\ asked'[c] \subseteq {waitingResp'[c]}
          /\ rpc'[c] = "got" => asked'[c] = {} /\ resp'[c] = waitingResp'[c] /\ resp'[c] \in Attempts
          /\ rpc'[c] \in {"setIdle", "deliver"} => respChan'[c] = resp'[c]
    BY <2>1, <2>3, <2>4, <2>7 DEF AnswerInv
  <2>9. \A p \in Queries : pc'[p] = "write" =>
          /\ waitingResp'[conn'[p]] = Attempt(p)'
          /\ asked'[conn'[p]] = {} /\ rpc'[conn'[p]] # "got"
    BY <2>1, <2>4, <2>5, <2>6, <2>7 DEF AnswerInv, Attempt
  <2>10. QED BY <2>1, <2>7, <2>8, <2>9 DEF AnswerInv
<1>7. ASSUME NEW q \in Queries, WriteFails(q) PROVE AnswerInv'
  BY <1>7 DEF WriteFails, AnswerInv, HeldIsFree, Attempt
<1>8. ASSUME NEW q \in Queries, ReceiveResp(q) PROVE AnswerInv'
  BY <1>8 DEF ReceiveResp, Return, Attempt, AnswerInv, HeldIsFree, Attempt
<1>9. ASSUME NEW q \in Queries, ReceiveFails(q) PROVE AnswerInv'
  BY <1>9, FailKeepsAnswers DEF ReceiveFails
<1>10. ASSUME NEW q \in Queries, CallerEntersOnce(q) PROVE AnswerInv'
  BY <1>10 DEF CallerEntersOnce, AnswerInv, HeldIsFree, Attempt
<1>10a. ASSUME NEW q \in Queries, CallerForgets(q) PROVE AnswerInv'
  BY <1>10a DEF CallerForgets, Forget, AnswerInv, HeldIsFree, Attempt
<1>11. ASSUME NEW q \in Queries, CallerCloses(q) PROVE AnswerInv'
  BY <1>11, FailKeepsAnswers DEF CallerCloses
<1>12. ASSUME NEW q \in Queries, CallerFindsClosed(q) PROVE AnswerInv'
  BY <1>12, FailKeepsAnswers DEF CallerFindsClosed
<1>13. ASSUME NEW q \in Queries, NEW c \in Conns, DialOk(q, c) PROVE AnswerInv'
  BY <1>13 DEF DialOk, AnswerInv, HeldIsFree, Attempt
<1>14. ASSUME NEW q \in Queries, DialFails(q) PROVE AnswerInv'
  BY <1>14 DEF DialFails, AnswerInv, HeldIsFree, Attempt
<1>15. ASSUME NEW q \in Queries, NewReusableConn(q) PROVE AnswerInv'
  BY <1>15 DEF NewReusableConn, AnswerInv, HeldIsFree, Attempt
<1>16. ASSUME NEW q \in Queries, RefuseConn(q) PROVE AnswerInv'
  BY <1>16 DEF RefuseConn, AnswerInv, HeldIsFree, Attempt
<1>17. ASSUME NEW q \in Queries, HandOverConn(q) PROVE AnswerInv'
  BY <1>17 DEF HandOverConn, AnswerInv, HeldIsFree, Attempt
<1>18. ASSUME NEW q \in Queries, HandOverErr(q) PROVE AnswerInv'
  BY <1>18 DEF HandOverErr, Return, AnswerInv, HeldIsFree, Attempt
<1>19. ASSUME NEW q \in Queries, PoolConn(q) PROVE AnswerInv'
  BY <1>19 DEF PoolConn, SetIdle, AnswerInv, HeldIsFree, Attempt
<1>20. ASSUME NEW q \in Queries, DropErr(q) PROVE AnswerInv'
  BY <1>20 DEF DropErr, AnswerInv, HeldIsFree, Attempt
<1>21. ASSUME NEW q \in Queries, Cancel(q) PROVE AnswerInv'
  BY <1>21 DEF Cancel, AnswerInv, HeldIsFree, Attempt
<1>22. ASSUME NEW c \in Conns, NEW a \in Attempts, ReadAnswer(c, a) PROVE AnswerInv'
  BY <1>22 DEF ReadAnswer, AnswerInv, HeldIsFree, Attempt
<1>23. ASSUME NEW c \in Conns, ReadJunk(c) PROVE AnswerInv'
  BY <1>23, JunkAssumption DEF ReadJunk, AnswerInv
<1>24. ASSUME NEW c \in Conns, ReadFails(c) PROVE AnswerInv'
  BY <1>24 DEF ReadFails, AnswerInv, HeldIsFree, Attempt
<1>25. ASSUME NEW c \in Conns, TakeWaiting(c) PROVE AnswerInv'
  BY <1>25 DEF TakeWaiting, AnswerInv, HeldIsFree, Attempt
<1>26. ASSUME NEW c \in Conns, LoopSetIdle(c) PROVE AnswerInv'
  BY <1>26 DEF LoopSetIdle, SetIdle, AnswerInv, HeldIsFree, Attempt
<1>27. ASSUME NEW c \in Conns, Deliver(c) PROVE AnswerInv'
  BY <1>27 DEF Deliver, AnswerInv, HeldIsFree, Attempt
<1>28. ASSUME NEW c \in Conns, LoopEntersOnce(c) PROVE AnswerInv'
  BY <1>28 DEF LoopEntersOnce, AnswerInv, HeldIsFree, Attempt
<1>28a. ASSUME NEW c \in Conns, LoopForgets(c) PROVE AnswerInv'
  BY <1>28a DEF LoopForgets, Forget, AnswerInv, HeldIsFree, Attempt
<1>29. ASSUME NEW c \in Conns, LoopCloses(c) PROVE AnswerInv'
  BY <1>29 DEF LoopCloses, AnswerInv, HeldIsFree, Attempt
<1>30. ASSUME NEW c \in Conns, LoopFindsClosed(c) PROVE AnswerInv'
  BY <1>30 DEF LoopFindsClosed, AnswerInv, HeldIsFree, Attempt
<1>31. ASSUME NEW c \in Conns, CloseTakes(c) PROVE AnswerInv'
  BY <1>31 DEF CloseTakes, AnswerInv, HeldIsFree, Attempt
<1>32. ASSUME CloseStarts PROVE AnswerInv'
  BY <1>32 DEF CloseStarts, AnswerInv, HeldIsFree, Attempt
<1>33. ASSUME CloseConn PROVE AnswerInv'
  BY <1>33 DEF CloseConn, AnswerInv, HeldIsFree, Attempt
<1>34. ASSUME CloseReturns PROVE AnswerInv'
  BY <1>34 DEF CloseReturns, AnswerInv, HeldIsFree, Attempt
<1>35. CASE UNCHANGED vars
  BY <1>35 DEF vars, AnswerInv, Attempt
<1>36. QED
  BY <1>1, <1>2, <1>3, <1>4, <1>5, <1>6, <1>7, <1>8, <1>9, <1>10, <1>10a, <1>11, <1>12,
     <1>13, <1>14, <1>15, <1>16, <1>17, <1>18, <1>19, <1>20, <1>21, <1>22, <1>23, <1>24,
     <1>25, <1>26, <1>27, <1>28, <1>28a, <1>29, <1>30, <1>31, <1>32, <1>33, <1>34, <1>35
  DEF Next, CallerStep, DialStep, ReadMsg, LoopStep, CloseStep

(* Every step keeps CallInv. *)
LEMMA CallStep ==
  ASSUME TypeOK, CallInv, [Next]_vars PROVE CallInv'
<1> USE DistinctAssumption DEF TypeOK, CallType, DialType, CallInv,
      poolVars, closeVars, callVars, dialVars, loopVars, serverVars
<1>1. ASSUME NEW q \in Queries, GetClosed(q) PROVE CallInv'
  BY <1>1 DEF GetClosed, Return
<1>2. ASSUME NEW q \in Queries, NEW c \in Conns, GetIdle(q, c) PROVE CallInv'
  BY <1>2 DEF GetIdle, TakeIdle
<1>3. ASSUME NEW q \in Queries, StartDial(q) PROVE CallInv'
  BY <1>3 DEF StartDial
<1>4. ASSUME NEW q \in Queries, LeaveDial(q) PROVE CallInv'
  BY <1>4 DEF LeaveDial, Return
<1>5. ASSUME NEW q \in Queries, Register(q) PROVE CallInv'
  BY <1>5 DEF Register
<1>6. ASSUME NEW q \in Queries, WriteOk(q) PROVE CallInv'
  BY <1>6 DEF WriteOk
<1>7. ASSUME NEW q \in Queries, WriteFails(q) PROVE CallInv'
  BY <1>7 DEF WriteFails
<1>8. ASSUME NEW q \in Queries, ReceiveResp(q) PROVE CallInv'
  BY <1>8 DEF ReceiveResp, Return
<1>9. ASSUME NEW q \in Queries, ReceiveFails(q) PROVE CallInv'
  <2>1. CASE MayRetry(q) BY <1>9, <2>1 DEF ReceiveFails, RetryOrFail, MayRetry
  <2>2. CASE ~MayRetry(q) BY <1>9, <2>2 DEF ReceiveFails, RetryOrFail, Return
  <2>3. QED BY <2>1, <2>2
<1>10. ASSUME NEW q \in Queries, CallerEntersOnce(q) PROVE CallInv'
  BY <1>10 DEF CallerEntersOnce
<1>10a. ASSUME NEW q \in Queries, CallerForgets(q) PROVE CallInv'
  BY <1>10a DEF CallerForgets, Forget
<1>11. ASSUME NEW q \in Queries, CallerCloses(q) PROVE CallInv'
  <2>1. CASE MayRetry(q) BY <1>11, <2>1 DEF CallerCloses, RetryOrFail, MayRetry
  <2>2. CASE ~MayRetry(q) BY <1>11, <2>2 DEF CallerCloses, RetryOrFail, Return
  <2>3. QED BY <2>1, <2>2
<1>12. ASSUME NEW q \in Queries, CallerFindsClosed(q) PROVE CallInv'
  <2>1. CASE MayRetry(q) BY <1>12, <2>1 DEF CallerFindsClosed, RetryOrFail, MayRetry
  <2>2. CASE ~MayRetry(q) BY <1>12, <2>2 DEF CallerFindsClosed, RetryOrFail, Return
  <2>3. QED BY <2>1, <2>2
<1>13. ASSUME NEW q \in Queries, NEW c \in Conns, DialOk(q, c) PROVE CallInv'
  BY <1>13 DEF DialOk
<1>14. ASSUME NEW q \in Queries, DialFails(q) PROVE CallInv'
  BY <1>14 DEF DialFails
<1>15. ASSUME NEW q \in Queries, NewReusableConn(q) PROVE CallInv'
  BY <1>15 DEF NewReusableConn
<1>16. ASSUME NEW q \in Queries, RefuseConn(q) PROVE CallInv'
  BY <1>16 DEF RefuseConn
<1>17. ASSUME NEW q \in Queries, HandOverConn(q) PROVE CallInv'
  BY <1>17 DEF HandOverConn
<1>18. ASSUME NEW q \in Queries, HandOverErr(q) PROVE CallInv'
  BY <1>18 DEF HandOverErr, Return
<1>19. ASSUME NEW q \in Queries, PoolConn(q) PROVE CallInv'
  BY <1>19 DEF PoolConn, SetIdle
<1>20. ASSUME NEW q \in Queries, DropErr(q) PROVE CallInv'
  BY <1>20 DEF DropErr
<1>21. ASSUME NEW q \in Queries, Cancel(q) PROVE CallInv'
  BY <1>21 DEF Cancel
<1>22. ASSUME NEW c \in Conns, NEW a \in Attempts, ReadAnswer(c, a) PROVE CallInv'
  BY <1>22 DEF ReadAnswer
<1>23. ASSUME NEW c \in Conns, ReadJunk(c) PROVE CallInv'
  BY <1>23 DEF ReadJunk
<1>24. ASSUME NEW c \in Conns, ReadFails(c) PROVE CallInv'
  BY <1>24 DEF ReadFails
<1>25. ASSUME NEW c \in Conns, TakeWaiting(c) PROVE CallInv'
  BY <1>25 DEF TakeWaiting
<1>26. ASSUME NEW c \in Conns, LoopSetIdle(c) PROVE CallInv'
  BY <1>26 DEF LoopSetIdle, SetIdle
<1>27. ASSUME NEW c \in Conns, Deliver(c) PROVE CallInv'
  BY <1>27 DEF Deliver
<1>28. ASSUME NEW c \in Conns, LoopEntersOnce(c) PROVE CallInv'
  BY <1>28 DEF LoopEntersOnce
<1>28a. ASSUME NEW c \in Conns, LoopForgets(c) PROVE CallInv'
  BY <1>28a DEF LoopForgets, Forget
<1>29. ASSUME NEW c \in Conns, LoopCloses(c) PROVE CallInv'
  BY <1>29 DEF LoopCloses
<1>30. ASSUME NEW c \in Conns, LoopFindsClosed(c) PROVE CallInv'
  BY <1>30 DEF LoopFindsClosed
<1>31. ASSUME NEW c \in Conns, CloseTakes(c) PROVE CallInv'
  BY <1>31 DEF CloseTakes
<1>32. ASSUME CloseStarts PROVE CallInv'
  BY <1>32 DEF CloseStarts
<1>33. ASSUME CloseConn PROVE CallInv'
  BY <1>33 DEF CloseConn
<1>34. ASSUME CloseReturns PROVE CallInv'
  BY <1>34 DEF CloseReturns
<1>35. CASE UNCHANGED vars
  BY <1>35 DEF vars
<1>36. QED
  BY <1>1, <1>2, <1>3, <1>4, <1>5, <1>6, <1>7, <1>8, <1>9, <1>10, <1>10a, <1>11, <1>12,
     <1>13, <1>14, <1>15, <1>16, <1>17, <1>18, <1>19, <1>20, <1>21, <1>22, <1>23, <1>24,
     <1>25, <1>26, <1>27, <1>28, <1>28a, <1>29, <1>30, <1>31, <1>32, <1>33, <1>34, <1>35
  DEF Next, CallerStep, DialStep, ReadMsg, LoopStep, CloseStep

(* IInv is an inductive invariant. *)
THEOREM Invariance == Spec => []IInv
<1>1. Init => IInv
  <2> SUFFICES ASSUME Init PROVE IInv
    OBVIOUS
  <2>1. ExchangeInv
    BY DistinctAssumption
       DEF Init, ExchangeInv, OneHolder, HeldIsFree, OneUse, Holds, HoldsDialed, FreeConn
  <2>2. PoolInv BY DEF Init, PoolInv
  <2>3. AnswerInv BY DEF Init, AnswerInv
  <2>4. CallInv BY DEF Init, CallInv
  <2>5. QED BY <2>1, <2>2, <2>3, <2>4 DEF IInv
<1>2. TypeOK /\ IInv /\ [Next]_vars => IInv'
  BY HolderStep, HeldStep, UseStep, PoolStep, AnswerStep, CallStep DEF IInv, ExchangeInv
<1>3. QED BY <1>1, <1>2, Typing, PTL DEF Spec

(* The code's two panics are unreachable. *)
THEOREM NeverPanics == Spec => []NoPanic
<1>1. IInv /\ TypeOK => NoPanic
  BY DEF IInv, ExchangeInv, HeldIsFree, OneUse, NoPanic, Holds, FreeConn
<1>2. QED BY <1>1, Invariance, Typing, PTL

(* What the idle pool offers is registered, open and in nobody's hands. *)
THEOREM IdlePoolIsFree == Spec => []IdleIsFree
<1>1. IInv /\ TypeOK => IdleIsFree
  BY DEF IInv, ExchangeInv, OneHolder, HeldIsFree, PoolInv, IdleIsFree, Holds, FreeConn,
     TypeOK, PoolType
<1>2. QED BY <1>1, Invariance, Typing, PTL

(* No connection drops out of the pool. *)
THEOREM PoolLosesNothing == Spec => []NoConnLost
<1>1. IInv /\ TypeOK => NoConnLost
  BY DEF IInv, PoolInv, KeptFor, NoConnLost, Holds, HoldsDialed, TypeOK, PoolType
<1>2. QED BY <1>1, Invariance, Typing, PTL

(* Without message ids, a caller still gets the answer to its own query. *)
THEOREM AnswersAreOwn == Spec => []OwnAnswer
<1>1. IInv => OwnAnswer
  BY DEF IInv, AnswerInv, OwnAnswer
<1>2. QED BY <1>1, Invariance, PTL

(* Once Close has returned no registered connection is open. *)
THEOREM CloseIsComplete == Spec => []CloseClosesAll
<1>1. IInv /\ TypeOK => CloseClosesAll
  BY DEF IInv, PoolInv, CloseClosesAll, TypeOK
<1>2. QED BY <1>1, Invariance, Typing, PTL

(* A step gives at most one result, to a call that has none. *)
LEMMA ResultStep ==
  ASSUME TypeOK, CallInv, [Next]_vars
  PROVE  \/ UNCHANGED result
         \/ \E q \in Queries : result[q] = Empty /\ \E r : result' = [result EXCEPT ![q] = r]
<1> USE DEF poolVars, closeVars, callVars, dialVars, loopVars, serverVars
<1>1. ASSUME NEW q \in Queries, CallerStep(q), pc[q] # "done"
      PROVE  UNCHANGED result \/ \E r : result' = [result EXCEPT ![q] = r]
  BY <1>1 DEF CallerStep, GetClosed, GetIdle, StartDial, LeaveDial, Register, WriteOk,
     WriteFails, ReceiveResp, ReceiveFails, CallerEntersOnce, CallerForgets, CallerCloses,
     CallerFindsClosed,
     RetryOrFail, Return
<1>2. ASSUME NEW q \in Queries, CallerStep(q) PROVE pc[q] # "done"
  BY <1>2 DEF CallerStep, GetClosed, GetIdle, StartDial, LeaveDial, Register, WriteOk,
     WriteFails, ReceiveResp, ReceiveFails, CallerEntersOnce, CallerForgets, CallerCloses,
     CallerFindsClosed
<1>3. ASSUME NEW q \in Queries, HandOverErr(q)
      PROVE  pc[q] # "done" /\ \E r : result' = [result EXCEPT ![q] = r]
  BY <1>3 DEF HandOverErr, Return
<1>4. ASSUME NEW q \in Queries, DialStep(q)
      PROVE  UNCHANGED result \/ HandOverErr(q)
  BY <1>4 DEF DialStep, DialOk, DialFails, NewReusableConn, RefuseConn, HandOverConn,
     PoolConn, DropErr
<1>5. ASSUME NEW c \in Conns, LoopStep(c) \/ ReadMsg(c) \/ ReadFails(c) PROVE UNCHANGED result
  BY <1>5 DEF LoopStep, ReadMsg, ReadAnswer, ReadJunk, ReadFails, TakeWaiting, LoopSetIdle,
     Deliver, LoopEntersOnce, LoopForgets, LoopCloses, LoopFindsClosed
<1>6. ASSUME CloseStarts \/ CloseStep \/ UNCHANGED vars \/ \E q \in Queries : Cancel(q)
      PROVE  UNCHANGED result
  BY <1>6 DEF CloseStarts, CloseStep, CloseTakes, CloseConn, CloseReturns, Cancel, vars
<1>7. \A q \in Queries : pc[q] # "done" => result[q] = Empty
  BY DEF CallInv
<1>8. QED BY <1>1, <1>2, <1>3, <1>4, <1>5, <1>6, <1>7 DEF Next

(* With a server that never sends an unsolicited message, the transport is  *)
(* an Exchanger: every call returns at most once, an error or its answer.   *)
THEOREM KeepsPromise ==
  ASSUME MaxJunk = 0
  PROVE  Spec => PromiseKept
<1>1. Init => Promise!Init
  BY DEF Init, Promise!Init, outcome
<1>2. ASSUME TypeOK, IInv, [Next]_vars, TypeOK', IInv'
      PROVE  [Promise!Next]_outcome
  <2>1. OwnAnswer' BY <1>2, MaxJunk = 0 DEF IInv, AnswerInv, OwnAnswer
  <2>2. junk' = 0 BY <1>2 DEF TypeOK, ConnType
  <2>3. CASE UNCHANGED result
    BY <2>3 DEF outcome
  <2>4. ASSUME NEW q \in Queries, NEW r, result[q] = Empty, result' = [result EXCEPT ![q] = r]
        PROVE  [Promise!Next]_outcome
    <3>1. CASE r = Empty
      <4>1. UNCHANGED result BY <2>4, <3>1, <1>2 DEF TypeOK, CallType
      <4>2. QED BY <4>1, <2>3
    <3>2. CASE r # Empty
      <4>1. result'[q] = r BY <2>4, <1>2 DEF TypeOK, CallType
      <4>2. r = Failed \/ (r \in Attempts /\ r[1] = q)
        BY <4>1, <3>2, <2>1, <2>2, <1>2 DEF OwnAnswer
      <4>3. outcome[q] = "pending" /\ outcome'[q] \in {"answered", "failed"}
        BY <4>1, <4>2, <2>4, <3>2 DEF outcome
      <4>4. outcome' = [outcome EXCEPT ![q] = outcome'[q]]
        BY <2>4, <1>2 DEF outcome, TypeOK, CallType
      <4>5. QED BY <4>3, <4>4 DEF Promise!Next, Promise!Return
    <3>3. QED BY <3>1, <3>2
  <2>5. QED BY <1>2, <2>3, <2>4, ResultStep DEF IInv
<1>3. QED BY <1>1, <1>2, Typing, Invariance, PTL DEF Spec, PromiseKept, Promise!Spec
=============================================================================
